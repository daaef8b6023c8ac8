--------------------------- MODULE JSONFileStorage ----------------------------
(***************************************************************************)
(* The JSON Lines event store (internal/adapters/storage/                  *)
(* json_file_storage.go): Store appends one line to a file of the current  *)
(* week, Rotate removes files that were not written to for the retention   *)
(* time, and a restart reads all the files again.                          *)
(*                                                                         *)
(* Store, Rotate and Close hold the write lock, Get and Query the read     *)
(* lock, so that at most one Store is between two of its steps and the     *)
(* others happen between Stores.  What can come in between is the clock    *)
(* and a crash of the machine, and every call of the file system can fail. *)
(*                                                                         *)
(* A record is its event and the number of units of it that are in the     *)
(* file.  The last unit is the newline: a record that lacks only that one  *)
(* still parses while nothing follows it, and one that lacks more never    *)
(* does.  The record appended after either is on the same line.            *)
(***************************************************************************)
EXTENDS Naturals, Sequences, FiniteSets

CONSTANTS
    Events,       \* the event IDs
    SizeOf,       \* the units of each event's encoded line, the newline included
    MaxFileSize,  \* maxFileSize
    LineLimit,    \* the longest line the scanner of readEvents takes
    WeekLength,   \* the ticks of a storage week
    Retention,    \* retentionDays, in ticks
    MaxTime,      \* bound: the last tick
    MaxFaults,    \* bound: failed file operations and crashes
    MaxRestarts   \* bound: starts after the first

\* NewJSONFileStorage replaces sizes and retentions that are not positive.
ASSUME StorageAssumption ==
    /\ SizeOf \in [Events -> Nat \ {0, 1}]
    /\ MaxFileSize \in Nat \ {0}
    /\ LineLimit \in Nat /\ WeekLength \in Nat \ {0} /\ Retention \in Nat \ {0}
    /\ MaxTime \in Nat /\ MaxFaults \in Nat /\ MaxRestarts \in Nat

VARIABLES
    disk,      \* the files: name -> records, size and time of the last write
    process,   \* "up", "down", or "fatal" after a start that failed
    closed,    \* store.closed
    known,     \* store.knownIDs
    writer,    \* the Store that holds the lock
    now,       \* the clock
    promised,  \* events for which Store returned nil, until they expire
    expired,   \* events whose last record Rotate removed since the last start
    writtenAt, \* when each event was last written
    faults, restarts

processVars == <<process, closed, known, expired>>
historyVars == <<promised, writtenAt>>
boundVars == <<faults, restarts>>
vars == <<disk, processVars, writer, now, historyVars, boundVars>>

Idle == [phase |-> "idle"]
Free == process = "up" /\ writer = Idle

Init ==
    /\ disk = <<>>
    /\ process = "up" /\ closed = FALSE /\ known = {} /\ expired = {}
    /\ writer = Idle
    /\ now = 0
    /\ promised = {} /\ writtenAt = [e \in Events |-> 0]
    /\ faults = 0 /\ restarts = 0

\* A file operation returns an error, or the machine stops.
Fault == faults < MaxFaults /\ faults' = faults + 1
-------------------------------------------------------------------------------
(***************************************************************************)
(* Reading.                                                                *)
(***************************************************************************)
Whole(r) == r.size = SizeOf[r.event]
Unterminated(r) == r.size = SizeOf[r.event] - 1

\* readEvents fails on a line that is no single JSON document, and on one
\* longer than the scanner's buffer.
Parses(name) ==
    LET records == disk[name].records IN
    \A i \in DOMAIN records :
       /\ Whole(records[i]) \/ (Unterminated(records[i]) /\ i = Len(records))
       /\ records[i].size <= LineLimit

RecordsOf(name, e) ==
    {i \in DOMAIN disk[name].records :
        /\ disk[name].records[i].event = e
        /\ Whole(disk[name].records[i]) \/ Unterminated(disk[name].records[i])}

OnDisk(e) == \E name \in DOMAIN disk : RecordsOf(name, e) # {}

\* eventFiles sorts the names, a week and a two-digit number.
NotAfter(m, n) == m[1] < n[1] \/ (m[1] = n[1] /\ m[2] <= n[2])

\* Get reads the files in order up to the first that holds the event.
GetFinds(e) ==
    /\ e \in known
    /\ \E name \in DOMAIN disk :
          /\ RecordsOf(name, e) # {}
          /\ \A m \in DOMAIN disk : NotAfter(m, name) => Parses(m)

\* loadEventIDs and Query read all the files.
AllParse == \A name \in DOMAIN disk : Parses(name)
-------------------------------------------------------------------------------
(***************************************************************************)
(* Store.                                                                  *)
(***************************************************************************)
Week == now \div WeekLength

Fits(name, size) ==
    name \notin DOMAIN disk \/ disk[name].size + size <= MaxFileSize

\* Faulty variant: the size of the record is left out of the comparison.
FileForWriteBySize(size) ==
    LET fits(i) == \/ <<Week, i>> \notin DOMAIN disk
                   \/ disk[<<Week, i>>].size <= MaxFileSize
    IN  <<Week, CHOOSE i \in 0..Cardinality(DOMAIN disk) :
                   fits(i) /\ \A k \in 0..(i - 1) : ~fits(k)>>

\* fileForWrite: the first file of this week that is new or has room.
FileForWrite(size) ==
    <<Week, CHOOSE i \in 0..Cardinality(DOMAIN disk) :
               /\ Fits(<<Week, i>>, size)
               /\ \A k \in 0..(i - 1) : ~Fits(<<Week, k>>, size)>>

\* Faulty variant: IDs that are known are not looked up.
BeginWithoutLookup(e) ==
    /\ Free /\ ~closed
    /\ writer' = [phase |-> "open", event |-> e, name |-> FileForWrite(SizeOf[e])]
    /\ UNCHANGED <<disk, processVars, now, historyVars, boundVars>>

\* Faulty variant: the ID is reserved before the record is written.
BeginMarksKnown(e) ==
    /\ Free /\ ~closed
    /\ e \notin known
    /\ known' = known \union {e}
    /\ writer' = [phase |-> "open", event |-> e, name |-> FileForWrite(SizeOf[e])]
    /\ UNCHANGED <<disk, process, closed, expired, now, historyVars, boundVars>>

\* A closed store and a known ID are refused; the others choose their file.
BeginStore(e) ==
    /\ Free /\ ~closed
    /\ e \notin known
    /\ writer' = [phase |-> "open", event |-> e, name |-> FileForWrite(SizeOf[e])]
    /\ UNCHANGED <<disk, processVars, now, historyVars, boundVars>>

\* os.Stat fails in fileForWrite: the event is refused, and nothing has changed.
StatFails(e) ==
    /\ Free /\ ~closed
    /\ e \notin known
    /\ Fault
    /\ UNCHANGED <<disk, processVars, writer, now, historyVars, restarts>>

\* O_CREATE and O_APPEND: a new file is empty, and there from now on.
OpenFile ==
    /\ process = "up" /\ writer.phase = "open"
    /\ \/ /\ writer' = [writer EXCEPT !.phase = "write"]
          /\ disk' = [n \in DOMAIN disk \union {writer.name} |->
                        IF n \in DOMAIN disk THEN disk[n]
                        ELSE [records |-> <<>>, size |-> 0, time |-> now]]
          /\ UNCHANGED faults
       \/ Fault /\ writer' = Idle /\ UNCHANGED disk
    /\ UNCHANGED <<processVars, now, historyVars, restarts>>

\* The file after size units of event e are appended to it.
Appended(file, e, size) ==
    IF size = 0 THEN file
    ELSE [records |-> Append(file.records, [event |-> e, size |-> size]),
          size |-> file.size + size, time |-> now]

\* A short write leaves a part of the record and skips Sync.
WriteRecord ==
    /\ process = "up" /\ writer.phase = "write"
    /\ \E size \in 0..SizeOf[writer.event] :
          /\ disk' = [disk EXCEPT ![writer.name] =
                         Appended(@, writer.event, size)]
          /\ IF size = SizeOf[writer.event]
               THEN /\ writer' = [writer EXCEPT !.phase = "sync"]
                    /\ UNCHANGED faults
               ELSE Fault /\ writer' = Idle
    /\ writtenAt' = [writtenAt EXCEPT ![writer.event] = now]
    /\ UNCHANGED <<processVars, now, promised, restarts>>

\* Faulty variant: Sync is not called, the data may still be in memory.
AckBeforeSync ==
    /\ process = "up" /\ writer.phase = "sync"
    /\ known' = known \union {writer.event}
    /\ promised' = promised \union {writer.event}
    /\ writer' \in {writer, Idle}
    /\ UNCHANGED <<disk, process, closed, expired, now, writtenAt, boundVars>>

\* Sync and Close: only when both succeed is the ID known and nil returned.
SyncAndClose ==
    /\ process = "up" /\ writer.phase = "sync"
    /\ writer' = Idle
    /\ \/ /\ known' = known \union {writer.event}
          /\ promised' = promised \union {writer.event}
          /\ UNCHANGED faults
       \/ Fault /\ UNCHANGED <<known, promised>>
    /\ UNCHANGED <<disk, process, closed, expired, now, writtenAt, restarts>>
-------------------------------------------------------------------------------
(***************************************************************************)
(* Rotate, Close, and the life of the process.                             *)
(***************************************************************************)
\* Faulty variant: the age of a file is that of its week, not of its content.
OldByWeek == {n \in DOMAIN disk : n[1] * WeekLength + Retention < now}

\* The files whose modification time is before the cutoff.
Old == {n \in DOMAIN disk : disk[n].time + Retention < now}

\* Faulty variant: the write lock is not taken.
RotateUnlocked ==
    /\ process = "up" /\ ~closed
    /\ Old # {}
    /\ disk' = [n \in DOMAIN disk \ Old |-> disk[n]]
    /\ UNCHANGED <<processVars, writer, now, historyVars, boundVars>>

\* The files are removed in the order of their names; an error of Stat or
\* Remove ends the loop early.  knownIDs is left as it is.
Rotate ==
    /\ Free /\ ~closed
    /\ Old # {}
    /\ \E gone \in SUBSET Old :
          /\ \A n \in gone : \A m \in Old : NotAfter(m, n) => m \in gone
          /\ IF gone = Old THEN UNCHANGED faults ELSE Fault
          /\ disk' = [n \in DOMAIN disk \ gone |-> disk[n]]
          /\ LET removed == {e \in Events : OnDisk(e) /\ ~OnDisk(e)'}
             IN  /\ expired' = expired \union removed
                 /\ promised' = promised \ removed
    /\ UNCHANGED <<process, closed, known, writer, now, writtenAt, restarts>>

Close ==
    /\ Free /\ ~closed
    /\ closed' = TRUE
    /\ UNCHANGED <<disk, process, known, expired, writer, now, historyVars,
                   boundVars>>

\* main closes the store before it returns.
Exit ==
    /\ Free /\ closed
    /\ process' = "down"
    /\ UNCHANGED <<disk, closed, known, expired, writer, now, historyVars,
                   boundVars>>

\* What a crash leaves of a record that was not synced yet: any part of it.
Torn(file, size) ==
    LET n == Len(file.records)
        last == file.records[n]
    IN  IF size = last.size THEN file
        ELSE [records |-> IF size = 0 THEN SubSeq(file.records, 1, n - 1)
                          ELSE [file.records EXCEPT ![n].size = size],
              size |-> file.size - last.size + size, time |-> file.time]

Crash ==
    /\ process = "up"
    /\ Fault
    /\ process' = "down"
    /\ writer' = Idle
    /\ IF writer.phase = "sync"
         THEN \E size \in 0..SizeOf[writer.event] :
                 disk' = [disk EXCEPT ![writer.name] = Torn(@, size)]
         ELSE UNCHANGED disk
    /\ UNCHANGED <<closed, known, expired, now, historyVars, restarts>>

\* Faulty variant: the IDs of the files are not loaded.
StartWithoutLoading ==
    /\ process = "down"
    /\ restarts < MaxRestarts /\ restarts' = restarts + 1
    /\ process' = IF AllParse THEN "up" ELSE "fatal"
    /\ closed' = FALSE
    /\ known' = {} /\ expired' = {}
    /\ UNCHANGED <<disk, writer, now, historyVars, faults>>

\* NewJSONFileStorage: main gives up when a file does not parse.
Start ==
    /\ process = "down"
    /\ restarts < MaxRestarts /\ restarts' = restarts + 1
    /\ process' = IF AllParse THEN "up" ELSE "fatal"
    /\ closed' = FALSE
    /\ known' = {e \in Events : OnDisk(e)}
    /\ expired' = {}
    /\ UNCHANGED <<disk, writer, now, historyVars, faults>>

Tick ==
    /\ now < MaxTime
    /\ now' = now + 1
    /\ UNCHANGED <<disk, processVars, writer, historyVars, boundVars>>

Next ==
    \/ \E e \in Events : BeginStore(e) \/ StatFails(e)
    \/ OpenFile \/ WriteRecord \/ SyncAndClose
    \/ Rotate \/ Close \/ Exit \/ Crash \/ Start \/ Tick

Spec == Init /\ [][Next]_vars
-------------------------------------------------------------------------------
(***************************************************************************)
(* Properties.                                                             *)
(***************************************************************************)
Record == [event : Events, size : Nat]

\* Every variable has its type, and the file that Store has open is there.
TypeOK ==
    /\ \A n \in DOMAIN disk :
          /\ n \in Nat \X Nat
          /\ disk[n].records \in Seq(Record)
          /\ disk[n].size \in Nat /\ disk[n].time \in 0..now
    /\ process \in {"up", "down", "fatal"} /\ closed \in BOOLEAN
    /\ known \subseteq Events /\ expired \subseteq Events
    /\ writer = Idle \/ writer \in [phase : {"open", "write", "sync"},
                                    event : Events, name : Nat \X Nat]
    /\ writer # Idle /\ writer.phase # "open" => writer.name \in DOMAIN disk
    /\ now \in 0..MaxTime
    /\ promised \subseteq Events /\ writtenAt \in [Events -> 0..now]
    /\ faults \in 0..MaxFaults /\ restarts \in 0..MaxRestarts

\* Every event for which Store returned nil, and which Rotate has not removed,
\* is found by Get whenever the store is open, after any restart
\* (json_file_storage_test.go:46).
PromisedReadable ==
    Free /\ ~closed => \A e \in promised : GetFinds(e)

\* While no operation of the file system has failed and the machine has not
\* stopped in the middle of one, that holds, and every start succeeds: Get
\* reads all the files before the event's, a start reads every file, and
\* neither may trip over what an earlier run, or a Rotate, has left there.
ReadableUnlessFaulty == faults = 0 => PromisedReadable /\ process # "fatal"

\* A file exceeds the configured size only when its one record does
\* (json_file_storage.go:34, 320).
FileSizeBounded ==
    \A n \in DOMAIN disk :
       Len(disk[n].records) > 1 => disk[n].size <= MaxFileSize

\* "eventId supports idempotency. Providers should treat repeated writes of
\* the same ID as the same event" (developer/BLUEPRINT.md section 9): while
\* nothing has failed, an event that is sent again after a restart or in
\* another week is on disk once.
OnceUnlessFaulty ==
    faults = 0 =>
       \A e \in Events : \A m, n \in DOMAIN disk :
          \A i \in RecordsOf(m, e), k \in RecordsOf(n, e) : m = n /\ i = k

\* A duplicate is refused only for an ID that is on disk or was removed by
\* Rotate since the process started: an event whose Store failed can be sent
\* again.
KnownOnDiskOrExpired ==
    Free => \A e \in known : OnDisk(e) \/ e \in expired

\* A record of every event for which Store returned nil stays on disk,
\* whatever fails around it, until Rotate has removed the last one.
PromisedBytesKept == \A e \in promised : OnDisk(e)

\* Rotate removes no event that was written within the retention time.
NoEarlyRemoval ==
    [][\A e \in Events :
          e \in promised \ promised' => writtenAt[e] + Retention < now]_vars
===============================================================================
