----------------------------- MODULE StorageProofs ------------------------------
(***************************************************************************)
(* What the JSON file storage keeps through all faults and restarts, for   *)
(* any events, sizes and times: files keep their size, neither             *)
(* acknowledged events nor refused IDs are without their record, and       *)
(* Rotate removes nothing too early.                                       *)
(*                                                                         *)
(* StorageInv adds to them what Store knows of the file it has open: the   *)
(* event it writes is unknown, so that what a crash leaves of its record   *)
(* takes nothing from an acknowledged event; the record fits or is alone;  *)
(* and until Sync it is the last one of its file.                          *)
(***************************************************************************)
EXTENDS JSONFileStorage, FiniteSetTheorems, TLAPS

\* A file that one more record of the size will not make too large.
RoomIn(file, size) == file.records = <<>> \/ file.size + size <= MaxFileSize

\* The file ends with the record of the event that Store is writing.
EndsWith(file, e) ==
    /\ file.records # <<>>
    /\ file.records[Len(file.records)] = [event |-> e, size |-> SizeOf[e]]
    /\ SizeOf[e] <= file.size

WriterInv ==
    /\ writer = Idle \/ writer \in [phase : {"open", "write", "sync"},
                                    event : Events, name : Nat \X Nat]
    /\ writer # Idle =>
          /\ process = "up" /\ writer.event \notin known
          /\ writer.phase = "open" => Fits(writer.name, SizeOf[writer.event])
          /\ writer.phase # "open" => writer.name \in DOMAIN disk
          /\ writer.phase = "write" => RoomIn(disk[writer.name], SizeOf[writer.event])
          /\ writer.phase = "sync" => EndsWith(disk[writer.name], writer.event)

FileOK(file, t) ==
    /\ file.records \in Seq(Record)
    /\ file.size \in Nat /\ file.time \in 0..t
    /\ Len(file.records) > 1 => file.size <= MaxFileSize

DiskInv ==
    /\ IsFiniteSet(DOMAIN disk)
    /\ \A n \in DOMAIN disk : n \in Nat \X Nat /\ FileOK(disk[n], now)

SimpleTypes ==
    /\ process \in {"up", "down", "fatal"} /\ closed \in BOOLEAN
    /\ known \subseteq Events /\ expired \subseteq Events
    /\ now \in 0..MaxTime
    /\ promised \subseteq Events /\ writtenAt \in [Events -> 0..now]
    /\ faults \in 0..MaxFaults /\ restarts \in 0..MaxRestarts

KnownInv ==
    /\ \A e \in promised : OnDisk(e)
    /\ process = "up" =>
          /\ promised \subseteq known
          /\ \A e \in known : OnDisk(e) \/ e \in expired

StorageInv == SimpleTypes /\ DiskInv /\ WriterInv /\ KnownInv
-------------------------------------------------------------------------------
(***************************************************************************)
(* Records.                                                                *)
(***************************************************************************)
HasRecord(file, e) ==
    \E i \in DOMAIN file.records :
       /\ file.records[i].event = e
       /\ Whole(file.records[i]) \/ Unterminated(file.records[i])

\* An event is on disk when a file has a record of it.
LEMMA OnDiskByFile ==
    ASSUME NEW e
    PROVE  OnDisk(e) <=> \E n \in DOMAIN disk : HasRecord(disk[n], e)
  BY DEF OnDisk, RecordsOf, HasRecord

\* What appending to a file keeps and adds.
LEMMA AppendedFile ==
    ASSUME NEW file, FileOK(file, now), NEW e \in Events, NEW size \in 0..SizeOf[e],
           RoomIn(file, SizeOf[e]), now \in Nat
    PROVE  /\ FileOK(Appended(file, e, size), now)
           /\ \A f : HasRecord(file, f) => HasRecord(Appended(file, e, size), f)
           /\ size = SizeOf[e] => EndsWith(Appended(file, e, size), e)
<1>1. SizeOf[e] \in Nat \ {0, 1}
  BY StorageAssumption
<1>2. CASE size = 0
  BY <1>1, <1>2 DEF Appended
<1>3. CASE size # 0
  <2> DEFINE r == [event |-> e, size |-> size]
             q == file.records
             new == Appended(file, e, size)
  <2>1. r \in Record /\ q \in Seq(Record) /\ size \in Nat /\ file.size \in Nat
    BY <1>1 DEF Record, FileOK
  <2>2. /\ new.records = Append(q, r)
        /\ new.size = file.size + size
        /\ new.time = now
    BY <1>3 DEF Appended
  <2>3. /\ Append(q, r) \in Seq(Record)
        /\ Len(Append(q, r)) = Len(q) + 1 /\ Len(q) \in Nat
        /\ \A i \in 1..Len(q) : Append(q, r)[i] = q[i]
        /\ Append(q, r)[Len(q) + 1] = r
        /\ DOMAIN q = 1..Len(q) /\ DOMAIN Append(q, r) = 1..(Len(q) + 1)
    BY <2>1
  <2>4. FileOK(new, now)
    <3>1. now \in 0..now
      OBVIOUS
    <3>2. ASSUME Len(new.records) > 1  PROVE new.size <= MaxFileSize
      <4>1. q # <<>>
        BY <2>1, <2>2, <2>3, <3>2
      <4>2. file.size + SizeOf[e] <= MaxFileSize
        BY <4>1 DEF RoomIn
      <4> QED
        BY <4>2, <1>1, <2>1, <2>2, StorageAssumption
    <3> QED
      BY <2>1, <2>2, <2>3, <3>1, <3>2 DEF FileOK
  <2>5. ASSUME NEW f, HasRecord(file, f)  PROVE HasRecord(new, f)
    <3>1. PICK i \in 1..Len(q) : /\ q[i].event = f
                                 /\ Whole(q[i]) \/ Unterminated(q[i])
      BY <2>3, <2>5 DEF HasRecord
    <3>2. i \in DOMAIN new.records /\ new.records[i] = q[i]
      BY <2>2, <2>3
    <3> QED
      BY <3>1, <3>2 DEF HasRecord
  <2>6. size = SizeOf[e] => EndsWith(new, e)
    <3>1. Append(q, r) # <<>> /\ Append(q, r)[Len(Append(q, r))] = r
      BY <2>1, <2>3
    <3>2. SizeOf[e] <= file.size + SizeOf[e]
      BY <1>1, <2>1
    <3> QED
      BY <2>2, <3>1, <3>2 DEF EndsWith
  <2> QED
    BY <2>4, <2>5, <2>6
<1> QED
  BY <1>2, <1>3

\* A file whose last record is torn keeps the records of all other events.
LEMMA TornFile ==
    ASSUME NEW file, FileOK(file, now), NEW e \in Events, EndsWith(file, e),
           NEW size \in 0..SizeOf[e], now \in Nat
    PROVE  /\ FileOK(Torn(file, size), now)
           /\ \A f : f # e /\ HasRecord(file, f) => HasRecord(Torn(file, size), f)
<1> DEFINE q == file.records
           n == Len(q)
           new == Torn(file, size)
<1>1. /\ SizeOf[e] \in Nat \ {0, 1} /\ size \in Nat /\ size <= SizeOf[e]
      /\ q \in Seq(Record) /\ file.size \in Nat /\ SizeOf[e] <= file.size
      /\ n \in Nat \ {0} /\ DOMAIN q = 1..n
      /\ q[n] = [event |-> e, size |-> SizeOf[e]]
  BY StorageAssumption DEF FileOK, EndsWith
<1>2. q[n].event = e /\ q[n].size = SizeOf[e]
  BY <1>1
<1>3. CASE size = SizeOf[e]
  BY <1>2, <1>3 DEF Torn
<1>4. CASE size # SizeOf[e] /\ size = 0
  <2>1. /\ new.records = SubSeq(q, 1, n - 1)
        /\ new.size = file.size - SizeOf[e]
        /\ new.time = file.time
    BY <1>1, <1>2, <1>4 DEF Torn
  <2>2. /\ SubSeq(q, 1, n - 1) \in Seq(Record)
        /\ Len(SubSeq(q, 1, n - 1)) = n - 1
        /\ DOMAIN SubSeq(q, 1, n - 1) = 1..(n - 1)
        /\ \A i \in 1..(n - 1) : SubSeq(q, 1, n - 1)[i] = q[i]
    BY <1>1
  <2>3. FileOK(new, now)
    BY <1>1, <2>1, <2>2, StorageAssumption DEF FileOK
  <2>4. ASSUME NEW f, f # e, HasRecord(file, f)  PROVE HasRecord(new, f)
    <3>1. PICK i \in 1..n : q[i].event = f /\ (Whole(q[i]) \/ Unterminated(q[i]))
      BY <1>1, <2>4 DEF HasRecord
    <3>2. i \in 1..(n - 1)
      BY <1>1, <1>2, <2>4, <3>1
    <3> QED
      BY <2>1, <2>2, <3>1, <3>2 DEF HasRecord
  <2> QED
    BY <2>3, <2>4
<1>5. CASE size # SizeOf[e] /\ size # 0
  <2>1. /\ new.records = [q EXCEPT ![n].size = size]
        /\ new.size = file.size - SizeOf[e] + size
        /\ new.time = file.time
    BY <1>1, <1>2, <1>5 DEF Torn
  <2>2. [q EXCEPT ![n].size = size] = [i \in 1..n |-> IF i = n THEN [q[n] EXCEPT !.size = size]
                                                     ELSE q[i]]
    BY <1>1
  <2>3. [q[n] EXCEPT !.size = size] \in Record
    BY <1>1 DEF Record
  <2>4. new.records \in Seq(Record) /\ Len(new.records) = n /\ DOMAIN new.records = 1..n
    BY <1>1, <2>1, <2>2, <2>3
  <2>5. FileOK(new, now)
    <3>1. new.size \in Nat /\ new.size <= file.size
      BY <1>1, <2>1
    <3> QED
      BY <1>1, <2>1, <2>4, <3>1, StorageAssumption DEF FileOK
  <2>6. ASSUME NEW f, f # e, HasRecord(file, f)  PROVE HasRecord(new, f)
    <3>1. PICK i \in 1..n : q[i].event = f /\ (Whole(q[i]) \/ Unterminated(q[i]))
      BY <1>1, <2>6 DEF HasRecord
    <3>2. new.records[i] = q[i]
      BY <1>2, <2>1, <2>2, <2>6, <3>1
    <3> QED
      BY <2>4, <3>1, <3>2 DEF HasRecord
  <2> QED
    BY <2>5, <2>6
<1> QED
  BY <1>3, <1>4, <1>5

\* The file that fileForWrite looks for is there: among as many numbers as there
\* are files and one more, one is not taken.  As the files that are skipped come
\* first, their number is the number of the file.
LEMMA FileForWriteFits ==
    ASSUME NEW size \in Nat, now \in Nat, IsFiniteSet(DOMAIN disk)
    PROVE  /\ FileForWrite(size) \in Nat \X Nat
           /\ Fits(FileForWrite(size), size)
<1> DEFINE N == Cardinality(DOMAIN disk)
           Skipped == {i \in 0..N : \A k \in 0..i : ~Fits(<<Week, k>>, size)}
           m == Cardinality(Skipped)
           Chosen(i) == /\ Fits(<<Week, i>>, size)
                        /\ \A k \in 0..(i - 1) : ~Fits(<<Week, k>>, size)
<1>1. N \in Nat /\ IsFiniteSet(0..N) /\ Cardinality(0..N) = N + 1
  <2>1. N \in Nat
    BY FS_CardinalityType
  <2> QED
    BY <2>1, FS_Interval
<1>2. Week \in Nat
  BY StorageAssumption DEF Week
<1>3. IsFiniteSet(Skipped) /\ m \in Nat
  <2>1. Skipped \in SUBSET (0..N)
    OBVIOUS
  <2> HIDE DEF Skipped
  <2> QED
    BY <1>1, <2>1, FS_Subset, FS_CardinalityType
<1>4. \A k \in Nat : k < m => k \in Skipped
  <2> SUFFICES ASSUME NEW k \in Nat, k < m, k \notin Skipped  PROVE FALSE
    OBVIOUS
  <2>1. Skipped \in SUBSET (0..(k - 1))
    BY <1>1
  <2>2. IsFiniteSet(0..(k - 1)) /\ Cardinality(0..(k - 1)) = k
    BY FS_Interval
  <2> HIDE DEF Skipped
  <2>3. m <= k
    BY <2>1, <2>2, FS_Subset
  <2> QED
    BY <1>3, <2>3
<1>5. m \notin Skipped
  <2> SUFFICES ASSUME m \in Skipped  PROVE FALSE
    OBVIOUS
  <2>1. 0..m \in SUBSET Skipped
    <3> HIDE DEF Skipped
    <3> QED
      BY <1>3, <1>4
  <2>2. Cardinality(0..m) = m + 1
    BY <1>3, FS_Interval
  <2> HIDE DEF Skipped
  <2>3. m + 1 <= m
    BY <1>3, <2>1, <2>2, FS_Subset
  <2> QED
    BY <1>3, <2>3
<1>6. m \in 0..N
  <2> SUFFICES ASSUME N < m  PROVE FALSE
    BY <1>1, <1>3
  <2> DEFINE name == [i \in 0..N |-> <<Week, i>>]
  <2>1. N \in Skipped
    BY <1>1, <1>4
  <2>2. name \in [0..N -> DOMAIN disk]
    BY <2>1 DEF Fits
  <2>3. PICK x, y \in 0..N : x # y /\ name[x] = name[y]
    <3> HIDE DEF name
    <3> QED
      BY <1>1, <2>2, FS_PigeonHole
  <2> QED
    BY <2>3
<1>7. Chosen(m)
  <2>1. \A k \in 0..(m - 1) : ~Fits(<<Week, k>>, size)
    BY <1>3, <1>4
  <2>2. PICK k \in 0..m : Fits(<<Week, k>>, size)
    BY <1>5, <1>6
  <2>3. k = m
    <3> HIDE DEF m
    <3> QED
      BY <1>3, <2>1, <2>2
  <2> QED
    BY <2>1, <2>2, <2>3
<1>8. FileForWrite(size) = <<Week, CHOOSE k \in 0..N : Chosen(k)>>
  BY DEF FileForWrite
<1> DEFINE c == CHOOSE k \in 0..N : Chosen(k)
<1>9. c \in 0..N /\ Chosen(c)
  <2> HIDE DEF Chosen, m
  <2> QED
    BY <1>6, <1>7
<1>10. c \in Nat /\ Fits(<<Week, c>>, size)
  BY <1>1, <1>9
<1>11. FileForWrite(size) = <<Week, c>>
  BY <1>8
<1> HIDE DEF c
<1> QED
  BY <1>2, <1>10, <1>11
-------------------------------------------------------------------------------
(***************************************************************************)
(* The steps of Store.                                                     *)
(***************************************************************************)
\* An event stays on disk if the file that has its record keeps it.
LEMMA StaysOnDisk ==
    ASSUME NEW e,
           \A n \in DOMAIN disk : HasRecord(disk[n], e) =>
              n \in DOMAIN disk' /\ HasRecord(disk'[n], e)
    PROVE  OnDisk(e) => OnDisk(e)'
  BY DEF OnDisk, RecordsOf, HasRecord

\* If every event stays, and processes and their IDs are as before, so is KnownInv.
LEMMA KnownStays ==
    ASSUME KnownInv, UNCHANGED <<processVars, promised>>,
           \A e \in known \union promised : OnDisk(e) => OnDisk(e)'
    PROVE  KnownInv'
  BY DEF KnownInv, processVars

LEMMA BeginStoreStep ==
    ASSUME StorageInv, NEW e \in Events, BeginStore(e)
    PROVE  StorageInv'
<1> USE DEF StorageInv
<1>1. SimpleTypes' /\ DiskInv'
  BY DEF SimpleTypes, DiskInv, BeginStore, processVars, historyVars, boundVars
<1>2. SizeOf[e] \in Nat /\ now \in Nat /\ IsFiniteSet(DOMAIN disk)
  BY StorageAssumption DEF SimpleTypes, DiskInv
<1>3. /\ FileForWrite(SizeOf[e]) \in Nat \X Nat
      /\ Fits(FileForWrite(SizeOf[e]), SizeOf[e])
  BY <1>2, FileForWriteFits
<1>4. WriterInv'
  BY <1>3 DEF BeginStore, WriterInv, Fits, Free, processVars, Idle
<1>5. KnownInv'
  BY DEF KnownInv, BeginStore, processVars, historyVars, OnDisk, RecordsOf
<1> QED
  BY <1>1, <1>4, <1>5

\* A refused event changes nothing but the count of faults.
LEMMA StatFailsStep ==
    ASSUME StorageInv, NEW e \in Events, StatFails(e)
    PROVE  StorageInv'
<1> USE DEF StorageInv, StatFails, processVars, historyVars
<1>1. SimpleTypes'
  BY StorageAssumption DEF SimpleTypes, Fault
<1>2. DiskInv' /\ WriterInv'
  BY DEF DiskInv, WriterInv, Fits, RoomIn, EndsWith
<1>3. KnownInv'
  BY DEF KnownInv, OnDisk, RecordsOf, Whole, Unterminated
<1> QED
  BY <1>1, <1>2, <1>3

LEMMA OpenFileStep ==
    ASSUME StorageInv, OpenFile
    PROVE  StorageInv'
<1> USE DEF StorageInv
<1> DEFINE e == writer.event
           name == writer.name
           opened == [n \in DOMAIN disk \union {name} |->
                        IF n \in DOMAIN disk THEN disk[n]
                        ELSE [records |-> <<>>, size |-> 0, time |-> now]]
<1>1. /\ writer # Idle /\ name \in Nat \X Nat /\ e \in Events
      /\ e \notin known /\ Fits(name, SizeOf[e]) /\ process = "up"
      /\ writer \in [phase : {"open", "write", "sync"}, event : Events, name : Nat \X Nat]
  BY DEF OpenFile, WriterInv, Idle
<1>2. now \in Nat
  BY StorageAssumption DEF SimpleTypes
<1>3. SimpleTypes'
  BY StorageAssumption DEF SimpleTypes, OpenFile, processVars, historyVars, Fault
<1>4. CASE writer' = Idle /\ UNCHANGED disk
  <2>1. DiskInv' /\ WriterInv'
    BY <1>4 DEF DiskInv, WriterInv, OpenFile, historyVars, processVars
  <2>2. KnownInv'
    BY <1>4 DEF KnownInv, OpenFile, processVars, historyVars, OnDisk, RecordsOf
  <2> QED
    BY <1>3, <2>1, <2>2
<1>5. CASE writer' = [writer EXCEPT !.phase = "write"] /\ disk' = opened
  <2>1. /\ DOMAIN disk' = DOMAIN disk \union {name}
        /\ \A n \in DOMAIN disk : disk'[n] = disk[n]
        /\ name \notin DOMAIN disk =>
              disk'[name] = [records |-> <<>>, size |-> 0, time |-> now]
    BY <1>5
  <2>2. DiskInv'
    <3>1. IsFiniteSet(DOMAIN disk')
      BY <2>1, FS_AddElement DEF DiskInv
    <3>2. FileOK([records |-> <<>>, size |-> 0, time |-> now], now)
      BY <1>2 DEF FileOK
    <3>3. now' = now
      BY DEF OpenFile
    <3> QED
      BY <1>1, <2>1, <3>1, <3>2, <3>3 DEF DiskInv
  <2>3. WriterInv'
    <3>1. /\ writer' \in [phase : {"open", "write", "sync"}, event : Events, name : Nat \X Nat]
          /\ writer'.phase = "write" /\ writer'.event = e /\ writer'.name = name
      BY <1>1, <1>5
    <3>2. RoomIn(disk'[name], SizeOf[e])
      BY <1>1, <2>1 DEF Fits, RoomIn
    <3>3. process' = "up" /\ known' = known
      BY <1>1 DEF OpenFile, processVars
    <3> QED
      BY <1>1, <2>1, <3>1, <3>2, <3>3 DEF WriterInv
  <2>4. KnownInv'
    <3>1. \A f : OnDisk(f) => OnDisk(f)'
      BY <2>1, StaysOnDisk
    <3> QED
      BY <3>1, KnownStays DEF OpenFile, historyVars
  <2> QED
    BY <1>3, <2>2, <2>3, <2>4
<1> QED
  BY <1>4, <1>5 DEF OpenFile

LEMMA WriteRecordStep ==
    ASSUME StorageInv, WriteRecord
    PROVE  StorageInv'
<1> USE DEF StorageInv
<1> DEFINE e == writer.event
           name == writer.name
<1>1. /\ writer # Idle /\ name \in Nat \X Nat /\ e \in Events
      /\ e \notin known /\ name \in DOMAIN disk /\ process = "up"
      /\ RoomIn(disk[name], SizeOf[e])
      /\ writer \in [phase : {"open", "write", "sync"}, event : Events, name : Nat \X Nat]
  BY DEF WriteRecord, WriterInv, Idle
<1>2. now \in Nat /\ FileOK(disk[name], now)
  BY <1>1, StorageAssumption DEF SimpleTypes, DiskInv
<1>3. PICK size \in 0..SizeOf[e] :
         /\ disk' = [disk EXCEPT ![name] = Appended(@, e, size)]
         /\ IF size = SizeOf[e]
              THEN /\ writer' = [writer EXCEPT !.phase = "sync"]
                   /\ UNCHANGED faults
              ELSE Fault /\ writer' = Idle
  BY DEF WriteRecord
<1>4. SimpleTypes'
  <2>1. writtenAt' \in [Events -> 0..now]
    BY <1>1, <1>2 DEF WriteRecord, SimpleTypes
  <2> QED
    BY <1>3, <2>1, StorageAssumption DEF SimpleTypes, WriteRecord, processVars, Fault
<1>5. /\ FileOK(Appended(disk[name], e, size), now)
      /\ \A f : HasRecord(disk[name], f) => HasRecord(Appended(disk[name], e, size), f)
      /\ size = SizeOf[e] => EndsWith(Appended(disk[name], e, size), e)
  BY <1>1, <1>2, AppendedFile
<1>6. /\ DOMAIN disk' = DOMAIN disk
      /\ \A n \in DOMAIN disk : n # name => disk'[n] = disk[n]
      /\ disk'[name] = Appended(disk[name], e, size)
  BY <1>1, <1>3
<1>7. DiskInv'
  BY <1>5, <1>6 DEF DiskInv, WriteRecord
<1>8. WriterInv'
  <2>1. CASE writer' = Idle
    BY <2>1 DEF WriterInv
  <2>2. CASE size = SizeOf[e] /\ writer' = [writer EXCEPT !.phase = "sync"]
    <3>1. /\ writer' \in [phase : {"open", "write", "sync"}, event : Events, name : Nat \X Nat]
          /\ writer'.phase = "sync" /\ writer'.event = e /\ writer'.name = name
      BY <1>1, <2>2
    <3>2. process' = "up" /\ known' = known
      BY <1>1 DEF WriteRecord, processVars
    <3> QED
      BY <1>1, <1>5, <1>6, <2>2, <3>1, <3>2 DEF WriterInv
  <2> QED
    BY <1>3, <2>1, <2>2
<1>9. KnownInv'
  <2>1. \A f : OnDisk(f) => OnDisk(f)'
    <3>1. ASSUME NEW f, NEW n \in DOMAIN disk, HasRecord(disk[n], f)
          PROVE  n \in DOMAIN disk' /\ HasRecord(disk'[n], f)
      BY <1>5, <1>6, <3>1
    <3> QED
      BY <3>1, StaysOnDisk
  <2> QED
    BY <2>1, KnownStays DEF WriteRecord
<1> QED
  BY <1>4, <1>7, <1>8, <1>9

LEMMA SyncAndCloseStep ==
    ASSUME StorageInv, SyncAndClose
    PROVE  StorageInv'
<1> USE DEF StorageInv
<1> DEFINE e == writer.event
           name == writer.name
<1>1. /\ e \in Events /\ name \in DOMAIN disk /\ process = "up"
      /\ EndsWith(disk[name], e)
  BY DEF SyncAndClose, WriterInv, Idle
<1>2. OnDisk(e)
  <2>1. /\ disk[name].records \in Seq(Record)
        /\ disk[name].records # <<>>
        /\ disk[name].records[Len(disk[name].records)] = [event |-> e, size |-> SizeOf[e]]
    BY <1>1 DEF EndsWith, DiskInv, FileOK
  <2>2. Len(disk[name].records) \in DOMAIN disk[name].records
    BY <2>1
  <2>3. HasRecord(disk[name], e)
    BY <2>1, <2>2 DEF HasRecord, Whole
  <2> QED
    BY <1>1, <2>3, OnDiskByFile
<1>3. DiskInv' /\ WriterInv'
  BY DEF DiskInv, WriterInv, SyncAndClose
<1>4. SimpleTypes'
  BY <1>1, StorageAssumption DEF SimpleTypes, SyncAndClose, Fault
<1>5. KnownInv'
  <2>1. \A f : OnDisk(f)' <=> OnDisk(f)
    BY DEF SyncAndClose, OnDisk, RecordsOf, Whole, Unterminated
  <2> QED
    BY <1>1, <1>2, <2>1 DEF KnownInv, SyncAndClose
<1> QED
  BY <1>3, <1>4, <1>5
-------------------------------------------------------------------------------
(***************************************************************************)
(* The other steps.                                                        *)
(***************************************************************************)
\* An event that Rotate takes the last record of is expired and not promised.
LEMMA RotateStep ==
    ASSUME StorageInv, Rotate
    PROVE  StorageInv'
<1> USE DEF StorageInv
<1> DEFINE removed == {e \in Events : OnDisk(e) /\ ~OnDisk(e)'}
<1>1. PICK gone \in SUBSET Old :
         /\ IF gone = Old THEN UNCHANGED faults ELSE Fault
         /\ disk' = [n \in DOMAIN disk \ gone |-> disk[n]]
         /\ expired' = expired \union removed
         /\ promised' = promised \ removed
  BY DEF Rotate
<1>2. writer = Idle /\ process = "up"
  BY DEF Rotate, Free
<1>3. SimpleTypes'
  BY <1>1, StorageAssumption DEF SimpleTypes, Rotate, Fault
<1>4. DiskInv'
  <2>1. DOMAIN disk' \in SUBSET DOMAIN disk /\ \A n \in DOMAIN disk' : disk'[n] = disk[n]
    BY <1>1
  <2>2. IsFiniteSet(DOMAIN disk')
    BY <2>1, FS_Subset DEF DiskInv
  <2>3. now' = now
    BY DEF Rotate
  <2> QED
    BY <2>1, <2>2, <2>3 DEF DiskInv
<1>5. WriterInv'
  BY <1>2 DEF WriterInv, Rotate
<1>6. KnownInv'
  <2>1. known' = known /\ process' = process
    BY DEF Rotate
  <2>2. \A e \in promised' : OnDisk(e)'
    BY <1>1 DEF KnownInv, SimpleTypes
  <2>3. promised' \subseteq known'
    BY <1>1, <1>2, <2>1 DEF KnownInv
  <2>4. \A e \in known' : OnDisk(e)' \/ e \in expired'
    BY <1>1, <1>2, <2>1 DEF KnownInv, SimpleTypes
  <2> QED
    BY <2>2, <2>3, <2>4 DEF KnownInv
<1> QED
  BY <1>3, <1>4, <1>5, <1>6

LEMMA CloseStep ==
    ASSUME StorageInv, Close
    PROVE  StorageInv'
<1> USE DEF StorageInv, Close, historyVars, boundVars
<1>1. SimpleTypes'
  <2>1. closed' \in BOOLEAN
    BY Zenon
  <2> QED
    BY <2>1 DEF SimpleTypes
<1>2. DiskInv' /\ WriterInv'
  BY DEF DiskInv, WriterInv, Fits, RoomIn, EndsWith
<1>3. KnownInv'
  BY DEF KnownInv, OnDisk, RecordsOf, Whole, Unterminated
<1> QED
  BY <1>1, <1>2, <1>3

LEMMA ExitStep ==
    ASSUME StorageInv, Exit
    PROVE  StorageInv'
  BY DEF StorageInv, Exit, Free, SimpleTypes, DiskInv, WriterInv, KnownInv, OnDisk,
         RecordsOf, Whole, Unterminated, historyVars, boundVars

\* A crash tears at most the record of an event that is not promised.
LEMMA CrashStep ==
    ASSUME StorageInv, Crash
    PROVE  StorageInv'
<1> USE DEF StorageInv
<1>1. SimpleTypes'
  BY StorageAssumption DEF SimpleTypes, Crash, Fault, historyVars
<1>2. WriterInv'
  BY DEF WriterInv, Crash
<1>3. CASE UNCHANGED disk
  <2>1. DiskInv'
    BY <1>3 DEF DiskInv, Crash
  <2>2. KnownInv'
    BY <1>3 DEF KnownInv, Crash, OnDisk, RecordsOf, Whole, Unterminated, historyVars
  <2> QED
    BY <1>1, <1>2, <2>1, <2>2
<1>4. CASE writer.phase = "sync"
  <2> DEFINE e == writer.event
             name == writer.name
  <2>1. /\ e \in Events /\ e \notin promised /\ name \in DOMAIN disk
        /\ EndsWith(disk[name], e)
    BY <1>4 DEF Crash, WriterInv, Idle, KnownInv
  <2>2. now \in Nat /\ FileOK(disk[name], now)
    BY <2>1, StorageAssumption DEF SimpleTypes, DiskInv
  <2>3. PICK size \in 0..SizeOf[e] : disk' = [disk EXCEPT ![name] = Torn(@, size)]
    BY <1>4 DEF Crash
  <2>4. /\ FileOK(Torn(disk[name], size), now)
        /\ \A f : f # e /\ HasRecord(disk[name], f) => HasRecord(Torn(disk[name], size), f)
    BY <2>1, <2>2, TornFile
  <2>5. /\ DOMAIN disk' = DOMAIN disk
        /\ \A n \in DOMAIN disk : n # name => disk'[n] = disk[n]
        /\ disk'[name] = Torn(disk[name], size)
    BY <2>1, <2>3
  <2>6. DiskInv'
    BY <2>4, <2>5 DEF DiskInv, Crash
  <2>7. ASSUME NEW f \in promised  PROVE OnDisk(f)'
    <3>1. f # e
      BY <2>1
    <3>2. ASSUME NEW n \in DOMAIN disk, HasRecord(disk[n], f)
          PROVE  n \in DOMAIN disk' /\ HasRecord(disk'[n], f)
      BY <2>4, <2>5, <3>1, <3>2
    <3>3. OnDisk(f)
      BY DEF KnownInv
    <3> QED
      BY <3>2, <3>3, StaysOnDisk
  <2>8. KnownInv'
    BY <2>7 DEF KnownInv, Crash, historyVars
  <2> QED
    BY <1>1, <1>2, <2>6, <2>8
<1> QED
  BY <1>3, <1>4 DEF Crash

\* A start knows every event that is on disk, the promised ones among them.
LEMMA StartStep ==
    ASSUME StorageInv, Start
    PROVE  StorageInv'
<1> USE DEF StorageInv
<1>1. SimpleTypes'
  <2>1. closed' \in BOOLEAN
    BY Zenon DEF Start
  <2>2. process' \in {"up", "down", "fatal"} /\ known' \subseteq Events
        /\ restarts' \in 0..MaxRestarts /\ expired' \subseteq Events
    BY StorageAssumption DEF SimpleTypes, Start
  <2> QED
    BY <2>1, <2>2 DEF SimpleTypes, Start, historyVars
<1>2. writer = Idle
  BY DEF WriterInv, Start
<1>3. DiskInv' /\ WriterInv'
  BY <1>2 DEF DiskInv, WriterInv, Start
<1>4. KnownInv'
  <2>1. \A e : OnDisk(e)' <=> OnDisk(e)
    BY DEF Start, OnDisk, RecordsOf, Whole, Unterminated
  <2> QED
    BY <2>1 DEF KnownInv, Start, historyVars, SimpleTypes
<1> QED
  BY <1>1, <1>3, <1>4

LEMMA TickStep ==
    ASSUME StorageInv, Tick
    PROVE  StorageInv'
<1> USE DEF StorageInv
<1>1. now \in Nat /\ now' = now + 1 /\ 0..now \subseteq 0..now' /\ now' \in 0..MaxTime
  BY StorageAssumption DEF Tick, SimpleTypes
<1>2. SimpleTypes'
  BY <1>1 DEF SimpleTypes, Tick, processVars, historyVars, boundVars
<1>3. DiskInv'
  BY <1>1 DEF DiskInv, FileOK, Tick
<1>4. WriterInv'
  BY DEF WriterInv, Tick, processVars, Fits, RoomIn, EndsWith
<1>5. KnownInv'
  BY DEF KnownInv, Tick, processVars, historyVars, OnDisk, RecordsOf, Whole, Unterminated
<1> QED
  BY <1>2, <1>3, <1>4, <1>5

LEMMA StorageUnchanged ==
    ASSUME StorageInv, UNCHANGED vars
    PROVE  StorageInv'
<1> USE DEF StorageInv, vars, processVars, historyVars, boundVars
<1>1. SimpleTypes' /\ DiskInv'
  BY DEF SimpleTypes, DiskInv
<1>2. WriterInv'
  BY DEF WriterInv, Fits, RoomIn, EndsWith
<1>3. KnownInv'
  BY DEF KnownInv, OnDisk, RecordsOf, Whole, Unterminated
<1> QED
  BY <1>1, <1>2, <1>3
-------------------------------------------------------------------------------
(***************************************************************************)
(* The theorems.                                                           *)
(***************************************************************************)
LEMMA StorageInit == Init => StorageInv
<1> SUFFICES ASSUME Init  PROVE StorageInv
  OBVIOUS
<1>1. DOMAIN disk = {} /\ IsFiniteSet({})
  BY FS_EmptySet DEF Init
<1>2. SimpleTypes
  <2>1. closed \in BOOLEAN
    BY Zenon DEF Init
  <2> QED
    BY <2>1, StorageAssumption DEF Init, SimpleTypes
<1> QED
  BY <1>1, <1>2 DEF Init, StorageInv, DiskInv, WriterInv, KnownInv

LEMMA StorageNext == StorageInv /\ [Next]_vars => StorageInv'
  BY BeginStoreStep, StatFailsStep, OpenFileStep, WriteRecordStep, SyncAndCloseStep, RotateStep,
     CloseStep, ExitStep, CrashStep, StartStep, TickStep, StorageUnchanged
  DEF Next

\* StorageInv holds in every reachable state.
THEOREM StorageInductive == Spec => []StorageInv
  BY StorageInit, StorageNext, PTL DEF Spec

\* Types, and the file that Store has open is there.
THEOREM StorageTypeCorrect == Spec => []TypeOK
<1>1. StorageInv => TypeOK
  BY DEF StorageInv, TypeOK, SimpleTypes, DiskInv, FileOK, WriterInv
<1> QED
  BY <1>1, StorageInductive, PTL

\* fileForWrite lets no file grow beyond the configured size, whatever remains of
\* failed writes are in it, unless its only record is larger.
THEOREM FilesBounded == Spec => []FileSizeBounded
<1>1. StorageInv => FileSizeBounded
  BY DEF StorageInv, FileSizeBounded, DiskInv, FileOK
<1> QED
  BY <1>1, StorageInductive, PTL

\* A record of every event that Store acknowledged stays on disk through all
\* failures, crashes and restarts, until Rotate removes it.
THEOREM AcknowledgedKept == Spec => []PromisedBytesKept
<1>1. StorageInv => PromisedBytesKept
  BY DEF StorageInv, PromisedBytesKept, KnownInv
<1> QED
  BY <1>1, StorageInductive, PTL

\* Store refuses as duplicates only events that are on disk or have expired.
THEOREM RefusedForCause == Spec => []KnownOnDiskOrExpired
<1>1. StorageInv => KnownOnDiskOrExpired
  BY DEF StorageInv, KnownOnDiskOrExpired, KnownInv, Free
<1> QED
  BY <1>1, StorageInductive, PTL
-------------------------------------------------------------------------------
(***************************************************************************)
(* Retention.  A promised event is too old, or some file that has a record *)
(* of it was written to no earlier than the event was.                     *)
(***************************************************************************)
TooOld(e) == writtenAt[e] + Retention < now

InFreshFile(e) ==
    \E n \in DOMAIN disk : HasRecord(disk[n], e) /\ writtenAt[e] <= disk[n].time

FreshInv ==
    /\ \A e \in promised : TooOld(e) \/ InFreshFile(e)
    /\ writer # Idle /\ writer.phase = "sync" =>
          writtenAt[writer.event] <= disk[writer.name].time

\* The age of an event in a step that neither writes it nor takes its records.
LEMMA StaysFresh ==
    ASSUME NEW e \in Events, SimpleTypes, SimpleTypes', DiskInv, DiskInv',
           now <= now', writtenAt'[e] = writtenAt[e],
           \A n \in DOMAIN disk : HasRecord(disk[n], e) =>
              /\ n \in DOMAIN disk' /\ HasRecord(disk'[n], e)
              /\ disk[n].time <= disk'[n].time
    PROVE  TooOld(e) \/ InFreshFile(e) => (TooOld(e) \/ InFreshFile(e))'
<1>1. /\ now \in Nat /\ now' \in Nat /\ writtenAt[e] \in Nat /\ Retention \in Nat
  BY StorageAssumption DEF SimpleTypes
<1>2. TooOld(e) => TooOld(e)'
  BY <1>1 DEF TooOld
<1>3. ASSUME InFreshFile(e)  PROVE InFreshFile(e)'
  <2>1. PICK n \in DOMAIN disk : HasRecord(disk[n], e) /\ writtenAt[e] <= disk[n].time
    BY <1>3 DEF InFreshFile
  <2>2. disk[n].time \in Nat /\ n \in DOMAIN disk' /\ disk'[n].time \in Nat
    BY <1>1, <2>1 DEF DiskInv, FileOK
  <2>3. writtenAt'[e] <= disk'[n].time
    BY <1>1, <2>1, <2>2
  <2>4. HasRecord(disk'[n], e)
    BY <2>1
  <2>5. HasRecord(disk[n], e)' <=> HasRecord(disk'[n], e)
    OBVIOUS
  <2> QED
    BY <2>2, <2>3, <2>4 DEF InFreshFile, HasRecord, Whole, Unterminated
<1> QED
  BY <1>2, <1>3

\* The step of an operation that leaves the files of promised events alone.
LEMMA QuietFresh ==
    ASSUME StorageInv, StorageInv', FreshInv, UNCHANGED <<promised, writtenAt>>,
           now <= now', writer' = writer \/ writer' = Idle \/ writer'.phase = "open",
           UNCHANGED disk
    PROVE  FreshInv'
<1>1. ASSUME NEW e \in promised  PROVE (TooOld(e) \/ InFreshFile(e))'
  <2>1. e \in Events
    BY DEF StorageInv, SimpleTypes
  <2>2. \A n \in DOMAIN disk : disk[n].time <= disk[n].time
    BY DEF StorageInv, DiskInv, FileOK
  <2> QED
    BY <2>1, <2>2, StaysFresh DEF StorageInv, FreshInv
<1> QED
  BY <1>1 DEF FreshInv

LEMMA WriteRecordFresh ==
    ASSUME StorageInv, StorageInv', FreshInv, WriteRecord
    PROVE  FreshInv'
<1> DEFINE w == writer.event
           name == writer.name
<1>1. /\ w \in Events /\ w \notin promised /\ name \in DOMAIN disk
      /\ RoomIn(disk[name], SizeOf[w])
  BY DEF WriteRecord, StorageInv, WriterInv, Idle, KnownInv
<1>2. now \in Nat /\ FileOK(disk[name], now) /\ SizeOf[w] \in Nat \ {0, 1}
  BY <1>1, StorageAssumption DEF StorageInv, SimpleTypes, DiskInv
<1>3. PICK size \in 0..SizeOf[w] :
         /\ disk' = [disk EXCEPT ![name] = Appended(@, w, size)]
         /\ IF size = SizeOf[w]
              THEN /\ writer' = [writer EXCEPT !.phase = "sync"]
                   /\ UNCHANGED faults
              ELSE Fault /\ writer' = Idle
  BY DEF WriteRecord
<1>4. /\ DOMAIN disk' = DOMAIN disk
      /\ \A n \in DOMAIN disk : n # name => disk'[n] = disk[n]
      /\ disk'[name] = Appended(disk[name], w, size)
  BY <1>1, <1>3
<1>5. /\ disk[name].time <= Appended(disk[name], w, size).time
      /\ size # 0 => Appended(disk[name], w, size).time = now
  BY <1>2 DEF Appended, FileOK
<1>6. /\ \A f : HasRecord(disk[name], f) => HasRecord(Appended(disk[name], w, size), f)
  BY <1>1, <1>2, AppendedFile
<1>7. /\ writtenAt'[w] = now /\ promised' = promised /\ now' = now
      /\ \A e \in Events : e # w => writtenAt'[e] = writtenAt[e]
  BY <1>1 DEF WriteRecord, StorageInv, SimpleTypes
<1>8. ASSUME NEW e \in promised  PROVE (TooOld(e) \/ InFreshFile(e))'
  <2>1. e \in Events /\ e # w
    BY <1>1 DEF StorageInv, SimpleTypes
  <2>2. ASSUME NEW n \in DOMAIN disk, HasRecord(disk[n], e)
        PROVE  /\ n \in DOMAIN disk' /\ HasRecord(disk'[n], e)
               /\ disk[n].time <= disk'[n].time
    <3>1. disk[n].time \in Nat
      BY <1>2 DEF StorageInv, DiskInv, FileOK
    <3> QED
      BY <1>4, <1>5, <1>6, <2>2, <3>1
  <2>3. SimpleTypes /\ SimpleTypes' /\ DiskInv /\ DiskInv' /\ now <= now'
    BY <1>2, <1>7 DEF StorageInv
  <2>4. TooOld(e) \/ InFreshFile(e) => (TooOld(e) \/ InFreshFile(e))'
    BY <1>7, <2>1, <2>2, <2>3, StaysFresh
  <2> QED
    BY <2>4 DEF FreshInv
<1>9. ASSUME writer' # Idle  PROVE writtenAt'[writer'.event] <= disk'[writer'.name].time
  <2>1. size = SizeOf[w] /\ size # 0 /\ writer' = [writer EXCEPT !.phase = "sync"]
    BY <1>2, <1>3, <1>9
  <2>2. writer'.event = w /\ writer'.name = name
    BY <2>1 DEF StorageInv, WriterInv, WriteRecord, Idle
  <2> QED
    BY <1>2, <1>4, <1>5, <1>7, <2>1, <2>2
<1> QED
  BY <1>7, <1>8, <1>9 DEF FreshInv

LEMMA OpenFileFresh ==
    ASSUME StorageInv, StorageInv', FreshInv, OpenFile
    PROVE  FreshInv'
<1>1. ASSUME NEW n \in DOMAIN disk  PROVE n \in DOMAIN disk' /\ disk'[n] = disk[n]
  BY DEF OpenFile
<1>2. writer' = Idle \/ writer'.phase = "write"
  BY DEF OpenFile, StorageInv, WriterInv, Idle
<1>3. ASSUME NEW e \in promised  PROVE (TooOld(e) \/ InFreshFile(e))'
  <2>1. e \in Events /\ writtenAt'[e] = writtenAt[e] /\ now <= now'
    BY StorageAssumption DEF StorageInv, SimpleTypes, OpenFile, historyVars
  <2>2. \A n \in DOMAIN disk : disk[n].time <= disk'[n].time
    BY <1>1 DEF StorageInv, DiskInv, FileOK
  <2> QED
    BY <1>1, <2>1, <2>2, StaysFresh DEF StorageInv, FreshInv
<1> QED
  BY <1>2, <1>3 DEF FreshInv, OpenFile, historyVars

LEMMA SyncAndCloseFresh ==
    ASSUME StorageInv, StorageInv', FreshInv, SyncAndClose
    PROVE  FreshInv'
<1> DEFINE w == writer.event
           name == writer.name
<1>1. /\ w \in Events /\ name \in DOMAIN disk /\ EndsWith(disk[name], w)
      /\ writtenAt[w] <= disk[name].time
  BY DEF SyncAndClose, StorageInv, WriterInv, FreshInv, Idle
<1>2. HasRecord(disk[name], w)
  <2>1. /\ disk[name].records \in Seq(Record)
        /\ disk[name].records # <<>>
        /\ disk[name].records[Len(disk[name].records)] = [event |-> w, size |-> SizeOf[w]]
    BY <1>1 DEF EndsWith, StorageInv, DiskInv, FileOK
  <2>2. Len(disk[name].records) \in DOMAIN disk[name].records
    BY <2>1
  <2> QED
    BY <2>1, <2>2 DEF HasRecord, Whole
<1>3. InFreshFile(w)
  BY <1>1, <1>2 DEF InFreshFile
<1>4. \A e : (TooOld(e) \/ InFreshFile(e))' <=> TooOld(e) \/ InFreshFile(e)
  BY DEF SyncAndClose, TooOld, InFreshFile, HasRecord, Whole, Unterminated
<1> QED
  BY <1>3, <1>4 DEF FreshInv, SyncAndClose

\* The files that are removed make their events too old.
LEMMA RotateFresh ==
    ASSUME StorageInv, StorageInv', FreshInv, Rotate
    PROVE  /\ FreshInv'
           /\ \A e \in promised \ promised' : TooOld(e)
<1>1. PICK gone \in SUBSET Old :
         /\ disk' = [n \in DOMAIN disk \ gone |-> disk[n]]
         /\ promised' = promised \ {e \in Events : OnDisk(e) /\ ~OnDisk(e)'}
  BY DEF Rotate
<1>2. UNCHANGED <<now, writtenAt, writer>> /\ writer = Idle
  BY DEF Rotate, Free
<1>3. ASSUME NEW e \in promised  PROVE TooOld(e) \/ InFreshFile(e)'
  <2>1. CASE TooOld(e)
    BY <2>1
  <2>2. CASE InFreshFile(e)
    <3>1. PICK n \in DOMAIN disk : HasRecord(disk[n], e) /\ writtenAt[e] <= disk[n].time
      BY <2>2 DEF InFreshFile
    <3>2. CASE n \in gone
      <4>1. disk[n].time + Retention < now
        BY <3>2 DEF Old
      <4>2. /\ disk[n].time \in Nat /\ Retention \in Nat /\ now \in Nat
            /\ writtenAt[e] \in Nat
        BY StorageAssumption DEF StorageInv, SimpleTypes, DiskInv, FileOK
      <4> QED
        BY <3>1, <4>1, <4>2 DEF TooOld
    <3>3. CASE n \notin gone
      <4>1. n \in DOMAIN disk' /\ disk'[n] = disk[n]
        BY <1>1, <3>3
      <4> QED
        BY <1>2, <3>1, <4>1 DEF InFreshFile, HasRecord, Whole, Unterminated
    <3> QED
      BY <3>2, <3>3
  <2> QED
    BY <2>1, <2>2 DEF FreshInv
<1>4. FreshInv'
  BY <1>1, <1>2, <1>3 DEF FreshInv, TooOld
<1>5. ASSUME NEW e \in promised \ promised'  PROVE TooOld(e)
  <2>1. ~OnDisk(e)'
    BY <1>1
  <2>2. ~InFreshFile(e)'
    BY <2>1 DEF InFreshFile, OnDisk, RecordsOf, HasRecord
  <2> QED
    BY <1>3, <2>2
<1> QED
  BY <1>4, <1>5

LEMMA CrashFresh ==
    ASSUME StorageInv, StorageInv', FreshInv, Crash
    PROVE  FreshInv'
<1>1. UNCHANGED <<now, promised, writtenAt>> /\ writer' = Idle /\ now <= now'
  BY StorageAssumption DEF Crash, historyVars, StorageInv, SimpleTypes
<1>2. CASE UNCHANGED disk
  BY <1>1, <1>2, QuietFresh
<1>3. CASE writer.phase = "sync"
  <2> DEFINE w == writer.event
             name == writer.name
  <2>1. /\ w \in Events /\ w \notin promised /\ name \in DOMAIN disk
        /\ EndsWith(disk[name], w)
    BY <1>3 DEF Crash, StorageInv, WriterInv, Idle, KnownInv
  <2>2. now \in Nat /\ FileOK(disk[name], now)
    BY <2>1, StorageAssumption DEF StorageInv, SimpleTypes, DiskInv
  <2>3. PICK size \in 0..SizeOf[w] : disk' = [disk EXCEPT ![name] = Torn(@, size)]
    BY <1>3 DEF Crash
  <2>4. /\ \A f : f # w /\ HasRecord(disk[name], f) => HasRecord(Torn(disk[name], size), f)
        /\ Torn(disk[name], size).time = disk[name].time
    BY <2>1, <2>2, TornFile DEF Torn
  <2>5. /\ DOMAIN disk' = DOMAIN disk
        /\ \A n \in DOMAIN disk : n # name => disk'[n] = disk[n]
        /\ disk'[name] = Torn(disk[name], size)
    BY <2>1, <2>3
  <2>6. ASSUME NEW e \in promised  PROVE (TooOld(e) \/ InFreshFile(e))'
    <3>1. e \in Events /\ e # w
      BY <2>1 DEF StorageInv, SimpleTypes
    <3>2. ASSUME NEW n \in DOMAIN disk, HasRecord(disk[n], e)
          PROVE  /\ n \in DOMAIN disk' /\ HasRecord(disk'[n], e)
                 /\ disk[n].time <= disk'[n].time
      <4>1. disk[n].time \in Nat
        BY <2>2 DEF StorageInv, DiskInv, FileOK
      <4> QED
        BY <2>4, <2>5, <3>1, <3>2, <4>1
    <3> QED
      BY <1>1, <3>1, <3>2, StaysFresh DEF StorageInv, FreshInv
  <2> QED
    BY <1>1, <2>6 DEF FreshInv
<1> QED
  BY <1>2, <1>3 DEF Crash

\* FreshInv is kept by every step, and only Rotate breaks a promise.
LEMMA FreshNext ==
    ASSUME StorageInv, StorageInv', FreshInv, [Next]_vars
    PROVE  FreshInv' /\ \A e \in promised \ promised' : TooOld(e)
<1>1. now \in Nat
  BY StorageAssumption DEF StorageInv, SimpleTypes
<1>2. ASSUME NEW e \in Events, BeginStore(e) \/ StatFails(e)
      PROVE  FreshInv' /\ promised' = promised
  BY <1>1, <1>2, QuietFresh DEF BeginStore, StatFails, historyVars
<1>3. CASE Close \/ Exit \/ Start \/ UNCHANGED vars
  <2>1. /\ UNCHANGED <<disk, promised, writtenAt, writer, now>>
    BY <1>3 DEF Close, Exit, Start, vars, historyVars
  <2> QED
    BY <1>1, <2>1, QuietFresh
<1>4. CASE Tick
  <2>1. /\ UNCHANGED <<disk, promised, writtenAt, writer>> /\ now <= now'
    BY <1>1, <1>4 DEF Tick, historyVars
  <2> QED
    BY <2>1, QuietFresh
<1>5. CASE OpenFile
  BY <1>5, OpenFileFresh DEF OpenFile, historyVars
<1>6. CASE WriteRecord
  BY <1>6, WriteRecordFresh DEF WriteRecord
<1>7. CASE SyncAndClose
  <2>1. promised \subseteq promised'
    BY <1>7 DEF SyncAndClose
  <2> QED
    BY <1>7, <2>1, SyncAndCloseFresh
<1>8. CASE Rotate
  BY <1>8, RotateFresh
<1>9. CASE Crash
  BY <1>9, CrashFresh DEF Crash, historyVars
<1> QED
  BY <1>2, <1>3, <1>4, <1>5, <1>6, <1>7, <1>8, <1>9 DEF Next

\* Rotate takes the last record of no event that was written within the
\* retention time: removing whole files by their time is safe for every event
\* in them, failed attempts to write it and partial rotations included.
THEOREM RetentionKept == Spec => NoEarlyRemoval
<1>1. Init => FreshInv
  BY DEF Init, FreshInv
<1>2. StorageInv /\ StorageInv' /\ FreshInv /\ [Next]_vars => FreshInv'
  BY FreshNext
<1>3. StorageInv /\ StorageInv' /\ FreshInv /\ [Next]_vars
         => [\A e \in Events :
               e \in promised \ promised' => writtenAt[e] + Retention < now]_vars
  BY FreshNext DEF TooOld
<1> QED
  BY <1>1, <1>2, <1>3, StorageInductive, PTL DEF Spec, NoEarlyRemoval
-------------------------------------------------------------------------------
(***************************************************************************)
(* Idempotence.  Until something fails, the process knows all that is on   *)
(* disk, but for the record that Store has written and not synced.         *)
(***************************************************************************)
KnowsDisk ==
    \A e \in Events :
       OnDisk(e) => e \in known \/ (writer # Idle /\ writer.phase = "sync"
                                     /\ e = writer.event)

Once ==
    \A e \in Events : \A m, n \in DOMAIN disk :
       \A i \in RecordsOf(m, e), k \in RecordsOf(n, e) : m = n /\ i = k

OnceInv == faults = 0 => Once /\ (process = "up" => KnowsDisk)

\* Once depends on the files only, and stays when files are removed.
LEMMA FewerFilesOnce ==
    ASSUME Once,
           \A n \in DOMAIN disk' : n \in DOMAIN disk /\ disk'[n] = disk[n]
    PROVE  Once' /\ \A e : OnDisk(e)' => OnDisk(e)
<1>1. \A e : \A n \in DOMAIN disk' : RecordsOf(n, e)' = RecordsOf(n, e)
  BY DEF RecordsOf, Whole, Unterminated
<1> QED
  BY <1>1 DEF Once, OnDisk

\* While nothing fails, the whole record is appended, of an event that is not
\* on disk yet.
LEMMA WriteRecordOnce ==
    ASSUME StorageInv, OnceInv, WriteRecord, faults' = 0, faults = 0
    PROVE  Once' /\ KnowsDisk'
<1> DEFINE w == writer.event
           name == writer.name
           q == disk[name].records
<1>1. /\ w \in Events /\ w \notin known /\ name \in DOMAIN disk /\ process = "up"
      /\ writer \in [phase : {"open", "write", "sync"}, event : Events, name : Nat \X Nat]
      /\ writer.phase = "write" /\ q \in Seq(Record)
  BY DEF WriteRecord, StorageInv, WriterInv, DiskInv, FileOK, Idle
<1>2. /\ disk' = [disk EXCEPT ![name] = Appended(@, w, SizeOf[w])]
      /\ writer' = [writer EXCEPT !.phase = "sync"]
  <2>1. PICK size \in 0..SizeOf[w] :
           /\ disk' = [disk EXCEPT ![name] = Appended(@, w, size)]
           /\ IF size = SizeOf[w]
                THEN /\ writer' = [writer EXCEPT !.phase = "sync"]
                     /\ UNCHANGED faults
                ELSE Fault /\ writer' = Idle
    BY DEF WriteRecord
  <2>2. ~Fault
    BY DEF Fault
  <2> QED
    BY <2>1, <2>2
<1>3. ~OnDisk(w)
  BY <1>1 DEF OnceInv, KnowsDisk
<1>4. /\ DOMAIN disk' = DOMAIN disk
      /\ \A n \in DOMAIN disk : n # name => disk'[n] = disk[n]
      /\ disk'[name].records = Append(q, [event |-> w, size |-> SizeOf[w]])
  <2>1. SizeOf[w] # 0
    BY <1>1, StorageAssumption
  <2> QED
    BY <1>1, <1>2, <2>1 DEF Appended
<1>5. /\ DOMAIN q = 1..Len(q) /\ Len(q) \in Nat
      /\ DOMAIN disk'[name].records = 1..(Len(q) + 1)
      /\ \A i \in 1..Len(q) : disk'[name].records[i] = q[i]
      /\ disk'[name].records[Len(q) + 1].event = w
  <2> DEFINE r == [event |-> w, size |-> SizeOf[w]]
  <2>1. r \in Record
    BY <1>1, StorageAssumption DEF Record
  <2> QED
    BY <1>1, <1>4, <2>1
<1>6. ASSUME NEW e, NEW n \in DOMAIN disk, e # w \/ n # name
      PROVE  RecordsOf(n, e)' = RecordsOf(n, e)
  <2>1. CASE n # name
    BY <1>4, <2>1 DEF RecordsOf, Whole, Unterminated
  <2>2. CASE n = name /\ e # w
    <3>1. \A i \in DOMAIN q : i \in DOMAIN disk'[n].records /\ disk'[n].records[i] = q[i]
      BY <1>5, <2>2
    <3>2. \A i \in DOMAIN disk'[n].records \ DOMAIN q : disk'[n].records[i].event = w
      BY <1>5, <2>2
    <3> QED
      BY <2>2, <3>1, <3>2 DEF RecordsOf, Whole, Unterminated
  <2> QED
    BY <1>6, <2>1, <2>2
<1>7. ASSUME NEW e, NEW n \in DOMAIN disk, e = w, n = name
      PROVE  RecordsOf(n, e)' \subseteq {Len(q) + 1}
  <2>1. RecordsOf(n, e) = {}
    BY <1>3, <1>7 DEF OnDisk
  <2>2. \A i \in DOMAIN disk'[n].records :
           i = Len(q) + 1 \/ (i \in DOMAIN q /\ disk'[n].records[i] = q[i])
    BY <1>5, <1>7
  <2> QED
    BY <1>7, <2>1, <2>2 DEF RecordsOf, Whole, Unterminated
<1>8. \A n \in DOMAIN disk : RecordsOf(n, w) = {}
  BY <1>3 DEF OnDisk
<1>9. Once'
  <2> SUFFICES ASSUME NEW e \in Events, NEW m \in DOMAIN disk', NEW n \in DOMAIN disk',
                      NEW i \in RecordsOf(m, e)', NEW k \in RecordsOf(n, e)'
               PROVE  m = n /\ i = k
    BY DEF Once
  <2>1. CASE e = w
    BY <1>4, <1>6, <1>7, <1>8, <2>1
  <2>2. CASE e # w
    BY <1>4, <1>6, <2>2 DEF OnceInv, Once
  <2> QED
    BY <2>1, <2>2
<1>10. KnowsDisk'
  <2>1. writer' # Idle /\ writer'.phase = "sync" /\ writer'.event = w /\ known' = known
    BY <1>1, <1>2 DEF Idle, WriteRecord, processVars
  <2>2. ASSUME NEW e \in Events, OnDisk(e)', e # w  PROVE e \in known'
    <3>1. OnDisk(e)
      BY <1>4, <1>6, <2>2 DEF OnDisk
    <3> QED
      BY <1>1, <2>1, <3>1 DEF OnceInv, KnowsDisk
  <2> QED
    BY <2>1, <2>2 DEF KnowsDisk
<1> QED
  BY <1>9, <1>10

LEMMA OnceNext ==
    ASSUME StorageInv, OnceInv, [Next]_vars
    PROVE  OnceInv'
<1> SUFFICES ASSUME faults' = 0  PROVE Once' /\ (process' = "up" => KnowsDisk')
  BY DEF OnceInv
<1>1. faults \in Nat /\ ~Fault
  BY StorageAssumption DEF StorageInv, SimpleTypes, Fault
<1>2. faults = 0
  BY <1>1 DEF Next, BeginStore, StatFails, OpenFile, WriteRecord, SyncAndClose, Rotate, Close,
              Exit, Crash, Start, Tick, vars, boundVars
<1>3. Once /\ (process = "up" => KnowsDisk)
  BY <1>2 DEF OnceInv
<1>4. ASSUME disk' = disk  PROVE Once' /\ \A e : OnDisk(e)' <=> OnDisk(e)
  BY <1>3, <1>4 DEF Once, OnDisk, RecordsOf, Whole, Unterminated
<1>5. ASSUME NEW e \in Events, BeginStore(e)  PROVE Once' /\ KnowsDisk'
  <2>1. disk' = disk /\ known' = known /\ process = "up" /\ writer = Idle
    BY <1>5 DEF BeginStore, Free, processVars
  <2>2. \A f \in Events : OnDisk(f)' => f \in known'
    BY <1>3, <1>4, <2>1 DEF KnowsDisk
  <2> QED
    BY <1>4, <2>1, <2>2 DEF KnowsDisk
<1>6. CASE OpenFile
  <2>1. disk' = [n \in DOMAIN disk \union {writer.name} |->
                   IF n \in DOMAIN disk THEN disk[n]
                   ELSE [records |-> <<>>, size |-> 0, time |-> now]]
    BY <1>1, <1>6 DEF OpenFile
  <2>2. /\ \A n \in DOMAIN disk : n \in DOMAIN disk' /\ disk'[n] = disk[n]
        /\ \A n \in DOMAIN disk' \ DOMAIN disk : disk'[n].records = <<>>
    BY <2>1
  <2>3. \A e : \A n \in DOMAIN disk : RecordsOf(n, e)' = RecordsOf(n, e)
    BY <2>2 DEF RecordsOf, Whole, Unterminated
  <2>4. \A e : \A n \in DOMAIN disk' \ DOMAIN disk : RecordsOf(n, e)' = {}
    BY <2>2 DEF RecordsOf
  <2>5. Once'
    BY <1>3, <2>3, <2>4 DEF Once
  <2>6. \A e : OnDisk(e)' => OnDisk(e)
    BY <2>3, <2>4 DEF OnDisk
  <2>7. writer.phase # "sync" /\ process = "up" /\ known' = known
    BY <1>6 DEF OpenFile, processVars
  <2> QED
    BY <1>3, <2>5, <2>6, <2>7 DEF KnowsDisk
<1>7. CASE WriteRecord
  BY <1>2, <1>7, WriteRecordOnce
<1>8. CASE SyncAndClose
  <2>1. known' = known \union {writer.event} /\ disk' = disk /\ process = "up"
    BY <1>1, <1>8 DEF SyncAndClose
  <2> QED
    BY <1>3, <1>4, <2>1 DEF KnowsDisk
<1>9. CASE Rotate
  <2>1. /\ \A n \in DOMAIN disk' : n \in DOMAIN disk /\ disk'[n] = disk[n]
        /\ process = "up" /\ known' = known /\ writer' = writer
    BY <1>9 DEF Rotate, Free
  <2> QED
    BY <1>3, <2>1, FewerFilesOnce DEF KnowsDisk
<1>10. CASE Close \/ Exit \/ Tick \/ UNCHANGED vars
  <2>1. /\ UNCHANGED <<disk, known, writer>> /\ (process' = "up" => process = "up")
    BY <1>10 DEF Close, Exit, Tick, vars, processVars
  <2> QED
    BY <1>3, <1>4, <2>1 DEF KnowsDisk
<1>11. CASE Start
  BY <1>4, <1>11 DEF Start, KnowsDisk
<1>12. ~Crash /\ \A e \in Events : ~StatFails(e)
  BY <1>1 DEF Crash, StatFails
<1> QED
  BY <1>5, <1>6, <1>7, <1>8, <1>9, <1>10, <1>11, <1>12 DEF Next

\* Through any number of rotations, restarts and weeks, an event that is sent
\* again is stored once, as long as no file operation has failed.
THEOREM StoredOnce == Spec => []OnceUnlessFaulty
<1>1. Init => OnceInv
  BY DEF Init, OnceInv, Once, KnowsDisk, OnDisk
<1>2. StorageInv /\ OnceInv /\ [Next]_vars => OnceInv'
  BY OnceNext
<1>3. OnceInv => OnceUnlessFaulty
  BY DEF OnceInv, Once, OnceUnlessFaulty
<1> QED
  BY <1>1, <1>2, <1>3, StorageInductive, PTL DEF Spec
-------------------------------------------------------------------------------
(***************************************************************************)
(* Reading.  Until something fails every record is whole, so that with     *)
(* lines no longer than the scanner takes every file parses.               *)
(***************************************************************************)
LinesFit == \A e \in Events : SizeOf[e] <= LineLimit

AllWhole ==
    \A n \in DOMAIN disk : \A i \in DOMAIN disk[n].records : Whole(disk[n].records[i])

WholeInv == faults = 0 => AllWhole /\ process # "fatal"

LEMMA WholeFilesParse ==
    ASSUME LinesFit, DiskInv, AllWhole
    PROVE  AllParse
<1> SUFFICES ASSUME NEW n \in DOMAIN disk, NEW i \in DOMAIN disk[n].records
             PROVE  disk[n].records[i].size <= LineLimit
  BY DEF AllWhole, AllParse, Parses
<1>1. disk[n].records \in Seq(Record)
  BY DEF DiskInv, FileOK
<1>2. disk[n].records[i] \in Record
  BY <1>1
<1>3. disk[n].records[i].event \in Events
  BY <1>2 DEF Record
<1> QED
  BY <1>3 DEF LinesFit, AllWhole, Whole

\* While nothing fails every step leaves the records whole.
LEMMA WholeNext ==
    ASSUME LinesFit, StorageInv, WholeInv, [Next]_vars
    PROVE  WholeInv'
<1> SUFFICES ASSUME faults' = 0  PROVE AllWhole' /\ process' # "fatal"
  BY DEF WholeInv
<1>1. faults \in Nat /\ ~Fault
  BY StorageAssumption DEF StorageInv, SimpleTypes, Fault
<1>2. faults = 0
  BY <1>1 DEF Next, BeginStore, StatFails, OpenFile, WriteRecord, SyncAndClose, Rotate,
              Close, Exit, Crash, Start, Tick, vars, boundVars
<1>3. AllWhole /\ process # "fatal"
  BY <1>2 DEF WholeInv
<1>4. CASE OpenFile
  <2>1. /\ disk' = [n \in DOMAIN disk \union {writer.name} |->
                      IF n \in DOMAIN disk THEN disk[n]
                      ELSE [records |-> <<>>, size |-> 0, time |-> now]]
        /\ process' = process
    BY <1>1, <1>4 DEF OpenFile, processVars
  <2> QED
    BY <1>3, <2>1 DEF AllWhole, Whole
<1>5. CASE WriteRecord
  <2> DEFINE w == writer.event
             name == writer.name
             q == disk[name].records
  <2>1. /\ w \in Events /\ name \in DOMAIN disk /\ q \in Seq(Record) /\ process' = process
    BY <1>5 DEF WriteRecord, StorageInv, WriterInv, DiskInv, FileOK, Idle, processVars
  <2>2. PICK size \in 0..SizeOf[w] :
           /\ disk' = [disk EXCEPT ![name] = Appended(@, w, size)]
           /\ size # SizeOf[w] => Fault
    BY <1>5 DEF WriteRecord
  <2>3. size = SizeOf[w] /\ SizeOf[w] \in Nat \ {0, 1}
    BY <1>1, <2>1, <2>2, StorageAssumption
  <2> DEFINE r == [event |-> w, size |-> SizeOf[w]]
  <2>4. /\ DOMAIN disk' = DOMAIN disk
        /\ \A n \in DOMAIN disk : n # name => disk'[n] = disk[n]
        /\ disk'[name].records = Append(q, r)
    BY <2>1, <2>2, <2>3 DEF Appended
  <2>5. r \in Record /\ Whole(r)
    BY <2>1, <2>3 DEF Record, Whole
  <2>6. \A i \in DOMAIN Append(q, r) :
           Append(q, r)[i] = r \/ (i \in DOMAIN q /\ Append(q, r)[i] = q[i])
    BY <2>1, <2>5
  <2>7. ASSUME NEW n \in DOMAIN disk', NEW i \in DOMAIN disk'[n].records
        PROVE  Whole(disk'[n].records[i])
    <3> HIDE DEF r, q
    <3>1. CASE n # name
      BY <1>3, <2>4, <3>1 DEF AllWhole
    <3>2. CASE n = name
      BY <1>3, <2>1, <2>4, <2>5, <2>6, <3>2 DEF AllWhole, q
    <3> QED
      BY <3>1, <3>2
  <2>8. AllWhole'
    BY <2>7 DEF AllWhole, Whole
  <2> QED
    BY <1>3, <2>1, <2>8
<1>6. CASE Rotate
  <2>1. /\ \A n \in DOMAIN disk' : n \in DOMAIN disk /\ disk'[n] = disk[n]
        /\ process' = process
    BY <1>6 DEF Rotate
  <2> QED
    BY <1>3, <2>1 DEF AllWhole, Whole
<1>7. CASE Start
  <2>1. AllParse
    BY <1>3, WholeFilesParse DEF StorageInv
  <2> QED
    BY <1>3, <1>7, <2>1 DEF Start, AllWhole, Whole
<1>8. ASSUME UNCHANGED disk, process' = process \/ process' = "down"
      PROVE  AllWhole' /\ process' # "fatal"
  BY <1>3, <1>8 DEF AllWhole, Whole
<1>9. \/ OpenFile \/ WriteRecord \/ Rotate \/ Start
      \/ UNCHANGED disk /\ (process' = process \/ process' = "down")
  BY <1>1 DEF Next, BeginStore, StatFails, SyncAndClose, Close, Exit, Crash, Tick, vars,
              processVars
<1> QED
  BY <1>4, <1>5, <1>6, <1>7, <1>8, <1>9

\* When every line fits, what was acknowledged is found, and every start
\* succeeds, until a file operation fails: whatever files rotations, weeks and
\* restarts leave before the event's own.
LEMMA WholeReadable ==
    ASSUME LinesFit, StorageInv, WholeInv
    PROVE  ReadableUnlessFaulty
<1> SUFFICES ASSUME faults = 0, Free, NEW e \in promised  PROVE GetFinds(e)
  BY DEF ReadableUnlessFaulty, PromisedReadable, WholeInv
<1>1. AllParse
  BY WholeFilesParse DEF StorageInv, WholeInv
<1>2. e \in known /\ OnDisk(e)
  BY DEF StorageInv, KnownInv, Free
<1> QED
  BY <1>1, <1>2 DEF GetFinds, OnDisk, AllParse

\* Get and the next start read everything that Store has acknowledged, as long
\* as no operation has failed and no record is longer than a line may be; one
\* that is longer makes its file unreadable (json_file_storage.go:371).
THEOREM AcknowledgedReadable ==
    ASSUME LinesFit
    PROVE  Spec => []ReadableUnlessFaulty
<1>1. Init => WholeInv
  BY DEF Init, WholeInv, AllWhole
<1>2. StorageInv /\ WholeInv /\ [Next]_vars => WholeInv'
  BY WholeNext
<1>3. StorageInv /\ WholeInv => ReadableUnlessFaulty
  BY WholeReadable
<1> QED
  BY <1>1, <1>2, <1>3, StorageInductive, PTL DEF Spec
===============================================================================
