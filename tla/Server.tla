-------------------------------- MODULE Server --------------------------------
(***************************************************************************)
(* The service from its start to its end and its next start                *)
(* (cmd/server/main.go): the dispatcher, whose workers store the events in *)
(* the JSON file storage, under a process that is told to stop, exits or   *)
(* crashes at any time.                                                    *)
(*                                                                         *)
(* Dispatcher is extended, its workers' Store replaced by the steps of the *)
(* storage, which one worker at a time takes under the storage's lock.     *)
(* JSONFileStorage is an instance.  Nobody calls Dispatcher.Shutdown:      *)
(* Handler.Shutdown is empty and main does not call it.  Nobody calls      *)
(* Rotate either, so that events do not expire.  Every context of a job is *)
(* context.Background().                                                   *)
(***************************************************************************)
EXTENDS DispatcherLedger

CONSTANTS
    EventOf,  \* the event of each job: a producer may send an event again
    Events, SizeOf, MaxFileSize, LineLimit, WeekLength, Retention, MaxTime,
    MaxFaults, MaxRestarts  \* those of JSONFileStorage

ASSUME ServerAssumption ==
    /\ EventOf \in [Jobs -> Events]
    /\ Stoppers = {} /\ Cancellable = {}
    /\ NoOne \notin Workers

\* What JSONFileStorage assumes of its constants.
ASSUME ServerStorageAssumption ==
    /\ SizeOf \in [Events -> Nat \ {0, 1}]
    /\ MaxFileSize \in Nat \ {0}
    /\ LineLimit \in Nat /\ WeekLength \in Nat \ {0} /\ Retention \in Nat \ {0}
    /\ MaxTime \in Nat /\ MaxFaults \in Nat /\ MaxRestarts \in Nat

VARIABLES
    disk, process, storeClosed, known, writer, now, promised, expired,
    writtenAt, faults, restarts,  \* those of JSONFileStorage
    storing  \* the worker that is inside Store and has its lock, or NoOne

S == INSTANCE JSONFileStorage WITH closed <- storeClosed

dispatcherVars == vars
storageVars == <<disk, process, storeClosed, known, writer, now, promised,
                 expired, writtenAt, faults, restarts, storing>>
serverVars == <<dispatcherVars, storageVars>>

\* main: the storage reads its files, then the dispatcher starts its workers.
ServerInit == Init /\ S!Init /\ storing = NoOne
-------------------------------------------------------------------------------
(***************************************************************************)
(* The running service.                                                    *)
(***************************************************************************)
\* A connection goes on with a submission.  Connections are hijacked from the
\* HTTP server, which neither waits for them nor ends them when it is shut
\* down: they go on until the process ends.
ProducerStep(j) == process = "up" /\ CallerStep(j) /\ UNCHANGED storageVars

\* A worker goes on outside of Store.
PoolStep(w) ==
    /\ process = "up"
    /\ TakeJob(w) \/ Process(w) \/ Publish(w) \/ Reply(w) \/ CloseAck(w)
    /\ UNCHANGED storageVars

\* Store returns to the worker with nil, or with an error.
StoreReturns(w, ok) == Store(w) /\ failed'[w] = ~ok

\* Faulty variant: a closed store does not answer.
StoreRefusesKnown(w) ==
    /\ S!Free
    /\ at[w] = "store"
    /\ EventOf[holding[w]] \in known
    /\ StoreReturns(w, FALSE)
    /\ UNCHANGED storageVars

\* The store is closed, or has the event: the worker of a retry is told that
\* it exists.  Or os.Stat fails.
StoreRefuses(w) ==
    /\ at[w] = "store"
    /\ \/ /\ S!Free
          /\ storeClosed \/ EventOf[holding[w]] \in known
          /\ UNCHANGED storageVars
       \/ S!StatFails(EventOf[holding[w]]) /\ UNCHANGED storing
    /\ StoreReturns(w, FALSE)

StoreBegins(w) ==
    /\ at[w] = "store"
    /\ S!BeginStore(EventOf[holding[w]])
    /\ storing' = w
    /\ UNCHANGED dispatcherVars

\* Faulty variant: Store returns before Sync, the rest goes on behind it.
StoreGoesUnsynced(w) ==
    /\ storing = w
    /\ S!OpenFile \/ S!WriteRecord \/ S!SyncAndClose
    /\ storing' = IF writer' = S!Idle THEN NoOne ELSE w
    /\ IF writer.phase # "sync" /\ writer' = S!Idle THEN StoreReturns(w, FALSE)
       ELSE IF writer.phase = "write" THEN StoreReturns(w, TRUE)
       ELSE UNCHANGED dispatcherVars

\* The next call of the file system.  The last one ends Store, with nil only
\* if none has failed.
StoreGoes(w) ==
    /\ storing = w
    /\ S!OpenFile \/ S!WriteRecord \/ S!SyncAndClose
    /\ IF writer' = S!Idle
         THEN storing' = NoOne /\ StoreReturns(w, known' # known)
         ELSE UNCHANGED <<storing, dispatcherVars>>

ServerWorkerStep(w) ==
    PoolStep(w) \/ StoreRefuses(w) \/ StoreBegins(w) \/ StoreGoes(w)
-------------------------------------------------------------------------------
(***************************************************************************)
(* The end of the process and its next start.                              *)
(***************************************************************************)
\* Goroutines, queue and connections are gone.  verdict, ack, reply, stored
\* and published stay, as the record of what happened.
DispatcherGone ==
    /\ jobs' = <<>> /\ admissionMu' = NoOne
    /\ submit' = [j \in Jobs |-> IF submit[j] = "idle" THEN "idle" ELSE "done"]
    /\ at' = [w \in Workers |-> "idle"]
    /\ holding' = [w \in Workers |-> NoJob]
    /\ failed' = [w \in Workers |-> FALSE]
    /\ storing' = NoOne
    /\ UNCHANGED <<closed, accepting, stopOnce, verdict, reply, ctxDone, ackVars,
                   stored, published, stopVars, panicked>>

\* A signal came and the HTTP server is shut down: the deferred Close, which
\* waits for the worker that has the lock.
Stop == S!Close /\ UNCHANGED <<dispatcherVars, storing>>

\* main returns.
ServerExit == S!Exit /\ DispatcherGone

ServerCrash == S!Crash /\ DispatcherGone

\* main again: a file that cannot be read is fatal.
ServerStart == S!Start /\ UNCHANGED <<dispatcherVars, storing>>

WeekPasses == S!Tick /\ UNCHANGED <<dispatcherVars, storing>>

ServerNext ==
    \/ \E j \in Jobs : ProducerStep(j)
    \/ \E w \in Workers : ServerWorkerStep(w)
    \/ Stop \/ ServerExit \/ ServerCrash \/ ServerStart \/ WeekPasses

ServerSafetySpec == ServerInit /\ [][ServerNext]_serverVars

\* The scheduler runs every worker that can run, and the lock of the storage
\* is given to whoever waits for it.
ServerSpec ==
    /\ ServerSafetySpec
    /\ \A w \in Workers : WF_serverVars(ServerWorkerStep(w))
-------------------------------------------------------------------------------
(***************************************************************************)
(* Properties.                                                             *)
(***************************************************************************)
\* The phase of a submission over the ends of the process.
ServicePhase(j) ==
    IF /\ Accepted(j) /\ ~Outcome(j, "ok") /\ ~Outcome(j, "error")
       /\ ~Queued(j) /\ ~Held(j)
      THEN "lost" ELSE Phase(j)

Service == INSTANCE EventService
             WITH phase <- [j \in Jobs |-> ServicePhase(j)],
                  open <- accepting,
                  quiet <- FALSE,
                  durable <- {e \in {EventOf[j] : j \in stored} : S!OnDisk(e)}

\* Through crashes, exits, restarts and retries every step of the service is
\* one of the abstract service: Store succeeds for an event at most once, none is
\* announced or confirmed before it is on disk, and what is durable stays so ("a
\* durable, searchable record", developer/BLUEPRINT.md:7).  The disk may hold a
\* second record of an event, from an attempt whose sync failed.
ImplementsService == Service!ServiceSpec

\* What a producer was told is stored, or a monitor has seen, is on disk,
\* although the process may have ended at any moment since; and as long as
\* no operation of the file system failed, a running service finds it.
ToldIsDurable ==
    \A j \in Jobs :
       reply[j] = "ok" \/ j \in published =>
          /\ S!OnDisk(EventOf[j])
          /\ faults = 0 /\ S!Free /\ ~storeClosed => S!GetFinds(EventOf[j])

\* Every accepted event gets its outcome unless the process ends first, also
\* when workers queue up for the lock, when the event is there already, when
\* the store is closed under them, and when its operations fail.
AnsweredWhileUp ==
    \A j \in Jobs : Queued(j) \/ Held(j) ~> Answered(j) \/ process # "up"

\* "Drain the bounded processing queue until empty or the shutdown deadline
\* expires. Persist pending events and record failures" and "Events that
\* cannot be persisted before the deadline must be counted and reported"
\* (developer/BLUEPRINT.md section 15): an orderly exit leaves no accepted
\* event unsettled unless a Shutdown of the dispatcher has counted it.
ExitDrainsOrReports ==
    [][ServerExit => Unsettled = {} \/ \E s \in Stoppers : stop[s] = "expired"]_serverVars
===============================================================================
