----------------------------- MODULE ServerProofs ------------------------------
(***************************************************************************)
(* The service keeps what it has told its producers, for any submissions,  *)
(* workers, sizes, faults and restarts: its storage is one of              *)
(* JSONFileStorage, so that the theorems of StorageProofs hold in it; its  *)
(* dispatcher keeps CoreInv through the ends of the process; and each of   *)
(* its steps is one of EventService.                                       *)
(***************************************************************************)
EXTENDS ServerInvariants, DispatcherRefinement

P == INSTANCE StorageProofs WITH closed <- storeClosed

-------------------------------------------------------------------------------
(***************************************************************************)
(* The storage inside the service.                                         *)
(***************************************************************************)
\* The constants are those of a storage.
LEMMA StorageConstants == P!StorageAssumption
BY ServerStorageAssumption DEF P!StorageAssumption

\* fileForWrite looks for the same file in both.
LEMMA SameFile ==
    ASSUME NEW size
    PROVE  S!FileForWrite(size) = P!FileForWrite(size)
<1>1. S!Week = P!Week
  BY DEF S!Week, P!Week
<1>2. \A name : S!Fits(name, size) <=> P!Fits(name, size)
  BY DEF S!Fits, P!Fits
<1>3. S!Cardinality(DOMAIN disk) = P!Cardinality(DOMAIN disk)
  BY DEF S!Cardinality, P!Cardinality
<1> QED
  BY <1>1, <1>2, <1>3 DEF S!FileForWrite, P!FileForWrite

\* The operations of the storage are the ones its theorems are about.
LEMMA SameOperations ==
    /\ S!Init => P!Init
    /\ \A e : S!BeginStore(e) => P!BeginStore(e)
    /\ \A e : S!StatFails(e) => P!StatFails(e)
    /\ S!OpenFile => P!OpenFile
    /\ S!WriteRecord => P!WriteRecord
    /\ S!SyncAndClose => P!SyncAndClose
    /\ S!Close => P!Close
    /\ S!Exit => P!Exit
    /\ S!Crash => P!Crash
    /\ S!Start => P!Start
    /\ S!Tick => P!Tick
<1> USE DEF S!Idle, P!Idle, S!Free, P!Free, S!Fault, P!Fault, S!processVars, P!processVars,
            S!historyVars, P!historyVars, S!boundVars, P!boundVars, S!OnDisk, P!OnDisk,
            S!RecordsOf, P!RecordsOf, S!Whole, P!Whole, S!Unterminated, P!Unterminated
<1>1. S!Init => P!Init
  BY DEF S!Init, P!Init
<1>2. \A e : S!BeginStore(e) => P!BeginStore(e)
  BY SameFile DEF S!BeginStore, P!BeginStore
<1>3. \A e : S!StatFails(e) => P!StatFails(e)
  BY DEF S!StatFails, P!StatFails
<1>4. S!OpenFile => P!OpenFile
  BY DEF S!OpenFile, P!OpenFile
<1>5. S!WriteRecord => P!WriteRecord
  BY DEF S!WriteRecord, P!WriteRecord, S!Appended, P!Appended
<1>6. S!SyncAndClose => P!SyncAndClose
  BY DEF S!SyncAndClose, P!SyncAndClose
<1>7. (S!Close => P!Close) /\ (S!Exit => P!Exit) /\ (S!Tick => P!Tick)
  BY DEF S!Close, P!Close, S!Exit, P!Exit, S!Tick, P!Tick
<1>8. S!Crash => P!Crash
  BY DEF S!Crash, P!Crash, S!Torn, P!Torn
<1>9. S!Start => P!Start
  BY DEF S!Start, P!Start, S!AllParse, P!AllParse, S!Parses, P!Parses
<1> QED
  BY <1>1, <1>2, <1>3, <1>4, <1>5, <1>6, <1>7, <1>8, <1>9

\* A worker that is in Store has a job.
LEMMA StoringJob ==
    ASSUME CoreInv, NEW w \in Workers, at[w] = "store"
    PROVE  /\ holding[w] \in Jobs /\ Held(holding[w])
           /\ EventOf[holding[w]] \in Events
<1>1. holding[w] \in Jobs
  BY DEF CoreInv, TypeOK, WorkerInv
<1> QED
  BY <1>1, ServerAssumption DEF Held

\* Every step of the service is one of its storage, or leaves it alone.
LEMMA StorageStep ==
    ASSUME CoreInv, [ServerNext]_serverVars
    PROVE  [P!Next]_(P!vars)
<1>1. CASE UNCHANGED storageVars
  BY <1>1 DEF storageVars, P!vars, P!processVars, P!historyVars, P!boundVars
<1>2. CASE Stop \/ ServerExit \/ ServerCrash \/ ServerStart \/ WeekPasses
  BY <1>2, SameOperations
     DEF Stop, ServerExit, ServerCrash, ServerStart, WeekPasses, P!Next
<1>3. ASSUME NEW w \in Workers, StoreRefuses(w), ~UNCHANGED storageVars
      PROVE  P!Next
  <2>1. at[w] = "store" /\ S!StatFails(EventOf[holding[w]])
    BY <1>3 DEF StoreRefuses
  <2> QED
    BY <2>1, SameOperations, StoringJob DEF P!Next
<1>4. ASSUME NEW w \in Workers, StoreBegins(w)
      PROVE  P!Next
  <2>1. at[w] = "store" /\ S!BeginStore(EventOf[holding[w]])
    BY <1>4 DEF StoreBegins
  <2> QED
    BY <2>1, SameOperations, StoringJob DEF P!Next
<1>5. ASSUME NEW w \in Workers, StoreGoes(w)
      PROVE  P!Next
  BY <1>5, SameOperations DEF StoreGoes, P!Next
<1>6. ASSUME NEW j \in Jobs, ProducerStep(j)
      PROVE  UNCHANGED storageVars
  BY <1>6 DEF ProducerStep
<1>7. ASSUME NEW w \in Workers, PoolStep(w)
      PROVE  UNCHANGED storageVars
  BY <1>7 DEF PoolStep
<1>8. UNCHANGED serverVars => UNCHANGED storageVars
  BY DEF serverVars
<1> QED
  BY <1>1, <1>2, <1>3, <1>4, <1>5, <1>6, <1>7, <1>8 DEF ServerNext, ServerWorkerStep
-------------------------------------------------------------------------------
(***************************************************************************)
(* The dispatcher inside the service.                                      *)
(***************************************************************************)
\* Unless the process ends, a step of the service is one of the dispatcher, or
\* leaves it alone.
LEMMA DispatcherStep ==
    ASSUME [ServerNext]_serverVars
    PROVE  \/ \E j \in Jobs : ProducerStep(j) /\ CallerStep(j)
           \/ \E w \in Workers : ServerWorkerStep(w) /\ WorkerStep(w)
           \/ UNCHANGED vars
           \/ ServerExit \/ ServerCrash
<1>1. ASSUME NEW w \in Workers, ServerWorkerStep(w)
      PROVE  WorkerStep(w) \/ UNCHANGED vars
  BY <1>1 DEF ServerWorkerStep, PoolStep, StoreRefuses, StoreBegins, StoreGoes,
              StoreReturns, WorkerStep, dispatcherVars
<1>2. ASSUME NEW j \in Jobs, ProducerStep(j)
      PROVE  CallerStep(j)
  BY <1>2 DEF ProducerStep
<1> QED
  BY <1>1, <1>2 DEF ServerNext, Stop, ServerStart, WeekPasses, serverVars, dispatcherVars

\* The end of the process leaves an empty dispatcher and its record.
LEMMA CoreGone ==
    ASSUME CoreInv, DispatcherGone
    PROVE  /\ CoreInv'
           /\ \A j \in Jobs : Lost(j)' <=> Accepted(j) /\ ~Answered(j)
<1> USE NamesAssumption DEF CoreInv, DispatcherGone, ackVars, stopVars
<1>1. jobs' = <<>> /\ Len(jobs') = 0 /\ jobs' \in Seq(Jobs)
  BY EmptySeq
<1>2. /\ \A j \in Jobs : ~Queued(j)' /\ ~Held(j)'
      /\ \A j \in Jobs : Accepted(j)' <=> Accepted(j)
      /\ \A j \in Jobs : Answered(j)' <=> Answered(j)
  BY <1>1 DEF Queued, Held, Accepted, Answered
<1>3. TypeOK'
  BY <1>1, QueueSizeAssumption DEF TypeOK, SubmitStates, WorkerStates
<1>4. NoPanic' /\ MutexInv' /\ OnceInv' /\ WorkerInv'
  <2>1. \A s \in Stoppers : FALSE
    BY ServerAssumption
  <2> QED
    BY <2>1 DEF TypeOK, NoPanic, MutexInv, OnceInv, WorkerInv
<1>5. VerdictInv'
  BY DEF TypeOK, VerdictInv
<1>6. PlaceInv'
  BY <1>1, <1>2 DEF PlaceInv
<1>7. EffectInv'
  <2>1. \A j : /\ Silent(j)' <=> Silent(j)
               /\ NoEffect(j)' <=> NoEffect(j)
               /\ Settled(j)' <=> Settled(j)
    BY DEF Silent, NoEffect, Settled, Given
  <2>2. \A w \in Workers : WorkerEffect(w)'
    BY DEF WorkerEffect
  <2> QED
    BY <1>2, <2>1, <2>2 DEF EffectInv
<1>8. DrainInv'
  BY ServerAssumption DEF DrainInv
<1>9. \A j \in Jobs : Lost(j)' <=> Accepted(j) /\ ~Answered(j)
  BY <1>2 DEF Lost
<1> QED
  BY <1>3, <1>4, <1>5, <1>6, <1>7, <1>8, <1>9 DEF CoreInv

\* What is on record of a job, and that nobody waits for it.
Recorded(k) ==
    /\ submit[k] = "done"
    /\ \/ Silent(k) /\ (k \in published => k \in stored)
       \/ Settled(k)

\* In every state of the dispatcher a job has either no outcome, and is
\* published only if it is stored, or the one that tells what happened to it.
LEMMA JobRecord ==
    ASSUME CoreInv, LostInv, NEW j \in Jobs
    PROVE  \/ Silent(j) /\ (j \in published => j \in stored)
           \/ Settled(j)
<1>1. CASE Held(j)
  <2>1. PICK w \in Workers : holding[w] = j
    BY <1>1 DEF Held
  <2>2. at[w] \in {"process", "store", "publish", "reply", "close"}
    BY <2>1, NamesAssumption DEF CoreInv, TypeOK, WorkerInv, WorkerStates
  <2>3. WorkerEffect(w)
    BY DEF CoreInv, EffectInv
  <2> QED
    BY <2>1, <2>2, <2>3 DEF WorkerEffect, NoEffect
<1>2. CASE Lost(j)
  BY <1>2 DEF LostInv
<1>3. CASE Answered(j) \/ Queued(j) \/ ~Accepted(j)
  BY <1>3 DEF CoreInv, EffectInv, Answered, NoEffect
<1> QED
  BY <1>1, <1>2, <1>3 DEF Lost

\* No step of the dispatcher touches a lost job.
LEMMA LostStays ==
    ASSUME CoreInv, LostInv, NEW k \in Jobs, Lost(k),
           \/ \E j \in Jobs : CallerStep(j)
           \/ \E w \in Workers : WorkerStep(w)
           \/ UNCHANGED vars
    PROVE  Recorded(k)'
<1>1. Recorded(k)
  BY DEF LostInv, Recorded
<1>2. CASE UNCHANGED vars
  BY <1>1, <1>2 DEF vars, callerVars, ackVars, workerVars, Recorded, Silent, Settled, Given,
                    NoEffect
<1>3. ASSUME NEW j \in Jobs, CallerStep(j)
      PROVE  Recorded(k)'
  <2>1. UNCHANGED <<stored, published>>
    BY <1>3 DEF CallerStep, CallSubmit, CancelContext, SubmitStep, Enter, SelectSend,
                SelectCancelled, SelectDefault, ReturnVerdict, ReceiveResult, GiveUp,
                CallerFrame, workerVars
  <2>2. submit'[k] = "done" /\ reply'[k] = reply[k] /\ ack'[k] = ack[k]
    BY <1>1, <1>3
    DEF Recorded, CoreInv, TypeOK, CallerStep, CallSubmit, CancelContext, SubmitStep,
        Enter, SelectSend, SelectCancelled, SelectDefault, ReturnVerdict, ReceiveResult,
        GiveUp, ackVars
  <2> QED
    BY <1>1, <2>1, <2>2 DEF Recorded, Silent, Settled, Given, NoEffect
<1>4. ASSUME NEW w \in Workers, WorkerStep(w)
      PROVE  Recorded(k)'
  <2>1. submit' = submit /\ reply' = reply
    BY <1>4, WorkerLeaves DEF WorkerFrame, callerVars
  <2>2. holding[w] # k
    BY DEF Lost, Held
  <2>3. /\ ack'[k] = ack[k]
        /\ k \in stored' <=> k \in stored
        /\ k \in published' <=> k \in published
    BY <1>4, <2>2
    DEF CoreInv, TypeOK, WorkerStep, TakeJob, Process, Store, Attempt, Publish, Reply,
        SendResult, CloseAck, Exit, ackVars
  <2> QED
    BY <1>1, <2>1, <2>3 DEF Recorded, Silent, Settled, Given, NoEffect
<1> QED
  BY <1>2, <1>3, <1>4
-------------------------------------------------------------------------------
(***************************************************************************)
(* The inductive invariant.                                                *)
(***************************************************************************)
\* The end of the process.
LEMMA GoneInv ==
    ASSUME ServerInv, ServerExit \/ ServerCrash
    PROVE  ServerInv'
<1> USE DEF ServerInv
<1>1. DispatcherGone
  BY DEF ServerExit, ServerCrash
<1>2. CoreInv' /\ \A j \in Jobs : Lost(j)' <=> Accepted(j) /\ ~Answered(j)
  BY <1>1, CoreGone
<1>3. StoringInv'
  <2>1. storing' = NoOne
    BY <1>1 DEF DispatcherGone
  <2>2. writer' = S!Idle
    BY DEF ServerExit, ServerCrash, S!Exit, S!Free, S!Crash
  <2> QED
    BY <2>1, <2>2, ServerAssumption DEF StoringInv, S!Idle
<1>4. StoredInv'
  <2>1. stored' = stored
    BY <1>1 DEF DispatcherGone
  <2>2. promised' = promised
    BY DEF ServerExit, ServerCrash, S!Exit, S!Crash, S!historyVars
  <2> QED
    BY <2>1, <2>2 DEF StoredInv
<1>5. ASSUME NEW j \in Jobs, Lost(j)'
      PROVE  Recorded(j)'
  <2>1. Accepted(j) /\ ~Answered(j)
    BY <1>2, <1>5
  <2>2. submit[j] # "idle"
    BY <2>1 DEF CoreInv, VerdictInv, Accepted
  <2>3. submit'[j] = "done"
    BY <1>1, <2>2 DEF DispatcherGone
  <2>4. UNCHANGED <<ack, reply, stored, published>>
    BY <1>1 DEF DispatcherGone, ackVars
  <2>5. \/ Silent(j) /\ (j \in published => j \in stored)
        \/ Settled(j)
    BY JobRecord
  <2> QED
    BY <2>3, <2>4, <2>5 DEF Recorded, Silent, Settled, Given, NoEffect
<1>6. LostInv'
  BY <1>5 DEF LostInv, Recorded
<1> QED
  BY <1>2, <1>3, <1>4, <1>6

\* Outside of the ends of the process the dispatcher keeps its part.
LEMMA DispatcherKeeps ==
    ASSUME CoreInv, LostInv, [ServerNext]_serverVars, ~ServerExit, ~ServerCrash
    PROVE  /\ CoreInv' /\ LostInv'
           /\ \A j \in Jobs : Lost(j)' <=> Lost(j)
<1>1. [Next]_vars
  BY DispatcherStep DEF Next
<1>2. CoreInv' /\ \A j \in Jobs : Lost(j)' <=> Lost(j)
  BY <1>1, CoreStep
<1>3. ASSUME NEW k \in Jobs, Lost(k)  PROVE Recorded(k)'
  BY <1>3, DispatcherStep, LostStays
<1> QED
  BY <1>2, <1>3 DEF LostInv, Recorded

\* What StoreGoes does when it ends Store with nil.
LEMMA StoreSucceeds ==
    ASSUME ServerInv, P!StorageInv, NEW w \in Workers, StoreGoes(w), Store(w), ~failed'[w]
    PROVE  /\ holding[w] \in Jobs
           /\ writer.event = EventOf[holding[w]] /\ writer.event \in Events
           /\ writer.event \notin known /\ process = "up"
           /\ S!SyncAndClose
           /\ promised' = promised \union {writer.event}
<1> USE DEF ServerInv
<1>1. /\ at[w] = "store" /\ writer.event = EventOf[holding[w]]
  BY DEF StoreGoes, StoringInv
<1>2. holding[w] \in Jobs /\ EventOf[holding[w]] \in Events
  BY <1>1, StoringJob
<1>3. writer' = S!Idle /\ known' # known
  <2>1. CASE writer' = S!Idle
    <3>1. failed'[w] = ~(known' # known)
      BY <2>1 DEF StoreGoes, StoreReturns
    <3> QED
      BY <2>1, <3>1
  <2>2. CASE writer' # S!Idle
    <3>1. UNCHANGED dispatcherVars
      BY <2>2 DEF StoreGoes
    <3>2. at' = at
      BY <3>1 DEF dispatcherVars, vars, workerVars
    <3>3. at'[w] # "store"
      BY <1>1 DEF Store, Attempt, CoreInv, TypeOK
    <3> QED
      BY <1>1, <3>2, <3>3
  <2> QED
    BY <2>1, <2>2
<1>4. S!SyncAndClose /\ promised' = promised \union {writer.event}
  BY <1>3 DEF StoreGoes, S!OpenFile, S!WriteRecord, S!SyncAndClose, S!processVars
<1>5. writer # S!Idle
  BY <1>4 DEF S!SyncAndClose, S!Idle
<1>6. writer.event \notin known /\ process = "up"
  BY <1>5 DEF P!StorageInv, P!WriterInv, S!Idle, P!Idle
<1> QED
  BY <1>1, <1>2, <1>4, <1>6

\* A worker's Store returns nil only at the end of its calls of the file system.
LEMMA StoreEnds ==
    ASSUME CoreInv, NEW w \in Workers, ServerWorkerStep(w), Store(w), ~failed'[w]
    PROVE  StoreGoes(w)
<1>1. at[w] = "store" /\ at'[w] # "store"
  BY DEF Store, Attempt, CoreInv, TypeOK
<1>2. ~PoolStep(w)
  BY <1>1 DEF PoolStep, TakeJob, Process, Attempt, Publish, Reply, SendResult, CloseAck
<1>3. ~StoreRefuses(w)
  BY DEF StoreRefuses, StoreReturns
<1>4. ~StoreBegins(w)
  BY <1>1 DEF StoreBegins, dispatcherVars, vars, workerVars
<1> QED
  BY <1>2, <1>3, <1>4 DEF ServerWorkerStep

\* What Store has returned nil for is promised, and only Store adds to it.
LEMMA StoredKept ==
    ASSUME ServerInv, P!StorageInv, [ServerNext]_serverVars
    PROVE  StoredInv'
<1> USE DEF ServerInv
<1>1. promised \subseteq promised'
  BY DEF ServerNext, ServerWorkerStep, ProducerStep, PoolStep, StoreRefuses, StoreBegins,
         StoreGoes, Stop, ServerExit, ServerCrash, ServerStart, WeekPasses, storageVars,
         S!BeginStore, S!StatFails, S!OpenFile, S!WriteRecord, S!SyncAndClose, S!Close,
         S!Exit, S!Crash, S!Start, S!Tick, S!historyVars, serverVars
<1>2. ASSUME stored' = stored  PROVE StoredInv'
  BY <1>1, <1>2 DEF StoredInv
<1>3. ASSUME NEW w \in Workers, ServerWorkerStep(w), WorkerStep(w), stored' # stored
      PROVE  StoredInv'
  <2>1. /\ Store(w) /\ ~failed'[w]
        /\ stored' = stored \union {holding[w]}
    BY <1>3, WorkerMoves
  <2>2. StoreGoes(w)
    BY <1>3, <2>1, StoreEnds
  <2>3. EventOf[holding[w]] \in promised'
    BY <2>1, <2>2, StoreSucceeds
  <2> QED
    BY <1>1, <2>1, <2>3 DEF StoredInv
<1>4. ASSUME NEW j \in Jobs, CallerStep(j)  PROVE stored' = stored
  BY <1>4, CallerMoves
<1>5. UNCHANGED vars \/ ServerExit \/ ServerCrash => stored' = stored
  BY DEF vars, workerVars, ServerExit, ServerCrash, DispatcherGone
<1> QED
  BY <1>2, <1>3, <1>4, <1>5, DispatcherStep

\* A worker stays in Store, with its job, as long as the storage writes for it.
LEMMA StoringKept ==
    ASSUME ServerInv, P!StorageInv, [ServerNext]_serverVars, ~ServerExit, ~ServerCrash
    PROVE  StoringInv'
<1> USE DEF ServerInv
<1>1. ASSUME UNCHANGED <<storing, writer>>, UNCHANGED dispatcherVars
      PROVE  StoringInv'
  BY <1>1 DEF StoringInv, dispatcherVars, vars, workerVars, S!Idle
<1>2. ASSUME NEW w \in Workers, WorkerStep(w), storing # w, UNCHANGED <<storing, writer>>
      PROVE  StoringInv'
  <2>1. \A v \in Workers \ {w} : at'[v] = at[v] /\ holding'[v] = holding[v]
    BY <1>2 DEF CoreInv, TypeOK, WorkerStep, TakeJob, Process, Store, Attempt, Publish,
                Reply, SendResult, CloseAck, Exit
  <2> QED
    BY <1>2, <2>1 DEF StoringInv, S!Idle
<1>3. ASSUME NEW j \in Jobs, ProducerStep(j)
      PROVE  StoringInv'
  <2>1. UNCHANGED <<storing, writer>> /\ UNCHANGED workerVars
    BY <1>3 DEF ProducerStep, storageVars, CallerStep, CallSubmit, CancelContext,
                SubmitStep, Enter, SelectSend, SelectCancelled, SelectDefault,
                ReturnVerdict, ReceiveResult, GiveUp, CallerFrame
  <2> QED
    BY <2>1 DEF StoringInv, workerVars, S!Idle
<1>4. ASSUME NEW w \in Workers, PoolStep(w)
      PROVE  StoringInv'
  <2>1. at[w] # "store"
    BY <1>4 DEF PoolStep, TakeJob, Process, Attempt, Publish, Reply, CloseAck
  <2>2. WorkerStep(w) /\ UNCHANGED <<storing, writer>>
    BY <1>4 DEF PoolStep, WorkerStep, storageVars
  <2> QED
    BY <1>2, <2>1, <2>2 DEF StoringInv
<1>5. ASSUME NEW w \in Workers, StoreRefuses(w)
      PROVE  StoringInv'
  <2>1. writer = S!Idle /\ UNCHANGED <<storing, writer>> /\ WorkerStep(w)
    BY <1>5 DEF StoreRefuses, S!Free, S!StatFails, storageVars, StoreReturns, WorkerStep
  <2>2. storing # w
    BY <2>1, ServerAssumption DEF StoringInv
  <2> QED
    BY <1>2, <2>1, <2>2
<1>6. ASSUME NEW w \in Workers, StoreBegins(w)
      PROVE  StoringInv'
  <2>1. /\ at'[w] = "store" /\ holding' = holding /\ storing' = w
        /\ writer'.event = EventOf[holding[w]] /\ writer' # S!Idle
    BY <1>6 DEF StoreBegins, dispatcherVars, vars, workerVars, S!BeginStore, S!Idle
  <2> QED
    BY <2>1, ServerAssumption DEF StoringInv, S!Idle
<1>7. ASSUME NEW w \in Workers, StoreGoes(w)
      PROVE  StoringInv'
  <2>1. CASE writer' = S!Idle
    BY <1>7, <2>1, ServerAssumption DEF StoreGoes, StoringInv, S!Idle
  <2>2. CASE writer' # S!Idle
    <3>1. /\ storing = w /\ storing' = w
          /\ UNCHANGED dispatcherVars
      BY <1>7, <2>2 DEF StoreGoes
    <3>2. at' = at /\ holding' = holding
      BY <3>1 DEF dispatcherVars, vars, workerVars
    <3>3. writer'.event = writer.event
      <4>1. writer # S!Idle
        BY <3>1, ServerAssumption DEF StoringInv
      <4>2. writer \in [phase : {"open", "write", "sync"}, event : Events,
                        name : Nat \X Nat]
        BY <4>1 DEF P!StorageInv, P!WriterInv, P!Idle, S!Idle
      <4> QED
        BY <1>7, <2>2, <4>2
           DEF StoreGoes, S!OpenFile, S!WriteRecord, S!SyncAndClose
    <3> QED
      BY <2>2, <3>1, <3>2, <3>3, ServerAssumption DEF StoringInv, S!Idle
  <2> QED
    BY <2>1, <2>2
<1>8. ASSUME Stop \/ ServerStart \/ WeekPasses \/ UNCHANGED serverVars
      PROVE  UNCHANGED <<storing, writer>> /\ UNCHANGED dispatcherVars
  BY <1>8 DEF Stop, ServerStart, WeekPasses, serverVars, storageVars, S!Close, S!Start,
              S!Tick
<1> QED
  BY <1>1, <1>3, <1>4, <1>5, <1>6, <1>7, <1>8 DEF ServerNext, ServerWorkerStep

\* The whole invariant of the service: its own, and that of its storage.
ServiceInv == ServerInv /\ P!StorageInv

LEMMA ServiceInit == ServerInit => ServiceInv
<1> SUFFICES ASSUME ServerInit  PROVE ServiceInv
  OBVIOUS
<1>1. P!StorageInv
  <2>1. P!Init
    BY SameOperations DEF ServerInit
  <2> QED
    BY <2>1, StorageConstants, P!StorageInit
<1>2. IInv
  BY InitInductive DEF ServerInit
<1>3. StoringInv
  BY ServerAssumption DEF StoringInv, ServerInit, S!Init, S!Idle
<1>4. StoredInv
  BY DEF StoredInv, ServerInit, Init
<1> QED
  BY <1>1, <1>2, <1>3, <1>4 DEF ServiceInv, ServerInv, LostInv, IInv

LEMMA ServiceNext == ServiceInv /\ [ServerNext]_serverVars => ServiceInv'
<1> SUFFICES ASSUME ServiceInv, [ServerNext]_serverVars  PROVE ServiceInv'
  OBVIOUS
<1> USE DEF ServiceInv
<1>1. P!StorageInv'
  <2>1. [P!Next]_(P!vars)
    BY StorageStep DEF ServerInv
  <2> QED
    BY <2>1, StorageConstants, P!StorageNext
<1>2. CASE ServerExit \/ ServerCrash
  BY <1>1, <1>2, GoneInv
<1>3. CASE ~ServerExit /\ ~ServerCrash
  <2>1. CoreInv' /\ LostInv'
    BY <1>3, DispatcherKeeps DEF ServerInv
  <2>2. StoringInv' /\ StoredInv'
    BY <1>3, StoringKept, StoredKept
  <2> QED
    BY <1>1, <2>1, <2>2 DEF ServerInv
<1> QED
  BY <1>2, <1>3

\* The invariant of the dispatcher and that of the storage hold together in the
\* service, through every end of the process and every start.
THEOREM ServiceInductive == ServerSafetySpec => []ServiceInv
  BY ServiceInit, ServiceNext, PTL DEF ServerSafetySpec

\* What the workers, the signals and the ends of the process do to the storage
\* is what JSONFileStorage specifies, so that its theorems hold in the service.
THEOREM ServiceStores == ServerSafetySpec => P!Spec
<1>1. ServerInit => P!Init
  BY SameOperations DEF ServerInit
<1>2. ServiceInv /\ [ServerNext]_serverVars => [P!Next]_(P!vars)
  BY StorageStep DEF ServiceInv, ServerInv
<1> QED
  BY <1>1, <1>2, ServiceInductive, PTL DEF ServerSafetySpec, P!Spec
-------------------------------------------------------------------------------
(***************************************************************************)
(* What producers and monitors were told.                                  *)
(***************************************************************************)
\* Reading and looking for a record are the same in both.
LEMMA SameReading ==
    /\ \A e : S!OnDisk(e) <=> P!OnDisk(e)
    /\ \A e : S!GetFinds(e) <=> P!GetFinds(e)
<1>1. \A n, e : S!RecordsOf(n, e) = P!RecordsOf(n, e)
  BY DEF S!RecordsOf, P!RecordsOf, S!Whole, P!Whole, S!Unterminated, P!Unterminated
<1>2. \A n : S!Parses(n) <=> P!Parses(n)
  BY DEF S!Parses, P!Parses, S!Whole, P!Whole, S!Unterminated, P!Unterminated
<1> QED
  BY <1>1, <1>2 DEF S!OnDisk, P!OnDisk, S!GetFinds, P!GetFinds, S!NotAfter, P!NotAfter

\* What was told of a job is stored, and acknowledged by the storage.
LEMMA ToldIsPromised ==
    ASSUME ServiceInv, NEW j \in Jobs, reply[j] = "ok" \/ j \in published
    PROVE  EventOf[j] \in promised
<1>1. \/ Silent(j) /\ (j \in published => j \in stored)
      \/ Settled(j)
  BY JobRecord DEF ServiceInv, ServerInv
<1>2. j \in stored
  BY <1>1 DEF Silent, Settled, Given, NoEffect
<1> QED
  BY <1>2 DEF ServiceInv, ServerInv, StoredInv

\* The part of ToldIsDurable that needs no file to be readable.
ToldIsOnDisk ==
    \A j \in Jobs : reply[j] = "ok" \/ j \in published => S!OnDisk(EventOf[j])

\* What a producer was told is stored and what a monitor has seen is on disk,
\* whenever and however often the process ends, and whatever fails.
THEOREM ToldOnDisk == ServerSafetySpec => []ToldIsOnDisk
<1>1. ServiceInv => ToldIsOnDisk
  BY ToldIsPromised, SameReading
     DEF ToldIsOnDisk, ServiceInv, P!StorageInv, P!KnownInv
<1> QED
  BY <1>1, ServiceInductive, PTL

\* As long as no operation fails and every line fits the buffer of the reader, a
\* running service also finds it.
THEOREM ToldDurable ==
    ASSUME \A e \in Events : SizeOf[e] <= LineLimit
    PROVE  ServerSafetySpec => []ToldIsDurable
<1>1. P!LinesFit
  BY DEF P!LinesFit
<1>2. ServerInit => P!WholeInv
  BY DEF ServerInit, S!Init, P!WholeInv, P!AllWhole
<1>3. ServiceInv /\ P!WholeInv /\ [ServerNext]_serverVars => P!WholeInv'
  <2> SUFFICES ASSUME ServiceInv, P!WholeInv, [ServerNext]_serverVars
               PROVE  P!WholeInv'
    OBVIOUS
  <2>1. [P!Next]_(P!vars)
    BY StorageStep DEF ServiceInv, ServerInv
  <2> QED
    BY <1>1, <2>1, StorageConstants, P!WholeNext DEF ServiceInv
<1>4. ServiceInv /\ P!WholeInv => ToldIsDurable
  <2> SUFFICES ASSUME ServiceInv, P!WholeInv, NEW j \in Jobs,
                      reply[j] = "ok" \/ j \in published
               PROVE  /\ P!OnDisk(EventOf[j])
                      /\ faults = 0 /\ P!Free /\ ~storeClosed => P!GetFinds(EventOf[j])
    BY SameReading DEF ToldIsDurable, S!Free, P!Free, S!Idle, P!Idle
  <2>1. EventOf[j] \in promised
    BY ToldIsPromised
  <2>2. P!OnDisk(EventOf[j])
    BY <2>1 DEF ServiceInv, P!StorageInv, P!KnownInv
  <2>3. P!ReadableUnlessFaulty
    BY <1>1, StorageConstants, P!WholeReadable DEF ServiceInv
  <2> QED
    BY <2>1, <2>2, <2>3 DEF P!ReadableUnlessFaulty, P!PromisedReadable
<1> QED
  BY <1>2, <1>3, <1>4, ServiceInductive, PTL DEF ServerSafetySpec
-------------------------------------------------------------------------------
(***************************************************************************)
(* The service implements EventService.                                    *)
(***************************************************************************)
\* A job that is lost without an answer.
Dropped(k) == Lost(k) /\ ~Outcome(k, "ok") /\ ~Outcome(k, "error")

\* The refinement mapping, read off the invariant: a job is in the phase that
\* the dispatcher knows it in, unless it is lost, and what is stored is durable.
Mapped ==
    /\ \A k \in Jobs : ServicePhase(k) = IF Dropped(k) THEN "lost" ELSE Phase(k)
    /\ {e \in {EventOf[j] : j \in stored} : S!OnDisk(e)} = {EventOf[j] : j \in stored}

LEMMA Mapping == ServiceInv => Mapped
<1> SUFFICES ASSUME ServiceInv  PROVE Mapped
  OBVIOUS
<1>1. \A k \in Jobs : Answered(k) => Outcome(k, "ok") \/ Outcome(k, "error")
  BY DEF ServiceInv, ServerInv, CoreInv, EffectInv, Answered, Settled, Given, Outcome
<1>2. \A k \in Jobs : ServicePhase(k) = IF Dropped(k) THEN "lost" ELSE Phase(k)
  BY <1>1 DEF ServicePhase, Dropped, Lost
<1>3. \A e \in {EventOf[j] : j \in stored} : S!OnDisk(e)
  BY SameReading DEF ServiceInv, ServerInv, StoredInv, P!StorageInv, P!KnownInv
<1> QED
  BY <1>2, <1>3 DEF Mapped

\* A step of a caller or a worker keeps the lost jobs lost, with what was told.
LEMMA DroppedStays ==
    ASSUME CoreInv, LostInv, NEW k \in Jobs,
           \/ \E j \in Jobs : CallerStep(j)
           \/ \E w \in Workers : WorkerStep(w)
           \/ UNCHANGED vars
    PROVE  Dropped(k)' <=> Dropped(k)
<1>1. Lost(k)' <=> Lost(k)
  BY CoreStep DEF Next
<1>2. ASSUME Lost(k)
      PROVE  UNCHANGED <<ack[k], reply[k]>>
  <2>1. Recorded(k)
    BY <1>2 DEF LostInv, Recorded
  <2>2. ASSUME NEW j \in Jobs, CallerStep(j)
        PROVE  UNCHANGED <<ack[k], reply[k]>>
    BY <2>1, <2>2
    DEF Recorded, CoreInv, TypeOK, CallerStep, CallSubmit, CancelContext, SubmitStep,
        Enter, SelectSend, SelectCancelled, SelectDefault, ReturnVerdict, ReceiveResult,
        GiveUp, ackVars
  <2>3. ASSUME NEW w \in Workers, WorkerStep(w)
        PROVE  UNCHANGED <<ack[k], reply[k]>>
    <3>1. reply' = reply
      BY <2>3, WorkerLeaves DEF WorkerFrame, callerVars
    <3>2. holding[w] # k
      BY <1>2 DEF Lost, Held
    <3>3. ack'[k] = ack[k]
      BY <2>3, <3>2
      DEF CoreInv, TypeOK, WorkerStep, TakeJob, Process, Store, Attempt, Publish, Reply,
          SendResult, CloseAck, Exit, ackVars
    <3> QED
      BY <3>1, <3>3
  <2> QED
    BY <2>2, <2>3 DEF vars, callerVars, ackVars
<1> QED
  BY <1>1, <1>2 DEF Dropped, Outcome

\* A step of the dispatcher that moves no job, and stores none, stutters.
LEMMA ServiceStutters ==
    ASSUME Mapped, Mapped', MovesNone, UNCHANGED <<accepting, stored>>,
           \A k \in Jobs : Dropped(k)' <=> Dropped(k)
    PROVE  UNCHANGED Service!serviceVars
<1>1. \A k \in Jobs : ServicePhase(k)' = ServicePhase(k)
  BY DEF Mapped, MovesNone
<1> QED
  BY <1>1 DEF Mapped, Service!serviceVars, Service!ledgerVars

\* One that moves a job which is not lost takes the same step of the service.
LEMMA ServiceMoves ==
    ASSUME Mapped, Mapped', NEW h, NEW from, NEW to, Moves(h, from, to), ~Lost(h),
           accepting' = accepting, \A k \in Jobs : Dropped(k)' <=> Dropped(k)
    PROVE  Service!Step(h, from, to)
<1>1. \A k \in Jobs \ {h} : ServicePhase(k)' = ServicePhase(k)
  BY DEF Mapped, Moves
<1>2. h \in Jobs /\ ServicePhase(h) = from /\ ServicePhase(h)' = to
  BY DEF Mapped, Moves, Dropped
<1> QED
  BY <1>1, <1>2 DEF Service!Step

\* The end of the process is that of the service.
LEMMA GoneIsDie ==
    ASSUME ServiceInv, Mapped, Mapped', ServerExit \/ ServerCrash
    PROVE  Service!Die
<1>1. DispatcherGone
  BY DEF ServerExit, ServerCrash
<1>2. \A j \in Jobs : Lost(j)' <=> Accepted(j) /\ ~Answered(j)
  BY <1>1, CoreGone DEF ServiceInv, ServerInv
<1>3. UNCHANGED <<verdict, ack, reply, stored, published, accepting>>
  BY <1>1 DEF DispatcherGone, ackVars
<1>4. ASSUME NEW k \in Jobs
      PROVE  ServicePhase(k)' =
                IF ServicePhase(k) \in Service!InFlight THEN "lost" ELSE ServicePhase(k)
  <2>1. CASE ~Accepted(k) \/ Outcome(k, "ok") \/ Outcome(k, "error")
    <3>1. Phase(k)' = Phase(k) /\ Phase(k) \in {"new", "refused", "confirmed", "reported"}
      BY <1>3, <2>1 DEF Phase, Accepted, Outcome
    <3>2. ~Dropped(k) /\ ~Dropped(k)'
      BY <1>2, <1>3, <2>1 DEF Dropped, Lost, Outcome
    <3> QED
      BY <3>1, <3>2 DEF Mapped, Service!InFlight
  <2>2. CASE Accepted(k) /\ ~Outcome(k, "ok") /\ ~Outcome(k, "error")
    <3>1. ~Answered(k)
      BY <2>2 DEF ServiceInv, ServerInv, CoreInv, EffectInv, Answered, Settled, Given,
                  Outcome
    <3>2. Dropped(k)'
      BY <1>2, <1>3, <2>2, <3>1 DEF Dropped, Outcome
    <3>3. Phase(k) \in {"rejected", "announced", "persisted", "accepted"}
      BY <2>2 DEF Phase, Accepted
    <3> QED
      BY <3>2, <3>3 DEF Mapped, Service!InFlight
  <2> QED
    BY <2>1, <2>2
<1> QED
  BY <1>3, <1>4 DEF Mapped, Service!Die

\* A job is stored once for its event: another job's Store has returned nil for
\* it only if the event is known.
LEMMA StoresOnce ==
    ASSUME ServiceInv, Mapped, Mapped', NEW w \in Workers, NEW h \in Jobs, h = holding[w],
           StoreGoes(w), Store(w), ~failed'[w], stored' = stored \union {h},
           Service!Step(h, "accepted", "persisted")
    PROVE  Service!PersistOnce(h)
<1>1. EventOf[h] \notin known /\ process = "up"
  BY StoreSucceeds DEF ServiceInv
<1>2. promised \subseteq known
  BY <1>1 DEF ServiceInv, P!StorageInv, P!KnownInv
<1>3. EventOf[h] \notin {EventOf[j] : j \in stored}
  BY <1>1, <1>2 DEF ServiceInv, ServerInv, StoredInv
<1>4. {EventOf[j] : j \in stored'} = {EventOf[j] : j \in stored} \union {EventOf[h]}
  OBVIOUS
<1> QED
  BY <1>3, <1>4 DEF Mapped, Service!PersistOnce, Service!Persist

LEMMA ServiceStep ==
    ASSUME ServiceInv, Mapped, Mapped', [ServerNext]_serverVars
    PROVE  [Service!ServiceNext]_(Service!serviceVars)
<1>1. CoreInv /\ LostInv
  BY DEF ServiceInv, ServerInv
<1>2. CASE ServerExit \/ ServerCrash
  BY <1>2, GoneIsDie DEF Service!ServiceNext
<1>3. CASE UNCHANGED vars
  <2>1. MovesNone /\ UNCHANGED <<accepting, stored>>
    BY <1>3 DEF vars, gateVars, callerVars, ackVars, workerVars, MovesNone, Phase,
                Outcome, FailedInWorker
  <2> QED
    BY <1>1, <1>3, <2>1, DroppedStays, ServiceStutters
<1>4. ASSUME NEW j \in Jobs, CallerStep(j)
      PROVE  [Service!ServiceNext]_(Service!serviceVars)
  <2>1. \A k \in Jobs : Dropped(k)' <=> Dropped(k)
    BY <1>1, <1>4, DroppedStays
  <2>2. /\ UNCHANGED <<accepting, stored>>
        /\ \/ MovesNone
           \/ Moves(j, "new", "refused")
           \/ accepting /\ Moves(j, "new", "accepted")
    BY <1>1, <1>4, CallerMoves
  <2>3. CASE MovesNone
    BY <2>1, <2>2, <2>3, ServiceStutters
  <2>4. ASSUME NEW to \in {"refused", "accepted"}, Moves(j, "new", to)
        PROVE  Service!Step(j, "new", to)
    <3>1. ~Lost(j)
      BY <2>4 DEF Moves, Phase, Lost, Accepted
    <3> QED
      BY <2>1, <2>2, <2>4, <3>1, ServiceMoves
  <2>5. {e \in {EventOf[k] : k \in stored} : S!OnDisk(e)}' =
           {e \in {EventOf[k] : k \in stored} : S!OnDisk(e)}
    BY <2>2 DEF Mapped
  <2> QED
    BY <2>2, <2>3, <2>4, <2>5
       DEF Service!ServiceNext, Service!Record, Service!Refuse, Service!Accept
<1>5. ASSUME NEW w \in Workers, ServerWorkerStep(w), WorkerStep(w)
      PROVE  [Service!ServiceNext]_(Service!serviceVars)
  <2>1. \A k \in Jobs : Dropped(k)' <=> Dropped(k)
    BY <1>1, <1>5, DroppedStays
  <2>2. accepting' = accepting
    BY <1>1, <1>5, WorkerMoves
  <2>3. CASE MovesNone /\ stored' = stored
    BY <2>1, <2>2, <2>3, ServiceStutters
  <2>4. ASSUME NEW h \in Jobs, Held(h), NEW from, NEW to, Moves(h, from, to)
        PROVE  Service!Step(h, from, to)
    BY <2>1, <2>2, <2>4, ServiceMoves DEF Lost
  <2>5. ASSUME NEW h \in Jobs, Held(h), stored' = stored,
               \/ Moves(h, "accepted", "rejected")
               \/ Moves(h, "persisted", "announced")
               \/ Moves(h, "announced", "confirmed")
               \/ Moves(h, "rejected", "reported")
        PROVE  Service!Record(h)
    <3>1. {e \in {EventOf[k] : k \in stored} : S!OnDisk(e)}' =
             {e \in {EventOf[k] : k \in stored} : S!OnDisk(e)}
      BY <2>5 DEF Mapped
    <3> QED
      BY <2>4, <2>5, <3>1
         DEF Service!Record, Service!Reject, Service!Announce, Service!Confirm,
             Service!Report
  <2>6. ASSUME NEW h \in Jobs, h = holding[w], Held(h), stored' = stored \union {h},
               Store(w), ~failed'[w], Moves(h, "accepted", "persisted")
        PROVE  Service!PersistOnce(h)
    BY <1>1, <1>5, <2>4, <2>6, StoreEnds, StoresOnce
  <2> QED
    BY <1>1, <1>5, <2>3, <2>5, <2>6, WorkerMoves DEF Service!ServiceNext
<1> QED
  BY <1>2, <1>3, <1>4, <1>5, DispatcherStep

\* Through crashes, exits, restarts and retries, whatever fails, every step of
\* the service is one of the abstract service, for any numbers of submissions
\* and workers and any sizes: Store succeeds for an event at most once, none is
\* announced or confirmed before it is on disk, and what is durable stays so.
THEOREM ServiceRefinement == ServerSafetySpec => ImplementsService
<1>1. ServerInit => Service!ServiceInit
  <2>1. ServerInit => Service!Init
    BY DEF ServerInit, Init, Service!Init, ServicePhase, Accepted, Phase
  <2>2. ServerInit => {e \in {EventOf[j] : j \in stored} : S!OnDisk(e)} = {}
    BY DEF ServerInit, Init
  <2> QED
    BY <2>1, <2>2 DEF Service!ServiceInit
<1>2. ServiceInv /\ Mapped /\ Mapped' /\ [ServerNext]_serverVars
         => [Service!ServiceNext]_(Service!serviceVars)
  BY ServiceStep
<1> QED
  BY <1>1, <1>2, Mapping, ServiceInductive, PTL
     DEF ServerSafetySpec, ImplementsService, Service!ServiceSpec
===============================================================================
