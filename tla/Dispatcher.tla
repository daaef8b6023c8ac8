------------------------------ MODULE Dispatcher ------------------------------
(***************************************************************************)
(* The bounded event queue between the WebSocket connections and the event *)
(* store (internal/adapters/websocket/dispatcher.go).                      *)
(*                                                                         *)
(* Connections call Submit, a pool of workers takes the jobs, processes,   *)
(* stores and publishes each one and answers on the job's own channel, and *)
(* Shutdown stops the admission, closes the queue and waits for the        *)
(* workers.  Every job is one call of Submit.  The actions are the steps   *)
(* between which the Go scheduler may run another goroutine.               *)
(*                                                                         *)
(* The processor, the store and the contexts are the dispatcher's          *)
(* environment: Process and Store return nil or an error, and return an    *)
(* error when they find the job's context cancelled.                       *)
(***************************************************************************)
EXTENDS Naturals, Sequences, FiniteSets

CONSTANTS
    Jobs,       \* the calls of Submit
    Cancellable, \* those given a context that can be cancelled
    Workers,    \* the goroutines NewDispatcher starts
    Stoppers,   \* the calls of Shutdown
    QueueSize,  \* the capacity of the channel of jobs
    NoJob,      \* what an idle worker holds
    NoOne       \* the holder of a free lock, the runner of an unused Once

\* NewDispatcher refuses a queue size or a worker count that is not positive, and
\* starts as many goroutines as the count says.
ASSUME QueueSizeAssumption == QueueSize \in Nat \ {0}
ASSUME WorkersAssumption == Workers # {} /\ IsFiniteSet(Workers)
ASSUME CancellableAssumption == Cancellable \subseteq Jobs
\* A goroutine that calls Submit is not one that calls Shutdown, and the
\* place holders are neither.
ASSUME NamesAssumption ==
    /\ NoJob \notin Jobs
    /\ NoOne \notin Jobs \union Stoppers
    /\ Jobs \intersect Stoppers = {}
    /\ "finished" \notin Stoppers \union {NoOne}

VARIABLES
    jobs,        \* the buffer of the channel of jobs
    closed,      \* whether that channel is closed
    accepting,   \* the atomic flag Submit loads
    admissionMu, \* the holder of the mutex, or NoOne
    stopOnce,    \* NoOne, the caller running the Once, or "finished"
    submit,      \* where each call of Submit, then its caller, is
    verdict,     \* what each call of Submit returns
    reply,       \* what the caller of Submit received on the job's channel
    ctxDone,     \* the jobs whose context is cancelled
    ack,         \* the result in each job's channel, which holds one
    ackClosed,   \* the jobs whose result channel is closed
    at,          \* where each worker is
    holding,     \* the job each worker has taken
    failed,      \* whether err is set in each worker
    stored,      \* the jobs for which Store returned nil
    published,   \* the jobs handed to Publish
    stop,        \* where each call of Shutdown is
    pending,     \* the count an expired Shutdown returned
    panicked     \* a send on, or a close of, a closed channel happened

gateVars == <<closed, accepting, admissionMu, stopOnce>>
callerVars == <<submit, verdict, reply, ctxDone>>
workerVars == <<at, holding, failed, stored, published>>
ackVars == <<ack, ackClosed>>
stopVars == <<stop, pending>>
vars == <<jobs, gateVars, callerVars, ackVars, workerVars, stopVars, panicked>>

\* What the steps of one kind of goroutine leave alone.
CallerFrame == UNCHANGED <<closed, accepting, stopOnce, workerVars, stopVars>>
WorkerFrame == UNCHANGED <<gateVars, callerVars, stopVars>>
ShutdownFrame == UNCHANGED <<jobs, callerVars, ackVars, workerVars>>

SubmitStates == {"idle", "calling", "admitting", "waiting", "done"}
Verdicts == {"none", "accepted", "closed", "cancelled", "full"}
Results == {"ok", "error"}
WorkerStates == {"idle", "process", "store", "publish", "reply", "close",
                 "exited"}
StopStates == {"idle", "once", "locking", "closing", "waiting", "drained",
               "expired"}

\* NewDispatcher: an open, empty queue and idle workers.
Init ==
    /\ jobs = <<>> /\ closed = FALSE /\ accepting = TRUE
    /\ admissionMu = NoOne /\ stopOnce = NoOne
    /\ submit = [j \in Jobs |-> "idle"]
    /\ verdict = [j \in Jobs |-> "none"]
    /\ reply = [j \in Jobs |-> "none"]
    /\ ctxDone = {}
    /\ ack = [j \in Jobs |-> "none"] /\ ackClosed = {}
    /\ at = [w \in Workers |-> "idle"]
    /\ holding = [w \in Workers |-> NoJob]
    /\ failed = [w \in Workers |-> FALSE]
    /\ stored = {} /\ published = {}
    /\ stop = [s \in Stoppers |-> "idle"]
    /\ pending = [s \in Stoppers |-> 0]
    /\ panicked = FALSE

-------------------------------------------------------------------------------
(***************************************************************************)
(* Submit, and what its caller does with the result channel.  The section  *)
(* under the mutex is two steps: lock and load the flag, which nobody else *)
(* can see, then the select and the deferred unlock.                       *)
(***************************************************************************)
CallSubmit(j) ==
    /\ submit[j] = "idle"
    /\ submit' = [submit EXCEPT ![j] = "calling"]
    /\ UNCHANGED <<jobs, admissionMu, verdict, reply, ctxDone, ackVars, panicked>>
    /\ CallerFrame

\* The context of a job belongs to the caller, who may cancel it at any time.
\* handleEvent passes context.Background(), which is never cancelled.
CancelContext(j) ==
    /\ j \in Cancellable \ ctxDone
    /\ ctxDone' = ctxDone \union {j}
    /\ UNCHANGED <<jobs, admissionMu, submit, verdict, reply, ackVars, panicked>>
    /\ CallerFrame

\* Faulty variant: Submit does not look at the flag.
EnterForgetsFlag(j) ==
    /\ submit[j] = "calling"
    /\ admissionMu = NoOne
    /\ submit' = [submit EXCEPT ![j] = "admitting"]
    /\ admissionMu' = j
    /\ UNCHANGED <<jobs, verdict, reply, ctxDone, ackVars, panicked>>
    /\ CallerFrame

\* Lock and load the flag.
Enter(j) ==
    /\ submit[j] = "calling"
    /\ admissionMu = NoOne
    /\ IF accepting
         THEN /\ submit' = [submit EXCEPT ![j] = "admitting"]
              /\ admissionMu' = j
              /\ UNCHANGED verdict
         ELSE /\ submit' = [submit EXCEPT ![j] = "done"]
              /\ verdict' = [verdict EXCEPT ![j] = "closed"]
              /\ UNCHANGED admissionMu
    /\ UNCHANGED <<jobs, reply, ctxDone, ackVars, panicked>>
    /\ CallerFrame

\* Return v from the select and unlock.
ReturnVerdict(j, v, next) ==
    /\ submit[j] = "admitting"
    /\ submit' = [submit EXCEPT ![j] = next]
    /\ verdict' = [verdict EXCEPT ![j] = v]
    /\ admissionMu' = NoOne
    /\ UNCHANGED <<reply, ctxDone, ackVars>>
    /\ CallerFrame

\* Faulty variant: the channel is one larger than QueueSize.
SendReadyOffByOne == closed \/ Len(jobs) <= QueueSize

\* A send on a closed channel is ready, and panics.
SendReady == closed \/ Len(jobs) < QueueSize

SelectSend(j) ==
    /\ SendReady
    /\ ReturnVerdict(j, "accepted", "waiting")
    /\ jobs' = IF closed THEN jobs ELSE Append(jobs, j)
    /\ panicked' = (panicked \/ closed)

SelectCancelled(j) ==
    /\ j \in ctxDone
    /\ ReturnVerdict(j, "cancelled", "done")
    /\ UNCHANGED <<jobs, panicked>>

\* Faulty variant: there is no default case, Submit waits for room.
SelectDefaultWaits(j) == SelectCancelled(j)

\* Faulty variant: the default case returns the channel and no error.
SelectDefaultDrops(j) ==
    /\ ~SendReady /\ j \notin ctxDone
    /\ ReturnVerdict(j, "accepted", "waiting")
    /\ UNCHANGED <<jobs, panicked>>

SelectDefault(j) ==
    /\ ~SendReady /\ j \notin ctxDone
    /\ ReturnVerdict(j, "full", "done")
    /\ UNCHANGED <<jobs, panicked>>

\* A receive from a closed and empty channel yields no result ("closed").
ReceiveResult(j) ==
    /\ submit[j] = "waiting"
    /\ ack[j] # "none" \/ j \in ackClosed
    /\ submit' = [submit EXCEPT ![j] = "done"]
    /\ reply' = [reply EXCEPT ![j] = IF ack[j] = "none" THEN "closed" ELSE ack[j]]
    /\ ack' = [ack EXCEPT ![j] = "none"]
    /\ UNCHANGED <<jobs, admissionMu, verdict, ctxDone, ackClosed, panicked>>
    /\ CallerFrame

\* handleEvent stops waiting after writeWait; nobody reads the channel then.
GiveUp(j) ==
    /\ submit[j] = "waiting"
    /\ submit' = [submit EXCEPT ![j] = "done"]
    /\ UNCHANGED <<jobs, admissionMu, verdict, reply, ctxDone, ackVars, panicked>>
    /\ CallerFrame

-------------------------------------------------------------------------------
(***************************************************************************)
(* The workers: for job := range jobs { process; store; publish; answer }. *)
(***************************************************************************)
TakeJob(w) ==
    /\ at[w] = "idle"
    /\ jobs # <<>>
    /\ holding' = [holding EXCEPT ![w] = Head(jobs)]
    /\ jobs' = Tail(jobs)
    /\ at' = [at EXCEPT ![w] = "process"]
    /\ UNCHANGED <<ackVars, failed, stored, published, panicked>>
    /\ WorkerFrame

\* The range loop ends when the channel is closed and drained; then wg.Done.
Exit(w) ==
    /\ at[w] = "idle"
    /\ jobs = <<>>
    /\ closed
    /\ at' = [at EXCEPT ![w] = "exited"]
    /\ UNCHANGED <<jobs, ackVars, holding, failed, stored, published, panicked>>
    /\ WorkerFrame

\* One call whose error skips the rest: it may fail for reasons of its own,
\* and fails when it finds the job's context cancelled.
Attempt(w, from, to, ok) ==
    /\ at[w] = from
    /\ ok => holding[w] \notin ctxDone
    /\ failed' = [failed EXCEPT ![w] = ~ok]
    /\ at' = [at EXCEPT ![w] = IF ok THEN to ELSE "reply"]
    /\ UNCHANGED <<jobs, ackVars, holding, published, panicked>>
    /\ WorkerFrame

Process(w) ==
    /\ \E ok \in BOOLEAN : Attempt(w, "process", "store", ok)
    /\ UNCHANGED stored

\* Faulty variant: the error of Store is dropped.
StoreIgnoresError(w) ==
    /\ Attempt(w, "store", "publish", TRUE)
    /\ stored' \in {stored, stored \union {holding[w]}}

Store(w) ==
    \E ok \in BOOLEAN :
       /\ Attempt(w, "store", "publish", ok)
       /\ stored' = IF ok THEN stored \union {holding[w]} ELSE stored

\* Faulty variant: a publication that goes wrong is answered as an error.
PublishMayFail(w) ==
    /\ \E ok \in BOOLEAN : failed' = [failed EXCEPT ![w] = ~ok]
    /\ at[w] = "publish"
    /\ published' = published \union {holding[w]}
    /\ at' = [at EXCEPT ![w] = "reply"]
    /\ UNCHANGED <<jobs, ackVars, holding, stored, panicked>>
    /\ WorkerFrame

Publish(w) ==
    /\ at[w] = "publish"
    /\ published' = published \union {holding[w]}
    /\ at' = [at EXCEPT ![w] = "reply"]
    /\ UNCHANGED <<jobs, ackVars, holding, failed, stored, panicked>>
    /\ WorkerFrame

\* What the worker sends on job.ack.
Result(w) == IF failed[w] THEN "error" ELSE "ok"

SendResult(w, result) ==
    /\ ack' = [ack EXCEPT ![holding[w]] = result]
    /\ panicked' = (panicked \/ holding[w] \in ackClosed)
    /\ at' = [at EXCEPT ![w] = "close"]
    /\ UNCHANGED <<jobs, ackClosed, holding, failed, stored, published>>
    /\ WorkerFrame

\* Faulty variant: the channel is not buffered, the worker needs a reader.
ReplyNeedsReader(w) ==
    /\ at[w] = "reply"
    /\ submit[holding[w]] = "waiting"
    /\ SendResult(w, Result(w))

\* Faulty variant: the result is dropped when nobody reads it yet.
ReplyOrDrop(w) ==
    /\ at[w] = "reply"
    /\ SendResult(w, IF submit[holding[w]] = "waiting" THEN Result(w) ELSE "none")

\* job.ack has a buffer of one: the send waits only while a result is in it.
Reply(w) ==
    /\ at[w] = "reply"
    /\ ack[holding[w]] = "none"
    /\ SendResult(w, Result(w))

CloseAck(w) ==
    /\ at[w] = "close"
    /\ panicked' = (panicked \/ holding[w] \in ackClosed)
    /\ ackClosed' = ackClosed \union {holding[w]}
    /\ at' = [at EXCEPT ![w] = "idle"]
    /\ holding' = [holding EXCEPT ![w] = NoJob]
    /\ failed' = [failed EXCEPT ![w] = FALSE]
    /\ UNCHANGED <<jobs, ack, stored, published>>
    /\ WorkerFrame

-------------------------------------------------------------------------------
(***************************************************************************)
(* Shutdown.  A second caller of Once.Do waits until the first one is done.*)
(* Under the mutex: lock and clear the flag, then close and unlock.        *)
(***************************************************************************)
MoveStop(s, from, to) ==
    /\ stop[s] = from
    /\ stop' = [stop EXCEPT ![s] = to]
    /\ ShutdownFrame

CallShutdown(s) ==
    /\ MoveStop(s, "idle", "once")
    /\ UNCHANGED <<gateVars, pending, panicked>>

EnterOnce(s) ==
    /\ MoveStop(s, "once", "locking")
    /\ stopOnce = NoOne
    /\ stopOnce' = s
    /\ UNCHANGED <<closed, accepting, admissionMu, pending, panicked>>

\* Faulty variant: a flag instead of the Once, which nobody waits behind.
SkipOnceEarly(s) ==
    /\ MoveStop(s, "once", "waiting")
    /\ stopOnce # NoOne
    /\ UNCHANGED <<gateVars, pending, panicked>>

SkipOnce(s) ==
    /\ MoveStop(s, "once", "waiting")
    /\ stopOnce = "finished"
    /\ UNCHANGED <<gateVars, pending, panicked>>

\* Faulty variant: Shutdown does not take the admission mutex.
StopAcceptingUnlocked(s) ==
    /\ MoveStop(s, "locking", "closing")
    /\ accepting' = FALSE
    /\ UNCHANGED <<closed, admissionMu, stopOnce, pending, panicked>>

StopAccepting(s) ==
    /\ MoveStop(s, "locking", "closing")
    /\ admissionMu = NoOne
    /\ admissionMu' = s
    /\ accepting' = FALSE
    /\ UNCHANGED <<closed, stopOnce, pending, panicked>>

\* Faulty variant: the channel of jobs is never closed.
CloseJobsForgotten(s) ==
    /\ MoveStop(s, "closing", "waiting")
    /\ admissionMu' = NoOne
    /\ stopOnce' = "finished"
    /\ UNCHANGED <<closed, accepting, pending, panicked>>

CloseJobs(s) ==
    /\ MoveStop(s, "closing", "waiting")
    /\ panicked' = (panicked \/ closed)
    /\ closed' = TRUE
    /\ admissionMu' = NoOne
    /\ stopOnce' = "finished"
    /\ UNCHANGED <<accepting, pending>>

\* Faulty variant: Shutdown waits for an empty queue, not for the workers.
QueueGone == jobs = <<>>

\* wg.Wait returns when every worker has called wg.Done.
WorkersGone == \A w \in Workers : at[w] = "exited"

ReturnDrained(s) ==
    /\ MoveStop(s, "waiting", "drained")
    /\ WorkersGone
    /\ UNCHANGED <<gateVars, pending, panicked>>

\* Faulty variant: an expired Shutdown reports nothing pending.
ReturnExpiredZero(s) ==
    /\ MoveStop(s, "waiting", "expired")
    /\ UNCHANGED <<gateVars, pending, panicked>>

\* The deadline of Shutdown's context may pass at any time.
ReturnExpired(s) ==
    /\ MoveStop(s, "waiting", "expired")
    /\ pending' = [pending EXCEPT ![s] = Len(jobs)]
    /\ UNCHANGED <<gateVars, panicked>>
-------------------------------------------------------------------------------
(***************************************************************************)
(* The specifications.                                                     *)
(***************************************************************************)
\* What a caller that has called Submit does until it has its answer.
SubmitStep(j) ==
    \/ Enter(j) \/ SelectSend(j) \/ SelectCancelled(j) \/ SelectDefault(j)

WorkerStep(w) ==
    \/ TakeJob(w) \/ Process(w) \/ Store(w) \/ Publish(w)
    \/ Reply(w) \/ CloseAck(w) \/ Exit(w)

ShutdownStep(s) ==
    \/ EnterOnce(s) \/ SkipOnce(s) \/ StopAccepting(s) \/ CloseJobs(s)
    \/ ReturnDrained(s)

\* Everything has returned: the only state in which nothing can happen.
Finished ==
    /\ \A j \in Jobs : submit[j] = "done"
    /\ \A s \in Stoppers : stop[s] \in {"drained", "expired"}
    /\ WorkersGone
    /\ UNCHANGED vars

\* All that happens to a call of Submit and to one of Shutdown.
CallerStep(j) ==
    \/ CallSubmit(j) \/ CancelContext(j) \/ SubmitStep(j)
    \/ ReceiveResult(j) \/ GiveUp(j)

StopperStep(s) == CallShutdown(s) \/ ShutdownStep(s) \/ ReturnExpired(s)

Next ==
    \/ \E j \in Jobs : CallerStep(j)
    \/ \E w \in Workers : WorkerStep(w)
    \/ \E s \in Stoppers : StopperStep(s)
    \/ Finished

Spec == Init /\ [][Next]_vars

\* The scheduler runs every goroutine that can run.  Nobody has to call
\* Submit or Shutdown, to wait for a result, or to let a deadline pass.
AdmissionFairness ==
    /\ \A j \in Jobs : WF_vars(SubmitStep(j))
    /\ \A s \in Stoppers : WF_vars(ShutdownStep(s))

\* Process and Store return: neither takes a lock another worker can hold
\* for ever.
WorkerFairness == \A w \in Workers : WF_vars(WorkerStep(w))

\* The workers may all be stuck in a store that does not return.
StalledSpec == Spec /\ AdmissionFairness
-------------------------------------------------------------------------------
(***************************************************************************)
(* Properties.                                                             *)
(***************************************************************************)
\* Every variable has its type, and the queue never outgrows its capacity.
TypeOK ==
    /\ jobs \in Seq(Jobs) /\ Len(jobs) <= QueueSize
    /\ closed \in BOOLEAN /\ accepting \in BOOLEAN
    /\ admissionMu \in Jobs \union Stoppers \union {NoOne}
    /\ stopOnce \in Stoppers \union {NoOne, "finished"}
    /\ submit \in [Jobs -> SubmitStates]
    /\ verdict \in [Jobs -> Verdicts]
    /\ reply \in [Jobs -> Results \union {"none", "closed"}]
    /\ ctxDone \subseteq Cancellable
    /\ ack \in [Jobs -> Results \union {"none"}]
    /\ ackClosed \subseteq Jobs
    /\ at \in [Workers -> WorkerStates]
    /\ holding \in [Workers -> Jobs \union {NoJob}]
    /\ failed \in [Workers -> BOOLEAN]
    /\ stored \subseteq Jobs /\ published \subseteq Jobs
    /\ stop \in [Stoppers -> StopStates]
    /\ pending \in [Stoppers -> Nat]
    /\ panicked \in BOOLEAN

Accepted(j) == verdict[j] = "accepted"
Queued(j) == \E i \in 1..Len(jobs) : jobs[i] = j
Held(j) == \E w \in Workers : holding[w] = j
Answered(j) == j \in ackClosed

\* Submit never sends on the closed queue, Shutdown never closes it twice and
\* no worker answers on a closed channel, however the calls of Submit and
\* Shutdown interleave: the admission mutex and the Once prevent the panic
\* that would take the whole process down (dispatcher.go:92-101, 122-127).
NoPanic == ~panicked

\* An accepted job is at every moment in exactly one place: once in the
\* queue, or with one worker, or answered; a refused job is in none.  No job
\* is lost or taken twice, by several workers or across a Shutdown.
EachJobInOnePlace ==
    /\ \A a, b \in 1..Len(jobs) : jobs[a] = jobs[b] => a = b
    /\ \A v, w \in Workers :
          holding[v] = holding[w] /\ holding[v] # NoJob => v = w
    /\ \A j \in Jobs :
          /\ Accepted(j) <=> Queued(j) \/ Held(j) \/ Answered(j)
          /\ ~(Queued(j) /\ Held(j))
          /\ ~(Queued(j) /\ Answered(j))
          /\ ~(Held(j) /\ Answered(j))

\* The producer is acknowledged only after the event is stored, the event is
\* on its way to the monitors by then, and monitors only see stored events
\* (BLUEPRINT section 9).
AckOnlyAfterStore ==
    /\ published \subseteq stored
    /\ \A j \in Jobs :
          ack[j] = "ok" \/ reply[j] = "ok" => j \in published

\* A producer that reads an error knows that Store did not return nil for
\* its job: a failure is reported, never taken for a success or the reverse.
ErrorMeansNotStored ==
    \A j \in Jobs :
       ack[j] = "error" \/ reply[j] = "error" => j \notin stored

\* A caller never finds its channel closed without a result, and an answered
\* job's result is either still there to read or was read, whoever was
\* scheduled first (connection.go:207-214).
NoResultLost ==
    /\ \A j \in Jobs : reply[j] # "closed"
    /\ \A j \in ackClosed : ack[j] = "none" <=> reply[j] \in Results

\* Shutdown returns (0, nil) only when every job that was ever accepted has
\* been answered, and no worker runs any more.
DrainedMeansAllAnswered ==
    (\E s \in Stoppers : stop[s] = "drained") =>
       /\ WorkersGone
       /\ \A j \in Jobs : Accepted(j) => Answered(j)

\* Once any Shutdown is past its Once, no Submit is accepted any more, even
\* one that had begun before.
NoAdmissionAfterShutdown ==
    [][(\E s \in Stoppers : stop[s] \in {"waiting", "drained", "expired"}) =>
          \A j \in Jobs : verdict'[j] = "accepted" => Accepted(j)]_vars

\* The jobs without an outcome: accepted, and neither stored nor failed.
Unsettled ==
    {j \in Jobs :
       /\ Accepted(j)
       /\ Queued(j) \/ \E w \in Workers :
                          holding[w] = j /\ at[w] \in {"process", "store"}}

Busy == {w \in Workers : at[w] \in {"process", "store"}}

Expires(s) == stop[s] = "waiting" /\ stop'[s] = "expired"

\* The count an expired Shutdown returns never exceeds the unsettled jobs and
\* misses at most one for each worker that is processing or storing.
PendingOffByWorkersAtMost ==
    [][\A s \in Stoppers :
          Expires(s) =>
             /\ pending'[s] <= Cardinality(Unsettled)
             /\ Cardinality(Unsettled) <= pending'[s] + Cardinality(Busy)]_vars

\* As long as the workers go on every accepted job is answered, also when its
\* caller has given up, its context is cancelled or a Shutdown has expired.
AcceptedIsAnswered ==
    WorkerFairness => \A j \in Jobs : Accepted(j) ~> Answered(j)

\* Then every call of Shutdown returns, the second and later ones as well,
\* even if no deadline ever passes.
ShutdownReturns ==
    WorkerFairness =>
       \A s \in Stoppers :
          stop[s] = "once" ~> stop[s] \in {"drained", "expired"}

\* Submit never waits for a worker: it returns a verdict even when every
\* worker is stuck in the store and the queue is full (backpressure,
\* BLUEPRINT section 12).
SubmitNeverBlocks ==
    \A j \in Jobs :
       submit[j] = "calling" ~> submit[j] \in {"waiting", "done"}
===============================================================================
