--------------------------- MODULE DispatcherProofs ---------------------------
(***************************************************************************)
(* The safety properties of Dispatcher hold for all values of its          *)
(* constants.  Init establishes the inductive invariant IInv and every     *)
(* step preserves it: one lemma for each of its parts, one step of the     *)
(* proof for each action.  The properties follow from it at the end.       *)
(***************************************************************************)
EXTENDS DispatcherInvariants, SequenceTheorems, FiniteSetTheorems, TLAPS

\* Every step keeps the types, and the queue within its capacity.
LEMMA TypeOKStep ==
    ASSUME TypeOK, WorkerInv, [Next]_vars
    PROVE  TypeOK'
<1> USE QueueSizeAssumption, CancellableAssumption, NamesAssumption
    DEF TypeOK, SubmitStates, Verdicts, Results, WorkerStates, StopStates
<1>1. ASSUME NEW j \in Jobs, CallSubmit(j) PROVE TypeOK'
  BY <1>1 DEF CallSubmit, CallerFrame, ackVars, workerVars, stopVars
<1>2. ASSUME NEW j \in Jobs, CancelContext(j) PROVE TypeOK'
  BY <1>2 DEF CancelContext, CallerFrame, ackVars, workerVars, stopVars
<1>3. ASSUME NEW j \in Jobs, Enter(j) PROVE TypeOK'
  BY <1>3 DEF Enter, CallerFrame, ackVars, workerVars, stopVars
<1>4. ASSUME NEW j \in Jobs, SelectSend(j) PROVE TypeOK'
  BY <1>4 DEF SelectSend, SendReady, ReturnVerdict, CallerFrame, ackVars,
              workerVars, stopVars
<1>5. ASSUME NEW j \in Jobs, SelectCancelled(j) PROVE TypeOK'
  BY <1>5 DEF SelectCancelled, ReturnVerdict, CallerFrame, ackVars, workerVars,
              stopVars
<1>6. ASSUME NEW j \in Jobs, SelectDefault(j) PROVE TypeOK'
  BY <1>6 DEF SelectDefault, ReturnVerdict, CallerFrame, ackVars, workerVars,
              stopVars
<1>7. ASSUME NEW j \in Jobs, ReceiveResult(j) PROVE TypeOK'
  BY <1>7 DEF ReceiveResult, CallerFrame, workerVars, stopVars
<1>8. ASSUME NEW j \in Jobs, GiveUp(j) PROVE TypeOK'
  BY <1>8 DEF GiveUp, CallerFrame, ackVars, workerVars, stopVars
<1>9. ASSUME NEW w \in Workers, TakeJob(w) PROVE TypeOK'
  BY <1>9 DEF TakeJob, WorkerFrame, gateVars, callerVars, ackVars, stopVars
<1>10. ASSUME NEW w \in Workers, Process(w) PROVE TypeOK'
  BY <1>10 DEF Process, Attempt, WorkerFrame, gateVars, callerVars, ackVars,
               stopVars
<1>11. ASSUME NEW w \in Workers, Store(w) PROVE TypeOK'
  BY <1>11 DEF Store, Attempt, WorkerInv, WorkerFrame, gateVars, callerVars,
               ackVars, stopVars
<1>12. ASSUME NEW w \in Workers, Publish(w) PROVE TypeOK'
  BY <1>12 DEF Publish, WorkerInv, WorkerFrame, gateVars, callerVars, ackVars,
               stopVars
<1>13. ASSUME NEW w \in Workers, Reply(w) PROVE TypeOK'
  BY <1>13 DEF Reply, SendResult, Result, WorkerFrame, gateVars, callerVars,
               stopVars
<1>14. ASSUME NEW w \in Workers, CloseAck(w) PROVE TypeOK'
  BY <1>14 DEF CloseAck, WorkerInv, WorkerFrame, gateVars, callerVars, stopVars
<1>15. ASSUME NEW w \in Workers, Exit(w) PROVE TypeOK'
  BY <1>15 DEF Exit, WorkerFrame, gateVars, callerVars, ackVars, stopVars
<1>16. ASSUME NEW s \in Stoppers, StopperStep(s) PROVE TypeOK'
  <2> USE DEF MoveStop, ShutdownFrame, gateVars, callerVars, ackVars, workerVars
  <2>1. CASE CallShutdown(s)
    BY <2>1 DEF CallShutdown
  <2>2. CASE EnterOnce(s)
    BY <2>2 DEF EnterOnce
  <2>3. CASE SkipOnce(s)
    BY <2>3 DEF SkipOnce
  <2>4. CASE StopAccepting(s)
    BY <2>4 DEF StopAccepting
  <2>5. CASE CloseJobs(s)
    BY <2>5 DEF CloseJobs
  <2>6. CASE ReturnDrained(s)
    BY <2>6 DEF ReturnDrained
  <2>7. CASE ReturnExpired(s)
    BY <2>7 DEF ReturnExpired
  <2> HIDE DEF TypeOK
  <2>8. QED
    BY <1>16, <2>1, <2>2, <2>3, <2>4, <2>5, <2>6, <2>7
       DEF StopperStep, ShutdownStep
<1>17. CASE UNCHANGED vars
  BY <1>17 DEF vars, gateVars, callerVars, ackVars, workerVars, stopVars
<1> HIDE DEF TypeOK
<1>18. QED
  BY <1>1, <1>2, <1>3, <1>4, <1>5, <1>6, <1>7, <1>8, <1>9, <1>10, <1>11,
     <1>12, <1>13, <1>14, <1>15, <1>16, <1>17
     DEF Next, CallerStep, SubmitStep, WorkerStep, Finished

\* The frames: what no step of a worker, or of a Shutdown, touches.
LEMMA WorkerLeaves ==
    ASSUME NEW w \in Workers, WorkerStep(w)
    PROVE  WorkerFrame
BY DEF WorkerStep, TakeJob, Process, Store, Attempt, Publish, Reply,
       SendResult, CloseAck, Exit

\* What no step of a Shutdown touches.
LEMMA StopperLeaves ==
    ASSUME NEW s \in Stoppers, StopperStep(s)
    PROVE  ShutdownFrame
BY DEF StopperStep, CallShutdown, ShutdownStep, EnterOnce, SkipOnce,
       StopAccepting, CloseJobs, ReturnDrained, ReturnExpired, MoveStop

\* The flag, the mutex, the Once and the closing of the queue stay in line
\* (dispatcher.go:92-97, 120-127).
LEMMA GateStep ==
    ASSUME TypeOK, MutexInv, OnceInv, [Next]_vars
    PROVE  MutexInv' /\ OnceInv'
<1> DEFINE Goal == MutexInv' /\ OnceInv'
<1> USE NamesAssumption DEF TypeOK, MutexInv, OnceInv
<1>1. ASSUME NEW j \in Jobs, CallerStep(j) PROVE Goal
  <2> USE DEF CallerFrame, stopVars
  <2>1. CASE CallSubmit(j)
    BY <2>1 DEF CallSubmit
  <2>2. CASE CancelContext(j)
    BY <2>2 DEF CancelContext
  <2>3. CASE Enter(j)
    BY <2>3 DEF Enter
  <2>4. ASSUME NEW v, NEW next \in {"waiting", "done"}, ReturnVerdict(j, v, next)
        PROVE  Goal
    BY <2>4 DEF ReturnVerdict
  <2>5. CASE ReceiveResult(j)
    BY <2>5 DEF ReceiveResult
  <2>6. CASE GiveUp(j)
    BY <2>6 DEF GiveUp
  <2> HIDE DEF Goal
  <2>7. QED
    BY <1>1, <2>1, <2>2, <2>3, <2>4, <2>5, <2>6
       DEF CallerStep, SubmitStep, SelectSend, SelectCancelled, SelectDefault
<1>2. ASSUME NEW w \in Workers, WorkerStep(w) PROVE Goal
  BY <1>2, WorkerLeaves DEF WorkerFrame, gateVars, callerVars, stopVars
<1>3. ASSUME NEW s \in Stoppers, StopperStep(s) PROVE Goal
  <2> USE DEF MoveStop, ShutdownFrame, gateVars, callerVars
  <2>1. CASE CallShutdown(s)
    BY <2>1 DEF CallShutdown
  <2>2. CASE EnterOnce(s)
    BY <2>2 DEF EnterOnce
  <2>3. CASE SkipOnce(s)
    BY <2>3 DEF SkipOnce
  <2>4. CASE StopAccepting(s)
    BY <2>4 DEF StopAccepting
  <2>5. CASE CloseJobs(s)
    BY <2>5 DEF CloseJobs
  <2>6. CASE ReturnDrained(s)
    BY <2>6 DEF ReturnDrained
  <2>7. CASE ReturnExpired(s)
    BY <2>7 DEF ReturnExpired
  <2> HIDE DEF Goal
  <2>8. QED
    BY <1>3, <2>1, <2>2, <2>3, <2>4, <2>5, <2>6, <2>7
       DEF StopperStep, ShutdownStep
<1>4. CASE UNCHANGED vars
  BY <1>4 DEF vars, gateVars, callerVars, stopVars
<1>5. QED
  BY <1>1, <1>2, <1>3, <1>4 DEF Next, Finished

\* The verdict of a call of Submit keeps to where the call is.
LEMMA VerdictStep ==
    ASSUME TypeOK, VerdictInv, [Next]_vars
    PROVE  VerdictInv'
<1> USE DEF TypeOK, VerdictInv
<1>1. ASSUME NEW j \in Jobs, CallerStep(j) PROVE VerdictInv'
  <2>1. CASE CallSubmit(j)
    BY <2>1 DEF CallSubmit
  <2>2. CASE CancelContext(j)
    BY <2>2 DEF CancelContext
  <2>3. CASE Enter(j)
    BY <2>3 DEF Enter
  <2>4. CASE SelectSend(j)
    BY <2>4 DEF SelectSend, ReturnVerdict
  <2>5. CASE SelectCancelled(j)
    BY <2>5 DEF SelectCancelled, ReturnVerdict
  <2>6. CASE SelectDefault(j)
    BY <2>6 DEF SelectDefault, ReturnVerdict
  <2>7. CASE ReceiveResult(j)
    BY <2>7 DEF ReceiveResult
  <2>8. CASE GiveUp(j)
    BY <2>8 DEF GiveUp
  <2>9. QED
    BY <1>1, <2>1, <2>2, <2>3, <2>4, <2>5, <2>6, <2>7, <2>8
       DEF CallerStep, SubmitStep
<1>2. ASSUME NEW w \in Workers, WorkerStep(w) PROVE VerdictInv'
  BY <1>2, WorkerLeaves DEF WorkerFrame, callerVars
<1>3. ASSUME NEW s \in Stoppers, StopperStep(s) PROVE VerdictInv'
  BY <1>3, StopperLeaves DEF ShutdownFrame, callerVars
<1>4. CASE UNCHANGED vars
  BY <1>4 DEF vars, callerVars
<1>5. QED
  BY <1>1, <1>2, <1>3, <1>4 DEF Next, Finished

\* Only the receive, the exit and the three ends of a job's life in a worker
\* matter to WorkerInv, and a send only to the emptiness of the queue.
LEMMA WorkerInvStep ==
    ASSUME TypeOK, MutexInv, OnceInv, WorkerInv, [Next]_vars
    PROVE  WorkerInv'
<1> USE NamesAssumption DEF TypeOK, WorkerInv
<1>1. ASSUME NEW j \in Jobs, CallerStep(j) PROVE WorkerInv'
  <2>1. UNCHANGED workerVars /\ closed' = closed
    BY <1>1 DEF CallerStep, CallSubmit, CancelContext, SubmitStep, Enter,
                SelectSend, SelectCancelled, SelectDefault, ReturnVerdict,
                ReceiveResult, GiveUp, CallerFrame
  <2>2. closed => jobs' = jobs
    BY <1>1 DEF MutexInv, OnceInv, CallerStep, CallSubmit, CancelContext,
                SubmitStep, Enter, SelectSend, SelectCancelled, SelectDefault,
                ReturnVerdict, ReceiveResult, GiveUp
  <2>3. QED
    BY <2>1, <2>2 DEF workerVars
<1>2. ASSUME NEW w \in Workers, WorkerStep(w) PROVE WorkerInv'
  <2>1. closed' = closed
    BY <1>2, WorkerLeaves DEF WorkerFrame, gateVars
  <2>2. CASE TakeJob(w)
    BY <2>1, <2>2 DEF TakeJob
  <2>3. CASE Process(w)
    BY <2>1, <2>3 DEF Process, Attempt
  <2>4. CASE Store(w)
    BY <2>1, <2>4 DEF Store, Attempt
  <2>5. CASE Publish(w)
    BY <2>1, <2>5 DEF Publish
  <2>6. CASE Reply(w)
    BY <2>1, <2>6 DEF Reply, SendResult
  <2>7. CASE CloseAck(w)
    BY <2>1, <2>7 DEF CloseAck
  <2>8. CASE Exit(w)
    BY <2>1, <2>8 DEF Exit
  <2>9. QED
    BY <1>2, <2>2, <2>3, <2>4, <2>5, <2>6, <2>7, <2>8 DEF WorkerStep
<1>3. ASSUME NEW s \in Stoppers, StopperStep(s) PROVE WorkerInv'
  <2>1. closed => closed'
    BY <1>3 DEF StopperStep, CallShutdown, ShutdownStep, EnterOnce, SkipOnce,
                StopAccepting, CloseJobs, ReturnDrained, ReturnExpired, gateVars
  <2>2. QED
    BY <1>3, <2>1, StopperLeaves DEF ShutdownFrame, workerVars
<1>4. CASE UNCHANGED vars
  BY <1>4 DEF vars, gateVars, workerVars
<1>5. QED
  BY <1>1, <1>2, <1>3, <1>4 DEF Next, Finished

\* A drained Shutdown saw every worker gone, and a worker never comes back.
LEMMA DrainStep ==
    ASSUME TypeOK, DrainInv, [Next]_vars
    PROVE  DrainInv'
<1> USE DEF TypeOK, DrainInv, WorkersGone
<1>1. ASSUME NEW j \in Jobs, CallerStep(j) PROVE DrainInv'
  <2>1. UNCHANGED <<workerVars, stopVars>>
    BY <1>1 DEF CallerStep, CallSubmit, CancelContext, SubmitStep, Enter,
                SelectSend, SelectCancelled, SelectDefault, ReturnVerdict,
                ReceiveResult, GiveUp, CallerFrame
  <2>2. QED
    BY <2>1 DEF workerVars, stopVars
<1>2. ASSUME NEW w \in Workers, WorkerStep(w) PROVE DrainInv'
  <2>1. UNCHANGED stop
    BY <1>2, WorkerLeaves DEF WorkerFrame, stopVars
  <2>2. at[w] # "exited"
    BY <1>2 DEF WorkerStep, TakeJob, Process, Store, Attempt, Publish, Reply,
                CloseAck, Exit
  <2>3. QED
    BY <2>1, <2>2
<1>3. ASSUME NEW s \in Stoppers, StopperStep(s) PROVE DrainInv'
  <2>1. UNCHANGED at
    BY <1>3, StopperLeaves DEF ShutdownFrame, workerVars
  <2>2. \A t \in Stoppers : stop'[t] = "drained" => stop[t] = "drained" \/ WorkersGone
    BY <1>3 DEF StopperStep, CallShutdown, ShutdownStep, EnterOnce, SkipOnce,
                StopAccepting, CloseJobs, ReturnDrained, ReturnExpired, MoveStop
  <2>3. QED
    BY <2>1, <2>2
<1>4. CASE UNCHANGED vars
  BY <1>4 DEF vars, workerVars, stopVars
<1>5. QED
  BY <1>1, <1>2, <1>3, <1>4 DEF Next, Finished

-------------------------------------------------------------------------------
(***************************************************************************)
(* Every job is in one place.                                              *)
(***************************************************************************)
Occurs(x, q) == \E i \in 1..Len(q) : q[i] = x
NoRepeat(q) == \A a, b \in 1..Len(q) : q[a] = q[b] => a = b

\* A send of a new element keeps the queue free of repetitions.
LEMMA AppendOccurs ==
    ASSUME NEW S, NEW q \in Seq(S), NEW e \in S, NoRepeat(q), ~Occurs(e, q)
    PROVE  /\ NoRepeat(Append(q, e))
           /\ \A x : Occurs(x, Append(q, e)) <=> Occurs(x, q) \/ x = e
<1> DEFINE r == Append(q, e)
<1>1. /\ Len(r) = Len(q) + 1 /\ Len(q) \in Nat
      /\ \A i \in 1..Len(q) : r[i] = q[i]
      /\ r[Len(q) + 1] = e
  BY AppendProperties
<1> HIDE DEF r
<1>2. NoRepeat(r)
  BY <1>1 DEF NoRepeat, Occurs
<1>3. ASSUME NEW x PROVE Occurs(x, r) <=> Occurs(x, q) \/ x = e
  BY <1>1 DEF Occurs
<1>4. QED
  BY <1>2, <1>3 DEF r

\* A receive takes the head, and nothing else, out of the queue.
LEMMA TailOccurs ==
    ASSUME NEW S, NEW q \in Seq(S), q # <<>>, NoRepeat(q)
    PROVE  /\ NoRepeat(Tail(q))
           /\ Occurs(Head(q), q)
           /\ \A x : Occurs(x, Tail(q)) <=> Occurs(x, q) /\ x # Head(q)
<1> DEFINE r == Tail(q)
<1>1. /\ Len(q) \in Nat /\ Len(q) > 0 /\ Len(r) = Len(q) - 1
      /\ \A i \in 1..Len(r) : r[i] = q[i + 1]
      /\ Head(q) = q[1]
  BY HeadTailProperties, LenProperties, EmptySeq
<1> HIDE DEF r
<1>2. NoRepeat(r)
  BY <1>1 DEF NoRepeat
<1>3. Occurs(Head(q), q)
  BY <1>1 DEF Occurs
<1>4. ASSUME NEW x PROVE Occurs(x, r) <=> Occurs(x, q) /\ x # Head(q)
  <2>1. ASSUME Occurs(x, r) PROVE Occurs(x, q) /\ x # Head(q)
    <3>1. PICK i \in 1..Len(r) : r[i] = x
      BY <2>1 DEF Occurs
    <3>2. i + 1 \in 1..Len(q) /\ q[i + 1] = x /\ i + 1 # 1
      BY <1>1, <3>1
    <3>3. QED
      BY <1>1, <3>2 DEF Occurs, NoRepeat
  <2>2. ASSUME Occurs(x, q), x # Head(q) PROVE Occurs(x, r)
    <3>1. PICK i \in 1..Len(q) : q[i] = x
      BY <2>2 DEF Occurs
    <3>2. i - 1 \in 1..Len(r) /\ r[i - 1] = x
      BY <1>1, <2>2, <3>1
    <3>3. QED
      BY <3>2 DEF Occurs
  <2>3. QED
    BY <2>1, <2>2
<1>5. QED
  BY <1>2, <1>3, <1>4 DEF r

\* A submission in the select has seen the flag, so the queue is open.
LEMMA AdmittingMeansOpen ==
    ASSUME MutexInv, OnceInv, NEW j \in Jobs, submit[j] = "admitting"
    PROVE  ~closed
BY DEF MutexInv, OnceInv

\* The places depend on four variables only.
LEMMA PlaceFrame ==
    ASSUME PlaceInv, UNCHANGED <<jobs, verdict, holding, ackClosed>>
    PROVE  PlaceInv' /\ \A j \in Jobs : Lost(j)' <=> Lost(j)
BY DEF PlaceInv, Lost, Queued, Held, Answered, Accepted

\* Every step keeps a job in one place at most, and none is lost or found.
LEMMA PlaceStep ==
    ASSUME TypeOK, MutexInv, OnceInv, VerdictInv, WorkerInv, PlaceInv, [Next]_vars
    PROVE  PlaceInv' /\ \A j \in Jobs : Lost(j)' <=> Lost(j)
<1> DEFINE Goal == PlaceInv' /\ \A j \in Jobs : Lost(j)' <=> Lost(j)
<1>0. /\ NoRepeat(jobs)
      /\ \A j \in Jobs : Queued(j) <=> Occurs(j, jobs)
      /\ \A j \in Jobs : Queued(j)' <=> Occurs(j, jobs')
  BY DEF PlaceInv, NoRepeat, Queued, Occurs
<1> USE NamesAssumption DEF TypeOK
<1>1. ASSUME NEW j \in Jobs, CallerStep(j) PROVE Goal
  <2>1. UNCHANGED <<holding, ackClosed>>
    BY <1>1 DEF CallerStep, CallSubmit, CancelContext, SubmitStep, Enter,
                SelectSend, SelectCancelled, SelectDefault, ReturnVerdict,
                ReceiveResult, GiveUp, CallerFrame, workerVars, ackVars
  <2>2. CASE SelectSend(j)
    <3>1. /\ jobs' = Append(jobs, j)
          /\ verdict' = [verdict EXCEPT ![j] = "accepted"]
          /\ verdict[j] = "none"
      BY <2>2, AdmittingMeansOpen DEF SelectSend, ReturnVerdict, VerdictInv
    <3>2. ~Occurs(j, jobs) /\ ~Held(j) /\ ~Answered(j) /\ ~Accepted(j)
      BY <1>0, <3>1 DEF PlaceInv, Accepted
    <3>3. /\ NoRepeat(jobs')
          /\ \A k \in Jobs : Queued(k)' <=> Queued(k) \/ k = j
      BY <1>0, <3>1, <3>2, AppendOccurs
    <3>4. \A k \in Jobs : /\ Accepted(k)' <=> Accepted(k) \/ k = j
                          /\ Held(k)' <=> Held(k)
                          /\ Answered(k)' <=> Answered(k)
      BY <2>1, <3>1 DEF Accepted, Held, Answered
    <3>5. \A k \in Jobs : Lost(k)' <=> Lost(k)
      BY <3>2, <3>3, <3>4 DEF Lost
    <3>6. PlaceInv'
      BY <1>0, <2>1, <3>2, <3>3, <3>4 DEF PlaceInv, NoRepeat
    <3>7. QED
      BY <3>5, <3>6
  <2>3. CASE ~SelectSend(j)
    <3>1. /\ jobs' = jobs
          /\ \A k \in Jobs : Accepted(k)' <=> Accepted(k)
      BY <1>1, <2>3 DEF Accepted, CallerStep, CallSubmit, CancelContext,
                        SubmitStep, Enter, SelectCancelled, SelectDefault,
                        ReturnVerdict, ReceiveResult, GiveUp, VerdictInv
    <3>2. QED
      BY <2>1, <3>1 DEF PlaceInv, Lost, Queued, Held, Answered
  <2>4. QED
    BY <2>2, <2>3
<1>2. ASSUME NEW w \in Workers, WorkerStep(w) PROVE Goal
  <2>1. UNCHANGED verdict
    BY <1>2, WorkerLeaves DEF WorkerFrame, callerVars
  <2>2. CASE TakeJob(w)
    <3> DEFINE h == Head(jobs)
    <3>1. /\ jobs # <<>> /\ jobs' = Tail(jobs) /\ UNCHANGED ackClosed
          /\ holding' = [holding EXCEPT ![w] = h]
          /\ holding[w] = NoJob
      BY <2>2 DEF TakeJob, ackVars, WorkerInv
    <3>2. /\ NoRepeat(jobs') /\ Queued(h) /\ h \in Jobs
          /\ \A k \in Jobs : Queued(k)' <=> Queued(k) /\ k # h
      BY <1>0, <3>1, TailOccurs, HeadTailProperties
    <3> HIDE DEF h
    <3>3. \A k \in Jobs : Held(k)' <=> Held(k) \/ k = h
      BY <3>1, <3>2 DEF Held
    <3>4. ~Held(h) /\ ~Answered(h)
      BY <3>2 DEF PlaceInv
    <3>5. \A u, v \in Workers :
             holding'[u] = holding'[v] /\ holding'[u] # NoJob => u = v
      BY <3>1, <3>2, <3>4 DEF PlaceInv, Held
    <3>6. QED
      BY <1>0, <2>1, <3>1, <3>2, <3>3, <3>4, <3>5
         DEF PlaceInv, Lost, NoRepeat, Accepted, Answered
  <2>3. CASE CloseAck(w)
    <3> DEFINE h == holding[w]
    <3>1. /\ UNCHANGED jobs
          /\ ackClosed' = ackClosed \union {h}
          /\ holding' = [holding EXCEPT ![w] = NoJob]
          /\ h \in Jobs
      BY <2>3 DEF CloseAck, WorkerInv
    <3>2. Held(h) /\ ~Queued(h) /\ ~Answered(h) /\ Accepted(h)
      BY <3>1 DEF PlaceInv, Held
    <3>3. /\ \A k \in Jobs : Held(k)' <=> Held(k) /\ k # h
          /\ \A k \in Jobs : Answered(k)' <=> Answered(k) \/ k = h
          /\ \A k \in Jobs : Queued(k)' <=> Queued(k)
          /\ \A k \in Jobs : Accepted(k)' <=> Accepted(k)
      BY <2>1, <3>1 DEF PlaceInv, Held, Answered, Queued, Accepted
    <3> HIDE DEF h
    <3>4. QED
      BY <3>1, <3>2, <3>3 DEF PlaceInv, Lost
  <2>4. CASE ~TakeJob(w) /\ ~CloseAck(w)
    <3>1. UNCHANGED <<jobs, holding, ackClosed>>
      BY <1>2, <2>4 DEF WorkerStep, Process, Store, Attempt, Publish, Reply,
                        SendResult, Exit, ackVars
    <3>2. QED
      BY <2>1, <3>1, PlaceFrame
  <2>5. QED
    BY <2>2, <2>3, <2>4
<1>3. ASSUME NEW s \in Stoppers, StopperStep(s) PROVE Goal
  BY <1>3, StopperLeaves, PlaceFrame
     DEF ShutdownFrame, callerVars, ackVars, workerVars
<1>4. ASSUME UNCHANGED vars PROVE Goal
  BY <1>4, PlaceFrame DEF vars, callerVars, ackVars, workerVars
<1>5. Goal
  <2> HIDE DEF Goal
  <2>1. QED
    BY <1>1, <1>2, <1>3, <1>4 DEF Next, Finished
<1>6. QED
  BY <1>5

-------------------------------------------------------------------------------
(***************************************************************************)
(* What has happened to a job follows from where it is.                    *)
(***************************************************************************)
\* A job in a worker's hands is no other worker's, and not answered.
LEMMA HeldAlone ==
    ASSUME TypeOK, WorkerInv, PlaceInv,
           NEW w \in Workers, at[w] \notin {"idle", "exited"}
    PROVE  /\ holding[w] \in Jobs
           /\ ~Answered(holding[w])
           /\ ~Queued(holding[w])
           /\ \A v \in Workers : holding[v] = holding[w] => v = w
BY DEF TypeOK, WorkerInv, PlaceInv, Held

\* The effects depend on these variables only.
EffectVars == <<jobs, verdict, ack, ackClosed, reply, at, holding, failed, stored, published>>

\* A step that leaves these variables alone leaves the effects alone.
LEMMA EffectFrame ==
    ASSUME EffectInv, UNCHANGED EffectVars
    PROVE  EffectInv'
BY DEF EffectInv, EffectVars, WorkerEffect, Queued, Accepted, Silent, NoEffect,
       Settled, Given

\* A worker that touches no job but its own has to be looked at alone.
LEMMA OwnJobStep ==
    ASSUME TypeOK, WorkerInv, PlaceInv, EffectInv,
           NEW w \in Workers, at[w] \notin {"idle", "exited"},
           UNCHANGED <<jobs, verdict, holding, ackClosed, reply>>,
           \A v \in Workers \ {w} : at'[v] = at[v] /\ failed'[v] = failed[v],
           \A k \in Jobs \ {holding[w]} :
              /\ ack'[k] = ack[k]
              /\ k \in stored' <=> k \in stored
              /\ k \in published' <=> k \in published,
           WorkerEffect(w)'
    PROVE  EffectInv'
<1> DEFINE h == holding[w]
<1>1. /\ h \in Jobs /\ ~Answered(h) /\ Held(h)
      /\ \A v \in Workers : holding[v] = h => v = w
  BY HeldAlone DEF Held
<1> HIDE DEF h
<1>2. \A k \in Jobs \ {h} : /\ Silent(k)' <=> Silent(k)
                            /\ NoEffect(k)' <=> NoEffect(k)
                            /\ Settled(k)' <=> Settled(k)
  BY DEF h, Silent, NoEffect, Settled, Given
<1>3. \A k \in Jobs : Held(k)' <=> Held(k)
  BY DEF Held
<1>4. ASSUME NEW k \in Jobs, (Queued(k) \/ ~Accepted(k))'
      PROVE  Silent(k)' /\ NoEffect(k)'
  <2>1. Queued(k) \/ ~Accepted(k)
    BY <1>4 DEF Queued, Accepted
  <2>2. QED
    BY <1>1, <1>2, <2>1 DEF EffectInv, PlaceInv
<1>5. \A k \in ackClosed : Settled(k)'
  BY <1>1, <1>2 DEF TypeOK, EffectInv, Answered
<1>6. ASSUME NEW v \in Workers PROVE WorkerEffect(v)'
  <2>1. CASE v = w
    BY <2>1
  <2>2. CASE v # w /\ holding[v] = NoJob
    <3>1. at[v] \in {"idle", "exited"} /\ at'[v] = at[v] /\ failed'[v] = failed[v]
      BY <2>2 DEF TypeOK, WorkerInv
    <3>2. QED
      BY <3>1 DEF EffectInv, WorkerEffect
  <2>3. CASE v # w /\ holding[v] # NoJob
    <3>1. holding[v] \in Jobs \ {h}
      BY <1>1, <2>3 DEF TypeOK
    <3>2. /\ at'[v] = at[v] /\ failed'[v] = failed[v] /\ holding'[v] = holding[v]
          /\ holding[v] \in stored' <=> holding[v] \in stored
          /\ holding[v] \in published' <=> holding[v] \in published
      BY <2>3, <3>1 DEF h
    <3>3. QED
      BY <1>2, <3>1, <3>2 DEF EffectInv, WorkerEffect
  <2>4. QED
    BY <2>1, <2>2, <2>3
<1>7. QED
  BY <1>4, <1>5, <1>6 DEF EffectInv

\* Every step keeps what has happened to a job in line with where it is.
LEMMA EffectStep ==
    ASSUME TypeOK, VerdictInv, WorkerInv, PlaceInv, EffectInv,
           [Next]_vars
    PROVE  EffectInv'
<1>1. ASSUME NEW j \in Jobs, CallerStep(j) PROVE EffectInv'
  <2>1. UNCHANGED <<ackClosed, at, holding, failed, stored, published>>
    BY <1>1 DEF CallerStep, CallSubmit, CancelContext, SubmitStep, Enter,
                SelectSend, SelectCancelled, SelectDefault, ReturnVerdict,
                ReceiveResult, GiveUp, CallerFrame, workerVars, ackVars
  <2>2. CASE ReceiveResult(j)
    <3>1. /\ ack[j] # "none" \/ j \in ackClosed
          /\ reply' = [reply EXCEPT ![j] = IF ack[j] = "none" THEN "closed" ELSE ack[j]]
          /\ ack' = [ack EXCEPT ![j] = "none"]
      BY <2>2 DEF ReceiveResult, VerdictInv
    <3>2. reply[j] = "none"
      BY <2>2 DEF ReceiveResult, VerdictInv
    <3>3. ~Silent(j) /\ ack[j] \in Results
      BY <3>1, <3>2 DEF TypeOK, EffectInv, Settled, Given, Silent, Results
    <3>4. Settled(j) => Settled(j)'
      BY <2>1, <3>1, <3>2, <3>3 DEF TypeOK, Settled, Given, NoEffect, Results
    <3>5. \A k \in Jobs \ {j} : /\ Silent(k)' <=> Silent(k)
                                /\ Settled(k)' <=> Settled(k)
      BY <2>1, <3>1 DEF TypeOK, Silent, Settled, Given, NoEffect
    <3>6. \A w \in Workers : holding[w] = j =>
             at[w] \notin {"process", "store", "publish", "reply"}
      BY <3>3 DEF EffectInv, WorkerEffect
    <3>7. ASSUME NEW w \in Workers PROVE WorkerEffect(w)'
      <4>1. CASE holding[w] = NoJob
        <5>1. at[w] \in {"idle", "exited"}
          BY <4>1 DEF WorkerInv
        <5>2. QED
          BY <2>1, <5>1 DEF EffectInv, WorkerEffect
      <4>2. CASE holding[w] = j
        BY <2>1, <3>4, <3>6, <4>2 DEF EffectInv, WorkerEffect
      <4>3. CASE holding[w] \in Jobs \ {j}
        BY <2>1, <3>5, <4>3 DEF EffectInv, WorkerEffect, NoEffect
      <4>4. QED
        BY <4>1, <4>2, <4>3 DEF TypeOK
    <3>8. ASSUME NEW k \in Jobs, (Queued(k) \/ ~Accepted(k))'
          PROVE  Silent(k)' /\ NoEffect(k)'
      <4>1. Silent(k) /\ NoEffect(k)
        BY <2>2, <3>8 DEF ReceiveResult, EffectInv, Queued, Accepted
      <4>2. QED
        BY <2>1, <3>3, <3>5, <4>1 DEF NoEffect
    <3>9. \A k \in ackClosed' : Settled(k)'
      BY <2>1, <3>4, <3>5 DEF TypeOK, EffectInv
    <3>10. QED
      BY <3>7, <3>8, <3>9 DEF EffectInv
  <2>3. CASE ~ReceiveResult(j)
    <3>1. UNCHANGED <<ack, reply>>
      BY <1>1, <2>3 DEF CallerStep, CallSubmit, CancelContext, SubmitStep,
                Enter, SelectSend, SelectCancelled, SelectDefault,
                ReturnVerdict, GiveUp, ackVars
    <3>2. \A k \in Jobs : (Queued(k) \/ ~Accepted(k))' => Queued(k) \/ ~Accepted(k)
      <4>1. CASE SelectSend(j)
        <5>1. verdict[j] = "none"
          BY <4>1 DEF SelectSend, ReturnVerdict, VerdictInv
        <5>2. ASSUME NEW k \in Jobs \ {j}  PROVE Queued(k)' => Queued(k)
          BY <4>1, AppendProperties DEF SelectSend, TypeOK, Queued
        <5>3. \A k \in Jobs \ {j} : Accepted(k)' <=> Accepted(k)
          BY <4>1 DEF SelectSend, ReturnVerdict, TypeOK, Accepted
        <5>4. QED
          BY <5>1, <5>2, <5>3 DEF Accepted
      <4>2. CASE ~SelectSend(j)
        <5>1. jobs' = jobs /\ \A k \in Jobs : Accepted(k)' <=> Accepted(k)
          BY <1>1, <4>2 DEF Accepted, TypeOK, CallerStep, CallSubmit, CancelContext,
                        SubmitStep, Enter, SelectCancelled, SelectDefault,
                        ReturnVerdict, ReceiveResult, GiveUp, VerdictInv
        <5>2. QED
          BY <5>1 DEF Queued
      <4>3. QED
        BY <4>1, <4>2
    <3>3. \A k : /\ Silent(k)' <=> Silent(k)
                 /\ NoEffect(k)' <=> NoEffect(k)
                 /\ Settled(k)' <=> Settled(k)
      BY <2>1, <3>1 DEF Silent, NoEffect, Settled, Given
    <3>4. \A w \in Workers : WorkerEffect(w)'
      BY <2>1, <3>3 DEF EffectInv, WorkerEffect
    <3>5. QED
      BY <2>1, <3>2, <3>3, <3>4 DEF EffectInv
  <2>4. QED
    BY <2>2, <2>3
<1>2. ASSUME NEW w \in Workers, WorkerStep(w) PROVE EffectInv'
  <2> DEFINE h == holding[w]
  <2>1. UNCHANGED <<verdict, reply>>
    BY <1>2, WorkerLeaves DEF WorkerFrame, callerVars
  <2>2. CASE TakeJob(w)
    <3>1. /\ jobs # <<>> /\ jobs \in Seq(Jobs)
          /\ holding' = [holding EXCEPT ![w] = Head(jobs)]
          /\ at' = [at EXCEPT ![w] = "process"]
          /\ UNCHANGED <<ack, ackClosed, failed, stored, published>>
          /\ ~failed[w] /\ holding[w] = NoJob
      BY <2>2 DEF TypeOK, TakeJob, ackVars, WorkerInv, EffectInv, WorkerEffect
    <3>2. /\ Head(jobs) \in Jobs /\ Queued(Head(jobs))
          /\ \A k \in Jobs : Queued(k)' => Queued(k)
      BY <2>2, <3>1, TailOccurs, HeadTailProperties
         DEF TakeJob, Queued, Occurs, PlaceInv, NoRepeat
    <3>3. Silent(Head(jobs)) /\ NoEffect(Head(jobs))
      BY <3>2 DEF EffectInv
    <3>4. \A k : /\ Silent(k)' <=> Silent(k)
                 /\ NoEffect(k)' <=> NoEffect(k)
                 /\ Settled(k)' <=> Settled(k)
      BY <2>1, <3>1 DEF Silent, NoEffect, Settled, Given
    <3>5. \A k \in Jobs : Accepted(k)' <=> Accepted(k)
      BY <2>1 DEF Accepted
    <3>6. ASSUME NEW v \in Workers PROVE WorkerEffect(v)'
      <4>1. CASE v = w
        BY <3>1, <3>3, <3>4, <4>1 DEF TypeOK, WorkerEffect
      <4>2. CASE v # w
        <5>1. /\ at'[v] = at[v] /\ failed'[v] = failed[v]
              /\ holding'[v] = holding[v]
          BY <3>1, <4>2 DEF TypeOK
        <5>2. QED
          BY <3>1, <3>4, <5>1 DEF EffectInv, WorkerEffect
      <4>3. QED
        BY <4>1, <4>2
    <3>7. QED
      BY <3>1, <3>2, <3>4, <3>5, <3>6 DEF TypeOK, EffectInv, Answered
  <2>3. CASE Exit(w)
    <3>1. at[w] = "idle" /\ UNCHANGED <<jobs, ack, ackClosed, holding, failed,
                                        stored, published>>
          /\ at' = [at EXCEPT ![w] = "exited"]
      BY <2>3 DEF Exit, ackVars
    <3>2. /\ \A k : /\ Silent(k)' <=> Silent(k)
                    /\ NoEffect(k)' <=> NoEffect(k)
                    /\ Settled(k)' <=> Settled(k)
          /\ \A k \in Jobs : /\ Queued(k)' <=> Queued(k)
                             /\ Accepted(k)' <=> Accepted(k)
      BY <2>1, <3>1 DEF Silent, NoEffect, Settled, Given, Queued, Accepted
    <3>3. ASSUME NEW v \in Workers PROVE WorkerEffect(v)'
      BY <3>1, <3>2 DEF TypeOK, EffectInv, WorkerEffect
    <3>4. QED
      BY <3>1, <3>2, <3>3 DEF EffectInv, Answered
  <2>4. CASE Process(w)
    <3>1. PICK ok \in BOOLEAN : Attempt(w, "process", "store", ok)
      BY <2>4 DEF Process
    <3>2. /\ at[w] = "process"
          /\ UNCHANGED <<jobs, verdict, ack, ackClosed, reply, holding, stored, published>>
          /\ at'[w] = IF ok THEN "store" ELSE "reply"
          /\ failed'[w] = ~ok
          /\ \A v \in Workers \ {w} : at'[v] = at[v] /\ failed'[v] = failed[v]
      BY <2>1, <2>4, <3>1 DEF TypeOK, Process, Attempt, ackVars
    <3>3. Silent(h) /\ NoEffect(h)
      BY <3>2 DEF EffectInv, WorkerEffect
    <3>4. WorkerEffect(w)'
      BY <3>2, <3>3 DEF WorkerEffect, Silent, NoEffect
    <3>5. QED
      BY <3>2, <3>4, OwnJobStep
  <2>5. CASE Store(w)
    <3>1. /\ at[w] = "store" /\ Silent(h) /\ NoEffect(h)
          /\ UNCHANGED <<jobs, verdict, ack, ackClosed, reply, holding, published>>
          /\ \/ at'[w] = "publish" /\ ~failed'[w] /\ stored' = stored \union {h}
             \/ at'[w] = "reply" /\ failed'[w] /\ stored' = stored
          /\ \A v \in Workers \ {w} : at'[v] = at[v] /\ failed'[v] = failed[v]
      BY <2>1, <2>5 DEF TypeOK, Store, Attempt, ackVars, EffectInv, WorkerEffect
    <3>2. WorkerEffect(w)'
      BY <3>1 DEF WorkerEffect, Silent, NoEffect
    <3>3. QED
      BY <3>1, <3>2, OwnJobStep
  <2>6. CASE Publish(w)
    <3>1. /\ at[w] = "publish" /\ Silent(h) /\ h \in stored /\ ~failed[w]
          /\ UNCHANGED <<jobs, verdict, ack, ackClosed, reply, holding, failed, stored>>
          /\ at'[w] = "reply" /\ published' = published \union {h}
          /\ \A v \in Workers \ {w} : at'[v] = at[v]
      BY <2>1, <2>6 DEF TypeOK, Publish, ackVars, EffectInv, WorkerEffect
    <3>2. WorkerEffect(w)'
      BY <3>1 DEF WorkerEffect, Silent
    <3>3. QED
      BY <3>1, <3>2, OwnJobStep
  <2>7. CASE Reply(w)
    <3>1. at[w] = "reply" /\ h \in Jobs
      BY <2>7, HeldAlone DEF Reply
    <3>2. /\ Silent(h)
          /\ IF failed[w] THEN NoEffect(h) ELSE h \in stored /\ h \in published
          /\ UNCHANGED <<jobs, verdict, ackClosed, reply, holding, failed, stored,
                        published>>
          /\ at'[w] = "close" /\ ack' = [ack EXCEPT ![h] = Result(w)]
          /\ \A v \in Workers \ {w} : at'[v] = at[v]
      BY <2>1, <2>7, <3>1 DEF TypeOK, Reply, SendResult, EffectInv, WorkerEffect
    <3>3. WorkerEffect(w)'
      BY <3>1, <3>2 DEF TypeOK, WorkerEffect, Silent, Settled, Given, NoEffect,
                        Result
    <3>4. QED
      BY <3>1, <3>2, <3>3, OwnJobStep DEF TypeOK
  <2>8. CASE CloseAck(w)
    <3>1. at[w] = "close" /\ h \in Jobs /\ Settled(h)
      BY <2>8, HeldAlone DEF CloseAck, EffectInv, WorkerEffect
    <3>2. /\ ackClosed' = ackClosed \union {h}
          /\ at' = [at EXCEPT ![w] = "idle"]
          /\ holding' = [holding EXCEPT ![w] = NoJob]
          /\ failed' = [failed EXCEPT ![w] = FALSE]
          /\ UNCHANGED <<jobs, verdict, ack, reply, stored, published>>
      BY <2>1, <2>8 DEF CloseAck
    <3> HIDE DEF h
    <3>3. \A k : /\ Silent(k)' <=> Silent(k)
                 /\ NoEffect(k)' <=> NoEffect(k)
                 /\ Settled(k)' <=> Settled(k)
      BY <3>2 DEF Silent, NoEffect, Settled, Given
    <3>4. \A k \in Jobs : /\ Queued(k)' <=> Queued(k)
                          /\ Accepted(k)' <=> Accepted(k)
      BY <3>2 DEF Queued, Accepted
    <3>5. ASSUME NEW v \in Workers PROVE WorkerEffect(v)'
      <4>1. CASE v = w
        BY <3>2, <4>1 DEF TypeOK, WorkerEffect
      <4>2. CASE v # w
        <5>1. /\ at'[v] = at[v] /\ failed'[v] = failed[v]
              /\ holding'[v] = holding[v]
          BY <3>2, <4>2 DEF TypeOK
        <5>2. WorkerEffect(v) /\ UNCHANGED <<stored, published>>
          BY <3>2 DEF EffectInv
        <5>3. QED
          BY <3>3, <5>1, <5>2 DEF WorkerEffect
      <4>3. QED
        BY <4>1, <4>2
    <3>6. QED
      BY <3>1, <3>2, <3>3, <3>4, <3>5 DEF EffectInv, Answered
  <2>9. QED
    BY <1>2, <2>2, <2>3, <2>4, <2>5, <2>6, <2>7, <2>8 DEF WorkerStep
<1>3. ASSUME NEW s \in Stoppers, StopperStep(s) PROVE EffectInv'
  BY <1>3, StopperLeaves, EffectFrame
     DEF ShutdownFrame, callerVars, ackVars, workerVars, EffectVars
<1>4. CASE UNCHANGED vars
  BY <1>4, EffectFrame DEF vars, callerVars, ackVars, workerVars, EffectVars
<1>5. QED
  BY <1>1, <1>2, <1>3, <1>4 DEF Next, Finished

\* No step of a reachable state sends on, or closes, a closed channel.
LEMMA NoPanicStep ==
    ASSUME TypeOK, MutexInv, OnceInv, WorkerInv, PlaceInv, NoPanic,
           [Next]_vars
    PROVE  NoPanic'
<1> USE DEF NoPanic
<1>1. ASSUME NEW j \in Jobs, CallerStep(j) PROVE NoPanic'
  BY <1>1, AdmittingMeansOpen
     DEF CallerStep, CallSubmit, CancelContext, SubmitStep, Enter, SelectSend,
         SelectCancelled, SelectDefault, ReturnVerdict, ReceiveResult, GiveUp
<1>2. ASSUME NEW w \in Workers, WorkerStep(w) PROVE NoPanic'
  <2>1. CASE Reply(w)
    BY <2>1, HeldAlone DEF Reply, SendResult, Answered
  <2>2. CASE CloseAck(w)
    BY <2>2, HeldAlone DEF CloseAck, Answered
  <2>3. CASE ~Reply(w) /\ ~CloseAck(w)
    BY <1>2, <2>3 DEF WorkerStep, TakeJob, Process, Store, Attempt, Publish, Exit
  <2>4. QED
    BY <2>1, <2>2, <2>3
<1>3. ASSUME NEW s \in Stoppers, StopperStep(s) PROVE NoPanic'
  <2>1. CASE CloseJobs(s)
    <3>1. stopOnce = s /\ ~closed
      BY <2>1, NamesAssumption DEF CloseJobs, MoveStop, OnceInv
    <3>2. QED
      BY <2>1, <3>1 DEF CloseJobs
  <2>2. CASE ~CloseJobs(s)
    BY <1>3, <2>2 DEF StopperStep, CallShutdown, ShutdownStep, EnterOnce,
                      SkipOnce, StopAccepting, ReturnDrained, ReturnExpired
  <2>3. QED
    BY <2>1, <2>2
<1>4. CASE UNCHANGED vars
  BY <1>4 DEF vars
<1>5. QED
  BY <1>1, <1>2, <1>3, <1>4 DEF Next, Finished

-------------------------------------------------------------------------------
(***************************************************************************)
(* The theorems.                                                           *)
(***************************************************************************)
\* The initial state satisfies the inductive invariant.
LEMMA InitInductive == Init => IInv
<1> SUFFICES ASSUME Init PROVE IInv
  OBVIOUS
<1> USE QueueSizeAssumption, NamesAssumption DEF Init
<1>1. TypeOK
  <2>1. jobs \in Seq(Jobs) /\ Len(jobs) <= QueueSize
    <3>1. <<>> \in Seq(Jobs) /\ Len(<<>>) = 0
      BY EmptySeq
    <3>2. QED
      BY <3>1
  <2>2. QED
    BY <2>1 DEF TypeOK, SubmitStates, Verdicts, Results, WorkerStates, StopStates
<1>2. NoPanic /\ MutexInv /\ OnceInv /\ VerdictInv /\ WorkerInv /\ DrainInv
  BY DEF NoPanic, MutexInv, OnceInv, VerdictInv, WorkerInv, DrainInv
<1>3. Len(jobs) = 0
  BY EmptySeq
<1>4. PlaceInv /\ \A j \in Jobs : ~Lost(j)
  BY <1>3 DEF PlaceInv, Lost, Accepted, Queued, Held, Answered
<1>5. EffectInv
  BY DEF EffectInv, WorkerEffect, Silent, NoEffect
<1>6. QED
  BY <1>1, <1>2, <1>4, <1>5 DEF IInv, CoreInv

\* The parts of the invariant are preserved together by every step, which
\* loses no job.
LEMMA CoreStep ==
    ASSUME CoreInv, [Next]_vars
    PROVE  CoreInv' /\ \A j \in Jobs : Lost(j)' <=> Lost(j)
BY TypeOKStep, GateStep, VerdictStep, WorkerInvStep, PlaceStep, EffectStep,
   DrainStep, NoPanicStep DEF CoreInv

\* So is the invariant.
LEMMA StepInductive == IInv /\ [Next]_vars => IInv'
BY CoreStep DEF IInv

\* The inductive invariant holds in every reachable state, for any numbers of
\* submissions, workers and Shutdowns and any capacity of the queue.
THEOREM Inductive == Spec => []IInv
BY InitInductive, StepInductive, PTL DEF Spec

\* Every variable keeps its type, and the queue its bound (dispatcher.go:65).
THEOREM TypeCorrect == Spec => []TypeOK
<1>1. IInv => TypeOK
  BY DEF IInv, CoreInv
<1>2. QED
  BY Inductive, <1>1, PTL

\* No interleaving of Submit, Shutdown and the workers panics on a closed
\* channel (dispatcher.go:92-101, 122-127, 156-160).
THEOREM NeverPanics == Spec => []NoPanic
<1>1. IInv => NoPanic
  BY DEF IInv, CoreInv
<1>2. QED
  BY Inductive, <1>1, PTL

\* No accepted job is lost, duplicated or taken by two workers.
THEOREM JobsConserved == Spec => []EachJobInOnePlace
<1>1. IInv => EachJobInOnePlace
  BY DEF IInv, CoreInv, PlaceInv, Lost, EachJobInOnePlace
<1>2. QED
  BY Inductive, <1>1, PTL

\* Either nobody has been told anything of a job, and then it is published
\* only if it is stored; or its outcome tells what happened to it.
LEMMA JobOutcome ==
    ASSUME IInv, NEW j \in Jobs
    PROVE  \/ Silent(j) /\ (j \in published => j \in stored)
           \/ Settled(j)
<1>1. CASE ~Held(j)
  BY <1>1 DEF IInv, CoreInv, Lost, EffectInv, Answered, NoEffect
<1>2. CASE Held(j)
  <2>1. PICK w \in Workers : holding[w] = j
    BY <1>2 DEF Held
  <2>2. at[w] \in {"process", "store", "publish", "reply", "close"}
    BY <2>1, NamesAssumption DEF IInv, CoreInv, TypeOK, WorkerInv, WorkerStates
  <2>3. WorkerEffect(w)
    BY DEF IInv, CoreInv, EffectInv
  <2>4. QED
    BY <2>1, <2>2, <2>3 DEF WorkerEffect, NoEffect
<1>3. QED
  BY <1>1, <1>2

\* A producer is acknowledged only after Store has returned nil and the event
\* was handed to the monitors (dispatcher.go:148-159).
THEOREM AckAfterStore == Spec => []AckOnlyAfterStore
<1>1. IInv => AckOnlyAfterStore
  <2> SUFFICES ASSUME IInv PROVE AckOnlyAfterStore
    OBVIOUS
  <2>1. published \subseteq Jobs
    BY DEF IInv, CoreInv, TypeOK
  <2>2. QED
    BY <2>1, JobOutcome
       DEF AckOnlyAfterStore, Silent, Settled, Given, NoEffect
<1>2. QED
  BY Inductive, <1>1, PTL

\* An error is reported only for a job Store did not accept.
THEOREM ErrorAfterNoStore == Spec => []ErrorMeansNotStored
<1>1. IInv => ErrorMeansNotStored
  BY JobOutcome DEF ErrorMeansNotStored, Silent, Settled, Given, NoEffect
<1>2. QED
  BY Inductive, <1>1, PTL

\* Nobody reads a closed channel that never held a result, and a result stays
\* until it is read (dispatcher.go:85, 156-160; connection.go:207-214).
THEOREM ResultsKept == Spec => []NoResultLost
<1>1. IInv => NoResultLost
  <2> SUFFICES ASSUME IInv PROVE NoResultLost
    OBVIOUS
  <2>1. \A j \in Jobs : reply[j] # "closed"
    BY JobOutcome DEF Silent, Settled, Given
  <2>2. \A j \in ackClosed : Settled(j)
    BY DEF IInv, CoreInv, EffectInv
  <2>3. QED
    BY <2>1, <2>2 DEF NoResultLost, Settled, Given, Results
<1>2. QED
  BY Inductive, <1>1, PTL

\* When Shutdown returns (0, nil) every accepted event has its outcome.
THEOREM DrainComplete == Spec => []DrainedMeansAllAnswered
<1>1. IInv => DrainedMeansAllAnswered
  <2> SUFFICES ASSUME IInv, NEW s \in Stoppers, stop[s] = "drained"
               PROVE  /\ WorkersGone
                      /\ \A j \in Jobs : Accepted(j) => Answered(j)
    BY DEF DrainedMeansAllAnswered
  <2>1. WorkersGone
    BY DEF IInv, CoreInv, DrainInv
  <2>2. jobs = <<>> /\ \A w \in Workers : holding[w] = NoJob
    BY <2>1, WorkersAssumption DEF IInv, CoreInv, WorkersGone, WorkerInv
  <2>3. \A j \in Jobs : ~Queued(j) /\ ~Held(j)
    BY <2>2, EmptySeq, NamesAssumption DEF Queued, Held
  <2>4. QED
    BY <2>1, <2>3 DEF IInv, Lost
<1>2. QED
  BY Inductive, <1>1, PTL

\* Once a Shutdown is past the Once, nothing is admitted any more.
THEOREM AdmissionStops == Spec => NoAdmissionAfterShutdown
<1> DEFINE Past == \E s \in Stoppers : stop[s] \in {"waiting", "drained", "expired"}
           Admits == \A j \in Jobs : verdict'[j] = "accepted" => Accepted(j)
<1>1. IInv /\ [Next]_vars => [Past => Admits]_vars
  <2> SUFFICES ASSUME IInv, [Next]_vars, Past PROVE Admits
    OBVIOUS
  <2>1. closed
    BY DEF IInv, CoreInv, OnceInv
  <2>2. ASSUME NEW j \in Jobs, CallerStep(j) PROVE Admits
    <3>1. submit[j] # "admitting"
      BY <2>1, AdmittingMeansOpen DEF IInv, CoreInv
    <3>2. QED
      BY <2>2, <3>1
         DEF IInv, CoreInv, TypeOK, Accepted, CallerStep, CallSubmit, CancelContext,
             SubmitStep, Enter, SelectSend, SelectCancelled, SelectDefault,
             ReturnVerdict, ReceiveResult, GiveUp
  <2>3. ASSUME NEW w \in Workers, WorkerStep(w) PROVE Admits
    BY <2>3, WorkerLeaves DEF WorkerFrame, callerVars, Accepted
  <2>4. ASSUME NEW s \in Stoppers, StopperStep(s) PROVE Admits
    BY <2>4, StopperLeaves DEF ShutdownFrame, callerVars, Accepted
  <2>5. CASE UNCHANGED vars
    BY <2>5 DEF vars, callerVars, Accepted
  <2> HIDE DEF Admits
  <2>6. QED
    BY <2>2, <2>3, <2>4, <2>5 DEF Next, Finished
<1>2. QED
  BY Inductive, <1>1, PTL DEF Spec, NoAdmissionAfterShutdown
\* The jobs in the queue, counted: none is in it twice.
LEMMA QueueCounted ==
    ASSUME TypeOK, PlaceInv
    PROVE  /\ IsFiniteSet({j \in Jobs : Queued(j)})
           /\ Cardinality({j \in Jobs : Queued(j)}) = Len(jobs)
<1>1. PICK n \in Nat : n = Len(jobs)
  BY DEF TypeOK
<1>2. jobs \in [1..n -> Jobs]
  BY <1>1 DEF TypeOK
<1>3. PICK Q : Q = {j \in Jobs : Queued(j)}
  OBVIOUS
<1>4. jobs \in Bijection(1..n, Q)
  <2>1. \A i \in 1..n : jobs[i] \in Q
    BY <1>1, <1>2, <1>3 DEF Queued
  <2>2. \A j \in Q : \E i \in 1..n : jobs[i] = j
    BY <1>1, <1>3 DEF Queued
  <2>3. \A a, b \in 1..n : jobs[a] = jobs[b] => a = b
    BY <1>1 DEF PlaceInv
  <2>4. jobs \in [1..n -> Q]
    BY <1>2, <2>1
  <2> QED
    BY <2>2, <2>3, <2>4 DEF Bijection, Injection, Surjection, IsInjective
<1>5. ExistsBijection(1..n, Q)
  BY <1>4 DEF ExistsBijection
<1>6. IsFiniteSet(Q) /\ Cardinality(Q) = n
  BY <1>5, FS_NatBijection, FS_CountingElements
<1> QED
  BY <1>1, <1>3, <1>6

\* The jobs in the hands of the busy workers are no more than those.
LEMMA HandsCounted ==
    /\ IsFiniteSet({holding[w] : w \in Busy}) /\ IsFiniteSet(Busy)
    /\ Cardinality({holding[w] : w \in Busy}) <= Cardinality(Busy)
<1>1. PICK T, B : T = {holding[w] : w \in Busy} /\ B = Busy
  OBVIOUS
<1>2. [w \in B |-> holding[w]] \in Surjection(B, T)
  BY <1>1 DEF Surjection
<1>3. IsFiniteSet(B)
  BY <1>1, WorkersAssumption, FS_Subset DEF Busy
<1>4. IsFiniteSet(T) /\ Cardinality(T) <= Cardinality(B)
  BY <1>2, <1>3, FS_Surjection
<1> QED
  BY <1>1, <1>3, <1>4

\* An expired Shutdown reports every job that is still in the queue, and what it
\* leaves out of the unsettled ones is in the busy workers' hands (dispatcher.go:139-140).
THEOREM PendingBounds == Spec => PendingOffByWorkersAtMost
<1> DEFINE Bounds(s) ==
       Expires(s) => /\ pending'[s] <= Cardinality(Unsettled)
                     /\ Cardinality(Unsettled) <= pending'[s] + Cardinality(Busy)
<1>1. ASSUME IInv, NEW s \in Stoppers, ReturnExpired(s)
      PROVE  Bounds(s)
  <2>1. PICK Q, H, U : /\ Q = {j \in Jobs : Queued(j)} /\ H = {holding[w] : w \in Busy}
                       /\ U = Unsettled
    OBVIOUS
  <2>2. pending'[s] = Len(jobs) /\ Len(jobs) \in Nat
    BY <1>1 DEF IInv, CoreInv, TypeOK, ReturnExpired
  <2>3. Q \subseteq U
    BY <1>1, <2>1 DEF IInv, CoreInv, PlaceInv, Unsettled
  <2>4. U \subseteq Q \union H
    BY <2>1 DEF Unsettled, Busy
  <2>5. IsFiniteSet(Q) /\ Cardinality(Q) = Len(jobs)
    BY <1>1, <2>1, QueueCounted DEF IInv, CoreInv
  <2>6. /\ IsFiniteSet(H) /\ Cardinality(H) <= Cardinality(Busy)
        /\ Cardinality(Busy) \in Nat
    BY <2>1, HandsCounted, FS_CardinalityType
  <2>7. /\ IsFiniteSet(Q \union H)
        /\ Cardinality(Q \union H) <= Cardinality(Q) + Cardinality(H)
        /\ Cardinality(Q \union H) \in Nat /\ Cardinality(H) \in Nat
    <3>1. IsFiniteSet(Q \union H) /\ IsFiniteSet(Q \cap H)
      BY <2>5, <2>6, FS_Union, FS_Intersection
    <3>2. Cardinality(Q \union H) = Cardinality(Q) + Cardinality(H) - Cardinality(Q \cap H)
      BY <2>5, <2>6, FS_Union
    <3>3. /\ Cardinality(Q) \in Nat /\ Cardinality(H) \in Nat
          /\ Cardinality(Q \cap H) \in Nat /\ Cardinality(Q \union H) \in Nat
      BY <2>5, <2>6, <3>1, FS_CardinalityType
    <3> QED
      BY <3>1, <3>2, <3>3
  <2>8. /\ IsFiniteSet(U) /\ Cardinality(Q) <= Cardinality(U)
        /\ Cardinality(U) <= Cardinality(Q \union H)
    BY <2>3, <2>4, <2>7, FS_Subset
  <2>9. Cardinality(U) \in Nat
    BY <2>8, FS_CardinalityType
  <2>10. Len(jobs) <= Cardinality(U) /\ Cardinality(U) <= Len(jobs) + Cardinality(Busy)
    BY <2>2, <2>5, <2>6, <2>7, <2>8, <2>9
  <2> QED
    BY <2>1, <2>2, <2>10
<1>2. IInv /\ [Next]_vars => [\A s \in Stoppers : Bounds(s)]_vars
  <2> SUFFICES ASSUME IInv, [Next]_vars, NEW s \in Stoppers, Expires(s)
               PROVE  ReturnExpired(s)
    BY <1>1
  <2>1. ASSUME NEW j \in Jobs, CallerStep(j) PROVE stop' = stop
    BY <2>1 DEF CallerStep, CallSubmit, CancelContext, SubmitStep, Enter, SelectSend,
                SelectCancelled, SelectDefault, ReturnVerdict, ReceiveResult, GiveUp,
                CallerFrame, stopVars
  <2>2. ASSUME NEW w \in Workers, WorkerStep(w) PROVE stop' = stop
    BY <2>2, WorkerLeaves DEF WorkerFrame, stopVars
  <2>3. ASSUME NEW t \in Stoppers, StopperStep(t), ~ReturnExpired(t)
        PROVE  \A u \in Stoppers : stop'[u] = stop[u] \/ stop'[u] # "expired"
    BY <2>3 DEF IInv, CoreInv, TypeOK, StopperStep, CallShutdown, ShutdownStep, EnterOnce,
                SkipOnce, StopAccepting, CloseJobs, ReturnDrained, MoveStop
  <2>4. ASSUME NEW t \in Stoppers, ReturnExpired(t)
        PROVE  \A u \in Stoppers \ {t} : stop'[u] = stop[u]
    BY <2>4 DEF IInv, CoreInv, TypeOK, ReturnExpired, MoveStop
  <2>5. CASE UNCHANGED vars
    BY <2>5 DEF vars, stopVars, Expires
  <2> QED
    BY <2>1, <2>2, <2>3, <2>4, <2>5 DEF Next, Finished, Expires
<1> QED
  BY Inductive, <1>2, PTL DEF Spec, PendingOffByWorkersAtMost
===============================================================================
