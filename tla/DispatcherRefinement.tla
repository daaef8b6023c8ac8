------------------------- MODULE DispatcherRefinement -------------------------
(***************************************************************************)
(* The dispatcher implements the event ledger, for every number of         *)
(* submissions, workers and Shutdowns: each of its steps is one step of    *)
(* the ledger, or changes none of the ledger's variables.                  *)
(***************************************************************************)
EXTENDS DispatcherProofs

\* Nothing the phase of k depends on has changed.
SameJob(k) ==
    /\ verdict'[k] = verdict[k]
    /\ \A r \in Results : Outcome(k, r)' <=> Outcome(k, r)
    /\ FailedInWorker(k)' <=> FailedInWorker(k)
    /\ k \in stored' <=> k \in stored
    /\ k \in published' <=> k \in published

\* The phase of a submission depends on nothing else.
LEMMA SamePhase ==
    ASSUME NEW k, SameJob(k)
    PROVE  Phase(k)' = Phase(k)
BY DEF SameJob, Phase, Results

\* The step moves submission j on, or none.
Moves(j, from, to) ==
    /\ j \in Jobs
    /\ Phase(j) = from /\ Phase(j)' = to
    /\ \A k \in Jobs \ {j} : Phase(k)' = Phase(k)

MovesNone == \A k \in Jobs : Phase(k)' = Phase(k)

\* A step that moves one submission is a step of the ledger.
LEMMA MovesOneStep ==
    ASSUME NEW j, NEW from, NEW to, Moves(j, from, to),
           accepting' = accepting, Drained' = Drained
    PROVE  Ledger!Step(j, from, to)
BY DEF Moves, Ledger!Step

\* A step that moves none, and neither closes the gate nor drains, stutters.
LEMMA MovesNoneStep ==
    ASSUME MovesNone, accepting' = accepting, Drained' = Drained
    PROVE  UNCHANGED Ledger!ledgerVars
BY DEF MovesNone, Ledger!ledgerVars

\* A worker's step changes what is known of its own job only.
LEMMA OtherFailures ==
    ASSUME NEW w \in Workers, NEW k,
           \A v \in Workers \ {w} :
              /\ at'[v] = at[v] /\ failed'[v] = failed[v]
              /\ holding'[v] = holding[v],
           (holding[w] = k /\ at[w] = "reply" /\ failed[w]) <=>
              (holding'[w] = k /\ at'[w] = "reply" /\ failed'[w])
    PROVE  FailedInWorker(k)' <=> FailedInWorker(k)
BY DEF FailedInWorker

\* An idle dispatcher is an empty ledger.
LEMMA LedgerInit == Init => Ledger!Init
BY DEF Init, Ledger!Init, Phase, Drained

\* What a step of a call of Submit does: nothing, or it accepts or refuses its
\* own submission.
LEMMA CallerMoves ==
    ASSUME CoreInv, NEW j \in Jobs, CallerStep(j)
    PROVE  /\ UNCHANGED <<accepting, stored>> /\ Drained' = Drained
           /\ \/ MovesNone
              \/ Moves(j, "new", "refused")
              \/ accepting /\ Moves(j, "new", "accepted")
<1>1. UNCHANGED <<accepting, at, holding, failed, stored, published>>
      /\ Drained' = Drained
  BY DEF CallerStep, CallSubmit, CancelContext, SubmitStep, Enter, SelectSend,
         SelectCancelled, SelectDefault, ReturnVerdict, ReceiveResult, GiveUp,
         CallerFrame, workerVars, stopVars, Drained
<1>2. \A k : FailedInWorker(k)' <=> FailedInWorker(k)
  BY <1>1 DEF FailedInWorker
<1>3. CASE CallSubmit(j) \/ CancelContext(j) \/ GiveUp(j)
  <2>1. UNCHANGED <<verdict, reply, ack>>
    BY <1>3 DEF CallSubmit, CancelContext, GiveUp, ackVars
  <2>2. \A k \in Jobs : SameJob(k)
    BY <1>1, <1>2, <2>1 DEF SameJob, Outcome
  <2>3. QED
    BY <1>1, <2>2, SamePhase DEF MovesNone
<1>4. CASE ReceiveResult(j)
  <2>1. /\ reply[j] = "none" /\ ack[j] \in Results
        /\ reply' = [reply EXCEPT ![j] = ack[j]]
        /\ ack' = [ack EXCEPT ![j] = "none"]
        /\ verdict' = verdict
    <3>1. submit[j] = "waiting" /\ reply[j] = "none"
      BY <1>4 DEF ReceiveResult, CoreInv, VerdictInv
    <3>2. ack[j] # "none"
      BY <1>4, <3>1 DEF ReceiveResult, CoreInv, EffectInv, Settled, Given
    <3>3. QED
      BY <1>4, <3>1, <3>2 DEF ReceiveResult, CoreInv, TypeOK, Results
  <2>2. \A k \in Jobs : \A r \in Results : Outcome(k, r)' <=> Outcome(k, r)
    BY <2>1 DEF CoreInv, TypeOK, Outcome, Results
  <2>3. \A k \in Jobs : SameJob(k)
    BY <1>1, <1>2, <2>1, <2>2 DEF SameJob
  <2>4. QED
    BY <1>1, <2>3, SamePhase DEF MovesNone
<1>5. ASSUME UNCHANGED <<reply, ack>>, verdict[j] = "none",
             NEW v \in Verdicts \ {"none"}, verdict' = [verdict EXCEPT ![j] = v]
      PROVE  /\ Phase(j) = "new"
             /\ Phase(j)' = IF v = "accepted" THEN "accepted" ELSE "refused"
             /\ \A k \in Jobs \ {j} : Phase(k)' = Phase(k)
  <2>1. ~Held(j) /\ ~Accepted(j)
    BY <1>5 DEF CoreInv, PlaceInv, Accepted
  <2>2. Silent(j) /\ NoEffect(j) /\ ~FailedInWorker(j)
    BY <2>1 DEF CoreInv, EffectInv, FailedInWorker, Held
  <2>3. verdict'[j] = v
    BY <1>5 DEF CoreInv, TypeOK
  <2>4. Phase(j)' = IF v = "accepted" THEN "accepted" ELSE "refused"
    BY <1>1, <1>2, <1>5, <2>2, <2>3
       DEF Phase, Outcome, Silent, NoEffect, Verdicts
  <2>5. \A k \in Jobs \ {j} : SameJob(k)
    BY <1>1, <1>2, <1>5 DEF SameJob, Outcome, CoreInv, TypeOK
  <2>6. QED
    BY <1>5, <2>4, <2>5, SamePhase DEF Phase
<1>6. CASE Enter(j)
  <2>1. CASE accepting
    <3>1. \A k \in Jobs : SameJob(k)
      <4>1. UNCHANGED <<verdict, reply, ack>>
        BY <1>6, <2>1 DEF Enter, ackVars
      <4>2. QED
        BY <1>1, <1>2, <4>1 DEF SameJob, Outcome
    <3>2. QED
      BY <1>1, <3>1, SamePhase DEF MovesNone
  <2>2. CASE ~accepting
    <3>1. /\ UNCHANGED <<reply, ack>> /\ verdict[j] = "none"
          /\ verdict' = [verdict EXCEPT ![j] = "closed"]
      <4>1. /\ submit[j] = "calling" /\ UNCHANGED <<reply, ack>>
            /\ verdict' = [verdict EXCEPT ![j] = "closed"]
        BY <1>6, <2>2 DEF Enter, ackVars
      <4>2. QED
        BY <4>1 DEF CoreInv, VerdictInv
    <3>2. "closed" \in Verdicts \ {"none"} /\ "closed" # "accepted"
      BY DEF Verdicts
    <3>3. /\ Phase(j) = "new" /\ Phase(j)' = "refused"
          /\ \A k \in Jobs \ {j} : Phase(k)' = Phase(k)
      BY <1>5, <3>1, <3>2
    <3>4. QED
      BY <1>1, <3>3 DEF Moves
  <2>3. QED
    BY <2>1, <2>2
<1>7. CASE SelectSend(j)
  <2>1. /\ UNCHANGED <<reply, ack>> /\ verdict[j] = "none" /\ accepting
        /\ verdict' = [verdict EXCEPT ![j] = "accepted"]
    BY <1>7 DEF SelectSend, ReturnVerdict, ackVars, CoreInv, VerdictInv, MutexInv
  <2>2. Moves(j, "new", "accepted")
    BY <1>5, <2>1 DEF Moves, Verdicts
  <2>3. QED
    BY <1>1, <2>1, <2>2
<1>8. CASE SelectCancelled(j) \/ SelectDefault(j)
  <2>1. /\ UNCHANGED <<reply, ack>> /\ verdict[j] = "none"
        /\ \E v \in {"cancelled", "full"} : verdict' = [verdict EXCEPT ![j] = v]
    BY <1>8 DEF SelectCancelled, SelectDefault, ReturnVerdict, ackVars, CoreInv,
                VerdictInv
  <2>2. Moves(j, "new", "refused")
    BY <1>5, <2>1 DEF Moves, Verdicts
  <2>3. QED
    BY <1>1, <2>2
<1>9. QED
  BY <1>3, <1>4, <1>6, <1>7, <1>8 DEF CallerStep, SubmitStep

\* What a worker's step does: nothing, or it moves the worker's own job one
\* step on, and Store alone adds the job to what is stored.
LEMMA WorkerMoves ==
    ASSUME CoreInv, NEW w \in Workers, WorkerStep(w)
    PROVE  /\ accepting' = accepting /\ Drained' = Drained
           /\ \/ MovesNone /\ stored' = stored
              \/ \E h \in Jobs :
                    /\ h = holding[w] /\ Held(h)
                    /\ \/ /\ stored' = stored
                          /\ \/ Moves(h, "accepted", "rejected")
                             \/ Moves(h, "persisted", "announced")
                             \/ Moves(h, "announced", "confirmed")
                             \/ Moves(h, "rejected", "reported")
                       \/ /\ stored' = stored \union {h}
                          /\ Store(w) /\ ~failed'[w]
                          /\ Moves(h, "accepted", "persisted")
<1>0. PICK h : h = holding[w]
  OBVIOUS
<1>1. UNCHANGED <<accepting, verdict, reply>> /\ Drained' = Drained
  BY WorkerLeaves DEF WorkerFrame, gateVars, callerVars, stopVars, Drained
<1>2. CASE TakeJob(w) \/ CloseAck(w) \/ Exit(w)
  <2>1. /\ UNCHANGED <<ack, stored, published>>
        /\ at[w] # "reply" /\ at'[w] # "reply"
        /\ \A v \in Workers \ {w} :
              /\ at'[v] = at[v] /\ failed'[v] = failed[v]
              /\ holding'[v] = holding[v]
    BY <1>2 DEF CoreInv, TypeOK, TakeJob, CloseAck, Exit, ackVars
  <2>2. \A k : FailedInWorker(k)' <=> FailedInWorker(k)
    BY <2>1, OtherFailures
  <2>3. \A k \in Jobs : SameJob(k)
    BY <1>1, <2>1, <2>2 DEF SameJob, Outcome
  <2>4. QED
    BY <1>1, <2>1, <2>3, SamePhase DEF MovesNone
<1>3. ASSUME at[w] \in {"process", "store", "publish", "reply"}
      PROVE  /\ h \in Jobs /\ Held(h) /\ verdict[h] = "accepted" /\ Silent(h)
             /\ FailedInWorker(h) <=> at[w] = "reply" /\ failed[w]
             /\ WorkerEffect(w)
  <2>1. h \in Jobs /\ Held(h) /\ \A v \in Workers : holding[v] = h => v = w
    BY <1>0, <1>3, HeldAlone DEF CoreInv, Held
  <2>2. verdict[h] = "accepted"
    BY <2>1 DEF CoreInv, PlaceInv, Accepted
  <2>3. WorkerEffect(w)
    BY DEF CoreInv, EffectInv
  <2>4. QED
    BY <1>0, <1>3, <2>1, <2>2, <2>3 DEF WorkerEffect, FailedInWorker
<1>4. ASSUME at[w] \in {"process", "store", "publish", "reply"},
             UNCHANGED holding,
             \A v \in Workers \ {w} : at'[v] = at[v] /\ failed'[v] = failed[v],
             \A k \in Jobs \ {h} : /\ ack'[k] = ack[k]
                                   /\ k \in stored' <=> k \in stored
                                   /\ k \in published' <=> k \in published
      PROVE  /\ \A k \in Jobs \ {h} : Phase(k)' = Phase(k)
             /\ FailedInWorker(h)' <=> at'[w] = "reply" /\ failed'[w]
  <2>1. \A k \in Jobs \ {h} : FailedInWorker(k)' <=> FailedInWorker(k)
    BY <1>0, <1>4, OtherFailures
  <2>2. \A k \in Jobs \ {h} : SameJob(k)
    BY <1>1, <1>4, <2>1 DEF SameJob, Outcome
  <2>3. \A v \in Workers : holding[v] = h => v = w
    BY <1>0, <1>4, HeldAlone DEF CoreInv
  <2>4. QED
    BY <1>0, <1>4, <2>2, <2>3, SamePhase DEF FailedInWorker
<1>5. CASE Process(w)
  <2>1. PICK ok \in BOOLEAN : Attempt(w, "process", "store", ok)
    BY <1>5 DEF Process
  <2>2. /\ at[w] = "process" /\ UNCHANGED <<ack, holding, stored, published>>
        /\ at'[w] = IF ok THEN "store" ELSE "reply"
        /\ failed'[w] = ~ok
        /\ \A v \in Workers \ {w} : at'[v] = at[v] /\ failed'[v] = failed[v]
    BY <1>5, <2>1 DEF CoreInv, TypeOK, Process, Attempt, ackVars
  <2>3. /\ h \in Jobs /\ Held(h) /\ verdict[h] = "accepted" /\ Silent(h)
        /\ ~FailedInWorker(h) /\ NoEffect(h)
    BY <1>0, <1>3, <2>2 DEF WorkerEffect
  <2>4. /\ \A k \in Jobs \ {h} : Phase(k)' = Phase(k)
        /\ FailedInWorker(h)' <=> at'[w] = "reply" /\ failed'[w]
    BY <1>4, <2>2
  <2>5. /\ Phase(h) = "accepted"
        /\ Phase(h)' = IF ok THEN "accepted" ELSE "rejected"
    BY <1>1, <2>2, <2>3, <2>4 DEF Phase, Outcome, Silent, NoEffect
  <2>6. CASE ok
    BY <1>1, <2>2, <2>4, <2>5, <2>6 DEF MovesNone
  <2>7. CASE ~ok
    <3>1. Moves(h, "accepted", "rejected")
      BY <2>3, <2>4, <2>5, <2>7 DEF Moves
    <3>2. QED
      BY <1>0, <1>1, <2>2, <2>3, <3>1
  <2>8. QED
    BY <2>6, <2>7
<1>6. CASE Store(w)
  <2>1. PICK ok \in BOOLEAN :
           /\ Attempt(w, "store", "publish", ok)
           /\ stored' = IF ok THEN stored \union {h} ELSE stored
    BY <1>0, <1>6 DEF Store
  <2>2. /\ at[w] = "store" /\ UNCHANGED <<ack, holding, published>>
        /\ at'[w] = IF ok THEN "publish" ELSE "reply"
        /\ failed'[w] = ~ok
        /\ \A v \in Workers \ {w} : at'[v] = at[v] /\ failed'[v] = failed[v]
    BY <2>1 DEF CoreInv, TypeOK, Attempt, ackVars
  <2>3. /\ h \in Jobs /\ Held(h) /\ verdict[h] = "accepted" /\ Silent(h)
        /\ ~FailedInWorker(h) /\ NoEffect(h)
    BY <1>0, <1>3, <2>2 DEF WorkerEffect
  <2>4. /\ \A k \in Jobs \ {h} : Phase(k)' = Phase(k)
        /\ FailedInWorker(h)' <=> at'[w] = "reply" /\ failed'[w]
    BY <1>4, <2>1, <2>2
  <2>5. /\ Phase(h) = "accepted"
        /\ Phase(h)' = IF ok THEN "persisted" ELSE "rejected"
    BY <1>1, <2>1, <2>2, <2>3, <2>4 DEF Phase, Outcome, Silent, NoEffect
  <2>6. CASE ok
    <3>1. Moves(h, "accepted", "persisted")
      BY <2>3, <2>4, <2>5, <2>6 DEF Moves
    <3>2. QED
      BY <1>0, <1>1, <1>6, <2>1, <2>2, <2>3, <2>6, <3>1
  <2>7. CASE ~ok
    <3>1. Moves(h, "accepted", "rejected")
      BY <2>3, <2>4, <2>5, <2>7 DEF Moves
    <3>2. QED
      BY <1>0, <1>1, <2>1, <2>3, <2>7, <3>1
  <2>8. QED
    BY <2>6, <2>7
<1>7. CASE Publish(w)
  <2>1. /\ at[w] = "publish" /\ UNCHANGED <<ack, holding, failed, stored>>
        /\ at'[w] = "reply" /\ published' = published \union {h}
        /\ \A v \in Workers \ {w} : at'[v] = at[v]
    BY <1>0, <1>7 DEF CoreInv, TypeOK, Publish, ackVars
  <2>2. /\ h \in Jobs /\ Held(h) /\ verdict[h] = "accepted" /\ Silent(h)
        /\ ~failed[w]
        /\ ~FailedInWorker(h) /\ h \in stored /\ h \notin published
    BY <1>0, <1>3, <2>1 DEF WorkerEffect
  <2>3. /\ \A k \in Jobs \ {h} : Phase(k)' = Phase(k)
        /\ ~FailedInWorker(h)'
    BY <1>4, <2>1, <2>2
  <2>4. Phase(h) = "persisted" /\ Phase(h)' = "announced"
    BY <1>1, <2>1, <2>2, <2>3 DEF Phase, Outcome, Silent
  <2>5. Moves(h, "persisted", "announced")
    BY <2>2, <2>3, <2>4 DEF Moves
  <2>6. QED
    BY <1>0, <1>1, <2>1, <2>2, <2>5
<1>8. CASE Reply(w)
  <2>1. /\ at[w] = "reply" /\ UNCHANGED <<holding, failed, stored, published>>
        /\ at'[w] = "close" /\ ack' = [ack EXCEPT ![h] = Result(w)]
        /\ \A v \in Workers \ {w} : at'[v] = at[v]
    BY <1>0, <1>8 DEF CoreInv, TypeOK, Reply, SendResult
  <2>2. /\ h \in Jobs /\ Held(h) /\ verdict[h] = "accepted" /\ Silent(h)
        /\ FailedInWorker(h) <=> failed[w]
        /\ ~failed[w] => h \in published
    BY <1>0, <1>3, <2>1 DEF WorkerEffect
  <2>3. \A k \in Jobs \ {h} : Phase(k)' = Phase(k)
    BY <1>4, <2>1 DEF CoreInv, TypeOK
  <2>4. ack'[h] = Result(w)
    BY <2>1, <2>2 DEF CoreInv, TypeOK
  <2>5. /\ Phase(h) = IF failed[w] THEN "rejected" ELSE "announced"
        /\ Phase(h)' = IF failed[w] THEN "reported" ELSE "confirmed"
    BY <1>1, <2>2, <2>4 DEF Phase, Outcome, Silent, Result
  <2>6. CASE failed[w]
    <3>1. Moves(h, "rejected", "reported")
      BY <2>2, <2>3, <2>5, <2>6 DEF Moves
    <3>2. QED
      BY <1>0, <1>1, <2>1, <2>2, <3>1
  <2>7. CASE ~failed[w]
    <3>1. Moves(h, "announced", "confirmed")
      BY <2>2, <2>3, <2>5, <2>7 DEF Moves
    <3>2. QED
      BY <1>0, <1>1, <2>1, <2>2, <3>1
  <2>8. QED
    BY <2>6, <2>7
<1>9. QED
  BY <1>2, <1>5, <1>6, <1>7, <1>8 DEF WorkerStep

\* A step of a call of Submit, or of a worker, is a step of the ledger.
LEMMA CallerRefines ==
    ASSUME CoreInv, NEW j \in Jobs, CallerStep(j)
    PROVE  [Ledger!Next]_(Ledger!ledgerVars)
BY CallerMoves, MovesOneStep, MovesNoneStep
   DEF Ledger!Next, Ledger!Accept, Ledger!Refuse

LEMMA WorkerRefines ==
    ASSUME CoreInv, NEW w \in Workers, WorkerStep(w)
    PROVE  [Ledger!Next]_(Ledger!ledgerVars)
<1>1. CASE MovesNone
  BY <1>1, WorkerMoves, MovesNoneStep
<1>2. ASSUME NEW h \in Jobs, NEW from, NEW to, Moves(h, from, to)
      PROVE  Ledger!Step(h, from, to)
  BY <1>2, WorkerMoves, MovesOneStep
<1>3. QED
  BY <1>1, <1>2, WorkerMoves
     DEF Ledger!Next, Ledger!Persist, Ledger!Announce, Ledger!Confirm, Ledger!Reject,
         Ledger!Report

\* What a Shutdown's step does to the ledger: nothing, Close or FallQuiet.
LEMMA StopperRefines ==
    ASSUME IInv, NEW s \in Stoppers, StopperStep(s)
    PROVE  [Ledger!Next]_(Ledger!ledgerVars)
<1>1. \A k \in Jobs : Phase(k)' = Phase(k)
  <2>1. UNCHANGED <<verdict, reply, ack, at, holding, failed, stored, published>>
    BY StopperLeaves DEF ShutdownFrame, callerVars, ackVars, workerVars
  <2>2. \A k \in Jobs : SameJob(k)
    BY <2>1 DEF SameJob, Outcome, FailedInWorker
  <2>3. QED
    BY <2>2, SamePhase
<1>2. CASE StopAccepting(s)
  <2>1. accepting' = FALSE /\ Drained' = Drained
    BY <1>2 DEF IInv, CoreInv, TypeOK, StopAccepting, MoveStop, Drained
  <2>2. CASE accepting
    BY <1>1, <2>1, <2>2 DEF Ledger!Next, Ledger!Close
  <2>3. CASE ~accepting
    BY <1>1, <2>1, <2>3, MovesNoneStep DEF MovesNone, IInv, CoreInv, TypeOK
  <2>4. QED
    BY <2>2, <2>3
<1>3. CASE ReturnDrained(s)
  <2>1. /\ accepting' = accepting /\ ~accepting /\ Drained' = TRUE
        /\ WorkersGone
    <3>1. stop[s] = "waiting" /\ stop' = [stop EXCEPT ![s] = "drained"]
          /\ accepting' = accepting /\ WorkersGone
      BY <1>3 DEF ReturnDrained, MoveStop, gateVars
    <3>2. ~accepting
      BY <3>1 DEF IInv, CoreInv, OnceInv
    <3>3. Drained' = TRUE
      BY <3>1 DEF Drained, IInv, CoreInv, TypeOK
    <3>4. QED
      BY <3>1, <3>2, <3>3
  <2>2. jobs = <<>> /\ \A w \in Workers : holding[w] = NoJob
    BY <2>1, WorkersAssumption DEF IInv, CoreInv, WorkersGone, WorkerInv
  <2>3. ASSUME NEW j \in Jobs PROVE Phase(j) \notin Ledger!InFlight
    <3>1. ~Queued(j) /\ ~Held(j)
      BY <2>2, EmptySeq, NamesAssumption DEF Queued, Held
    <3>2. Accepted(j) => Settled(j)
      BY <3>1 DEF IInv, Lost, CoreInv, EffectInv, Answered
    <3>3. QED
      BY <3>2 DEF Accepted, Settled, Given, Phase, Outcome, Ledger!InFlight
  <2>4. QED
    BY <1>1, <2>1, <2>3 DEF Ledger!Next, Ledger!FallQuiet
<1>4. CASE ~StopAccepting(s) /\ ~ReturnDrained(s)
  <2>1. accepting' = accepting /\ Drained' = Drained
    BY <1>4 DEF IInv, CoreInv, TypeOK, StopperStep, ShutdownStep, CallShutdown, EnterOnce,
                SkipOnce, CloseJobs, ReturnExpired, MoveStop, gateVars, Drained
  <2>2. QED
    BY <1>1, <2>1, MovesNoneStep DEF MovesNone
<1>5. QED
  BY <1>2, <1>3, <1>4

\* The dispatcher implements the ledger.
THEOREM Refinement == Spec => ImplementsLedger
<1>1. IInv /\ [Next]_vars => [Ledger!Next]_(Ledger!ledgerVars)
  <2> SUFFICES ASSUME IInv, [Next]_vars
               PROVE  [Ledger!Next]_(Ledger!ledgerVars)
    OBVIOUS
  <2>1. CASE UNCHANGED vars
    BY <2>1 DEF vars, gateVars, callerVars, ackVars, workerVars, stopVars,
                Ledger!ledgerVars, Phase, Outcome, FailedInWorker, Drained
  <2>2. QED
    BY <2>1, CallerRefines, WorkerRefines, StopperRefines DEF IInv, Next, Finished
<1>2. QED
  BY LedgerInit, Inductive, <1>1, PTL DEF Spec, ImplementsLedger, Ledger!Spec
===============================================================================
