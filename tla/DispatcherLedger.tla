--------------------------- MODULE DispatcherLedger ---------------------------
(***************************************************************************)
(* The dispatcher implements the event ledger.                             *)
(***************************************************************************)
EXTENDS Dispatcher

\* What a job's result channel has been given, read or not.
Outcome(j, r) == ack[j] = r \/ reply[j] = r

FailedInWorker(j) ==
    \E w \in Workers : holding[w] = j /\ at[w] = "reply" /\ failed[w]

\* The phase of a submission, read off the queue, the workers, the store and
\* the result channel.
Phase(j) ==
    IF verdict[j] = "none" THEN "new"
    ELSE IF verdict[j] # "accepted" THEN "refused"
    ELSE IF Outcome(j, "ok") THEN "confirmed"
    ELSE IF Outcome(j, "error") THEN "reported"
    ELSE IF FailedInWorker(j) THEN "rejected"
    ELSE IF j \in published THEN "announced"
    ELSE IF j \in stored THEN "persisted"
    ELSE "accepted"

Drained == \E s \in Stoppers : stop[s] = "drained"

Ledger == INSTANCE EventLedger
            WITH phase <- [j \in Jobs |-> Phase(j)],
                 open <- accepting,
                 quiet <- Drained

\* Every step of the dispatcher is a step of the ledger or leaves it alone:
\* accepted only while open, persisted before announced before confirmed,
\* one outcome for each submission, quiet only with nothing in flight.
ImplementsLedger == Ledger!Spec
===============================================================================
