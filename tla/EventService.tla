----------------------------- MODULE EventService -----------------------------
(***************************************************************************)
(* What the service as a whole promises to the producers of events: the    *)
(* ledger of the dispatcher, kept through the ends of the process          *)
(* (BLUEPRINT sections 3, 9 and 15).  A submission is for one event; an    *)
(* event is persisted by one submission at most (Store succeeds for it     *)
(* once), however often it is sent and however often the service is        *)
(* started, and it is durable from then on.  How many records of it failed *)
(* attempts have left is not told.  The end of the process takes the       *)
(* answers of what was in flight with it, and nothing that is durable.     *)
(***************************************************************************)
EXTENDS EventLedger

CONSTANT EventOf  \* the event of each submission

VARIABLE durable  \* the events that have been persisted

serviceVars == <<ledgerVars, durable>>

ServiceInit == Init /\ durable = {}

\* The steps of the ledger that leave the disk alone.
Record(j) ==
    /\ Accept(j) \/ Refuse(j) \/ Announce(j) \/ Confirm(j) \/ Reject(j) \/ Report(j)
    /\ UNCHANGED durable

PersistOnce(j) ==
    /\ EventOf[j] \notin durable
    /\ Persist(j)
    /\ durable' = durable \union {EventOf[j]}

\* The process ends, in order or not.
Die ==
    /\ phase' = [j \in Jobs |-> IF phase[j] \in InFlight THEN "lost" ELSE phase[j]]
    /\ UNCHANGED <<open, quiet, durable>>

ServiceNext == Die \/ \E j \in Jobs : Record(j) \/ PersistOnce(j)

ServiceSpec == ServiceInit /\ [][ServiceNext]_serviceVars
===============================================================================
