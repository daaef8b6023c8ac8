----------------------------- MODULE EventLedger ------------------------------
(***************************************************************************)
(* What the dispatcher promises to its callers, without queue, locks,      *)
(* channels or workers (dispatcher.go as a whole; BLUEPRINT sections 9, 12 *)
(* and 15).  Every submission goes through the phases                      *)
(*                                                                         *)
(*   new -> refused                                                        *)
(*   new -> accepted -> persisted -> announced -> confirmed                *)
(*                  \-> rejected -> reported                               *)
(*                                                                         *)
(* so an event is announced to monitors only after it is persisted, and    *)
(* confirmed only after both; no submission is accepted after the ledger   *)
(* is closed, and the ledger is quiet only when nothing is in flight.      *)
(***************************************************************************)
CONSTANT Jobs

VARIABLES
    phase,   \* where each submission is
    open,    \* whether submissions may be accepted
    quiet    \* whether the ledger has declared that nothing is in flight

ledgerVars == <<phase, open, quiet>>

Init ==
    /\ phase = [j \in Jobs |-> "new"]
    /\ open = TRUE
    /\ quiet = FALSE

Step(j, from, to) ==
    /\ phase[j] = from
    /\ phase' = [phase EXCEPT ![j] = to]
    /\ UNCHANGED <<open, quiet>>

Accept(j) == open /\ Step(j, "new", "accepted")
Refuse(j) == Step(j, "new", "refused")
Persist(j) == Step(j, "accepted", "persisted")
Announce(j) == Step(j, "persisted", "announced")
Confirm(j) == Step(j, "announced", "confirmed")
Reject(j) == Step(j, "accepted", "rejected")
Report(j) == Step(j, "rejected", "reported")

InFlight == {"accepted", "persisted", "announced", "rejected"}

Close ==
    /\ open
    /\ open' = FALSE
    /\ UNCHANGED <<phase, quiet>>

FallQuiet ==
    /\ ~open
    /\ \A j \in Jobs : phase[j] \notin InFlight
    /\ quiet' = TRUE
    /\ UNCHANGED <<phase, open>>

Next ==
    \/ \E j \in Jobs : \/ Accept(j) \/ Refuse(j)
                       \/ Persist(j) \/ Announce(j) \/ Confirm(j)
                       \/ Reject(j) \/ Report(j)
    \/ Close
    \/ FallQuiet

Spec == Init /\ [][Next]_ledgerVars
===============================================================================
