---------------------------- MODULE MemoryEventStore ----------------------------
(***************************************************************************)
(* The event store in memory (internal/adapters/storage/memory.go), which  *)
(* the tests of the handler run with.  Every operation holds mu from its   *)
(* first look at the state to its return; no context is cancelled.         *)
(***************************************************************************)
EXTENDS Naturals, Sequences

VARIABLES
    events,      \* the stored event of each ID
    order,       \* the IDs in the order of storage
    storeClosed  \* closed

storeVars == <<events, order, storeClosed>>

StoreInit ==
    /\ events = [id \in {} |-> {}]
    /\ order = <<>>
    /\ storeClosed = FALSE

Save(e) ==
    /\ ~storeClosed
    /\ events' = [id \in DOMAIN events \union {e.eventId} |->
                     IF id = e.eventId THEN e ELSE events[id]]
    /\ order' = Append(order, e.eventId)
    /\ UNCHANGED storeClosed

\* Faulty variant: a second event with the ID takes the place of the first.
StoreAgain(e) == Save(e)

\* Store succeeds.  ProcessEvent has seen to it that there is an ID.
Store(e) == e.eventId \notin DOMAIN events /\ Save(e)

\* Store returns ErrStoreClosed or ErrDuplicateEvent.
StoreFails(e) ==
    /\ storeClosed \/ e.eventId \in DOMAIN events
    /\ UNCHANGED storeVars

Close ==
    /\ ~storeClosed
    /\ storeClosed' = TRUE
    /\ UNCHANGED <<events, order>>

MatchesFilter(e, filter) ==
    /\ filter.levels # {} => e.level \in filter.levels
    /\ filter.services # {} => e.service \in filter.services
    /\ filter.eventTypes # {} => e.eventType \in filter.eventTypes

\* Query, while the store is not closed.
Query(filter) ==
    LET Selected(id) == MatchesFilter(events[id], filter)
        ids == SelectSeq(order, Selected)
    IN [i \in 1..Len(ids) |-> events[ids[i]]]
===============================================================================
