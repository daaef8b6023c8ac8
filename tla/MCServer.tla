------------------------------- MODULE MCServer -------------------------------
(* Instances of Server for TLC: two submissions of one event and, where there *)
(* is a third, one of another.                                                *)
EXTENDS Server

CONSTANTS first, retry, e1, e2

EventsOfJobs == [j \in Jobs |-> IF j \in {first, retry} THEN e1 ELSE e2]
Sizes == [e \in Events |-> 2]
===============================================================================
