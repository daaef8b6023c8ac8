-------------------------- MODULE MCJSONFileStorage ---------------------------
(***************************************************************************)
(* Instances of JSONFileStorage for TLC: a short event, a long one, and     *)
(* the others longer than a whole file may be.                              *)
(***************************************************************************)
EXTENDS JSONFileStorage, TLC

CONSTANTS short, long

\* With files of 5 units, a short and a long record fill one to its last unit.
Sizes == [e \in Events |-> IF e = short THEN 2 ELSE IF e = long THEN 3 ELSE 6]
===============================================================================
