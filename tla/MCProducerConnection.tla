------------------------ MODULE MCProducerConnection --------------------------
(***************************************************************************)
(* Instances of ProducerConnection for TLC.                                *)
(***************************************************************************)
EXTENDS ProducerConnection, TLC

Symmetry == Permutations(Connections) \union Permutations(Events)
===============================================================================
