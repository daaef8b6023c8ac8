------------------------- MODULE MCMonitorConnection --------------------------
(***************************************************************************)
(* Instances of MonitorConnection for TLC.                                 *)
(***************************************************************************)
EXTENDS MonitorConnection, TLC

\* Filters that are empty match everything.
WantAll == [s \in Subscriptions |-> Events]

Symmetry == Permutations(Workers) \union Permutations(Events)
              \union Permutations(Connections)
===============================================================================
