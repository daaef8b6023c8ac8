--------------------------- MODULE ServerInvariants ----------------------------
(***************************************************************************)
(* The inductive invariant of the service: what stays true of the          *)
(* dispatcher and of its storage together, through the ends of the process *)
(* and its next starts.                                                    *)
(***************************************************************************)
EXTENDS Server, DispatcherInvariants

\* The storage writes for the worker that is inside Store and has its lock,
\* and writes the event of that worker's job.
StoringInv ==
    /\ storing \in Workers \union {NoOne}
    /\ storing = NoOne <=> writer = S!Idle
    /\ \A w \in Workers :
          storing = w =>
             at[w] = "store" /\ writer.event = EventOf[holding[w]]

\* A job that was lost with the process stays as far as it had come: nobody
\* waits for it, and it was answered, or stored before it was published.
LostInv ==
    \A j \in Jobs :
       Lost(j) =>
          /\ submit[j] = "done"
          /\ \/ Silent(j) /\ (j \in published => j \in stored)
             \/ Settled(j)

\* Store has returned nil for the event of every stored job.
StoredInv == \A j \in stored : EventOf[j] \in promised

ServerInv == CoreInv /\ StoringInv /\ LostInv /\ StoredInv
===============================================================================
