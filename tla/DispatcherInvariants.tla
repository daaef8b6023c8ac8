------------------------- MODULE DispatcherInvariants -------------------------
(***************************************************************************)
(* The inductive invariant behind the safety properties of the dispatcher. *)
(***************************************************************************)
EXTENDS DispatcherLedger

\* The holder of the admission mutex is in its critical section, and a Submit
\* in there has seen a flag that cannot change under it.
MutexInv ==
    /\ \A j \in Jobs : submit[j] = "admitting" <=> admissionMu = j
    /\ \A s \in Stoppers : stop[s] = "closing" <=> admissionMu = s
    /\ \A j \in Jobs : submit[j] = "admitting" => accepting

\* The Once runs at most once, and its end, the close of the queue and the
\* passage of the first caller into the wait are one event.
OnceInv ==
    /\ \A s \in Stoppers : stop[s] \in {"locking", "closing"} <=> stopOnce = s
    /\ \A s \in Stoppers :
          stop[s] \in {"waiting", "drained", "expired"} => stopOnce = "finished"
    /\ closed <=> stopOnce = "finished"
    /\ closed => ~accepting
    /\ \A s \in Stoppers : stop[s] = "closing" => ~accepting

\* A verdict is given when Submit returns, and only an accepted caller waits.
VerdictInv ==
    \A j \in Jobs :
       /\ submit[j] \in {"idle", "calling", "admitting"} => verdict[j] = "none"
       /\ submit[j] = "waiting" => verdict[j] = "accepted"
       /\ submit[j] # "done" => reply[j] = "none"

\* A worker holds a job from the receive to the close of its result channel,
\* and leaves only when no job is left and none can come.
WorkerInv ==
    \A w \in Workers :
       /\ holding[w] = NoJob <=> at[w] \in {"idle", "exited"}
       /\ at[w] = "exited" => closed /\ jobs = <<>>

Silent(j) == ack[j] = "none" /\ reply[j] = "none"
Given(j, r) ==
    \/ ack[j] = r /\ reply[j] = "none"
    \/ ack[j] = "none" /\ reply[j] = r
NoEffect(j) == j \notin stored /\ j \notin published
Settled(j) ==
    \/ Given(j, "ok") /\ j \in stored /\ j \in published
    \/ Given(j, "error") /\ NoEffect(j)

\* What has happened to the job a worker holds.
WorkerEffect(w) ==
    LET j == holding[w] IN
    /\ at[w] \in {"process", "store"} => Silent(j) /\ NoEffect(j) /\ ~failed[w]
    /\ at[w] = "publish" =>
          Silent(j) /\ j \in stored /\ j \notin published /\ ~failed[w]
    /\ at[w] = "reply" =>
          /\ Silent(j)
          /\ IF failed[w] THEN NoEffect(j) ELSE j \in stored /\ j \in published
    /\ at[w] = "close" => Settled(j)
    /\ at[w] = "idle" => ~failed[w]

\* What has happened to a job follows from where it is.
EffectInv ==
    /\ \A j \in Jobs : Queued(j) \/ ~Accepted(j) => Silent(j) /\ NoEffect(j)
    /\ \A j \in ackClosed : Settled(j)
    /\ \A w \in Workers : WorkerEffect(w)

\* A drained Shutdown has seen every worker leave.
DrainInv == \A s \in Stoppers : stop[s] = "drained" => WorkersGone

\* A job is in one place at most, and only an accepted one is anywhere.
PlaceInv ==
    /\ \A a, b \in 1..Len(jobs) : jobs[a] = jobs[b] => a = b
    /\ \A v, w \in Workers :
          holding[v] = holding[w] /\ holding[v] # NoJob => v = w
    /\ \A j \in Jobs :
          /\ Queued(j) \/ Held(j) \/ Answered(j) => Accepted(j)
          /\ ~(Queued(j) /\ Held(j))
          /\ ~(Queued(j) /\ Answered(j))
          /\ ~(Held(j) /\ Answered(j))

\* An accepted job that is nowhere.
Lost(j) == Accepted(j) /\ ~Queued(j) /\ ~Held(j) /\ ~Answered(j)

\* What stays true when the process ends and takes the jobs in the queue and
\* in the workers' hands with it.
CoreInv ==
    /\ TypeOK
    /\ NoPanic
    /\ MutexInv
    /\ OnceInv
    /\ VerdictInv
    /\ WorkerInv
    /\ PlaceInv
    /\ EffectInv
    /\ DrainInv

\* The inductive invariant: every reachable state of the dispatcher satisfies
\* all of its parts together, and as long as the process lasts no job is lost.
IInv == CoreInv /\ \A j \in Jobs : ~Lost(j)
===============================================================================
