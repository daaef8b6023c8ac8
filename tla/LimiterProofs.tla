----------------------------- MODULE LimiterProofs -----------------------------
(***************************************************************************)
(* What the fixed window limiter grants and refuses, for any numbers of    *)
(* requests and keys, any limit and any window: at most two windows' worth *)
(* in less than a window, and no refusal without a window's worth before.  *)
(***************************************************************************)
EXTENDS RateLimiter, FiniteSetTheorems, TLAPS

Served(k) == {q \in Requests : status[q] = "served" /\ key[q] = k}

\* The clock runs ahead of what was read from it by at most the longest wait.
LimiterTypes ==
    /\ clock \in Nat \ {0}
    /\ items \in [Keys -> [started : Nat, count : Nat]]
    /\ status \in [Requests -> {"new", "locking", "served", "refused"}]
    /\ key \in [Requests -> Keys \union {<<>>}]
    /\ readAt \in [Requests -> Nat]
    /\ decidedAt \in [Requests -> Nat]
    /\ \A r \in Requests :
          /\ decidedAt[r] <= clock
          /\ status[r] = "locking" =>
                /\ key[r] \in Keys /\ readAt[r] # 0
                /\ readAt[r] <= clock /\ clock <= readAt[r] + MaxDelay

\* The requests served to a key, split into those of its current window, those
\* of the window before, and older ones: a request of an earlier window had the
\* lock before the one that opened the current window, which had it at most
\* MaxDelay after it read the clock, and older ones a whole window earlier.
Split(k, current, last) ==
    /\ current \subseteq Served(k) /\ last \subseteq Served(k)
    /\ Cardinality(current) = items[k].count /\ Cardinality(last) <= Limit
    /\ \A q \in current : items[k].started <= decidedAt[q]
    /\ \A q \in Served(k) \ current : decidedAt[q] <= items[k].started + MaxDelay
    /\ \A q \in Served(k) \ (current \union last) :
          decidedAt[q] + Window <= items[k].started + MaxDelay

WindowInv(k) ==
    /\ items[k].count <= Limit /\ items[k].started <= clock
    /\ items[k].started = 0 => Served(k) = {}
    /\ \E current, last \in SUBSET Requests : Split(k, current, last)

\* The requests served to a key within a stretch of time, and those decided not
\* long before a refusal.
Burst(k, t) ==
    {q \in Requests : /\ status[q] = "served" /\ key[q] = k
                      /\ t <= decidedAt[q]
                      /\ decidedAt[q] < t + Window - MaxDelay}

Before(r) ==
    {q \in Requests : /\ status[q] = "served" /\ key[q] = key[r]
                      /\ decidedAt[q] <= decidedAt[r]
                      /\ decidedAt[r] < decidedAt[q] + Window + MaxDelay}

BurstInv == \A k \in Keys : \A t \in Nat : Cardinality(Burst(k, t)) <= 2 * Limit

DueInv == \A r \in Requests : status[r] = "refused" => Cardinality(Before(r)) >= Limit

LimiterInv ==
    /\ LimiterTypes
    /\ \A k \in Keys : WindowInv(k)
    /\ BurstInv
    /\ DueInv
-------------------------------------------------------------------------------
(***************************************************************************)
(* Sets of requests are finite, and counted as one expects.                *)
(***************************************************************************)
\* Every set of requests is finite.
LEMMA SetCounted ==
    ASSUME NEW S \in SUBSET Requests
    PROVE  IsFiniteSet(S) /\ Cardinality(S) \in Nat
<1>1. IsFiniteSet(Requests)
  BY LimiterAssumption, FS_Interval DEF Requests
<1>2. IsFiniteSet(S)
  BY <1>1, FS_Subset
<1> QED
  BY <1>2, FS_CardinalityType

\* A set has no more elements than one it is part of.
LEMMA PartCounted ==
    ASSUME NEW S \in SUBSET Requests, NEW T \in SUBSET Requests, S \subseteq T
    PROVE  Cardinality(S) <= Cardinality(T)
BY SetCounted, FS_Subset

\* Two sets together have no more elements than one and the other.
LEMMA UnionCounted ==
    ASSUME NEW S \in SUBSET Requests, NEW T \in SUBSET Requests
    PROVE  Cardinality(S \union T) <= Cardinality(S) + Cardinality(T)
<1>1. IsFiniteSet(S) /\ IsFiniteSet(T) /\ S \cap T \in SUBSET Requests
  BY SetCounted
<1>2. Cardinality(S \union T) = Cardinality(S) + Cardinality(T) - Cardinality(S \cap T)
  BY <1>1, FS_Union
<1>3. /\ Cardinality(S) \in Nat /\ Cardinality(T) \in Nat
      /\ Cardinality(S \cap T) \in Nat
  BY <1>1, SetCounted
<1> QED
  BY <1>2, <1>3

\* A new element makes a set larger by one.
LEMMA NextCounted ==
    ASSUME NEW S \in SUBSET Requests, NEW r \in Requests, r \notin S
    PROVE  Cardinality(S \union {r}) = Cardinality(S) + 1
BY SetCounted, FS_AddElement
-------------------------------------------------------------------------------
(***************************************************************************)
(* What a step leaves as it is.                                            *)
(***************************************************************************)
\* A request that is decided stays as it is, and one that is served in this step
\* had its turn at the lock now.
LEMMA Settled ==
    ASSUME LimiterTypes, Next
    PROVE  /\ \A q \in Requests : status[q] \in {"served", "refused"} =>
                 /\ status'[q] = status[q] /\ key'[q] = key[q]
                 /\ decidedAt'[q] = decidedAt[q]
           /\ \A q \in Requests : status'[q] = "served" /\ status[q] # "served" =>
                 decidedAt'[q] = clock /\ clock' = clock
           /\ clock' \in Nat /\ clock <= clock'
<1>1. ASSUME NEW r \in Requests, ReadClock(r)
      PROVE  /\ \A q \in Requests \ {r} : status'[q] = status[q] /\ key'[q] = key[q]
             /\ status[r] = "new" /\ status'[r] = "locking"
             /\ decidedAt' = decidedAt /\ clock' = clock
  BY <1>1 DEF ReadClock, LimiterTypes
<1>2. ASSUME NEW r \in Requests, NEW v, Decide(r, v)
      PROVE  /\ \A q \in Requests \ {r} :
                   status'[q] = status[q] /\ decidedAt'[q] = decidedAt[q]
             /\ status[r] = "locking" /\ decidedAt'[r] = clock
             /\ key' = key /\ clock' = clock
  BY <1>2 DEF Decide, LimiterTypes
<1>3. ASSUME Tick
      PROVE  status' = status /\ key' = key /\ decidedAt' = decidedAt /\ clock' = clock + 1
  BY <1>3 DEF Tick
<1>4. clock \in Nat
  BY DEF LimiterTypes
<1>5. CASE \E r \in Requests : ReadClock(r)
  BY <1>1, <1>4, <1>5
<1>6. CASE \E r \in Requests : OpenWindow(r) \/ Count(r) \/ Refuse(r)
  <2>1. PICK r \in Requests : Decide(r, "served") \/ Decide(r, "refused")
    BY <1>6 DEF OpenWindow, Count, Refuse
  <2> QED
    BY <1>2, <1>4, <2>1
<1>7. CASE Tick
  BY <1>3, <1>4, <1>7
<1> QED
  BY <1>5, <1>6, <1>7 DEF Next
-------------------------------------------------------------------------------
\* The limiter starts without windows and without requests.
LEMMA LimiterInit == Init => LimiterInv
<1> SUFFICES ASSUME Init PROVE LimiterInv
  OBVIOUS
<1>1. LimiterTypes
  BY LimiterAssumption DEF Init, LimiterTypes
<1>2. \A k : Served(k) = {}
  BY DEF Init, Served
<1>3. Cardinality({}) = 0
  BY FS_EmptySet
<1>4. ASSUME NEW k \in Keys
      PROVE  WindowInv(k)
  <2>1. items[k].started = 0 /\ items[k].count = 0
    BY DEF Init
  <2>2. Split(k, {}, {})
    BY <1>2, <1>3, <2>1, LimiterAssumption DEF Split
  <2> QED
    BY <1>2, <2>1, <2>2, LimiterAssumption DEF WindowInv, Init
<1>5. BurstInv
  <2>1. \A k, t : Burst(k, t) = {}
    BY DEF Init, Burst
  <2> QED
    BY <1>3, <2>1, LimiterAssumption DEF BurstInv
<1>6. DueInv
  BY DEF Init, DueInv
<1> QED
  BY <1>1, <1>4, <1>5, <1>6 DEF LimiterInv

\* A request in its own goroutine keeps the types and the lag of the clock.
LEMMA TypesStep ==
    ASSUME LimiterTypes, Next
    PROVE  LimiterTypes'
<1>1. CASE \E r \in Requests : ReadClock(r)
  <2>1. PICK r \in Requests : ReadClock(r)
    BY <1>1
  <2>2. PICK k \in Keys : key' = [key EXCEPT ![r] = k]
    <3>1. PICK a \in APIKeys \union {NoAPIKey}, h \in Hosts :
             key' = [key EXCEPT ![r] = ClientKey(a, h)]
      BY <2>1 DEF ReadClock
    <3>2. ClientKey(a, h) \in Keys
      BY DEF Keys
    <3> QED
      BY <3>1, <3>2
  <2> QED
    BY <2>1, <2>2, LimiterAssumption DEF LimiterTypes, ReadClock
<1>2. ASSUME NEW r \in Requests, NEW v \in {"served", "refused"}, Decide(r, v),
             items' \in [Keys -> [started : Nat, count : Nat]]
      PROVE  LimiterTypes'
  BY <1>2 DEF LimiterTypes, Decide
<1>3. CASE \E r \in Requests : OpenWindow(r)
  <2>1. PICK r \in Requests : OpenWindow(r)
    BY <1>3
  <2>2. items' \in [Keys -> [started : Nat, count : Nat]]
    BY <2>1 DEF OpenWindow, LimiterTypes
  <2> QED
    BY <1>2, <2>1, <2>2 DEF OpenWindow
<1>4. CASE \E r \in Requests : Count(r)
  <2>1. PICK r \in Requests : Count(r)
    BY <1>4
  <2>2. items' \in [Keys -> [started : Nat, count : Nat]]
    <3>1. PICK k \in Keys : k = key[r]
      BY <2>1 DEF Count, Decide, LimiterTypes
    <3>2. items' = [items EXCEPT ![k].count = @ + 1]
      BY <2>1, <3>1 DEF Count
    <3>3. items[k] \in [started : Nat, count : Nat]
      BY DEF LimiterTypes
    <3>4. [items[k] EXCEPT !.count = @ + 1] \in [started : Nat, count : Nat]
      BY <3>3
    <3> QED
      BY <3>2, <3>4 DEF LimiterTypes
  <2> QED
    BY <1>2, <2>1, <2>2 DEF Count
<1>5. CASE \E r \in Requests : Refuse(r)
  <2>1. PICK r \in Requests : Refuse(r)
    BY <1>5
  <2> QED
    BY <1>2, <2>1 DEF Refuse, LimiterTypes
<1>6. CASE Tick
  BY <1>6, LimiterAssumption DEF Tick, LimiterTypes
<1> QED
  BY <1>1, <1>3, <1>4, <1>5, <1>6 DEF Next
-------------------------------------------------------------------------------
(***************************************************************************)
(* The windows of the keys.                                                *)
(***************************************************************************)
\* A key none of whose requests is served in a step keeps its windows.
LEMMA WindowKept ==
    ASSUME LimiterTypes, Next, NEW k \in Keys, WindowInv(k),
           Served(k)' = Served(k), items'[k] = items[k]
    PROVE  WindowInv(k)'
<1>1. PICK current, last \in SUBSET Requests : Split(k, current, last)
  BY DEF WindowInv
<1>2. \A q \in Served(k) : decidedAt'[q] = decidedAt[q]
  BY Settled DEF Served
<1>3. Split(k, current, last)'
  BY <1>1, <1>2 DEF Split
<1>4. items[k].started \in Nat /\ clock \in Nat
  BY DEF LimiterTypes
<1>5. items'[k].started <= clock'
  BY <1>4, Settled DEF WindowInv
<1> QED
  BY <1>3, <1>5 DEF WindowInv

\* A request that is served in a step is the only one, and joins those served to
\* its key.
LEMMA ServedBy ==
    ASSUME LimiterTypes, NEW r \in Requests, Decide(r, "served")
    PROVE  /\ key[r] \in Keys /\ status[r] = "locking" /\ clock' = clock
           /\ readAt[r] \in Nat /\ readAt[r] # 0
           /\ readAt[r] <= clock /\ clock <= readAt[r] + MaxDelay
           /\ Served(key[r])' = Served(key[r]) \union {r} /\ r \notin Served(key[r])
           /\ decidedAt'[r] = clock
           /\ \A k \in Keys \ {key[r]} : Served(k)' = Served(k)
<1>1. /\ status[r] = "locking" /\ clock' = clock /\ key' = key
      /\ status' = [status EXCEPT ![r] = "served"]
      /\ decidedAt' = [decidedAt EXCEPT ![r] = clock]
  BY DEF Decide
<1>2. \A q \in Requests : status'[q] = IF q = r THEN "served" ELSE status[q]
  BY <1>1 DEF LimiterTypes
<1> QED
  BY <1>1, <1>2 DEF LimiterTypes, Served

\* Opening a window makes the current one the last.
LEMMA WindowOpened ==
    ASSUME LimiterTypes, Next, NEW r \in Requests, OpenWindow(r),
           NEW k \in Keys, k = key[r], WindowInv(k)
    PROVE  WindowInv(k)'
<1>1. k = key[r]
  OBVIOUS
<1>2. /\ status[r] = "locking" /\ clock' = clock /\ key' = key
      /\ readAt[r] \in Nat /\ readAt[r] # 0
      /\ readAt[r] <= clock /\ clock <= readAt[r] + MaxDelay
      /\ Served(k)' = Served(k) \union {r} /\ r \notin Served(k)
      /\ decidedAt'[r] = clock
  BY <1>1, ServedBy DEF OpenWindow, Decide
<1>3. items'[k].started = readAt[r] /\ items'[k].count = 1
  BY <1>1 DEF OpenWindow, LimiterTypes
<1>4. items[k].started \in Nat /\ items[k].count \in Nat /\ clock \in Nat
  BY DEF LimiterTypes
<1>5. PICK current, last \in SUBSET Requests : Split(k, current, last)
  BY <1>1 DEF WindowInv
<1>6. /\ \A q \in Served(k) : decidedAt'[q] = decidedAt[q] /\ decidedAt[q] \in Nat
      /\ \A q \in Served(k) : decidedAt[q] <= clock
  BY Settled DEF Served, LimiterTypes
<1>7. ASSUME NEW q \in Served(k) \ current
      PROVE  decidedAt[q] + Window <= readAt[r] + MaxDelay
  <2>1. items[k].started # 0
    BY <1>1 DEF WindowInv
  <2>2. readAt[r] >= items[k].started + Window
    BY <1>1, <2>1 DEF OpenWindow, Expired
  <2>3. decidedAt[q] <= items[k].started + MaxDelay
    BY <1>5 DEF Split
  <2>4. decidedAt[q] \in Nat
    BY <1>6
  <2> QED
    BY <1>2, <1>4, <2>2, <2>3, <2>4, LimiterAssumption
<1>8. Split(k, {r}, current)'
  <2>1. Cardinality({r}) = 1
    BY FS_Singleton
  <2>2. current \subseteq Served(k) /\ Cardinality(current) <= Limit
    BY <1>1, <1>5 DEF Split, WindowInv
  <2>3. \A q \in Served(k)' \ {r} :
           /\ q \in Served(k) /\ decidedAt'[q] = decidedAt[q] /\ decidedAt[q] \in Nat
           /\ decidedAt[q] <= readAt[r] + MaxDelay
    BY <1>2, <1>4, <1>6, LimiterAssumption
  <2>4. \A q \in Served(k)' \ ({r} \union current) :
           decidedAt'[q] + Window <= readAt[r] + MaxDelay
    BY <1>7, <2>3
  <2> QED
    BY <1>2, <1>3, <2>1, <2>2, <2>3, <2>4 DEF Split
<1>9. current \in SUBSET Requests /\ {r} \in SUBSET Requests
  OBVIOUS
<1>10. /\ items'[k].count <= Limit /\ items'[k].started <= clock'
       /\ items'[k].started # 0
  BY <1>2, <1>3, LimiterAssumption
<1> QED
  BY <1>8, <1>9, <1>10 DEF WindowInv

\* A request is counted in the current window below the limit only.
LEMMA WindowCounted ==
    ASSUME LimiterTypes, Next, NEW r \in Requests, Count(r),
           NEW k \in Keys, k = key[r], WindowInv(k)
    PROVE  WindowInv(k)'
<1>1. k = key[r]
  OBVIOUS
<1>2. /\ status[r] = "locking" /\ clock' = clock /\ key' = key
      /\ Served(k)' = Served(k) \union {r} /\ r \notin Served(k)
      /\ decidedAt'[r] = clock
  BY <1>1, ServedBy DEF Count, Decide
<1>3. items[k].started \in Nat /\ items[k].count \in Nat /\ clock \in Nat
  BY DEF LimiterTypes
<1>4. items'[k].started = items[k].started /\ items'[k].count = items[k].count + 1
  BY <1>1 DEF Count, LimiterTypes
<1>5. PICK current, last \in SUBSET Requests : Split(k, current, last)
  BY <1>1 DEF WindowInv
<1>6. /\ items[k].started <= clock /\ items[k].started # 0
      /\ items[k].count < Limit
  BY <1>1 DEF WindowInv, Count, Expired
<1>7. PICK joined \in SUBSET Requests : joined = current \union {r}
  OBVIOUS
<1>8. Cardinality(joined) = Cardinality(current) + 1
  BY <1>2, <1>5, <1>7, NextCounted DEF Split
<1>9. \A q \in Served(k) : decidedAt'[q] = decidedAt[q]
  BY Settled DEF Served
<1>10. Split(k, joined, last)'
  <2>1. /\ current \subseteq Served(k) /\ last \subseteq Served(k)
        /\ Cardinality(current) = items[k].count /\ Cardinality(last) <= Limit
        /\ \A q \in current : items[k].started <= decidedAt[q]
        /\ \A q \in Served(k) \ current : decidedAt[q] <= items[k].started + MaxDelay
        /\ \A q \in Served(k) \ (current \union last) :
              decidedAt[q] + Window <= items[k].started + MaxDelay
    BY <1>5 DEF Split
  <2>2. \A q \in joined : items'[k].started <= decidedAt'[q]
    BY <1>2, <1>4, <1>6, <1>7, <1>9, <2>1
  <2> QED
    BY <1>2, <1>4, <1>7, <1>8, <1>9, <2>1, <2>2 DEF Split
<1>11. /\ items'[k].count <= Limit /\ items'[k].started <= clock'
       /\ items'[k].started # 0
  BY <1>2, <1>3, <1>4, <1>6, LimiterAssumption
<1> QED
  BY <1>10, <1>11 DEF WindowInv

\* Every step keeps the windows of every key.
LEMMA WindowStep ==
    ASSUME LimiterTypes, Next, \A k \in Keys : WindowInv(k)
    PROVE  \A k \in Keys : WindowInv(k)'
<1>1. CASE \E r \in Requests : OpenWindow(r)
  <2>1. PICK r \in Requests : OpenWindow(r)
    BY <1>1
  <2>2. key[r] \in Keys /\ \A k \in Keys \ {key[r]} : Served(k)' = Served(k)
    BY <2>1, ServedBy DEF OpenWindow
  <2>3. \A k \in Keys \ {key[r]} : items'[k] = items[k]
    BY <2>1 DEF OpenWindow, LimiterTypes
  <2>4. ASSUME NEW k \in Keys, k = key[r]
        PROVE  WindowInv(k)'
    BY <2>1, <2>4, WindowOpened
  <2> QED
    BY <2>2, <2>3, <2>4, WindowKept
<1>2. CASE \E r \in Requests : Count(r)
  <2>1. PICK r \in Requests : Count(r)
    BY <1>2
  <2>2. key[r] \in Keys /\ \A k \in Keys \ {key[r]} : Served(k)' = Served(k)
    BY <2>1, ServedBy DEF Count
  <2>3. \A k \in Keys \ {key[r]} : items'[k] = items[k]
    BY <2>1 DEF Count, LimiterTypes
  <2>4. ASSUME NEW k \in Keys, k = key[r]
        PROVE  WindowInv(k)'
    BY <2>1, <2>4, WindowCounted
  <2> QED
    BY <2>2, <2>3, <2>4, WindowKept
<1>3. CASE (\E r \in Requests : ReadClock(r) \/ Refuse(r)) \/ Tick
  <2>1. items' = items
    BY <1>3 DEF ReadClock, Refuse, Tick
  <2>2. \A k \in Keys : Served(k)' = Served(k)
    <3>1. CASE \E r \in Requests : ReadClock(r)
      <4>1. PICK r \in Requests : ReadClock(r)
        BY <3>1
      <4>2. /\ status[r] = "new" /\ status'[r] = "locking"
            /\ \A q \in Requests \ {r} : status'[q] = status[q] /\ key'[q] = key[q]
        BY <4>1 DEF ReadClock, LimiterTypes
      <4> QED
        BY <4>2 DEF Served
    <3>2. CASE \E r \in Requests : Refuse(r)
      <4>1. PICK r \in Requests : Refuse(r)
        BY <3>2
      <4>2. /\ status[r] = "locking" /\ status'[r] = "refused" /\ key' = key
            /\ \A q \in Requests \ {r} : status'[q] = status[q]
        BY <4>1 DEF Refuse, Decide, LimiterTypes
      <4> QED
        BY <4>2 DEF Served
    <3>3. CASE Tick
      BY <3>3 DEF Tick, Served
    <3> QED
      BY <1>3, <3>1, <3>2, <3>3
  <2> QED
    BY <2>1, <2>2, WindowKept
<1> QED
  BY <1>1, <1>2, <1>3 DEF Next
-------------------------------------------------------------------------------
(***************************************************************************)
(* Bursts.                                                                 *)
(***************************************************************************)
\* A stretch of time that is not over meets two windows at most.
RecentBounded ==
    \A k \in Keys : \A t \in Nat :
       WindowInv(k) /\ clock < t + Window - MaxDelay =>
          Cardinality(Burst(k, t)) <= 2 * Limit

\* Any older request of the key was served too early for that stretch.
LEMMA RecentBurst == LimiterTypes => RecentBounded
<1> SUFFICES ASSUME LimiterTypes, NEW k \in Keys, NEW t \in Nat, WindowInv(k),
                    clock < t + Window - MaxDelay
             PROVE  Cardinality(Burst(k, t)) <= 2 * Limit
  BY DEF RecentBounded
<1>1. PICK current, last \in SUBSET Requests : Split(k, current, last)
  BY DEF WindowInv
<1>2. /\ items[k].started \in Nat /\ items[k].count \in Nat /\ clock \in Nat
      /\ items[k].started <= clock /\ items[k].count <= Limit
  BY DEF LimiterTypes, WindowInv
<1>3. ASSUME NEW q \in Burst(k, t)
      PROVE  q \in current \union last
  <2>1. q \in Served(k) /\ t <= decidedAt[q] /\ decidedAt[q] \in Nat
    BY DEF Burst, Served, LimiterTypes
  <2>2. CASE q \notin current \union last
    <3>1. decidedAt[q] + Window <= items[k].started + MaxDelay
      BY <1>1, <2>1, <2>2 DEF Split
    <3> QED
      BY <1>2, <2>1, <3>1, LimiterAssumption
  <2> QED
    BY <2>2
<1>4. Cardinality(Burst(k, t)) <= Cardinality(current \union last)
  <2>1. Burst(k, t) \in SUBSET Requests /\ current \union last \in SUBSET Requests
    BY DEF Burst
  <2> QED
    BY <1>3, <2>1, PartCounted
<1>5. Cardinality(current \union last) <= Cardinality(current) + Cardinality(last)
  BY UnionCounted
<1>6. Cardinality(current) <= Limit /\ Cardinality(last) <= Limit
  BY <1>1, <1>2 DEF Split
<1>7. /\ Cardinality(Burst(k, t)) \in Nat /\ Cardinality(current \union last) \in Nat
      /\ Cardinality(current) \in Nat /\ Cardinality(last) \in Nat
  <2>1. Burst(k, t) \in SUBSET Requests
    BY DEF Burst
  <2> QED
    BY <2>1, SetCounted
<1> QED
  BY <1>4, <1>5, <1>6, <1>7, LimiterAssumption

\* Nothing is added to a stretch of time that is over.
LEMMA BurstStep ==
    ASSUME LimiterTypes, LimiterTypes', Next, BurstInv, \A k \in Keys : WindowInv(k)'
    PROVE  BurstInv'
<1> SUFFICES ASSUME NEW k \in Keys, NEW t \in Nat
             PROVE  Cardinality(Burst(k, t)') <= 2 * Limit
  BY DEF BurstInv
<1>1. CASE clock' < t + Window - MaxDelay
  <2>1. RecentBounded'
    BY RecentBurst, PTL
  <2> QED
    BY <1>1, <2>1 DEF RecentBounded
<1>2. CASE ~(clock' < t + Window - MaxDelay)
  <2>1. Burst(k, t)' = Burst(k, t)
    <3>1. ASSUME NEW q \in Requests
          PROVE  q \in Burst(k, t)' <=> q \in Burst(k, t)
      <4>1. CASE status[q] \in {"served", "refused"}
        BY <4>1, Settled DEF Burst
      <4>2. CASE status[q] \notin {"served", "refused"} /\ status'[q] = "served"
        <5>1. decidedAt'[q] = clock'
          BY <4>2, Settled
        <5> QED
          BY <1>2, <4>2, <5>1 DEF Burst
      <4>3. CASE status[q] # "served" /\ status'[q] # "served"
        BY <4>3 DEF Burst
      <4> QED
        BY <4>1, <4>2, <4>3
    <3> QED
      BY <3>1 DEF Burst
  <2> QED
    BY <2>1 DEF BurstInv
<1> QED
  BY <1>1, <1>2
-------------------------------------------------------------------------------
(***************************************************************************)
(* Refusals.                                                               *)
(***************************************************************************)
\* What was served before a refusal stays served, and a new refusal has the
\* requests of the current window before it.
LEMMA DueStep ==
    ASSUME LimiterTypes, Next, DueInv, \A k \in Keys : WindowInv(k)
    PROVE  DueInv'
<1> SUFFICES ASSUME NEW r \in Requests, status'[r] = "refused"
             PROVE  Cardinality(Before(r)') >= Limit
  BY DEF DueInv
<1>1. Before(r)' \in SUBSET Requests /\ Cardinality(Before(r)') \in Nat
  <2>1. Before(r)' \in SUBSET Requests
    BY DEF Before
  <2> QED
    BY <2>1, SetCounted
<1>2. CASE status[r] = "refused"
  <2>1. key'[r] = key[r] /\ decidedAt'[r] = decidedAt[r]
    BY <1>2, Settled
  <2>2. Before(r) \subseteq Before(r)'
    BY <2>1, Settled DEF Before
  <2>3. Before(r) \in SUBSET Requests /\ Cardinality(Before(r)) >= Limit
    BY <1>2 DEF DueInv, Before
  <2>4. Cardinality(Before(r)) <= Cardinality(Before(r)')
    BY <1>1, <2>2, <2>3, PartCounted
  <2>5. Cardinality(Before(r)) \in Nat
    BY <2>3, SetCounted
  <2> QED
    BY <1>1, <2>3, <2>4, <2>5, LimiterAssumption
<1>3. CASE status[r] # "refused"
  <2>1. Refuse(r)
    BY <1>3 DEF Next, ReadClock, OpenWindow, Count, Refuse, Decide, Tick, LimiterTypes
  <2>2. PICK k \in Keys : k = key[r]
    BY <2>1 DEF Refuse, Decide, LimiterTypes
  <2>3. /\ status[r] = "locking" /\ status' = [status EXCEPT ![r] = "refused"]
        /\ decidedAt' = [decidedAt EXCEPT ![r] = clock] /\ key' = key
        /\ items[k].started # 0 /\ items[k].count >= Limit
        /\ ~(readAt[r] >= items[k].started + Window)
    BY <2>1, <2>2 DEF Refuse, Decide, Expired
  <2>4. PICK current, last \in SUBSET Requests : Split(k, current, last)
    BY DEF WindowInv
  <2>5. /\ clock \in Nat /\ readAt[r] \in Nat /\ items[k].started \in Nat
        /\ clock <= readAt[r] + MaxDelay
    BY <2>3 DEF LimiterTypes
  <2>6. ASSUME NEW q \in current
        PROVE  q \in Before(r)'
    <3>1. /\ q \in Requests /\ status[q] = "served" /\ key[q] = k
          /\ items[k].started <= decidedAt[q]
      BY <2>4 DEF Split, Served
    <3>2. decidedAt[q] \in Nat /\ decidedAt[q] <= clock
      BY <3>1 DEF LimiterTypes
    <3>3. clock < decidedAt[q] + Window + MaxDelay
      BY <2>3, <2>5, <3>1, <3>2, LimiterAssumption
    <3>4. status'[q] = "served" /\ decidedAt'[q] = decidedAt[q] /\ decidedAt'[r] = clock
      BY <2>3, <3>1 DEF LimiterTypes
    <3> QED
      BY <2>2, <2>3, <3>1, <3>2, <3>3, <3>4 DEF Before
  <2>7. Cardinality(current) <= Cardinality(Before(r)')
    BY <1>1, <2>6, PartCounted
  <2>8. Cardinality(current) = items[k].count /\ items[k].count \in Nat
    BY <2>4 DEF Split, LimiterTypes
  <2> QED
    BY <1>1, <2>3, <2>7, <2>8, LimiterAssumption
<1> QED
  BY <1>2, <1>3
-------------------------------------------------------------------------------
\* The windows, the bursts and the refusals are as LimiterInv says in every state.
THEOREM LimiterInductive == Spec => []LimiterInv
<1>1. ASSUME LimiterInv, [Next]_vars
      PROVE  LimiterInv'
  <2>1. CASE Next
    <3>1. LimiterTypes'
      BY <1>1, <2>1, TypesStep DEF LimiterInv
    <3>2. \A k \in Keys : WindowInv(k)'
      BY <1>1, <2>1, WindowStep DEF LimiterInv
    <3>3. BurstInv'
      BY <1>1, <2>1, <3>1, <3>2, BurstStep DEF LimiterInv
    <3>4. DueInv'
      BY <1>1, <2>1, DueStep DEF LimiterInv
    <3> QED
      BY <3>1, <3>2, <3>3, <3>4 DEF LimiterInv
  <2>2. CASE UNCHANGED vars
    <3>1. LimiterTypes'
      BY <1>1, <2>2 DEF vars, LimiterInv, LimiterTypes
    <3>2. \A k \in Keys : WindowInv(k)'
      BY <1>1, <2>2 DEF vars, LimiterInv, WindowInv, Split, Served
    <3>3. BurstInv' /\ DueInv'
      BY <1>1, <2>2 DEF vars, LimiterInv, BurstInv, Burst, DueInv, Before
    <3> QED
      BY <3>1, <3>2, <3>3 DEF LimiterInv
  <2> QED
    BY <1>1, <2>1, <2>2
<1> QED
  BY <1>1, LimiterInit, PTL DEF Spec

\* However requests wait for the lock and whatever order they get it in, no key is
\* served more than twice its limit within less than a window (rate_limit.go:39-53).
THEOREM BurstsBounded == Spec => []BurstBounded
<1>1. LimiterInv => BurstBounded
  <2> SUFFICES ASSUME LimiterInv, NEW k \in Keys, NEW t \in 1..clock
               PROVE  Cardinality(Burst(k, t)) <= 2 * Limit
    BY DEF BurstBounded, Burst
  <2>1. t \in Nat
    BY DEF LimiterInv, LimiterTypes
  <2> QED
    BY <2>1 DEF LimiterInv, BurstInv
<1> QED
  BY <1>1, LimiterInductive, PTL

\* A request is refused only after its own key was served up to the limit
\* (rate_limit.go:48-50): the counter of a key counts nothing else.
THEOREM RefusalsDue == Spec => []RefusalIsDue
<1>1. LimiterInv => RefusalIsDue
  BY DEF LimiterInv, DueInv, Before, RefusalIsDue
<1> QED
  BY <1>1, LimiterInductive, PTL
===============================================================================
