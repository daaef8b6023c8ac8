----------------------------- MODULE RateLimiter ------------------------------
(***************************************************************************)
(* The fixed window limiter in front of the HTTP server                    *)
(* (internal/security/rate_limit.go).  Each request runs in a goroutine of *)
(* its own; Allow reads the clock first and takes the lock afterwards, so  *)
(* that requests are counted in another order than they read the clock,    *)
(* and a request that waited can be older than the window it falls in.     *)
(***************************************************************************)
EXTENDS Naturals, FiniteSets

CONSTANTS
    MaxRequests,  \* bound: the HTTP requests
    APIKeys,      \* the values of the X-API-Key header
    Hosts,        \* the hosts requests come from
    NoAPIKey,     \* a request without the header
    Limit,        \* limit
    Window,       \* window, in ticks
    MaxDelay,     \* the longest time from the clock to the lock in Allow
    MaxTime       \* bound: the last tick

\* NewFixedWindowLimiter replaces a limit and a window that are not positive.
ASSUME LimiterAssumption ==
    /\ Limit \in Nat \ {0} /\ Window \in Nat \ {0}
    /\ MaxDelay \in Nat /\ MaxDelay < Window
    /\ MaxTime \in Nat /\ MaxRequests \in Nat
    /\ NoAPIKey \notin APIKeys

\* The requests are numbered in the order in which they read the clock.
Requests == 1..MaxRequests

VARIABLES
    clock,     \* time.Now; 0 is the zero time
    items,     \* the window of each key, started at the zero time if it has none
    status,    \* "new", "locking", "served" or "refused"
    key,       \* the key of each request that is not new
    readAt,    \* what its Allow has read from the clock, while it waits
    decidedAt  \* when its Allow had the lock

vars == <<clock, items, status, key, readAt, decidedAt>>

\* ClientKey: the header if there is one, else the host.
ClientKey(apiKey, host) ==
    IF apiKey # NoAPIKey THEN <<"api-key", apiKey>> ELSE <<"ip", host>>

Keys == {ClientKey(k, h) : k \in APIKeys \union {NoAPIKey}, h \in Hosts}

Init ==
    /\ clock = 1
    /\ items = [k \in Keys |-> [started |-> 0, count |-> 0]]
    /\ status = [r \in Requests |-> "new"]
    /\ key = [r \in Requests |-> <<>>]
    /\ readAt = [r \in Requests |-> 0]
    /\ decidedAt = [r \in Requests |-> 0]

\* Middleware takes the key of a request, and Allow reads the clock.
ReadClock(r) ==
    /\ status[r] = "new" /\ \A q \in 1..(r - 1) : status[q] # "new"
    /\ status' = [status EXCEPT ![r] = "locking"]
    /\ \E k \in APIKeys \union {NoAPIKey}, h \in Hosts :
          key' = [key EXCEPT ![r] = ClientKey(k, h)]
    /\ readAt' = [readAt EXCEPT ![r] = clock]
    /\ UNCHANGED <<clock, items, decidedAt>>

\* Under the lock: the request goes on to the next handler, or is answered
\* "429 Too Many Requests".
Decide(r, verdict) ==
    /\ status[r] = "locking"
    /\ status' = [status EXCEPT ![r] = verdict]
    /\ decidedAt' = [decidedAt EXCEPT ![r] = clock]
    /\ readAt' = [readAt EXCEPT ![r] = 0]
    /\ UNCHANGED <<clock, key>>

\* now.Sub(item.started) >= limiter.window; a request that is older than the
\* window gives a negative difference.
Expired(r) ==
    \/ items[key[r]].started = 0
    \/ readAt[r] >= items[key[r]].started + Window

\* Faulty variant: the request that opens a window is not counted in it.
OpenWindowEmpty(r) ==
    /\ Decide(r, "served")
    /\ Expired(r)
    /\ items' = [items EXCEPT ![key[r]] = [started |-> readAt[r], count |-> 0]]

OpenWindow(r) ==
    /\ Decide(r, "served")
    /\ Expired(r)
    /\ items' = [items EXCEPT ![key[r]] = [started |-> readAt[r], count |-> 1]]

Count(r) ==
    /\ Decide(r, "served")
    /\ ~Expired(r)
    /\ items[key[r]].count < Limit
    /\ items' = [items EXCEPT ![key[r]].count = @ + 1]

\* Faulty variant: a refused request starts the window again.
RefuseAndRestart(r) ==
    /\ Decide(r, "refused")
    /\ ~Expired(r)
    /\ items[key[r]].count >= Limit
    /\ items' = [items EXCEPT ![key[r]].started = readAt[r]]

Refuse(r) ==
    /\ Decide(r, "refused")
    /\ ~Expired(r)
    /\ items[key[r]].count >= Limit
    /\ UNCHANGED items

\* The lock is held for a moment only: no request waits longer than MaxDelay.
Tick ==
    /\ clock < MaxTime
    /\ \A r \in Requests : status[r] = "locking" => clock < readAt[r] + MaxDelay
    /\ clock' = clock + 1
    /\ UNCHANGED <<items, status, key, readAt, decidedAt>>

Next ==
    \/ \E r \in Requests : ReadClock(r) \/ OpenWindow(r) \/ Count(r) \/ Refuse(r)
    \/ Tick

Spec == Init /\ [][Next]_vars
-------------------------------------------------------------------------------
\* Two windows meet, so that twice the limit passes in a short time, but never
\* more: within less than a window, shortened by the time a request may wait
\* for the lock, no key is served more than twice its limit.
BurstBounded ==
    \A k \in Keys : \A t \in 1..clock :
       Cardinality({r \in Requests :
                       /\ status[r] = "served" /\ key[r] = k
                       /\ t <= decidedAt[r]
                       /\ decidedAt[r] < t + Window - MaxDelay}) <= 2 * Limit

\* A request is refused only when its own key was served up to its limit
\* shortly before: neither other keys, nor earlier refusals, nor requests that
\* read the clock in another order than they were counted use the limit up.
RefusalIsDue ==
    \A r \in Requests :
       status[r] = "refused" =>
          Cardinality({q \in Requests :
                          /\ status[q] = "served" /\ key[q] = key[r]
                          /\ decidedAt[q] <= decidedAt[r]
                          /\ decidedAt[r] < decidedAt[q] + Window + MaxDelay}) >= Limit
===============================================================================
