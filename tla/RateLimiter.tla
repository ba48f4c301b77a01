----------------------------- MODULE RateLimiter -----------------------------
(***************************************************************************)
(* The sliding-window limiter of one client: check() reads the clock, then *)
(* awaits a Lua script that prunes the sorted set, counts it and adds the  *)
(* request.  The script is atomic; the clock it works with was read before *)
(* the await, so scripts of concurrent requests can run in another order   *)
(* than their clock readings.                                              *)
(***************************************************************************)
EXTENDS Integers, FiniteSets

CONSTANTS
  Requests,   \* calls of check() for one key
  Limit,      \* RATE_LIMIT_REQUESTS
  Window,     \* RATE_LIMIT_WINDOW_SECONDS, in ticks
  MaxTime,    \* bound: the clock stops here
  MaxDelay    \* bound: on maxDelay

ASSUME LimiterAssumption ==
  /\ IsFiniteSet(Requests)
  /\ Limit \in Nat
  /\ Window \in Nat \ {0}
  /\ MaxTime \in Nat
  /\ MaxDelay \in 0 .. Window

VARIABLES
  maxDelay, \* ticks a script may take to reach Redis, in this behaviour
  now,      \* the wall clock
  pc,       \* pc[r]: "new", "sent" (the script is on its way), "answered"
  nowMs,    \* nowMs[r]: the clock as check() read it
  zset,     \* members of the sorted set; the score of r is nowMs[r]
  ttl,      \* when Redis drops the key, if it exists
  allowed   \* requests that check() let pass

vars == <<maxDelay, now, pc, nowMs, zset, ttl, allowed>>

Times == 0 .. MaxTime

TypeOK ==
  /\ maxDelay \in 0 .. MaxDelay
  /\ now \in Times
  /\ pc \in [Requests -> {"new", "sent", "answered"}]
  /\ nowMs \in [Requests -> Times]
  /\ zset \subseteq Requests
  /\ ttl \in 0 .. (MaxTime + Window)
  /\ allowed \subseteq Requests

Init ==
  /\ maxDelay \in 0 .. MaxDelay
  /\ now = 0
  /\ pc = [r \in Requests |-> "new"]
  /\ nowMs = [r \in Requests |-> 0]
  /\ zset = {}
  /\ ttl = 0
  /\ allowed = {}

Expired(at) == at >= ttl

(* Time passes, and Redis drops the key when its time to live is over.  No *)
(* script is on its way for more than maxDelay ticks.                      *)
Tick ==
  /\ now < MaxTime
  /\ \A r \in Requests : pc[r] = "sent" => now < nowMs[r] + maxDelay
  /\ now' = now + 1
  /\ zset' = IF Expired(now + 1) THEN {} ELSE zset
  /\ UNCHANGED <<maxDelay, pc, nowMs, ttl, allowed>>

(* check() up to the await.                                                *)
ReadClock(r) ==
  /\ pc[r] = "new"
  /\ nowMs' = [nowMs EXCEPT ![r] = now]
  /\ pc' = [pc EXCEPT ![r] = "sent"]
  /\ UNCHANGED <<maxDelay, now, zset, ttl, allowed>>

(* ZREMRANGEBYSCORE key 0 window_start, both ends included.                *)
PrunedExclusive(at) == {q \in zset : nowMs[q] >= at - Window}
Pruned(at)          == {q \in zset : nowMs[q] > at - Window}

OverLimit(n) == n > Limit
AtLimit(n)   == n >= Limit

(* EXPIRE key window_seconds; the mutant takes it for milliseconds.        *)
KeyTtlInMs == Window * 1000
KeyTtl     == Window

(* The script as a whole; a denied request leaves only the pruning.        *)
Script(r) ==
  /\ pc[r] = "sent"
  /\ IF AtLimit(Cardinality(Pruned(nowMs[r])))
       THEN /\ zset' = Pruned(nowMs[r])
            /\ UNCHANGED <<ttl, allowed>>
       ELSE /\ zset' = Pruned(nowMs[r]) \cup {r}
            /\ ttl' = now + KeyTtl
            /\ allowed' = allowed \cup {r}
  /\ pc' = [pc EXCEPT ![r] = "answered"]
  /\ UNCHANGED <<maxDelay, now, nowMs>>

(* get_remaining(): prunes as well, with a clock read before its await.    *)
Remaining ==
  /\ \E at \in Times :
       at <= now /\ now <= at + maxDelay /\ zset' = Pruned(at)
  /\ UNCHANGED <<maxDelay, now, pc, nowMs, ttl, allowed>>

Next ==
  \/ Tick
  \/ \E r \in Requests : ReadClock(r) \/ Script(r)
  \/ Remaining

Spec == Init /\ [][Next]_vars

-----------------------------------------------------------------------------
(* Properties                                                              *)

(* Requests let pass in the length ticks that end with at.                 *)
Passed(at, length) ==
  {r \in allowed : nowMs[r] > at - length /\ nowMs[r] <= at}

(***************************************************************************)
(* "No burst at window boundary": no window, at whatever instant it ends,  *)
(* lets more than Limit requests pass.  When scripts reach Redis at once   *)
(* the window is the configured one; when they arrive late and out of      *)
(* order it is shorter by the delay, and by no more.                       *)
(***************************************************************************)
BoundedBurst ==
  \A at \in Times : Cardinality(Passed(at, Window - maxDelay)) <= Limit

(***************************************************************************)
(* Pruning and expiry change no decision: a script lets a request pass     *)
(* exactly when the complete history holds fewer than Limit passed         *)
(* requests of its window.  Denied requests and reads use up nothing.      *)
(* Only scripts that overtake one another can make it err.                 *)
(***************************************************************************)
History(r) == {q \in allowed : nowMs[q] > nowMs[r] - Window}
ExactDecisions ==
  [][\A r \in Requests :
       maxDelay = 0 /\ pc[r] = "sent" /\ pc'[r] = "answered" =>
         (r \in allowed' <=> Cardinality(History(r)) < Limit)]_vars
==============================================================================
