--------------------------- MODULE RateLimiterProofs ---------------------------
(***************************************************************************)
(* Proofs about RateLimiter, for any number of requests, any limit, window *)
(* and delay, and any length of the clock.                                 *)
(***************************************************************************)
EXTENDS RateLimiter, FiniteSetTheorems, TLAPS

(* A clock reading is never ahead, and behind by the delay at most.        *)
ReadingsInTime ==
  \A r \in Requests :
    nowMs[r] <= now /\ (pc[r] = "sent" => now <= nowMs[r] + maxDelay)

(* The sorted set holds requests that passed, and they are answered.       *)
SetOfAllowed ==
  zset \subseteq allowed /\ \A r \in allowed : pc[r] = "answered"

(* The key lives until its newest entry has left the window.               *)
KeyOutlivesWindow == \A q \in zset : nowMs[q] + Window <= ttl

(* Nothing has been pruned, nor has expired, that still counts.            *)
Remembered == \A q \in allowed : nowMs[q] > now - Window => q \in zset

IInv ==
  /\ TypeOK
  /\ ReadingsInTime /\ SetOfAllowed /\ KeyOutlivesWindow /\ Remembered
  /\ BoundedBurst

-----------------------------------------------------------------------------

(* Sets of requests are finite, and grow by one at most.                   *)
LEMMA OneMore ==
  ASSUME NEW S \in SUBSET Requests, NEW T \in SUBSET S, NEW r \in Requests
  PROVE  /\ Cardinality(S) \in Nat /\ Cardinality(T) <= Cardinality(S)
         /\ Cardinality(T) \in Nat
         /\ Cardinality(T \cup {r}) <= Cardinality(T) + 1
<1>1. IsFiniteSet(S)
  BY FS_Subset, LimiterAssumption
<1>2. IsFiniteSet(T) /\ Cardinality(T) <= Cardinality(S)
  BY <1>1, FS_Subset
<1>3. Cardinality(S) \in Nat /\ Cardinality(T) \in Nat
  BY <1>1, <1>2, FS_CardinalityType
<1>4. Cardinality(T \cup {r}) \in {Cardinality(T), Cardinality(T) + 1}
  BY <1>2, FS_AddElement
<1>5. QED  BY <1>2, <1>3, <1>4

(* Initially no request has passed.                                        *)
LEMMA InitIInv == Init => IInv
<1> SUFFICES ASSUME Init PROVE IInv
  OBVIOUS
<1>1. TypeOK
  BY LimiterAssumption DEF Init, TypeOK, Times
<1>2. ReadingsInTime /\ SetOfAllowed /\ KeyOutlivesWindow /\ Remembered
  BY LimiterAssumption DEF Init, ReadingsInTime, SetOfAllowed,
                           KeyOutlivesWindow, Remembered
<1>3. BoundedBurst
  <2>1. \A at, length : Passed(at, length) = {}
    BY DEF Init, Passed
  <2>2. QED
    BY <2>1, FS_EmptySet, LimiterAssumption DEF BoundedBurst
<1>4. QED  BY <1>1, <1>2, <1>3 DEF IInv

(* Time: what expires with the key has left the window.                    *)
LEMMA TickIInv == IInv /\ Tick => IInv'
<1> SUFFICES ASSUME IInv, Tick PROVE IInv'
  OBVIOUS
<1>1. /\ now \in Nat /\ now' = now + 1 /\ now' \in Times
      /\ ttl \in Nat /\ Window \in Nat
      /\ UNCHANGED <<maxDelay, pc, nowMs, ttl, allowed>>
      /\ zset' = IF now' >= ttl THEN {} ELSE zset
  BY LimiterAssumption DEF Tick, Expired, IInv, TypeOK, Times
<1>2. TypeOK'
  BY <1>1 DEF IInv, TypeOK
<1>3. ReadingsInTime'
  BY <1>1, LimiterAssumption DEF Tick, IInv, TypeOK, Times, ReadingsInTime
<1>4. SetOfAllowed' /\ KeyOutlivesWindow'
  BY <1>1 DEF IInv, SetOfAllowed, KeyOutlivesWindow
<1>5. Remembered'
  <2> SUFFICES ASSUME NEW q \in allowed, nowMs[q] > now' - Window
               PROVE  q \in zset'
    BY <1>1 DEF Remembered
  <2>1. nowMs[q] \in Nat
    BY DEF IInv, TypeOK, Times
  <2>2. q \in zset
    BY <1>1, <2>1 DEF IInv, Remembered
  <2>3. nowMs[q] + Window <= ttl
    BY <2>2 DEF IInv, KeyOutlivesWindow
  <2>4. QED
    BY <1>1, <2>1, <2>2, <2>3
<1>6. BoundedBurst'
  BY <1>1 DEF IInv, BoundedBurst, Passed
<1>7. QED  BY <1>2, <1>3, <1>4, <1>5, <1>6 DEF IInv

(* The clock is read.  A request in no set changes no window.              *)
LEMMA ReadClockIInv ==
  ASSUME NEW r \in Requests, IInv, ReadClock(r)
  PROVE  IInv'
<1>1. /\ UNCHANGED <<maxDelay, now, zset, ttl, allowed>>
      /\ r \notin allowed /\ now \in Times /\ maxDelay \in Nat
      /\ nowMs' = [nowMs EXCEPT ![r] = now]
      /\ pc' = [pc EXCEPT ![r] = "sent"]
  BY LimiterAssumption DEF ReadClock, IInv, TypeOK, SetOfAllowed
<1>2. \A q \in allowed : nowMs'[q] = nowMs[q] /\ pc'[q] = pc[q]
  BY <1>1 DEF IInv, TypeOK
<1>3. TypeOK'
  BY <1>1 DEF IInv, TypeOK
<1>4. ReadingsInTime'
  BY <1>1 DEF IInv, TypeOK, Times, ReadingsInTime
<1>5. SetOfAllowed' /\ KeyOutlivesWindow' /\ Remembered'
  BY <1>1, <1>2 DEF IInv, SetOfAllowed, KeyOutlivesWindow, Remembered
<1>6. BoundedBurst'
  <2>1. \A at, length : Passed(at, length)' = Passed(at, length)
    BY <1>1, <1>2 DEF Passed
  <2>2. QED
    BY <1>1, <2>1 DEF IInv, BoundedBurst
<1>7. QED  BY <1>3, <1>4, <1>5, <1>6 DEF IInv

(* Pruning with a reading that is not ahead loses nothing that counts.     *)
LEMMA PrunedKeeps ==
  ASSUME IInv, NEW at \in Times, at <= now, NEW q \in allowed,
         nowMs[q] > now - Window
  PROVE  q \in Pruned(at)
  BY LimiterAssumption DEF IInv, TypeOK, Times, Remembered, Pruned

(***************************************************************************)
(* The heart of the limiter.  A window that r belongs to and that is no    *)
(* longer than Window - maxDelay reaches back to nothing that r's script,  *)
(* at most maxDelay late, does not find in the pruned set.                 *)
(***************************************************************************)
LEMMA WindowIsCounted ==
  ASSUME IInv, NEW r \in Requests, pc[r] = "sent", NEW at \in Times,
         nowMs[r] <= at
  PROVE  Passed(at, Window - maxDelay) \subseteq Pruned(nowMs[r])
<1> SUFFICES ASSUME NEW q \in allowed,
                    nowMs[q] > at - (Window - maxDelay)
             PROVE  q \in Pruned(nowMs[r])
  BY DEF Passed
<1>1. /\ nowMs[q] \in Nat /\ nowMs[r] \in Nat /\ now \in Nat /\ at \in Nat
      /\ maxDelay \in Nat /\ Window \in Nat
      /\ nowMs[r] <= now /\ now <= nowMs[r] + maxDelay
  BY LimiterAssumption DEF IInv, TypeOK, Times, ReadingsInTime
<1>2. nowMs[q] > now - Window /\ nowMs[q] > nowMs[r] - Window
  BY <1>1
<1>3. QED
  BY <1>2 DEF IInv, Remembered, Pruned

(* A script that lets r pass had found fewer than Limit in r's window.     *)
LEMMA AllowIInv ==
  ASSUME NEW r \in Requests, IInv, Script(r),
         ~AtLimit(Cardinality(Pruned(nowMs[r])))
  PROVE  IInv'
<1>1. /\ pc[r] = "sent" /\ r \notin allowed
      /\ zset' = Pruned(nowMs[r]) \cup {r}
      /\ ttl' = now + Window
      /\ allowed' = allowed \cup {r}
      /\ pc' = [pc EXCEPT ![r] = "answered"]
      /\ UNCHANGED <<maxDelay, now, nowMs>>
  BY DEF Script, KeyTtl, IInv, SetOfAllowed
<1>2. /\ now \in Nat /\ now <= MaxTime /\ Window \in Nat /\ MaxTime \in Nat
      /\ Pruned(nowMs[r]) \subseteq zset
      /\ \A q \in Requests : nowMs[q] \in Times /\ nowMs[q] <= now
  BY LimiterAssumption DEF IInv, TypeOK, Times, ReadingsInTime, Pruned
<1>3. TypeOK'
  <2>1. ttl' \in 0 .. (MaxTime + Window)
    BY <1>1, <1>2
  <2>2. QED
    BY <1>1, <1>2, <2>1 DEF IInv, TypeOK
<1>4. ReadingsInTime' /\ SetOfAllowed'
  BY <1>1, <1>2 DEF IInv, TypeOK, ReadingsInTime, SetOfAllowed
<1>5. KeyOutlivesWindow'
  BY <1>1, <1>2 DEF IInv, TypeOK, KeyOutlivesWindow, Times
<1>6. Remembered'
  BY <1>1, <1>2, PrunedKeeps DEF Remembered
<1>7. BoundedBurst'
  <2> SUFFICES ASSUME NEW at \in Times
               PROVE  Cardinality(Passed(at, Window - maxDelay)') <= Limit
    BY <1>1 DEF BoundedBurst
  <2> DEFINE P == Passed(at, Window - maxDelay)
  <2>1. P \subseteq Requests /\ zset \subseteq Requests
    BY DEF Passed, IInv, TypeOK
  <2>2. CASE nowMs[r] <= at
    <3>1. P \subseteq Pruned(nowMs[r])
      BY <1>1, <2>2, WindowIsCounted
    <3>2. Cardinality(P) + 1 <= Limit
      <4>1. Pruned(nowMs[r]) \in SUBSET Requests
        BY <1>2, <2>1
      <4>2. /\ Cardinality(P) \in Nat
            /\ Cardinality(Pruned(nowMs[r])) \in Nat
            /\ Cardinality(P) <= Cardinality(Pruned(nowMs[r]))
        BY <3>1, <4>1, OneMore
      <4>3. Cardinality(Pruned(nowMs[r])) < Limit
        BY <4>2, LimiterAssumption DEF AtLimit
      <4>4. QED
        BY <4>2, <4>3, LimiterAssumption
    <3>3. Cardinality(P \cup {r}) <= Limit /\ Cardinality(P) <= Limit
      BY <2>1, <3>2, OneMore, LimiterAssumption
    <3>4. P' = P \/ P' = P \cup {r}
      BY <1>1 DEF Passed
    <3>5. QED  BY <3>3, <3>4
  <2>3. CASE ~(nowMs[r] <= at)
    <3>1. P' = P
      BY <1>1, <2>3 DEF Passed
    <3>2. QED  BY <3>1 DEF IInv, BoundedBurst
  <2>4. QED  BY <2>2, <2>3
<1>8. QED  BY <1>3, <1>4, <1>5, <1>6, <1>7 DEF IInv

(* A script that only prunes: the request is denied, or nothing is asked.  *)
LEMMA PruneIInv ==
  ASSUME IInv, NEW at \in Times, at <= now, zset' = Pruned(at),
         UNCHANGED <<maxDelay, now, nowMs, ttl, allowed>>,
         \/ UNCHANGED pc
         \/ \E r \in Requests : pc' = [pc EXCEPT ![r] = "answered"]
  PROVE  IInv'
<1>1. zset' \subseteq zset
  BY DEF Pruned
<1>2. TypeOK'
  BY <1>1 DEF IInv, TypeOK
<1>3. ReadingsInTime' /\ SetOfAllowed' /\ KeyOutlivesWindow'
  BY <1>1 DEF IInv, TypeOK, ReadingsInTime, SetOfAllowed, KeyOutlivesWindow
<1>4. Remembered'
  BY PrunedKeeps DEF Remembered
<1>5. BoundedBurst'
  BY DEF IInv, BoundedBurst, Passed
<1>6. QED  BY <1>2, <1>3, <1>4, <1>5 DEF IInv

(* The invariant is inductive: one step per action.                        *)
LEMMA NextIInv == IInv /\ [Next]_vars => IInv'
<1> SUFFICES ASSUME IInv, [Next]_vars PROVE IInv'
  OBVIOUS
<1>1. CASE Tick
  BY <1>1, TickIInv
<1>2. ASSUME NEW r \in Requests, ReadClock(r)
      PROVE  IInv'
  BY <1>2, ReadClockIInv
<1>3. ASSUME NEW r \in Requests, Script(r)
      PROVE  IInv'
  <2>1. CASE AtLimit(Cardinality(Pruned(nowMs[r])))
    <3>1. nowMs[r] \in Times /\ nowMs[r] <= now
      BY DEF IInv, TypeOK, ReadingsInTime
    <3>2. QED
      BY <1>3, <2>1, <3>1, PruneIInv DEF Script
  <2>2. CASE ~AtLimit(Cardinality(Pruned(nowMs[r])))
    BY <1>3, <2>2, AllowIInv
  <2>3. QED  BY <2>1, <2>2
<1>4. CASE Remaining
  BY <1>4, PruneIInv DEF Remaining
<1>5. CASE UNCHANGED vars
  BY <1>5 DEF vars, IInv, TypeOK, ReadingsInTime, SetOfAllowed,
              KeyOutlivesWindow, Remembered, BoundedBurst, Passed
<1>6. QED
  BY <1>1, <1>2, <1>3, <1>4, <1>5 DEF Next

-----------------------------------------------------------------------------

(* The strengthened invariant holds in every reachable state.              *)
THEOREM InductiveInvariant == Spec => []IInv
  BY InitIInv, NextIInv, PTL DEF Spec

(* Type correctness of the limiter.                                        *)
THEOREM TypeCorrect == Spec => []TypeOK
<1>1. IInv => TypeOK
  BY DEF IInv
<1>2. QED  BY <1>1, InductiveInvariant, PTL

(* No window, shortened by the delay of the scripts, lets more than Limit  *)
(* requests pass.                                                          *)
THEOREM NoBurst == Spec => []BoundedBurst
<1>1. IInv => BoundedBurst
  BY DEF IInv
<1>2. QED  BY <1>1, InductiveInvariant, PTL

(* While scripts run at once, pruning and expiry change no decision.       *)
THEOREM DecisionsExact == Spec => ExactDecisions
<1> DEFINE Exact ==
      \A r \in Requests :
        maxDelay = 0 /\ pc[r] = "sent" /\ pc'[r] = "answered" =>
          (r \in allowed' <=> Cardinality(History(r)) < Limit)
<1>1. IInv /\ [Next]_vars => [Exact]_vars
  <2> SUFFICES ASSUME IInv, Next, NEW r \in Requests, maxDelay = 0,
                      pc[r] = "sent", pc'[r] = "answered"
               PROVE  r \in allowed' <=> Cardinality(History(r)) < Limit
    OBVIOUS
  <2>1. Script(r)
    BY DEF Next, Tick, ReadClock, Script, Remaining, IInv, TypeOK
  <2>2. nowMs[r] = now /\ now \in Nat /\ r \notin allowed
    BY DEF IInv, TypeOK, ReadingsInTime, SetOfAllowed, Times
  <2>3. Pruned(nowMs[r]) = History(r)
    BY <2>2 DEF Pruned, History, IInv, Remembered, SetOfAllowed
  <2>4. Cardinality(History(r)) \in Nat
    BY OneMore DEF History, IInv, TypeOK
  <2>5. QED
    BY <2>1, <2>2, <2>3, <2>4, LimiterAssumption DEF Script, AtLimit
<1>2. QED
  BY <1>1, InductiveInvariant, PTL DEF Spec, ExactDecisions
==============================================================================
