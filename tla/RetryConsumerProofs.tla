-------------------------- MODULE RetryConsumerProofs --------------------------
(***************************************************************************)
(* Proofs about the two consumers that run BaseConsumer's loop, for any    *)
(* partitions, processes and events, any labels and rules, any number of   *)
(* retries and any set of faults.  First come the loop and Kafka, which    *)
(* they share; then MetricsConsumer, and then AlertConsumer.               *)
(***************************************************************************)
EXTENDS MetricsConsumer, AlertConsumer, FiniteSetTheorems, TLAPS

(* What a process has polled and is not done with.                         *)
InHand(w) ==
  batch[w] \cup IF pc[w] \in {"process", "deadletter"} THEN current[w] ELSE {}

OffsetsOrdered ==
  \A p \in Partitions :
    committed[p] <= position[p] /\ position[p] <= Len(topic[p])

OnlyProduced == \A w \in Workers : InHand(w) \subseteq Produced

(* One message is worked on at a time; between two batches, none is held.  *)
OneAtATime ==
  \A w \in Workers :
    /\ pc[w] \in {"process", "deadletter"} =>
         \E m \in Msg : current[w] = {m} /\ m \notin batch[w]
    /\ pc[w] \in {"down", "starting", "loop", "commit"} => batch[w] = {}

(* As long as nothing goes wrong, only partitions that are worked on are   *)
(* ahead of their commits, and processes hold only what they own.          *)
CalmHands ==
  calm =>
    /\ \A p \in Partitions :
         position[p] # committed[p] => owner[p] \in Workers /\ ~Idle(owner[p])
    /\ \A w \in Workers : \A m \in InHand(w) :
         owner[m[1]] = w /\ m[2] < position[m[1]]

LoopIInv ==
  RetryTypeOK /\ OffsetsOrdered /\ OnlyProduced /\ OneAtATime /\ CalmHands

(***************************************************************************)
(* What the group will not look at again unless a rebalance takes it back: *)
(* messages behind the committed offset, and those that the owner of their *)
(* partition has polled and is done with.                                  *)
(***************************************************************************)
Passed ==
  {m \in Msg : \/ m[2] < committed[m[1]]
               \/ /\ m[2] < position[m[1]]
                  /\ owner[m[1]] \in Workers
                  /\ m \notin InHand(owner[m[1]])}

-----------------------------------------------------------------------------
(* MetricsConsumer: its invariant                                          *)

CountersTypeOK ==
  /\ sent \in [Workers -> 0 .. 4]
  /\ total \in 0 .. MaxTotal
  /\ services \in [Services -> Nat] /\ IsFiniteSet(Units(services))
  /\ levels \in [Levels -> Nat] /\ IsFiniteSet(Units(levels))
  /\ serviceLevels \in [Labels -> Nat] /\ IsFiniteSet(Units(serviceLevels))

(* Commands are sent during process() only, for a message it can read.     *)
PipelineInOrder ==
  \A w \in Workers :
    sent[w] > 0 => pc[w] = "process" /\ \A m \in current[w] : Countable(m)

(* Pipelines whose last command so far is the k-th.                        *)
Sent(k) == {w \in Workers : sent[w] = k}

(* A breakdown lacks what the pipelines that stopped short of it lack.     *)
BreakdownsBehind ==
  /\ Sum(services) + Cardinality(Sent(1)) <= total
  /\ Sum(levels) + Cardinality(Sent(2)) <= Sum(services)
  /\ Sum(serviceLevels) + Cardinality(Sent(3)) <= Sum(levels)

(* Messages the group has passed and not routed, and pipelines that have   *)
(* run for one it may be about to pass.                                    *)
PassedFor(sl) ==
  {m \in Passed \ (dlt \cup dropped) : Label[EventOf(m)] = sl}
RunFor(sl) ==
  {w \in Sent(4) : \E m \in current[w] : Label[EventOf(m)] = sl}
PassedCounted ==
  \A sl \in Labels :
    Cardinality(PassedFor(sl)) + Cardinality(RunFor(sl)) <= serviceLevels[sl]

(* What was polled but for what no command was sent for yet.               *)
Untouched(w) ==
  batch[w] \cup IF pc[w] = "process" /\ sent[w] = 0 THEN current[w] ELSE {}
Begun ==
  {m \in Msg : m[2] < position[m[1]] /\ \A w \in Workers : m \notin Untouched(w)}
BegunOnce == calm => total <= Cardinality(Begun)

MetricsIInv ==
  /\ LoopIInv /\ CountersTypeOK /\ PipelineInOrder
  /\ BreakdownsBehind /\ PassedCounted /\ BegunOnce

-----------------------------------------------------------------------------
(* AlertConsumer: its invariant                                            *)

RulesTypeOK ==
  /\ toFire \in [Workers -> SUBSET Rules]
  /\ parsed \in [Workers -> BOOLEAN] /\ produced \in [Workers -> BOOLEAN]
  /\ alerts \subseteq Msg \X Rules /\ repeated \in BOOLEAN
  /\ alertCount \in 0 .. MaxCount
  /\ unsent \subseteq Msg \X Rules /\ uncounted \subseteq Msg \X Rules

(* Rules are looked at during process() only, for a message it can read;   *)
(* an alert that was sent and not counted is of the first rule left.       *)
MatchInOrder ==
  \A w \in Workers :
    /\ IF parsed[w]
         THEN pc[w] = "process" /\ \A m \in current[w] : Matchable(m)
         ELSE toFire[w] = {} /\ ~produced[w]
    /\ produced[w] => toFire[w] # {}

(* The rules of its message that w has passed over, counted or not.        *)
Behind(w, r) ==
  parsed[w] /\ (r \notin toFire[w] \/ (produced[w] /\ NextRule(w, r)))
RulesTried ==
  \A w \in Workers : \A m \in current[w] : \A r \in Matches[EventOf(m)] :
    Behind(w, r) => <<m, r>> \in alerts \cup unsent

(* What the messages the group has passed call for.                        *)
PassedDue ==
  {a \in Msg \X Rules : /\ a[1] \in Passed \ (dlt \cup dropped)
                        /\ a[2] \in Matches[EventOf(a[1])]}
PassedTried == PassedDue \subseteq alerts \cup unsent

(* Rules that w has counted for a message it is still working on.          *)
CountedNow ==
  {c \in Workers \X Rules :
     /\ parsed[c[1]] /\ c[2] \notin toFire[c[1]]
     /\ \E m \in current[c[1]] : c[2] \in Matches[EventOf(m)]
                                 /\ <<m, c[2]>> \notin uncounted}
DueCounted ==
  \/ alertCount = MaxCount
  \/ Cardinality(PassedDue \ uncounted) + Cardinality(CountedNow) <= alertCount

(* As long as nothing goes wrong, an alert is of a message that was polled *)
(* and is not waiting, and of a rule that is behind.                       *)
FiredBehind ==
  calm =>
    /\ ~repeated
    /\ \A a \in alerts :
         /\ a[1][2] < position[a[1][1]]
         /\ \A w \in Workers :
              /\ a[1] \notin batch[w]
              /\ pc[w] = "process" /\ a[1] \in current[w] => Behind(w, a[2])

AlertIInv ==
  /\ LoopIInv /\ RulesTypeOK /\ MatchInOrder /\ RulesTried
  /\ PassedTried /\ DueCounted /\ FiredBehind
-----------------------------------------------------------------------------
(* The loop and Kafka                                                      *)

(* A message that was polled and that no process is still to come to.      *)
Taken(m) == m[2] < position[m[1]] /\ \A w \in Workers : m \notin batch[w]

(***************************************************************************)
(* What a step does to the rest: the processes in V go on with process(),  *)
(* nothing is taken back, the group passes no message outside G but those  *)
(* it routes, and, as long as nothing goes wrong, no message is taken up   *)
(* twice.                                                                  *)
(***************************************************************************)
Keeps(V, G) ==
  /\ Produced \subseteq Produced'
  /\ \A m \in Produced : EventOf(m)' = EventOf(m)
  /\ dlt \subseteq dlt' /\ dropped \subseteq dropped'
  /\ Passed' \ (dlt' \cup dropped') \subseteq (Passed \ (dlt \cup dropped)) \cup G
  /\ \A v \in V :
       pc[v] = "process" => pc'[v] = "process" /\ current'[v] = current[v]
  /\ calm' =>
       /\ calm
       /\ \A m \in Msg : Taken(m) =>
            /\ Taken(m)'
            /\ \A v \in Workers :
                 pc'[v] = "process" /\ m \in current'[v] =>
                   pc[v] = "process" /\ current'[v] = current[v]

(* What the invariant says of the three offsets of a partition.            *)
LEMMA OffsetsOf ==
  ASSUME LoopIInv, NEW p \in Partitions
  PROVE  /\ committed[p] \in Nat /\ position[p] \in Nat
         /\ Len(topic[p]) \in Nat /\ Len(topic[p]) <= MaxLen
         /\ committed[p] <= position[p] /\ position[p] <= Len(topic[p])
  BY GroupAssumption DEF LoopIInv, RetryTypeOK, GroupTypeOK, OffsetsOrdered

(* A message is a partition and an offset.                                 *)
LEMMA MsgOf ==
  ASSUME NEW m \in Msg
  PROVE  m[1] \in Partitions /\ m[2] \in Nat /\ m[2] < MaxLen
  BY GroupAssumption DEF Msg, Offsets

(* There are finitely many messages, processes and so on.                  *)
LEMMA FiniteMsg == IsFiniteSet(Msg)
<1>1. IsFiniteSet(Offsets)
  BY GroupAssumption, FS_Interval DEF Offsets
<1>2. QED  BY <1>1, FiniteAssumption, FS_Product DEF Msg

(* What the group has passed was produced, and its event is one.           *)
LEMMA PassedProduced ==
  ASSUME LoopIInv
  PROVE  Passed \subseteq Produced /\ \A m \in Produced : EventOf(m) \in Events
<1>1. Passed \subseteq Produced
  <2> SUFFICES ASSUME NEW m \in Passed PROVE m[2] < Len(topic[m[1]])
    BY DEF Passed, Produced
  <2>1. m \in Msg /\ (m[2] < position[m[1]] \/ m[2] < committed[m[1]])
    BY DEF Passed
  <2>2. QED  BY <2>1, MsgOf, OffsetsOf
<1>2. ASSUME NEW m \in Produced PROVE EventOf(m) \in Events
  <2>1. m[1] \in Partitions /\ m[2] + 1 \in 1 .. Len(topic[m[1]])
    BY MsgOf, OffsetsOf DEF Produced
  <2>2. topic[m[1]] \in Seq(Events)
    BY <2>1 DEF LoopIInv, RetryTypeOK, GroupTypeOK
  <2>3. QED  BY <2>1, <2>2 DEF EventOf
<1>3. QED  BY <1>1, <1>2

(* Initially nothing is polled.                                            *)
LEMMA InitLoop == RetryInit => LoopIInv /\ Passed = {} /\ ~\E m \in Msg : Taken(m)
<1> SUFFICES ASSUME RetryInit
             PROVE  LoopIInv /\ Passed = {} /\ ~\E m \in Msg : Taken(m)
  OBVIOUS
<1> USE GroupAssumption, RetryAssumption DEF RetryInit, GroupInit
<1>1. GroupTypeOK
  BY DEF GroupTypeOK
<1>2. RetryTypeOK
  BY <1>1 DEF RetryTypeOK, RetryPlaces
<1>3. OffsetsOrdered /\ OnlyProduced /\ OneAtATime /\ CalmHands
  BY DEF OffsetsOrdered, OnlyProduced, OneAtATime, CalmHands, InHand
<1>4. Passed = {} /\ ~\E m \in Msg : Taken(m)
  BY MsgOf DEF Passed, Taken
<1>5. QED  BY <1>2, <1>3, <1>4 DEF LoopIInv

(* A produced message stays produced, and keeps its event.                 *)
LEMMA PublishKeeps ==
  ASSUME LoopIInv, NEW p \in Partitions, NEW e \in Events, Publish(p, e)
  PROVE  LoopIInv' /\ Keeps(Workers, {})
<1> USE DEF Publish, Produce, retryVars
<1>1. /\ topic' \in [Partitions -> Seq(Events)]
      /\ \A q \in Partitions : Len(topic'[q]) <= MaxLen
      /\ \A q \in Partitions : Len(topic[q]) <= Len(topic'[q])
      /\ \A q \in Partitions : \A i \in 1 .. Len(topic[q]) :
           topic'[q][i] = topic[q][i]
  BY GroupAssumption DEF LoopIInv, RetryTypeOK, GroupTypeOK
<1>2. RetryTypeOK'
  BY <1>1 DEF LoopIInv, RetryTypeOK, GroupTypeOK
<1>3. OffsetsOrdered'
  BY <1>1, GroupAssumption
     DEF LoopIInv, RetryTypeOK, GroupTypeOK, OffsetsOrdered
<1>4. Produced \subseteq Produced'
  BY <1>1, GroupAssumption
     DEF LoopIInv, RetryTypeOK, GroupTypeOK, Produced, Msg, Offsets
<1>5. \A m \in Produced : EventOf(m)' = EventOf(m)
  <2> SUFFICES ASSUME NEW m \in Produced PROVE EventOf(m)' = EventOf(m)
    OBVIOUS
  <2>1. PICK q \in Partitions, o \in Offsets : m = <<q, o>>
    BY DEF Produced, Msg
  <2>2. o + 1 \in 1 .. Len(topic[q])
    BY <2>1, GroupAssumption
       DEF LoopIInv, RetryTypeOK, GroupTypeOK, Produced, Offsets
  <2>3. QED  BY <1>1, <2>1, <2>2 DEF EventOf
<1>6. OnlyProduced' /\ OneAtATime' /\ CalmHands'
  BY <1>4 DEF LoopIInv, OnlyProduced, InHand, OneAtATime, CalmHands, Idle
<1>7. Keeps(Workers, {})
  BY <1>4, <1>5 DEF Keeps, Passed, InHand, Taken
<1>8. QED  BY <1>2, <1>3, <1>6, <1>7 DEF LoopIInv

(* A rebalance takes every owner back to the committed offset.  That is no *)
(* way back if all processes are idle and nothing has gone wrong.          *)
LEMMA GroupChangeKeeps ==
  ASSUME LoopIInv, GroupChange
  PROVE  LoopIInv' /\ Keeps(Workers, {})
<1> USE DEF GroupChange, Assign, Reassign, Rebalance, StartOffsets
<1>0. \A w \in Workers : InHand(w)' = InHand(w)
  BY DEF InHand
<1>1. RetryTypeOK'
  BY DEF LoopIInv, RetryTypeOK, GroupTypeOK
<1>2. OffsetsOrdered'
  BY OffsetsOf DEF OffsetsOrdered
<1>3. OnlyProduced' /\ OneAtATime'
  BY <1>0 DEF LoopIInv, OnlyProduced, Produced, OneAtATime
<1>4. calm' => /\ calm
               /\ \A w \in Workers : InHand(w) = {}
               /\ position' = position
  <2> SUFFICES ASSUME calm, \A w \in Workers : Idle(w)
               PROVE  (\A w \in Workers : InHand(w) = {}) /\ position' = position
    OBVIOUS
  <2>1. \A w \in Workers : InHand(w) = {}
    BY DEF LoopIInv, OneAtATime, InHand, Idle
  <2>2. \A p \in Partitions : position[p] = committed[p]
    BY DEF LoopIInv, CalmHands
  <2>3. QED
    BY <2>1, <2>2 DEF LoopIInv, RetryTypeOK, GroupTypeOK
<1>5. CalmHands'
  BY <1>0, <1>4 DEF CalmHands
<1>6. Passed' \subseteq Passed
  BY DEF Passed
<1>7. Keeps(Workers, {})
  BY <1>4, <1>6 DEF Keeps, Produced, EventOf, Taken
<1>8. QED  BY <1>1, <1>2, <1>3, <1>5, <1>7 DEF LoopIInv

(* Starting, stopping and the signal handler move no message.              *)
LEMMA LifeKeeps ==
  ASSUME LoopIInv, NEW w \in Workers, UNCHANGED retryVars,
         Start(w) \/ Started(w) \/ Signal(w) \/ StopLoop(w)
  PROVE  LoopIInv' /\ Keeps(Workers, {})
<1> USE DEF Start, Started, Signal, StopLoop, Relinquish, retryVars
<1>1. RetryTypeOK'
  BY DEF LoopIInv, RetryTypeOK, GroupTypeOK, RetryPlaces
<1>2. /\ UNCHANGED <<topic, position, committed, batch, dlt, dropped, current>>
      /\ UNCHANGED calm
  OBVIOUS
<1>3. \A p \in Partitions :
        \/ owner'[p] = owner[p]
        \/ owner'[p] = Nobody /\ owner[p] = w /\ Idle(w)
  BY DEF LoopIInv, RetryTypeOK, GroupTypeOK, Idle
<1>4. \A v \in Workers :
        \/ pc'[v] = pc[v]
        \/ /\ pc[v] \in {"down", "starting", "loop"}
           /\ pc'[v] \in {"down", "starting", "loop"}
  BY DEF LoopIInv, RetryTypeOK, GroupTypeOK
<1>5. \A v \in Workers : InHand(v)' = InHand(v) /\ Idle(v)' = Idle(v)
  BY <1>2, <1>4 DEF InHand, Idle
<1>6. OffsetsOrdered' /\ OnlyProduced'
  BY <1>2, <1>5 DEF LoopIInv, OffsetsOrdered, OnlyProduced, Produced
<1>7. OneAtATime'
  BY <1>2, <1>4 DEF LoopIInv, OneAtATime
<1>8. Idle(w) => InHand(w) = {}
  BY DEF LoopIInv, OneAtATime, InHand, Idle
<1>9. CalmHands'
  <2> SUFFICES ASSUME calm PROVE CalmHands'
    BY <1>2 DEF CalmHands
  <2>1. \A p \in Partitions :
          position'[p] # committed'[p] => owner'[p] \in Workers /\ ~Idle(owner[p])'
    BY <1>2, <1>3, <1>4 DEF LoopIInv, CalmHands, Idle
  <2>2. ASSUME NEW v \in Workers, NEW m \in InHand(v)'
        PROVE  owner'[m[1]] = v /\ m[2] < position'[m[1]]
    <3>1. /\ m \in InHand(v) /\ m[1] \in Partitions
          /\ owner[m[1]] = v /\ m[2] < position[m[1]]
      BY <1>5, <2>2, MsgOf
         DEF LoopIInv, CalmHands, OnlyProduced, Produced
    <3>2. QED  BY <1>2, <1>3, <1>8, <3>1
  <2>3. QED  BY <2>1, <2>2 DEF CalmHands
<1>10. Passed' \subseteq Passed
  <2> SUFFICES ASSUME NEW m \in Passed' PROVE m \in Passed
    OBVIOUS
  <2>1. m \in Msg /\ m[1] \in Partitions
    BY MsgOf DEF Passed
  <2>2. QED
    BY <1>2, <1>3, <1>5, <2>1, GroupAssumption DEF Passed
<1>11. Keeps(Workers, {})
  BY <1>2, <1>4, <1>10 DEF Keeps, Produced, EventOf, Taken
<1>12. QED  BY <1>1, <1>6, <1>7, <1>9, <1>11 DEF LoopIInv

(* getmany(): what is polled goes into hands that were empty.              *)
LEMMA PollKeeps ==
  ASSUME LoopIInv, NEW w \in Workers, Poll(w), UNCHANGED retryVars
  PROVE  LoopIInv' /\ Keeps(Workers, {})
<1> DEFINE B == Between(position, position')
<1> USE DEF Poll, AutoCommit, retryVars
<1>1. /\ \A p \in Partitions : /\ position'[p] \in Nat
                               /\ position[p] <= position'[p]
                               /\ position'[p] <= Len(topic[p])
      /\ \A p \in Partitions : owner[p] # w => position'[p] = position[p]
  BY OffsetsOf DEF Fetchable
<1>2. B \subseteq Produced
  BY <1>1, OffsetsOf, MsgOf DEF Between, Produced
<1>3. RetryTypeOK'
  BY <1>2 DEF LoopIInv, RetryTypeOK, GroupTypeOK, RetryPlaces, Between
<1>4. OffsetsOrdered'
  BY <1>1, OffsetsOf DEF OffsetsOrdered
<1>5. /\ InHand(w)' = B /\ InHand(w) = {} /\ batch'[w] = B
      /\ pc[w] = "loop" /\ pc'[w] = "work"
      /\ \A v \in Workers \ {w} :
           InHand(v)' = InHand(v) /\ pc'[v] = pc[v] /\ batch'[v] = batch[v]
  BY DEF LoopIInv, RetryTypeOK, GroupTypeOK, OneAtATime, InHand
<1>6. OnlyProduced'
  BY <1>2, <1>5 DEF LoopIInv, OnlyProduced, Produced
<1>7. OneAtATime'
  BY <1>5 DEF LoopIInv, OneAtATime
<1>8. \A m \in Msg : m[2] >= position[m[1]] => ~(m[2] < position[m[1]])
  BY MsgOf, OffsetsOf
<1>9. CalmHands'
  <2> SUFFICES ASSUME calm PROVE CalmHands'
    BY DEF CalmHands
  <2>1. \A p \in Partitions :
          position'[p] # committed'[p] => owner'[p] \in Workers /\ ~Idle(owner[p])'
    BY <1>1, <1>5 DEF LoopIInv, CalmHands, Idle
  <2>2. ASSUME NEW m \in InHand(w)'
        PROVE  owner'[m[1]] = w /\ m[2] < position'[m[1]]
    BY <1>1, <1>5, <1>8, MsgOf DEF Between
  <2>3. ASSUME NEW v \in Workers \ {w}, NEW m \in InHand(v)'
        PROVE  owner'[m[1]] = v /\ m[2] < position'[m[1]]
    <3>1. /\ owner[m[1]] = v /\ m[1] \in Partitions
          /\ m[2] < position[m[1]]
      BY <1>5, MsgOf DEF LoopIInv, CalmHands, OnlyProduced, Produced
    <3>2. QED  BY <1>1, <3>1
  <2>4. QED  BY <2>1, <2>2, <2>3 DEF CalmHands
<1>10. Passed' \subseteq Passed
  <2> SUFFICES ASSUME NEW m \in Passed', ~(m[2] < committed[m[1]])
               PROVE  m \in Passed
    BY DEF Passed
  <2>1. /\ m \in Msg /\ m[1] \in Partitions /\ m[2] \in Nat
        /\ m[2] < position'[m[1]]
        /\ owner[m[1]] \in Workers /\ m \notin InHand(owner[m[1]])'
    BY MsgOf DEF Passed
  <2>2. m[2] < position[m[1]] /\ m \notin InHand(owner[m[1]])
    <3>1. CASE owner[m[1]] = w
      BY <1>5, <2>1, <3>1, OffsetsOf DEF Between
    <3>2. CASE owner[m[1]] # w
      BY <1>1, <1>5, <2>1, <3>2
    <3>3. QED  BY <3>1, <3>2
  <2>3. QED  BY <2>1, <2>2 DEF Passed
<1>11. \A m \in Msg : Taken(m) => Taken(m)'
  <2> SUFFICES ASSUME NEW m \in Msg, Taken(m) PROVE Taken(m)'
    OBVIOUS
  <2>1. m[2] < position'[m[1]]
    BY <1>1, MsgOf, OffsetsOf DEF Taken
  <2>2. m \notin B
    BY <1>8 DEF Taken, Between
  <2>3. QED  BY <1>5, <2>1, <2>2 DEF Taken
<1>12. Keeps(Workers, {})
  BY <1>5, <1>10, <1>11 DEF Keeps, Produced, EventOf
<1>13. QED  BY <1>3, <1>4, <1>6, <1>7, <1>9, <1>12 DEF LoopIInv

(* commit(): with empty hands, everything polled is passed.                *)
LEMMA CommitKeeps ==
  ASSUME LoopIInv, NEW w \in Workers, CommitBatch(w)
  PROVE  LoopIInv' /\ Keeps(Workers, {})
<1> USE DEF CommitBatch, Commit
<1>1. \A p \in Partitions : \/ committed'[p] = committed[p]
                            \/ owner[p] = w /\ committed'[p] = position[p]
  BY DEF CommitOffsets
<1>2. committed' \in [Partitions -> 0 .. MaxLen]
  BY DEF LoopIInv, RetryTypeOK, GroupTypeOK, CommitOffsets
<1>3. RetryTypeOK'
  BY <1>2 DEF LoopIInv, RetryTypeOK, GroupTypeOK, RetryPlaces
<1>4. OffsetsOrdered'
  BY <1>1, OffsetsOf DEF OffsetsOrdered
<1>5. /\ InHand(w) = {} /\ pc[w] = "commit" /\ pc'[w] = "loop"
      /\ \A v \in Workers : InHand(v)' = InHand(v)
      /\ \A v \in Workers \ {w} : pc'[v] = pc[v]
  BY DEF LoopIInv, RetryTypeOK, GroupTypeOK, OneAtATime, InHand
<1>6. OnlyProduced' /\ OneAtATime'
  BY <1>5 DEF LoopIInv, OnlyProduced, Produced, OneAtATime
<1>7. CalmHands'
  <2> SUFFICES ASSUME calm, committed' = CommitOffsets(w) PROVE CalmHands'
    BY DEF CalmHands
  <2>1. \A p \in Partitions :
          position'[p] # committed'[p] => owner'[p] \in Workers /\ ~Idle(owner[p])'
    BY <1>5 DEF LoopIInv, CalmHands, Idle, CommitOffsets
  <2>2. QED
    BY <1>5, <2>1 DEF LoopIInv, CalmHands
<1>8. Passed' \subseteq Passed
  <2> SUFFICES ASSUME NEW m \in Passed' PROVE m \in Passed
    OBVIOUS
  <2>1. m \in Msg /\ m[1] \in Partitions
    BY MsgOf DEF Passed
  <2>2. CASE m[2] < committed'[m[1]]
    BY <1>1, <1>5, <2>1, <2>2 DEF Passed
  <2>3. CASE ~(m[2] < committed'[m[1]])
    BY <1>5, <2>1, <2>3 DEF Passed
  <2>4. QED  BY <2>2, <2>3
<1>9. Keeps(Workers, {})
  BY <1>5, <1>8 DEF Keeps, Produced, EventOf, Taken
<1>10. QED  BY <1>3, <1>4, <1>6, <1>7, <1>9 DEF LoopIInv

(* A process that dies gives up its partitions with its hands.             *)
LEMMA DieKeeps ==
  ASSUME LoopIInv, NEW w \in Workers, Die(w)
  PROVE  LoopIInv' /\ Keeps(Workers \ {w}, {}) /\ pc'[w] = "down"
<1>0. /\ pc' = [pc EXCEPT ![w] = "down"]
      /\ running' = [running EXCEPT ![w] = FALSE]
      /\ batch' = [batch EXCEPT ![w] = {}]
      /\ owner' = [p \in Partitions |-> IF owner[p] = w THEN Nobody
                                                        ELSE owner[p]]
      /\ current' = [current EXCEPT ![w] = {}]
      /\ attempt' = [attempt EXCEPT ![w] = 0]
      /\ calm' = (calm /\ Idle(w))
      /\ UNCHANGED <<topic, position, committed, dlt, dropped>>
  BY DEF Die, Crash, Relinquish
<1>1. RetryTypeOK'
  <2>1. GroupTypeOK'
    BY <1>0 DEF LoopIInv, RetryTypeOK, GroupTypeOK
  <2>2. calm' \in BOOLEAN
    BY <1>0 DEF Idle
  <2>3. QED
    BY <1>0, <2>1, <2>2, RetryAssumption DEF LoopIInv, RetryTypeOK, RetryPlaces
<1>2. /\ InHand(w)' = {}
      /\ \A v \in Workers \ {w} :
           /\ InHand(v)' = InHand(v) /\ Idle(v)' = Idle(v)
           /\ pc'[v] = pc[v] /\ batch'[v] = batch[v] /\ current'[v] = current[v]
      /\ pc'[w] = "down" /\ batch'[w] = {}
  BY <1>0 DEF LoopIInv, RetryTypeOK, GroupTypeOK, InHand, Idle
<1>3. OffsetsOrdered' /\ OnlyProduced'
  BY <1>0, <1>2 DEF LoopIInv, OffsetsOrdered, OnlyProduced, Produced
<1>4. OneAtATime'
  BY <1>2 DEF LoopIInv, OneAtATime
<1>5. \A p \in Partitions :
        \/ owner[p] = w /\ owner'[p] = Nobody
        \/ owner[p] # w /\ owner'[p] = owner[p]
  BY <1>0
<1>6. CalmHands'
  <2> SUFFICES ASSUME calm, Idle(w) PROVE CalmHands'
    BY <1>0 DEF CalmHands
  <2>1. \A p \in Partitions :
          position'[p] # committed'[p] => owner'[p] \in Workers /\ ~Idle(owner[p])'
    BY <1>0, <1>2, <1>5 DEF LoopIInv, CalmHands, Idle
  <2>2. ASSUME NEW v \in Workers, NEW m \in InHand(v)'
        PROVE  owner'[m[1]] = v /\ m[2] < position'[m[1]]
    <3>1. v # w /\ m \in InHand(v) /\ m[1] \in Partitions
      BY <1>2, MsgOf DEF LoopIInv, OnlyProduced, Produced
    <3>2. QED  BY <1>0, <1>5, <3>1 DEF LoopIInv, CalmHands
  <2>3. QED  BY <2>1, <2>2 DEF CalmHands
<1>7. Passed' \subseteq Passed
  <2> SUFFICES ASSUME NEW m \in Passed' PROVE m \in Passed
    OBVIOUS
  <2>1. m \in Msg /\ m[1] \in Partitions
    BY MsgOf DEF Passed
  <2>2. QED
    BY <1>0, <1>2, <1>5, <2>1, GroupAssumption DEF Passed
<1>8. Keeps(Workers \ {w}, {})
  BY <1>0, <1>2, <1>7 DEF Keeps, Produced, EventOf, Taken
<1>9. QED  BY <1>1, <1>2, <1>3, <1>4, <1>6, <1>8 DEF LoopIInv

(***************************************************************************)
(* A step of one process between a poll and its commit: what leaves its    *)
(* hand, G, is passed, and what it takes up comes out of its batch.        *)
(***************************************************************************)
LEMMA WorkKeeps ==
  ASSUME LoopIInv, NEW w \in Workers, NEW G,
         UNCHANGED <<topic, owner, position, committed>>,
         dlt \subseteq dlt', dropped \subseteq dropped', calm' => calm,
         \A v \in Workers \ {w} :
           pc'[v] = pc[v] /\ batch'[v] = batch[v] /\ current'[v] = current[v],
         ~Idle(w), ~Idle(w)', batch'[w] \subseteq batch[w],
         InHand(w)' \subseteq InHand(w), InHand(w) \subseteq InHand(w)' \cup G,
         pc'[w] = "process" =>
           \/ pc[w] = "process" /\ current'[w] = current[w]
           \/ current'[w] \subseteq batch[w],
         RetryTypeOK', OneAtATime'
  PROVE  LoopIInv' /\ Keeps(Workers \ {w}, G)
<1>1. \A v \in Workers \ {w} : InHand(v)' = InHand(v) /\ Idle(v)' = Idle(v)
  BY DEF InHand, Idle
<1>2. \A v \in Workers : Idle(v)' = Idle(v) /\ InHand(v)' \subseteq InHand(v)
  <2>1. Idle(w)' = Idle(w)
    BY DEF Idle
  <2>2. QED  BY <1>1, <2>1
<1>3. OffsetsOrdered' /\ OnlyProduced'
  BY <1>2 DEF LoopIInv, OffsetsOrdered, OnlyProduced, Produced
<1>4. CalmHands'
  <2> SUFFICES ASSUME calm PROVE CalmHands'
    BY DEF CalmHands
  <2>1. \A p \in Partitions :
          position'[p] # committed'[p] => owner'[p] \in Workers /\ ~Idle(owner[p])'
    <3> SUFFICES ASSUME NEW p \in Partitions, position[p] # committed[p]
                 PROVE  owner[p] \in Workers /\ ~Idle(owner[p])'
      OBVIOUS
    <3>1. owner[p] \in Workers /\ ~Idle(owner[p])
      BY DEF LoopIInv, CalmHands
    <3>2. QED  BY <3>1 DEF Idle
  <2>2. QED  BY <1>2, <2>1 DEF LoopIInv, CalmHands
<1>5. Passed' \subseteq Passed \cup G
  <2> SUFFICES ASSUME NEW m \in Passed', ~(m[2] < committed[m[1]])
               PROVE  m \in Passed \cup G
    BY DEF Passed
  <2>1. /\ m \in Msg /\ m[2] < position[m[1]] /\ owner[m[1]] \in Workers
        /\ m \notin InHand(owner[m[1]])'
    BY DEF Passed
  <2>2. m \notin InHand(owner[m[1]]) \/ m \in G
    BY <1>1, <2>1
  <2>3. QED  BY <2>1, <2>2 DEF Passed
<1>6. \A m \in Msg : Taken(m) =>
        /\ Taken(m)'
        /\ \A v \in Workers :
             pc'[v] = "process" /\ m \in current'[v] =>
               pc[v] = "process" /\ current'[v] = current[v]
  BY DEF Taken
<1>7. Keeps(Workers \ {w}, G)
  BY <1>5, <1>6 DEF Keeps, Produced, EventOf
<1>8. QED  BY <1>3, <1>4, <1>7 DEF LoopIInv

(* A message that is routed as it leaves its process's hand is not passed. *)
LEMMA KeepsRouted ==
  ASSUME NEW w \in Workers, NEW G, Keeps(Workers \ {w}, G),
         G \subseteq dlt' \cup dropped', pc[w] # "process"
  PROVE  Keeps(Workers, {})
  BY DEF Keeps

(* The next message is taken out of the batch.                             *)
LEMMA NextMessageKeeps ==
  ASSUME LoopIInv, NEW w \in Workers, NextMessage(w)
  PROVE  LoopIInv' /\ Keeps(Workers, {})
<1>1. PICK m \in batch[w] :
        /\ current' = [current EXCEPT ![w] = {m}]
        /\ batch' = [batch EXCEPT ![w] = @ \ {m}]
  BY DEF NextMessage, Candidates, SamePartition
<1>2. /\ attempt' = [attempt EXCEPT ![w] = 1]
      /\ pc[w] = "work" /\ pc' = [pc EXCEPT ![w] = "process"]
      /\ UNCHANGED <<topic, owner, position, committed, running, dlt, dropped>>
      /\ UNCHANGED calm
  BY DEF NextMessage, idleVars
<1>3. m \in Msg
  BY DEF LoopIInv, RetryTypeOK, GroupTypeOK
<1>4. RetryTypeOK'
  BY <1>1, <1>2, <1>3, RetryAssumption
     DEF LoopIInv, RetryTypeOK, GroupTypeOK, RetryPlaces
<1>5. /\ pc'[w] = "process" /\ current'[w] = {m} /\ batch'[w] = batch[w] \ {m}
      /\ \A v \in Workers \ {w} :
           pc'[v] = pc[v] /\ current'[v] = current[v] /\ batch'[v] = batch[v]
  BY <1>1, <1>2 DEF LoopIInv, RetryTypeOK, GroupTypeOK
<1>6. InHand(w)' = InHand(w)
  BY <1>2, <1>5 DEF InHand
<1>7. OneAtATime'
  BY <1>3, <1>5 DEF LoopIInv, OneAtATime
<1>8. ~Idle(w) /\ ~Idle(w)'
  BY <1>2, <1>5 DEF Idle
<1>9. LoopIInv' /\ Keeps(Workers \ {w}, {})
  BY <1>2, <1>4, <1>5, <1>6, <1>7, <1>8, WorkKeeps
<1>10. QED  BY <1>2, <1>9, KeepsRouted

(* The message is dead-lettered, or given up because that failed.          *)
LEMMA GiveUpKeeps ==
  ASSUME LoopIInv, NEW w \in Workers, GiveUp(w)
  PROVE  LoopIInv' /\ Keeps(Workers, {})
<1>1. PICK m \in current[w] : SendToDeadLetter(m)
  BY DEF GiveUp
<1>2. /\ pc[w] = "deadletter" /\ pc' = [pc EXCEPT ![w] = "work"]
      /\ UNCHANGED <<topic, owner, position, committed, running, batch,
                     current, attempt, calm>>
  BY DEF GiveUp, idleVars, retryVars
<1>3. m \in Msg /\ current[w] = {m}
  BY <1>2 DEF LoopIInv, OneAtATime, RetryTypeOK
<1>4. /\ dlt' \subseteq Msg /\ dropped' \subseteq Msg
      /\ dlt \subseteq dlt' /\ dropped \subseteq dropped'
      /\ m \in dlt' \cup dropped'
  BY <1>1, <1>3 DEF SendToDeadLetter, LoopIInv, RetryTypeOK, GroupTypeOK
<1>5. RetryTypeOK'
  BY <1>2, <1>4 DEF LoopIInv, RetryTypeOK, GroupTypeOK, RetryPlaces
<1>6. /\ InHand(w) = batch[w] \cup {m} /\ InHand(w)' = batch[w]
      /\ pc'[w] = "work"
      /\ \A v \in Workers \ {w} : pc'[v] = pc[v]
  BY <1>2, <1>3 DEF LoopIInv, RetryTypeOK, GroupTypeOK, InHand
<1>7. OneAtATime'
  BY <1>2, <1>6 DEF LoopIInv, OneAtATime
<1>8. ~Idle(w) /\ ~Idle(w)'
  BY <1>2, <1>6 DEF Idle
<1>9. LoopIInv' /\ Keeps(Workers \ {w}, {m})
  BY <1>2, <1>4, <1>5, <1>6, <1>7, <1>8, WorkKeeps
<1>10. QED  BY <1>2, <1>4, <1>9, KeepsRouted

(* The batch is empty: on to the commit.                                   *)
LEMMA BatchDoneKeeps ==
  ASSUME LoopIInv, NEW w \in Workers, BatchDone(w)
  PROVE  LoopIInv' /\ Keeps(Workers, {})
<1>1. /\ pc[w] = "work" /\ pc' = [pc EXCEPT ![w] = "commit"]
      /\ current' = [current EXCEPT ![w] = {}]
      /\ attempt' = [attempt EXCEPT ![w] = 0] /\ batch[w] = {}
      /\ UNCHANGED <<topic, owner, position, committed, running, batch, dlt,
                     dropped, calm>>
  BY DEF BatchDone, idleVars
<1>2. RetryTypeOK'
  BY <1>1, RetryAssumption DEF LoopIInv, RetryTypeOK, GroupTypeOK, RetryPlaces
<1>3. /\ InHand(w) = {} /\ InHand(w)' = {} /\ pc'[w] = "commit"
      /\ \A v \in Workers \ {w} : pc'[v] = pc[v] /\ current'[v] = current[v]
  BY <1>1 DEF LoopIInv, RetryTypeOK, GroupTypeOK, InHand
<1>4. OneAtATime'
  BY <1>1, <1>3 DEF LoopIInv, OneAtATime
<1>5. ~Idle(w) /\ ~Idle(w)'
  BY <1>1, <1>3 DEF Idle
<1>6. LoopIInv' /\ Keeps(Workers \ {w}, {})
  BY <1>1, <1>2, <1>3, <1>4, <1>5, WorkKeeps
<1>7. QED  BY <1>1, <1>6, KeepsRouted

(* process() returned: its message leaves the hand, and may be passed.     *)
LEMMA ProcessedKeeps ==
  ASSUME LoopIInv, NEW w \in Workers, Processed(w)
  PROVE  LoopIInv' /\ Keeps(Workers \ {w}, current[w])
<1>1. /\ pc[w] = "process" /\ pc' = [pc EXCEPT ![w] = "work"]
      /\ UNCHANGED <<topic, owner, position, committed, running, batch, dlt,
                     dropped, current, attempt, calm>>
  BY DEF Processed, idleVars, retryVars
<1>2. RetryTypeOK'
  BY <1>1 DEF LoopIInv, RetryTypeOK, GroupTypeOK, RetryPlaces
<1>3. /\ InHand(w) = batch[w] \cup current[w] /\ InHand(w)' = batch[w]
      /\ pc'[w] = "work" /\ \A v \in Workers \ {w} : pc'[v] = pc[v]
  BY <1>1 DEF LoopIInv, RetryTypeOK, GroupTypeOK, InHand
<1>4. OneAtATime'
  BY <1>1, <1>3 DEF LoopIInv, OneAtATime
<1>5. ~Idle(w) /\ ~Idle(w)'
  BY <1>1, <1>3 DEF Idle
<1>6. QED
  BY <1>1, <1>2, <1>3, <1>4, <1>5, WorkKeeps

(* process() raised: its message stays in the hand.                        *)
LEMMA ProcessRaisedKeeps ==
  ASSUME LoopIInv, NEW w \in Workers, NEW clean \in BOOLEAN,
         ProcessRaised(w, clean)
  PROVE  /\ LoopIInv' /\ Keeps(Workers \ {w}, {})
         /\ pc[w] = "process" /\ pc'[w] \in {"process", "deadletter"}
         /\ \A v \in Workers \ {w} : pc'[v] = pc[v]
         /\ UNCHANGED <<topic, owner, position, committed, batch, dlt, dropped,
                        current>>
<1>1. /\ pc[w] = "process" /\ pc' \in [Workers -> RetryPlaces]
      /\ pc'[w] \in {"process", "deadletter"}
      /\ \A v \in Workers \ {w} : pc'[v] = pc[v]
      /\ UNCHANGED <<topic, owner, position, committed, running, batch, dlt,
                     dropped, current>>
  BY DEF ProcessRaised, NoMoreAttempts, LoopIInv, RetryTypeOK, RetryPlaces,
         idleVars
<1>2. attempt' \in [Workers -> 0 .. MaxRetries]
  BY RetryAssumption DEF ProcessRaised, NoMoreAttempts, LoopIInv, RetryTypeOK
<1>3. calm' \in BOOLEAN /\ (calm' => calm)
  BY DEF ProcessRaised, LoopIInv, RetryTypeOK
<1>4. RetryTypeOK'
  BY <1>1, <1>2, <1>3 DEF LoopIInv, RetryTypeOK, GroupTypeOK
<1>5. InHand(w)' = InHand(w)
  BY <1>1 DEF InHand
<1>6. OneAtATime'
  BY <1>1 DEF LoopIInv, OneAtATime
<1>7. ~Idle(w) /\ ~Idle(w)'
  BY <1>1 DEF Idle
<1>8. LoopIInv' /\ Keeps(Workers \ {w}, {})
  BY <1>1, <1>3, <1>4, <1>5, <1>6, <1>7, WorkKeeps
<1>9. QED  BY <1>1, <1>8

(* A step inside process() moves no message.                               *)
LEMMA InsideKeeps ==
  ASSUME LoopIInv, UNCHANGED <<groupVars, retryVars>>
  PROVE  /\ LoopIInv' /\ Keeps(Workers, {}) /\ Passed' = Passed
         /\ UNCHANGED <<topic, owner, position, committed, pc, batch, dlt,
                        dropped, current, calm>>
<1>1. UNCHANGED <<topic, owner, position, committed, pc, running, batch, dlt,
                  dropped, current, attempt, calm>>
  BY DEF groupVars, retryVars
<1>2. LoopIInv'
  BY <1>1 DEF LoopIInv, RetryTypeOK, GroupTypeOK, OffsetsOrdered, OnlyProduced,
              Produced, OneAtATime, CalmHands, InHand, Idle
<1>3. Passed' = Passed
  BY <1>1 DEF Passed, InHand
<1>4. Keeps(Workers, {})
  BY <1>1, <1>3 DEF Keeps, Produced, EventOf, Taken
<1>5. QED  BY <1>1, <1>2, <1>3, <1>4

(* What goes on around process(), for whatever it does.                    *)
LEMMA LoopNextKeeps ==
  ASSUME LoopIInv, LoopNext
  PROVE  LoopIInv' /\ Keeps(Workers, {})
<1>1. ASSUME NEW p \in Partitions, NEW e \in Events, Publish(p, e)
      PROVE  LoopIInv' /\ Keeps(Workers, {})
  BY <1>1, PublishKeeps
<1>2. CASE GroupChange
  BY <1>2, GroupChangeKeeps
<1>3. ASSUME NEW w \in Workers, LoopStep(w)
      PROVE  LoopIInv' /\ Keeps(Workers, {})
  <2>1. CASE Lifecycle(w)
    BY <2>1, LifeKeeps, PollKeeps DEF Lifecycle
  <2>2. CASE NextMessage(w)
    BY <2>2, NextMessageKeeps
  <2>3. CASE GiveUp(w)
    BY <2>3, GiveUpKeeps
  <2>4. CASE BatchDone(w)
    BY <2>4, BatchDoneKeeps
  <2>5. CASE CommitBatch(w)
    BY <2>5, CommitKeeps
  <2>6. QED  BY <1>3, <2>1, <2>2, <2>3, <2>4, <2>5 DEF LoopStep
<1>4. QED  BY <1>1, <1>2, <1>3 DEF LoopNext

-----------------------------------------------------------------------------
(* Cardinalities and sums                                                  *)

(* A part of a finite set is finite, and not larger.                       *)
LEMMA Smaller ==
  ASSUME NEW S, NEW T, S \subseteq T, IsFiniteSet(T)
  PROVE  /\ IsFiniteSet(S) /\ Cardinality(S) \in Nat
         /\ Cardinality(T) \in Nat /\ Cardinality(S) <= Cardinality(T)
  BY FS_Subset, FS_CardinalityType

(* One element more makes the cardinality one larger.                      *)
LEMMA OneMore ==
  ASSUME NEW S, IsFiniteSet(S), NEW x, x \notin S
  PROVE  /\ Cardinality(S) \in Nat
         /\ IsFiniteSet(S \cup {x}) /\ Cardinality(S \cup {x}) = Cardinality(S) + 1
  BY FS_AddElement, FS_CardinalityType

(* Adding an element makes the cardinality at most one larger.             *)
LEMMA AtMostOneMore ==
  ASSUME NEW S, IsFiniteSet(S), NEW x
  PROVE  /\ Cardinality(S) \in Nat /\ IsFiniteSet(S \cup {x})
         /\ Cardinality(S \cup {x}) <= Cardinality(S) + 1
<1>1. Cardinality(S) \in Nat
  BY FS_CardinalityType
<1>2. CASE x \in S
  <2>1. S \cup {x} = S
    BY <1>2
  <2>2. IsFiniteSet(S \cup {x}) /\ Cardinality(S \cup {x}) = Cardinality(S)
    BY <2>1, Zenon
  <2>3. QED  BY <1>1, <2>2
<1>3. CASE x \notin S
  BY <1>1, <1>3, OneMore
<1>4. QED  BY <1>2, <1>3

(* One element less makes the cardinality one smaller.                     *)
LEMMA OneLess ==
  ASSUME NEW S, IsFiniteSet(S), NEW x \in S
  PROVE  /\ Cardinality(S) \in Nat /\ Cardinality(S \ {x}) \in Nat
         /\ IsFiniteSet(S \ {x}) /\ Cardinality(S \ {x}) = Cardinality(S) - 1
  BY FS_RemoveElement, FS_CardinalityType

(* Incrementing one key of a counter adds one to its sum.                  *)
LEMMA BumpAdds ==
  ASSUME NEW K, NEW f \in [K -> Nat], NEW k \in K, IsFiniteSet(Units(f))
  PROVE  /\ Bump(f, k) \in [K -> Nat] /\ IsFiniteSet(Units(Bump(f, k)))
         /\ Sum(f) \in Nat /\ Sum(Bump(f, k)) = Sum(f) + 1
<1> DEFINE g == Bump(f, k)
<1>1. /\ g \in [K -> Nat] /\ g[k] = f[k] + 1 /\ f[k] \in Nat
      /\ \A j \in K : j # k => g[j] = f[j]
  BY DEF Bump
<1>2. \A u : u \in Units(f) <=> \E j \in K : u \in {j} \X (1 .. f[j])
  BY DEF Units
<1>3. \A u : u \in Units(g) <=> \E j \in K : u \in {j} \X (1 .. g[j])
  BY <1>1 DEF Units
<1>4. Units(g) = Units(f) \cup {<<k, f[k] + 1>>}
  <2>1. ASSUME NEW u \in Units(g) PROVE u \in Units(f) \cup {<<k, f[k] + 1>>}
    <3>1. PICK j \in K : \E i \in 1 .. g[j] : u = <<j, i>>
      BY <1>3, <2>1
    <3>2. CASE j = k
      BY <1>1, <1>2, <3>1, <3>2
    <3>3. CASE j # k
      BY <1>1, <1>2, <3>1, <3>3
    <3>4. QED  BY <3>2, <3>3
  <2>2. ASSUME NEW u \in Units(f) PROVE u \in Units(g)
    <3>1. PICK j \in K : \E i \in 1 .. f[j] : u = <<j, i>>
      BY <1>2, <2>2
    <3>2. \A i \in 1 .. f[j] : i \in 1 .. g[j]
      BY <1>1
    <3>3. QED  BY <1>3, <3>1, <3>2
  <2>3. <<k, f[k] + 1>> \in Units(g)
    BY <1>1, <1>3
  <2>4. QED  BY <2>1, <2>2, <2>3
<1>5. <<k, f[k] + 1>> \notin Units(f)
  <2> SUFFICES ASSUME NEW j \in K, <<k, f[k] + 1>> \in {j} \X (1 .. f[j])
               PROVE  FALSE
    BY <1>2
  <2>1. j = k /\ f[k] + 1 \in 1 .. f[k]
    OBVIOUS
  <2>2. QED  BY <1>1, <2>1
<1>6. IsFiniteSet(Units(g)) /\ Sum(f) \in Nat /\ Sum(g) = Sum(f) + 1
  BY <1>4, <1>5, OneMore DEF Sum
<1>7. QED  BY <1>1, <1>6

(* No key of a counter is above its sum.                                   *)
LEMMA KeyBelowSum ==
  ASSUME NEW K, NEW f \in [K -> Nat], NEW k \in K, IsFiniteSet(Units(f))
  PROVE  f[k] <= Sum(f)
<1>1. {k} \X (1 .. f[k]) \subseteq Units(f)
  BY DEF Units
<1>2. IsFiniteSet(1 .. f[k]) /\ Cardinality(1 .. f[k]) = f[k]
  BY FS_Interval
<1>3. IsFiniteSet({k}) /\ Cardinality({k}) = 1
  BY FS_Singleton
<1>4. Cardinality({k} \X (1 .. f[k])) = Cardinality({k}) * Cardinality(1 .. f[k])
  BY <1>2, <1>3, FS_Product
<1>5. Cardinality({k} \X (1 .. f[k])) = f[k]
  BY <1>2, <1>3, <1>4
<1>6. QED  BY <1>1, <1>5, Smaller DEF Sum

(* A counter whose keys are all at zero adds up to zero.                   *)
LEMMA ZeroSum ==
  ASSUME NEW K
  PROVE  LET f == [k \in K |-> 0]
         IN  f \in [K -> Nat] /\ IsFiniteSet(Units(f)) /\ Sum(f) = 0
<1> DEFINE f == [k \in K |-> 0]
<1>1. Units(f) = {}
  BY DEF Units
<1>2. QED  BY <1>1, FS_EmptySet DEF Sum

-----------------------------------------------------------------------------
(* MetricsConsumer: the invariant is inductive                             *)

(* What the breakdowns and the counts of messages are compared with.       *)
LEMMA FiniteCounts ==
  ASSUME NEW sl, NEW k
  PROVE  /\ IsFiniteSet(Sent(k))
         /\ IsFiniteSet(PassedFor(sl)) /\ IsFiniteSet(RunFor(sl))
<1>1. IsFiniteSet(Sent(k)) /\ IsFiniteSet(RunFor(sl))
  BY FiniteAssumption, Smaller DEF Sent, RunFor
<1>2. PassedFor(sl) \subseteq Msg
  BY DEF PassedFor, Passed
<1>3. QED  BY <1>1, <1>2, FiniteMsg, Smaller

(* What the total is compared with.                                        *)
LEMMA FiniteBegun ==
  /\ IsFiniteSet(Begun) /\ IsFiniteSet(Begun') /\ IsFiniteSet(Produced)
  /\ Cardinality(Begun) \in Nat
<1>1. Begun \subseteq Msg /\ Begun' \subseteq Msg /\ Produced \subseteq Msg
  BY DEF Begun, Produced
<1>2. QED  BY <1>1, FiniteMsg, Smaller

(* Initially nothing is counted, and nothing passed.                       *)
LEMMA InitMetrics == MetricsInit => MetricsIInv
<1> SUFFICES ASSUME MetricsInit PROVE MetricsIInv
  OBVIOUS
<1> USE DEF MetricsInit
<1>1. LoopIInv /\ Passed = {} /\ \A k \in Nat \ {0} : Sent(k) = {}
  BY InitLoop DEF Sent
<1>2. /\ services \in [Services -> Nat] /\ IsFiniteSet(Units(services))
      /\ Sum(services) = 0
  BY ZeroSum
<1>3. /\ levels \in [Levels -> Nat] /\ IsFiniteSet(Units(levels))
      /\ Sum(levels) = 0
  BY ZeroSum
<1>4. /\ serviceLevels \in [Labels -> Nat] /\ IsFiniteSet(Units(serviceLevels))
      /\ Sum(serviceLevels) = 0
  BY ZeroSum
<1>5. CountersTypeOK
  BY <1>2, <1>3, <1>4, LabelAssumption DEF CountersTypeOK
<1>6. PipelineInOrder
  BY DEF PipelineInOrder
<1>7. BreakdownsBehind
  <2>1. \A k \in {1, 2, 3} : Cardinality(Sent(k)) = 0
    BY <1>1, FS_EmptySet
  <2>2. total = 0
    OBVIOUS
  <2>3. QED  BY <1>2, <1>3, <1>4, <2>1, <2>2 DEF BreakdownsBehind
<1>8. PassedCounted
  <2> SUFFICES ASSUME NEW sl \in Labels
               PROVE  Cardinality(PassedFor(sl)) + Cardinality(RunFor(sl))
                        <= serviceLevels[sl]
    BY DEF PassedCounted
  <2>1. PassedFor(sl) = {} /\ RunFor(sl) = {} /\ serviceLevels[sl] = 0
    BY <1>1 DEF PassedFor, RunFor
  <2>2. QED  BY <2>1, FS_EmptySet
<1>9. BegunOnce
  <2>1. Cardinality(Begun) \in Nat
    BY FiniteBegun
  <2>2. QED  BY <2>1 DEF BegunOnce
<1>10. QED
  BY <1>1, <1>5, <1>6, <1>7, <1>8, <1>9 DEF MetricsIInv

(***************************************************************************)
(* A step that counts nothing: a pipeline goes on, or it is given up, and  *)
(* then it has not sent a command if nothing is to have gone wrong.  What  *)
(* the step passes, if anything, was counted.                              *)
(***************************************************************************)
LEMMA CountsNothing ==
  ASSUME MetricsIInv, NEW V \in SUBSET Workers, NEW G, LoopIInv', Keeps(V, G),
         G = {} \/ PassedCounted', UNCHANGED counters, sent' \in [Workers -> 0 .. 4],
         \A v \in V : sent'[v] = sent[v],
         \A w \in Workers \ V :
           sent'[w] = 0 /\ (calm' /\ pc'[w] = "process" => sent[w] = 0)
  PROVE  MetricsIInv'
<1>1. \A k \in Nat \ {0} : Sent(k)' \subseteq Sent(k)
  BY DEF Sent
<1>2. \A w \in Workers : sent[w] > 0 =>
        /\ pc[w] = "process" /\ current[w] \subseteq Produced
        /\ \A m \in current[w] : Countable(m)
  BY DEF MetricsIInv, PipelineInOrder, LoopIInv, OnlyProduced, InHand
<1>3. \A v \in V : sent[v] > 0 =>
        /\ pc'[v] = "process" /\ current'[v] = current[v]
        /\ \A m \in current[v] : EventOf(m)' = EventOf(m)
  BY <1>2 DEF Keeps
<1>4. CountersTypeOK'
  BY DEF MetricsIInv, CountersTypeOK, counters, Units
<1>5. PipelineInOrder'
  <2> SUFFICES ASSUME NEW w \in Workers, sent'[w] > 0
               PROVE  pc'[w] = "process" /\ \A m \in current'[w] : Countable(m)'
    BY DEF PipelineInOrder
  <2>1. w \in V /\ sent[w] > 0
    OBVIOUS
  <2>2. QED  BY <1>2, <1>3, <2>1 DEF Countable, KindOf
<1>6. BreakdownsBehind'
  <2>1. UNCHANGED <<total, services, levels, serviceLevels>>
    BY DEF counters
  <2>2. \A k \in Nat \ {0} : /\ Cardinality(Sent(k)') <= Cardinality(Sent(k))
                             /\ Cardinality(Sent(k)') \in Nat
                             /\ Cardinality(Sent(k)) \in Nat
    BY <1>1, FiniteCounts, Smaller
  <2>3. Sum(services) \in Nat /\ Sum(levels) \in Nat
        /\ Sum(serviceLevels) \in Nat /\ total \in Nat
    BY FS_CardinalityType, LabelAssumption
       DEF Sum, MetricsIInv, CountersTypeOK
  <2>4. /\ Sum(services)' = Sum(services) /\ Sum(levels)' = Sum(levels)
        /\ Sum(serviceLevels)' = Sum(serviceLevels)
    BY <2>1 DEF Sum, Units
  <2>5. QED
    BY <2>1, <2>2, <2>3, <2>4 DEF MetricsIInv, BreakdownsBehind
<1>7. PassedCounted'
  <2> SUFFICES ASSUME G = {}, NEW sl \in Labels
               PROVE  Cardinality(PassedFor(sl)') + Cardinality(RunFor(sl)')
                        <= serviceLevels'[sl]
    BY DEF PassedCounted
  <2>1. PassedFor(sl)' \subseteq PassedFor(sl)
    BY PassedProduced DEF PassedFor, Keeps, MetricsIInv
  <2>2. RunFor(sl)' \subseteq RunFor(sl)
    BY <1>1, <1>3 DEF RunFor, Sent
  <2>3. Cardinality(PassedFor(sl)') <= Cardinality(PassedFor(sl))
        /\ Cardinality(PassedFor(sl)') \in Nat
        /\ Cardinality(PassedFor(sl)) \in Nat
    BY <2>1, FiniteCounts, Smaller
  <2>4. Cardinality(RunFor(sl)') <= Cardinality(RunFor(sl))
        /\ Cardinality(RunFor(sl)') \in Nat /\ Cardinality(RunFor(sl)) \in Nat
    BY <2>2, FiniteCounts, Smaller
  <2>5. /\ Cardinality(PassedFor(sl)) + Cardinality(RunFor(sl))
             <= serviceLevels[sl]
        /\ serviceLevels'[sl] = serviceLevels[sl] /\ serviceLevels[sl] \in Nat
    BY DEF MetricsIInv, PassedCounted, CountersTypeOK, counters
  <2>6. QED  BY <2>3, <2>4, <2>5
<1>8. BegunOnce'
  <2> SUFFICES ASSUME calm' PROVE total' <= Cardinality(Begun')
    BY DEF BegunOnce
  <2>1. ASSUME NEW m \in Begun PROVE m \in Begun'
    <3>1. m \in Msg /\ Taken(m)
      BY <2>1 DEF Begun, Untouched, Taken
    <3>2. Taken(m)'
      BY <3>1 DEF Keeps
    <3>3. ASSUME NEW v \in Workers, pc'[v] = "process", sent'[v] = 0,
                 m \in current'[v]
          PROVE  FALSE
      <4>1. pc[v] = "process" /\ current'[v] = current[v] /\ sent[v] = 0
        BY <3>1, <3>3 DEF Keeps
      <4>2. QED  BY <2>1, <3>3, <4>1 DEF Begun, Untouched
    <3>4. QED  BY <3>1, <3>2, <3>3 DEF Begun, Untouched, Taken
  <2>2. Cardinality(Begun) <= Cardinality(Begun') /\ Cardinality(Begun) \in Nat
        /\ Cardinality(Begun') \in Nat
    BY <2>1, FiniteBegun, Smaller
  <2>3. total' = total /\ total <= Cardinality(Begun) /\ total \in Nat
    BY LabelAssumption
       DEF MetricsIInv, BegunOnce, CountersTypeOK, counters, Keeps
  <2>4. QED  BY <2>2, <2>3
<1>9. QED
  BY <1>4, <1>5, <1>6, <1>7, <1>8 DEF MetricsIInv

(* The server executes the next command: one counter is incremented, and   *)
(* the pipeline moves on to the next breakdown.                            *)
LEMMA ExecuteCommandInv ==
  ASSUME MetricsIInv, NEW w \in Workers, ExecuteCommand(w)
  PROVE  MetricsIInv'
<1>1. PICK m \in current[w] :
        Countable(m) /\ Command(sent[w] + 1, Label[EventOf(m)])
  BY DEF ExecuteCommand
<1> DEFINE sl == Label[EventOf(m)]
<1>2. PICK k \in 0 .. 3 : sent[w] = k
  BY DEF ExecuteCommand, MetricsIInv, CountersTypeOK
<1>3. /\ LoopIInv' /\ Passed' = Passed
      /\ UNCHANGED <<topic, owner, position, committed, pc, batch, dlt, dropped,
                     current, calm>>
  BY InsideKeeps DEF ExecuteCommand, MetricsIInv
<1>4. /\ pc[w] = "process" /\ (k = 0 => total < MaxTotal)
      /\ sent' \in [Workers -> 0 .. 4] /\ sent'[w] = k + 1
      /\ \A v \in Workers \ {w} : sent'[v] = sent[v]
  BY <1>2 DEF ExecuteCommand, MetricsIInv, CountersTypeOK
<1>5. /\ current[w] = {m} /\ m \in Msg /\ m \notin batch[w] /\ m \in InHand(w)
      /\ m \in Produced
  BY <1>4 DEF MetricsIInv, LoopIInv, OneAtATime, OnlyProduced, InHand
<1>6. sl \in Labels /\ sl[1] \in Services /\ sl[2] \in Levels
  BY <1>5, PassedProduced, LabelAssumption DEF MetricsIInv, Services, Levels
<1>7. /\ k # 0 => UNCHANGED total
      /\ k # 3 => UNCHANGED serviceLevels
      /\ k = 0 => total' = total + 1 /\ UNCHANGED <<services, levels>>
      /\ k = 1 => services' = Bump(services, sl[1]) /\ UNCHANGED levels
      /\ k = 2 => levels' = Bump(levels, sl[2]) /\ UNCHANGED services
      /\ k = 3 => /\ serviceLevels' = Bump(serviceLevels, sl)
                  /\ UNCHANGED <<services, levels>>
  <2>1. Command(k + 1, sl) /\ k \in {0, 1, 2, 3}
    BY <1>2, <1>1
  <2>2. CASE k = 0
    BY <2>1, <2>2 DEF Command
  <2>3. CASE k = 1
    BY <2>1, <2>3 DEF Command
  <2>4. CASE k = 2
    BY <2>1, <2>4 DEF Command
  <2>5. CASE k = 3
    BY <2>1, <2>5 DEF Command
  <2>6. QED  BY <2>1, <2>2, <2>3, <2>4, <2>5
<1>8. PipelineInOrder'
  BY <1>2, <1>1, <1>3, <1>4, <1>5
     DEF MetricsIInv, PipelineInOrder, Countable, KindOf, EventOf
<1>9. /\ w \in Sent(k) /\ w \notin Sent(k + 1)
      /\ Sent(k)' = Sent(k) \ {w} /\ Sent(k + 1)' = Sent(k + 1) \cup {w}
      /\ \A j \in (0 .. 4) \ {k, k + 1} : Sent(j)' = Sent(j)
  BY <1>2, <1>4 DEF Sent
<1>10. /\ Sum(services) \in Nat /\ Sum(levels) \in Nat
      /\ Sum(serviceLevels) \in Nat /\ total \in Nat
  BY FS_CardinalityType, LabelAssumption DEF Sum, MetricsIInv, CountersTypeOK
<1>11. /\ Cardinality(Sent(k)') = Cardinality(Sent(k)) - 1
      /\ Cardinality(Sent(k + 1)') = Cardinality(Sent(k + 1)) + 1
      /\ \A j \in 0 .. 4 : Cardinality(Sent(j)) \in Nat
  <2>1. \A j : IsFiniteSet(Sent(j))
    BY FiniteCounts
  <2>2. QED  BY <1>9, <2>1, OneMore, OneLess, Smaller
<1>12. CountersTypeOK' /\ BreakdownsBehind'
  <2>1. CASE k = 0
    <3>1. total' = total + 1 /\ UNCHANGED <<services, levels, serviceLevels>>
      BY <1>7, <2>1
    <3>2. CountersTypeOK'
      BY <1>4, <1>10, <2>1, <3>1, LabelAssumption
         DEF MetricsIInv, CountersTypeOK, Units
    <3>3. BreakdownsBehind'
      BY <1>9, <1>10, <1>11, <2>1, <3>1 DEF MetricsIInv, BreakdownsBehind, Sum, Units
    <3>4. QED  BY <3>2, <3>3
  <2>2. CASE k = 1
    <3>1. /\ services' = Bump(services, sl[1])
          /\ UNCHANGED <<total, levels, serviceLevels>>
      BY <1>7, <2>2
    <3>2. /\ services' \in [Services -> Nat] /\ IsFiniteSet(Units(services'))
          /\ Sum(services') = Sum(services) + 1
      BY <1>6, <3>1, BumpAdds DEF MetricsIInv, CountersTypeOK
    <3>3. CountersTypeOK'
      BY <1>4, <3>1, <3>2 DEF MetricsIInv, CountersTypeOK
    <3>4. BreakdownsBehind'
      BY <1>9, <1>10, <1>11, <2>2, <3>1, <3>2 DEF MetricsIInv, BreakdownsBehind
    <3>5. QED  BY <3>3, <3>4
  <2>3. CASE k = 2
    <3>1. /\ levels' = Bump(levels, sl[2])
          /\ UNCHANGED <<total, services, serviceLevels>>
      BY <1>7, <2>3
    <3>2. /\ levels' \in [Levels -> Nat] /\ IsFiniteSet(Units(levels'))
          /\ Sum(levels') = Sum(levels) + 1
      BY <1>6, <3>1, BumpAdds DEF MetricsIInv, CountersTypeOK
    <3>3. CountersTypeOK'
      BY <1>4, <3>1, <3>2 DEF MetricsIInv, CountersTypeOK
    <3>4. BreakdownsBehind'
      BY <1>9, <1>10, <1>11, <2>3, <3>1, <3>2 DEF MetricsIInv, BreakdownsBehind
    <3>5. QED  BY <3>3, <3>4
  <2>4. CASE k = 3
    <3>1. /\ serviceLevels' = Bump(serviceLevels, sl)
          /\ UNCHANGED <<total, services, levels>>
      BY <1>7, <2>4
    <3>2. /\ serviceLevels' \in [Labels -> Nat]
          /\ IsFiniteSet(Units(serviceLevels'))
          /\ Sum(serviceLevels') = Sum(serviceLevels) + 1
      BY <1>6, <3>1, BumpAdds DEF MetricsIInv, CountersTypeOK
    <3>3. CountersTypeOK'
      BY <1>4, <3>1, <3>2 DEF MetricsIInv, CountersTypeOK
    <3>4. BreakdownsBehind'
      <4>1. /\ Sent(1)' = Sent(1) /\ Sent(2)' = Sent(2)
            /\ Cardinality(Sent(3)') = Cardinality(Sent(3)) - 1
        <5>1. k = 3 /\ 1 \in (0 .. 4) \ {k, k + 1} /\ 2 \in (0 .. 4) \ {k, k + 1}
          BY <2>4
        <5>2. Sent(1)' = Sent(1) /\ Sent(2)' = Sent(2)
          BY <1>9, <5>1
        <5>3. Cardinality(Sent(3)') = Cardinality(Sent(3)) - 1
          BY <1>11, <5>1
        <5>4. QED  BY <5>2, <5>3
      <4>2. /\ Sum(services)' = Sum(services) /\ Sum(levels)' = Sum(levels)
            /\ total' = total
        BY <3>1
      <4>3. /\ Sum(services) + Cardinality(Sent(1)) <= total
            /\ Sum(levels) + Cardinality(Sent(2)) <= Sum(services)
            /\ Sum(serviceLevels) + Cardinality(Sent(3)) <= Sum(levels)
        BY DEF MetricsIInv, BreakdownsBehind
      <4>4. Sum(serviceLevels') + Cardinality(Sent(3)') <= Sum(levels)
        BY <1>10, <1>11, <3>2, <4>1, <4>3
      <4>5. QED
        BY <4>1, <4>2, <4>3, <4>4 DEF BreakdownsBehind
    <3>5. QED  BY <3>3, <3>4
  <2>5. QED  BY <1>4, <2>1, <2>2, <2>3, <2>4
<1>13. PassedCounted'
  <2> SUFFICES ASSUME NEW x \in Labels
               PROVE  Cardinality(PassedFor(x)') + Cardinality(RunFor(x)')
                        <= serviceLevels'[x]
    BY DEF PassedCounted
  <2>1. PassedFor(x)' = PassedFor(x)
    BY <1>3 DEF PassedFor, EventOf
  <2>2. /\ Cardinality(PassedFor(x)) + Cardinality(RunFor(x)) <= serviceLevels[x]
        /\ Cardinality(PassedFor(x)) \in Nat /\ Cardinality(RunFor(x)) \in Nat
        /\ serviceLevels[x] \in Nat
    BY FiniteCounts, FS_CardinalityType
       DEF MetricsIInv, PassedCounted, CountersTypeOK
  <2>3. CASE k = 3 /\ x = sl
    <3>1. RunFor(x)' = RunFor(x) \cup {w} /\ w \notin RunFor(x)
      BY <1>3, <1>5, <1>9, <2>3 DEF RunFor, EventOf
    <3>2. Cardinality(RunFor(x)') = Cardinality(RunFor(x)) + 1
      BY <3>1, FiniteCounts, OneMore
    <3>3. serviceLevels'[x] = serviceLevels[x] + 1
      BY <1>6, <1>7, <2>3 DEF Bump, MetricsIInv, CountersTypeOK
    <3>4. QED  BY <2>1, <2>2, <3>2, <3>3
  <2>4. CASE k = 3 /\ x # sl
    <3>1. RunFor(x)' = RunFor(x)
      BY <1>3, <1>5, <1>9, <2>4 DEF RunFor, EventOf
    <3>2. serviceLevels'[x] = serviceLevels[x]
      BY <1>6, <1>7, <2>4 DEF Bump, MetricsIInv, CountersTypeOK
    <3>3. QED  BY <2>1, <2>2, <3>1, <3>2
  <2>5. CASE k # 3
    <3>1. RunFor(x)' = RunFor(x)
      BY <1>3, <1>4, <1>9, <2>5 DEF RunFor, EventOf
    <3>2. serviceLevels'[x] = serviceLevels[x]
      BY <1>7, <2>5
    <3>3. QED  BY <2>1, <2>2, <3>1, <3>2
  <2>6. QED  BY <2>3, <2>4, <2>5
<1>14. BegunOnce'
  <2> SUFFICES ASSUME calm PROVE total' <= Cardinality(Begun')
    BY <1>3 DEF BegunOnce
  <2>1. Begun \subseteq Begun'
    BY <1>3, <1>4 DEF Begun, Untouched
  <2>2. total <= Cardinality(Begun)
    BY DEF MetricsIInv, BegunOnce
  <2>3. CASE k = 0
    <3>1. m \notin Begun
      BY <1>2, <1>4, <1>5, <2>3 DEF Begun, Untouched
    <3>2. owner[m[1]] = w /\ m[2] < position[m[1]]
      BY <1>5 DEF MetricsIInv, LoopIInv, CalmHands
    <3>3. \A v \in Workers \ {w} : m \notin InHand(v)
      BY <3>2 DEF MetricsIInv, LoopIInv, CalmHands
    <3>4. m \in Begun'
      BY <1>3, <1>4, <1>5, <2>3, <3>2, <3>3 DEF Begun, Untouched, InHand
    <3>5. Cardinality(Begun \cup {m}) <= Cardinality(Begun')
          /\ Cardinality(Begun') \in Nat
      BY <2>1, <3>4, FiniteBegun, Smaller
    <3>6. Cardinality(Begun \cup {m}) = Cardinality(Begun) + 1
          /\ Cardinality(Begun) \in Nat
      BY <3>1, FiniteBegun, OneMore
    <3>7. total' = total + 1
      BY <1>7, <2>3
    <3>8. QED  BY <1>10, <2>2, <3>5, <3>6, <3>7
  <2>4. CASE k # 0
    <3>1. total' = total
      BY <1>7, <2>4
    <3>2. Cardinality(Begun) <= Cardinality(Begun') /\ Cardinality(Begun) \in Nat
          /\ Cardinality(Begun') \in Nat
      BY <2>1, FiniteBegun, Smaller
    <3>3. QED  BY <1>10, <2>2, <3>1, <3>2
  <2>5. QED  BY <2>3, <2>4
<1>15. QED
  BY <1>3, <1>8, <1>12, <1>13, <1>14 DEF MetricsIInv

(* execute() returned: the message of the pipeline is passed, and counted. *)
LEMMA PipelineOkInv ==
  ASSUME MetricsIInv, NEW w \in Workers, PipelineOk(w)
  PROVE  MetricsIInv'
<1>1. /\ LoopIInv' /\ Keeps(Workers \ {w}, current[w])
      /\ UNCHANGED <<topic, current>>
  BY ProcessedKeeps DEF PipelineOk, Processed, idleVars, retryVars, MetricsIInv
<1>2. /\ sent[w] = 4 /\ pc[w] = "process" /\ pc'[w] = "work"
      /\ sent' \in [Workers -> 0 .. 4] /\ sent'[w] = 0 /\ UNCHANGED counters
      /\ \A v \in Workers \ {w} : sent'[v] = sent[v]
  BY DEF PipelineOk, Processed, MetricsIInv, CountersTypeOK, LoopIInv,
         RetryTypeOK
<1>3. PICK m \in Msg : current[w] = {m} /\ m \in Produced
  BY <1>2 DEF MetricsIInv, LoopIInv, OneAtATime, OnlyProduced, InHand
<1>4. PassedCounted'
  <2> SUFFICES ASSUME NEW sl \in Labels
               PROVE  Cardinality(PassedFor(sl)') + Cardinality(RunFor(sl)')
                        <= serviceLevels'[sl]
    BY DEF PassedCounted
  <2>1. /\ Cardinality(PassedFor(sl)) + Cardinality(RunFor(sl))
             <= serviceLevels[sl]
        /\ serviceLevels'[sl] = serviceLevels[sl] /\ serviceLevels[sl] \in Nat
    BY <1>2 DEF MetricsIInv, PassedCounted, CountersTypeOK, counters
  <2>2. RunFor(sl)' = RunFor(sl) \ {w}
    BY <1>1, <1>2 DEF RunFor, Sent, EventOf
  <2>3. IsFiniteSet(PassedFor(sl)) /\ IsFiniteSet(RunFor(sl))
    BY FiniteCounts
  <2>4. CASE Label[EventOf(m)] = sl
    <3>1. w \in RunFor(sl)
      BY <1>2, <1>3, <2>4 DEF RunFor, Sent
    <3>2. Cardinality(RunFor(sl)') = Cardinality(RunFor(sl)) - 1
          /\ Cardinality(RunFor(sl)) \in Nat
      BY <2>2, <2>3, <3>1, OneLess
    <3>3. PassedFor(sl)' \subseteq PassedFor(sl) \cup {m}
      BY <1>1, <1>3, PassedProduced DEF PassedFor, Keeps, MetricsIInv
    <3>4. IsFiniteSet(PassedFor(sl) \cup {m})
          /\ Cardinality(PassedFor(sl)) \in Nat
          /\ Cardinality(PassedFor(sl) \cup {m}) <= Cardinality(PassedFor(sl)) + 1
      BY <2>3, AtMostOneMore
    <3>5. Cardinality(PassedFor(sl)') <= Cardinality(PassedFor(sl) \cup {m})
          /\ Cardinality(PassedFor(sl)') \in Nat
          /\ Cardinality(PassedFor(sl) \cup {m}) \in Nat
      BY <3>3, <3>4, Smaller
    <3>6. QED  BY <2>1, <3>2, <3>4, <3>5
  <2>5. CASE Label[EventOf(m)] # sl
    <3>1. Cardinality(RunFor(sl)') <= Cardinality(RunFor(sl))
          /\ Cardinality(RunFor(sl)') \in Nat /\ Cardinality(RunFor(sl)) \in Nat
      BY <2>2, <2>3, Smaller
    <3>2. PassedFor(sl)' \subseteq PassedFor(sl)
      BY <1>1, <1>3, <2>5, PassedProduced DEF PassedFor, Keeps, MetricsIInv
    <3>3. Cardinality(PassedFor(sl)') <= Cardinality(PassedFor(sl))
          /\ Cardinality(PassedFor(sl)') \in Nat
          /\ Cardinality(PassedFor(sl)) \in Nat
      BY <2>3, <3>2, Smaller
    <3>4. QED  BY <2>1, <3>1, <3>3
  <2>6. QED  BY <2>4, <2>5
<1>5. QED  BY <1>1, <1>2, <1>4, CountsNothing

(* Every step keeps the invariant.                                         *)
LEMMA NextMetrics == MetricsIInv /\ [MetricsNext]_metricsVars => MetricsIInv'
<1> SUFFICES ASSUME MetricsIInv, [MetricsNext]_metricsVars PROVE MetricsIInv'
  OBVIOUS
<1>0. sent \in [Workers -> 0 .. 4] /\ LoopIInv
  BY DEF MetricsIInv, CountersTypeOK
<1>1. CASE LoopNext /\ UNCHANGED <<sent, counters>>
  <2>1. LoopIInv' /\ Keeps(Workers, {})
    BY <1>0, <1>1, LoopNextKeeps
  <2>2. QED  BY <1>0, <1>1, <2>1, CountsNothing
<1>2. ASSUME NEW w \in Workers, CrashCounting(w) PROVE MetricsIInv'
  <2>1. LoopIInv' /\ Keeps(Workers \ {w}, {}) /\ pc'[w] = "down"
    BY <1>0, <1>2, DieKeeps DEF CrashCounting
  <2>2. sent' = [sent EXCEPT ![w] = 0] /\ UNCHANGED counters
    BY <1>2 DEF CrashCounting
  <2>3. QED  BY <1>0, <2>1, <2>2, CountsNothing
<1>3. ASSUME NEW w \in Workers, CannotCount(w) PROVE MetricsIInv'
  <2>1. LoopIInv' /\ Keeps(Workers \ {w}, {}) /\ UNCHANGED <<sent, counters>>
    BY <1>0, <1>3, ProcessRaisedKeeps DEF CannotCount
  <2>2. sent[w] = 0
    BY <1>0, <1>3 DEF CannotCount, MetricsIInv, PipelineInOrder
  <2>3. QED  BY <1>0, <2>1, <2>2, CountsNothing
<1>4. ASSUME NEW w \in Workers, ExecuteCommand(w) PROVE MetricsIInv'
  BY <1>4, ExecuteCommandInv
<1>5. ASSUME NEW w \in Workers, PipelineOk(w) PROVE MetricsIInv'
  BY <1>5, PipelineOkInv
<1>6. ASSUME NEW w \in Workers, PipelineFails(w) PROVE MetricsIInv'
  <2>1. LoopIInv' /\ Keeps(Workers \ {w}, {})
    BY <1>0, <1>6, ProcessRaisedKeeps DEF PipelineFails
  <2>2. /\ sent' = [sent EXCEPT ![w] = 0] /\ UNCHANGED counters
        /\ calm' => sent[w] = 0
    BY <1>6 DEF PipelineFails, ProcessRaised
  <2>3. QED  BY <1>0, <2>1, <2>2, CountsNothing
<1>7. CASE UNCHANGED metricsVars
  <2>1. LoopIInv' /\ Keeps(Workers, {}) /\ UNCHANGED <<sent, counters>>
    BY <1>0, <1>7, InsideKeeps DEF metricsVars
  <2>2. QED  BY <1>0, <2>1, CountsNothing
<1>8. QED
  BY <1>1, <1>2, <1>3, <1>4, <1>5, <1>6, <1>7 DEF MetricsNext

-----------------------------------------------------------------------------
(* MetricsConsumer: what follows from the invariant                        *)

(* Every reachable state satisfies the invariant.                          *)
THEOREM MetricsInvariant == MetricsSpec => []MetricsIInv
<1>1. MetricsInit => MetricsIInv
  BY InitMetrics
<1>2. MetricsIInv /\ [MetricsNext]_metricsVars => MetricsIInv'
  BY NextMetrics
<1>3. QED  BY <1>1, <1>2, PTL DEF MetricsSpec

(* The counters stay within the bound on the total: no key of a breakdown  *)
(* is above the sum of its breakdown, and no sum above the total.          *)
THEOREM MetricsTypeCorrect == MetricsSpec => []MetricsTypeOK
<1>1. MetricsIInv => MetricsTypeOK
  <2> SUFFICES ASSUME MetricsIInv PROVE MetricsTypeOK
    OBVIOUS
  <2> USE DEF MetricsIInv, CountersTypeOK
  <2>1. /\ Sum(services) \in Nat /\ Sum(levels) \in Nat
        /\ Sum(serviceLevels) \in Nat /\ total \in Nat /\ MaxTotal \in Nat
        /\ total <= MaxTotal
    BY FS_CardinalityType, LabelAssumption DEF Sum
  <2>2. \A k \in Nat : Cardinality(Sent(k)) \in Nat
    BY FiniteCounts, Smaller
  <2>3. /\ Sum(services) <= MaxTotal /\ Sum(levels) <= MaxTotal
        /\ Sum(serviceLevels) <= MaxTotal
    BY <2>1, <2>2 DEF BreakdownsBehind
  <2>4. /\ \A s \in Services : services[s] <= Sum(services)
        /\ \A l \in Levels : levels[l] <= Sum(levels)
        /\ \A sl \in Labels : serviceLevels[sl] <= Sum(serviceLevels)
    BY KeyBelowSum
  <2>5. services \in [Services -> Counts]
    BY <2>1, <2>3, <2>4 DEF Counts
  <2>6. levels \in [Levels -> Counts]
    BY <2>1, <2>3, <2>4 DEF Counts
  <2>7. serviceLevels \in [Labels -> Counts]
    BY <2>1, <2>3, <2>4 DEF Counts
  <2>8. QED
    BY <2>5, <2>6, <2>7 DEF MetricsTypeOK, LoopIInv, Counts
<1>2. QED  BY <1>1, MetricsInvariant, PTL

(* A committed event that was not routed is in the breakdown per service   *)
(* and level, which process() increments last.                             *)
THEOREM BreakdownComplete == MetricsSpec => []NeverUndercounted
<1>1. MetricsIInv => NeverUndercounted
  <2> SUFFICES ASSUME MetricsIInv, NEW sl \in Labels
               PROVE  serviceLevels[sl] >= Cardinality(CountedFor(sl))
    BY DEF NeverUndercounted
  <2>1. CountedFor(sl) \subseteq PassedFor(sl)
    BY DEF CountedFor, PassedFor, Committed, Passed
  <2>2. Cardinality(CountedFor(sl)) <= Cardinality(PassedFor(sl))
        /\ Cardinality(CountedFor(sl)) \in Nat
        /\ Cardinality(PassedFor(sl)) \in Nat
    BY <2>1, FiniteCounts, Smaller
  <2>3. Cardinality(RunFor(sl)) \in Nat
    BY FiniteCounts, Smaller
  <2>4. /\ Cardinality(PassedFor(sl)) + Cardinality(RunFor(sl))
             <= serviceLevels[sl]
        /\ serviceLevels[sl] \in Nat
    BY DEF MetricsIInv, PassedCounted, CountersTypeOK
  <2>5. QED  BY <2>2, <2>3, <2>4
<1>2. QED  BY <1>1, MetricsInvariant, PTL

(* The breakdowns never run ahead of the total, whatever prefixes broken   *)
(* pipelines leave.                                                        *)
THEOREM BreakdownsNested == MetricsSpec => []TotalsNested
<1>1. MetricsIInv => TotalsNested
  <2> SUFFICES ASSUME MetricsIInv PROVE TotalsNested
    OBVIOUS
  <2>1. /\ Sum(services) \in Nat /\ Sum(levels) \in Nat
        /\ Sum(serviceLevels) \in Nat /\ total \in Nat
    BY FS_CardinalityType, LabelAssumption
       DEF Sum, MetricsIInv, CountersTypeOK
  <2>2. \A k \in Nat : Cardinality(Sent(k)) \in Nat
    BY FiniteCounts, Smaller
  <2>3. QED
    BY <2>1, <2>2 DEF MetricsIInv, BreakdownsBehind, TotalsNested
<1>2. QED  BY <1>1, MetricsInvariant, PTL

(* As long as nothing goes wrong, the total counts no event twice.         *)
THEOREM TotalCountsEvents == MetricsSpec => []TotalIsEvents
<1>1. MetricsIInv => TotalIsEvents
  <2> SUFFICES ASSUME MetricsIInv, calm PROVE total <= Cardinality(Produced)
    BY DEF TotalIsEvents
  <2>1. Begun \subseteq Produced
    <3> SUFFICES ASSUME NEW m \in Begun PROVE m[2] < Len(topic[m[1]])
      BY DEF Begun, Produced
    <3>1. m \in Msg /\ m[2] < position[m[1]]
      BY DEF Begun
    <3>2. QED  BY <3>1, MsgOf, OffsetsOf DEF MetricsIInv
  <2>2. Cardinality(Begun) <= Cardinality(Produced)
        /\ Cardinality(Begun) \in Nat /\ Cardinality(Produced) \in Nat
    BY <2>1, FiniteBegun, Smaller
  <2>3. total <= Cardinality(Begun) /\ total \in Nat
    BY LabelAssumption DEF MetricsIInv, BegunOnce, CountersTypeOK
  <2>4. QED  BY <2>2, <2>3
<1>2. QED  BY <1>1, MetricsInvariant, PTL

-----------------------------------------------------------------------------
(* AlertConsumer: the invariant is inductive                               *)

(* What the counter of alerts is compared with.                            *)
LEMMA FiniteDue ==
  /\ IsFiniteSet(Msg \X Rules) /\ IsFiniteSet(Workers \X Rules)
  /\ IsFiniteSet(CountedNow) /\ IsFiniteSet(PassedDue)
  /\ IsFiniteSet(PassedDue \ uncounted)
<1>1. IsFiniteSet(Msg \X Rules) /\ IsFiniteSet(Workers \X Rules)
  BY FiniteMsg, FiniteAssumption, RuleAssumption, FS_Product
<1>2. CountedNow \subseteq Workers \X Rules /\ PassedDue \subseteq Msg \X Rules
  BY DEF CountedNow, PassedDue
<1>3. PassedDue \ uncounted \subseteq Msg \X Rules
  BY <1>2
<1>4. QED  BY <1>1, <1>2, <1>3, Smaller

(* A step that passes and counts no alert more keeps the count behind.     *)
LEMMA CountStays ==
  ASSUME RulesTypeOK, DueCounted, alertCount' = alertCount,
         PassedDue' \ uncounted' \subseteq PassedDue \ uncounted,
         CountedNow' \subseteq CountedNow
  PROVE  DueCounted'
<1>1. /\ Cardinality(PassedDue' \ uncounted') \in Nat
      /\ Cardinality(PassedDue \ uncounted) \in Nat
      /\ Cardinality(PassedDue' \ uncounted') <= Cardinality(PassedDue \ uncounted)
  BY FiniteDue, Smaller
<1>2. /\ Cardinality(CountedNow') \in Nat /\ Cardinality(CountedNow) \in Nat
      /\ Cardinality(CountedNow') <= Cardinality(CountedNow)
  BY FiniteDue, Smaller
<1>3. alertCount \in Nat
  BY RuleAssumption DEF RulesTypeOK
<1>4. QED  BY <1>1, <1>2, <1>3 DEF DueCounted

(* Initially no rule is looked at, and nothing passed.                     *)
LEMMA InitAlert == AlertInit => AlertIInv
<1> SUFFICES ASSUME AlertInit PROVE AlertIInv
  OBVIOUS
<1> USE DEF AlertInit
<1>1. /\ LoopIInv /\ Passed = {}
      /\ \A w \in Workers : current[w] = {}
  BY InitLoop DEF RetryInit
<1>2. RulesTypeOK
  <2>1. alertCount \in 0 .. MaxCount
    BY RuleAssumption
  <2>2. /\ toFire \in [Workers -> SUBSET Rules]
        /\ alerts \cup unsent \cup uncounted \subseteq Msg \X Rules
    OBVIOUS
  <2>3. /\ parsed \in [Workers -> BOOLEAN] /\ produced \in [Workers -> BOOLEAN]
        /\ repeated \in BOOLEAN
    OBVIOUS
  <2> HIDE DEF AlertInit
  <2>4. QED  BY <2>1, <2>2, <2>3 DEF RulesTypeOK
<1>3. MatchInOrder /\ RulesTried
  BY DEF MatchInOrder, RulesTried, Behind
<1>4. PassedDue = {} /\ CountedNow = {}
  BY <1>1 DEF PassedDue, CountedNow
<1>5. PassedTried
  BY <1>4 DEF PassedTried
<1>6. DueCounted
  <2>1. PassedDue \ uncounted = {}
    BY <1>4
  <2>2. Cardinality(PassedDue \ uncounted) = 0 /\ Cardinality(CountedNow) = 0
    BY <1>4, <2>1, FS_EmptySet
  <2>3. alertCount = 0
    OBVIOUS
  <2>4. QED  BY <2>2, <2>3 DEF DueCounted
<1>7. FiredBehind
  BY DEF FiredBehind
<1>8. QED
  BY <1>1, <1>2, <1>3, <1>5, <1>6, <1>7 DEF AlertIInv

(***************************************************************************)
(* A step that sends and counts nothing: process() goes on, or it is over. *)
(* If it passes a message, its rules are behind.                           *)
(***************************************************************************)
LEMMA FiresNothing ==
  ASSUME AlertIInv, NEW V \in SUBSET Workers, NEW G, LoopIInv', Keeps(V, G),
         G = {} \/ (PassedTried' /\ DueCounted'), UNCHANGED firedVars,
         toFire' \in [Workers -> SUBSET Rules],
         parsed' \in [Workers -> BOOLEAN], produced' \in [Workers -> BOOLEAN],
         \A v \in V : /\ toFire'[v] = toFire[v] /\ parsed'[v] = parsed[v]
                     /\ produced'[v] = produced[v],
         \A w \in Workers \ V :
           /\ toFire'[w] = {} /\ ~parsed'[w] /\ ~produced'[w]
           /\ calm' /\ pc'[w] = "process" => ~parsed[w]
  PROVE  AlertIInv'
<1>1. \A w \in Workers : parsed[w] =>
        /\ pc[w] = "process" /\ current[w] \subseteq Produced
        /\ \A m \in current[w] : Matchable(m)
  BY DEF AlertIInv, MatchInOrder, LoopIInv, OnlyProduced, InHand
<1>2. \A v \in V : parsed[v] =>
        /\ pc'[v] = "process" /\ current'[v] = current[v]
        /\ \A m \in current[v] : EventOf(m)' = EventOf(m)
  BY <1>1 DEF Keeps
<1>3. UNCHANGED <<alerts, repeated, alertCount, unsent, uncounted>>
  BY DEF firedVars
<1>4. RulesTypeOK'
  BY <1>3 DEF AlertIInv, RulesTypeOK
<1>5. MatchInOrder'
  <2> SUFFICES ASSUME NEW w \in Workers
               PROVE  /\ IF parsed'[w]
                            THEN /\ pc'[w] = "process"
                                 /\ \A m \in current'[w] : Matchable(m)'
                            ELSE toFire'[w] = {} /\ ~produced'[w]
                      /\ produced'[w] => toFire'[w] # {}
    BY DEF MatchInOrder
  <2>1. CASE w \in V
    BY <1>1, <1>2, <2>1 DEF AlertIInv, MatchInOrder, Matchable, KindOf
  <2>2. CASE w \notin V
    BY <2>2
  <2>3. QED  BY <2>1, <2>2
<1>6. \A w \in Workers, r \in Rules :
        Behind(w, r)' <=> w \in V /\ Behind(w, r)
  BY DEF Behind, NextRule
<1>7. RulesTried'
  <2> SUFFICES ASSUME NEW w \in Workers, NEW m \in current'[w],
                      NEW r \in Matches[EventOf(m)'], Behind(w, r)'
               PROVE  <<m, r>> \in alerts \cup unsent
    BY <1>3 DEF RulesTried
  <2>1. w \in V /\ parsed[w]
    BY DEF Behind
  <2>2. m \in current[w] /\ r \in Matches[EventOf(m)] /\ Behind(w, r)
    BY <1>2, <2>1 DEF Behind, NextRule
  <2>3. QED  BY <2>2 DEF AlertIInv, RulesTried
<1>8. PassedTried' /\ DueCounted'
  <2> SUFFICES ASSUME G = {} PROVE PassedTried' /\ DueCounted'
    OBVIOUS
  <2>1. PassedDue' \subseteq PassedDue
    BY PassedProduced DEF PassedDue, Keeps, AlertIInv
  <2>2. PassedTried'
    BY <1>3, <2>1 DEF AlertIInv, PassedTried
  <2>3. CountedNow' \subseteq CountedNow
    <3> SUFFICES ASSUME NEW c \in CountedNow' PROVE c \in CountedNow
      OBVIOUS
    <3>1. c \in Workers \X Rules /\ c[1] \in V /\ parsed[c[1]]
      BY DEF CountedNow
    <3>2. QED  BY <1>2, <1>3, <3>1 DEF CountedNow
  <2>4. DueCounted'
    BY <1>3, <2>1, <2>3, CountStays DEF AlertIInv
  <2>5. QED  BY <2>2, <2>4
<1>9. FiredBehind'
  <2> SUFFICES ASSUME calm' PROVE FiredBehind'
    BY DEF FiredBehind
  <2>1. calm /\ ~repeated
    BY DEF Keeps, AlertIInv, FiredBehind
  <2>2. ASSUME NEW a \in alerts
        PROVE  /\ a[1][2] < position'[a[1][1]]
               /\ \A w \in Workers :
                    /\ a[1] \notin batch'[w]
                    /\ pc'[w] = "process" /\ a[1] \in current'[w] =>
                         Behind(w, a[2])'
    <3>1. a[1] \in Msg /\ a[2] \in Rules
      BY DEF AlertIInv, RulesTypeOK
    <3>2. Taken(a[1])
      BY <2>1, <2>2 DEF Taken, AlertIInv, FiredBehind
    <3>3. Taken(a[1])'
      BY <3>1, <3>2 DEF Keeps
    <3>4. ASSUME NEW w \in Workers, pc'[w] = "process", a[1] \in current'[w]
          PROVE  Behind(w, a[2])'
      <4>1. pc[w] = "process" /\ a[1] \in current[w]
        BY <3>1, <3>2, <3>4 DEF Keeps
      <4>2. Behind(w, a[2])
        BY <2>1, <4>1 DEF AlertIInv, FiredBehind
      <4>3. w \in V
        BY <3>4, <4>2 DEF Behind
      <4>4. QED  BY <1>6, <3>1, <4>2, <4>3
    <3>5. QED  BY <3>3, <3>4 DEF Taken
  <2>3. QED  BY <1>3, <2>1, <2>2 DEF FiredBehind
<1>10. QED
  BY <1>4, <1>5, <1>7, <1>8, <1>9 DEF AlertIInv

(* Only one rule is the first one left.                                    *)
LEMMA OneFirst ==
  ASSUME RulesTypeOK, NEW w \in Workers, NEW r, NEW s,
         NextRule(w, r), NextRule(w, s)
  PROVE  r = s /\ r \in Rules
<1>1. r \in Nat /\ s \in Nat /\ r \in Rules
  BY RuleAssumption DEF RulesTypeOK, NextRule
<1>2. r <= s /\ s <= r
  BY DEF NextRule
<1>3. QED  BY <1>1, <1>2

(* A step inside process() passes nothing, and other processes match on.   *)
LEMMA InsideRules ==
  ASSUME AlertIInv, NEW w \in Workers, UNCHANGED <<groupVars, retryVars>>,
         pc[w] = "process",
         \A v \in Workers \ {w} : /\ toFire'[v] = toFire[v]
                                 /\ parsed'[v] = parsed[v]
                                 /\ produced'[v] = produced[v]
  PROVE  /\ LoopIInv' /\ PassedDue' = PassedDue
         /\ \E m \in Produced : current[w] = {m} /\ m \notin batch[w]
         /\ \A v \in Workers \ {w}, r \in Rules : Behind(v, r)' <=> Behind(v, r)
         /\ UNCHANGED <<topic, owner, position, committed, pc, batch, dlt,
                        dropped, current, calm>>
<1>1. /\ LoopIInv' /\ Passed' = Passed
      /\ UNCHANGED <<topic, owner, position, committed, pc, batch, dlt, dropped,
                     current, calm>>
  BY InsideKeeps DEF AlertIInv
<1>2. PassedDue' = PassedDue
  BY <1>1 DEF PassedDue, EventOf
<1>3. \E m \in Produced : current[w] = {m} /\ m \notin batch[w]
  BY DEF AlertIInv, LoopIInv, OneAtATime, OnlyProduced, InHand
<1>4. \A v \in Workers \ {w}, r \in Rules : Behind(v, r)' <=> Behind(v, r)
  BY DEF Behind, NextRule
<1>5. QED  BY <1>1, <1>2, <1>3, <1>4

(* The rules that will fire are the ones the event matches: none is behind.*)
LEMMA MatchInv ==
  ASSUME AlertIInv, NEW w \in Workers, Match(w)
  PROVE  AlertIInv'
<1>1. /\ UNCHANGED <<groupVars, retryVars, produced>>
      /\ UNCHANGED <<alerts, unsent, repeated, alertCount, uncounted>>
      /\ pc[w] = "process" /\ ~parsed[w] /\ ~produced[w]
      /\ parsed' = [parsed EXCEPT ![w] = TRUE]
  BY DEF Match, firedVars, AlertIInv, MatchInOrder
<1>2. PICK m \in current[w] :
        /\ Matchable(m)
        /\ toFire' = [toFire EXCEPT ![w] = Matches[EventOf(m)]]
  BY DEF Match
<1>3. /\ toFire'[w] = Matches[EventOf(m)] /\ parsed'[w] /\ ~produced'[w]
      /\ \A v \in Workers \ {w} : /\ toFire'[v] = toFire[v]
                                 /\ parsed'[v] = parsed[v]
                                 /\ produced'[v] = produced[v]
  BY <1>1, <1>2 DEF AlertIInv, RulesTypeOK
<1>4. /\ LoopIInv' /\ PassedDue' = PassedDue
      /\ \A v \in Workers \ {w}, r \in Rules : Behind(v, r)' <=> Behind(v, r)
      /\ UNCHANGED <<topic, owner, position, committed, pc, batch, dlt, dropped,
                     current, calm>>
      /\ current[w] = {m} /\ m \in Produced
  BY <1>1, <1>2, <1>3, InsideRules
<1>5. \A e \in Events : Matches[e] \subseteq Rules
  BY RuleAssumption
<1>6. EventOf(m) \in Events
  BY <1>4, PassedProduced DEF AlertIInv
<1>7. RulesTypeOK'
  BY <1>1, <1>2, <1>5, <1>6 DEF AlertIInv, RulesTypeOK
<1>8. MatchInOrder'
  <2>1. \A n : Matchable(n)' <=> Matchable(n)
    BY <1>4 DEF Matchable, KindOf, EventOf
  <2>2. QED
    BY <1>1, <1>2, <1>3, <1>4, <2>1 DEF AlertIInv, MatchInOrder
<1>9. ASSUME NEW r PROVE ~Behind(w, r) /\ (Behind(w, r)' => r \notin Matches[EventOf(m)])
  BY <1>1, <1>3 DEF Behind
<1>10. RulesTried'
  <2> SUFFICES ASSUME NEW v \in Workers, NEW n \in current'[v],
                      NEW r \in Matches[EventOf(n)'], Behind(v, r)'
               PROVE  <<n, r>> \in alerts \cup unsent
    BY <1>1 DEF RulesTried
  <2>1. EventOf(n)' = EventOf(n) /\ n \in current[v]
    BY <1>4 DEF EventOf
  <2>2. v # w
    BY <1>4, <1>9, <2>1
  <2>3. n \in Produced
    BY <1>3, <2>1, <2>2
       DEF Behind, AlertIInv, MatchInOrder, LoopIInv, OnlyProduced, InHand
  <2>4. r \in Rules
    BY <1>5, <2>1, <2>3, PassedProduced DEF AlertIInv
  <2>5. Behind(v, r)
    BY <1>4, <2>2, <2>4
  <2>6. QED  BY <2>1, <2>5 DEF AlertIInv, RulesTried
<1>11. PassedTried'
  BY <1>1, <1>4 DEF AlertIInv, PassedTried
<1>12. DueCounted'
  <2>1. ASSUME NEW c \in CountedNow' PROVE c \in CountedNow
    <3>1. /\ c \in Workers \X Rules /\ parsed'[c[1]] /\ c[2] \notin toFire'[c[1]]
          /\ \E n \in current[c[1]] : c[2] \in Matches[EventOf(n)]
                                      /\ <<n, c[2]>> \notin uncounted
      BY <1>1, <1>4 DEF CountedNow, EventOf
    <3>2. c[1] # w
      BY <1>3, <1>4, <3>1
    <3>3. QED  BY <1>3, <3>1, <3>2 DEF CountedNow
  <2>2. QED  BY <1>1, <1>4, <2>1, CountStays DEF AlertIInv
<1>13. FiredBehind'
  <2> SUFFICES ASSUME calm PROVE FiredBehind'
    BY <1>4 DEF FiredBehind
  <2>1. ASSUME NEW a \in alerts, NEW v \in Workers,
               pc[v] = "process", a[1] \in current[v]
        PROVE  Behind(v, a[2])'
    <3>1. Behind(v, a[2]) /\ a[2] \in Rules
      BY <2>1 DEF AlertIInv, FiredBehind, RulesTypeOK
    <3>2. v # w
      BY <1>9, <3>1
    <3>3. QED  BY <1>4, <3>1, <3>2
  <2>2. QED  BY <1>1, <1>4, <2>1 DEF AlertIInv, FiredBehind
<1>14. QED
  BY <1>4, <1>7, <1>8, <1>10, <1>11, <1>12, <1>13 DEF AlertIInv

(* The first rule left is tried, and is then behind.  As long as nothing   *)
(* goes wrong its alert was not sent before: it was not behind.            *)
LEMMA ProduceAlertInv ==
  ASSUME AlertIInv, NEW w \in Workers, ProduceAlert(w)
  PROVE  AlertIInv'
<1>1. /\ UNCHANGED <<groupVars, retryVars, toFire, parsed>>
      /\ UNCHANGED <<alertCount, uncounted>>
      /\ pc[w] = "process" /\ ~produced[w]
      /\ produced' = [produced EXCEPT ![w] = TRUE]
  BY DEF ProduceAlert
<1>2. PICK r \in toFire[w], m \in current[w] :
        /\ NextRule(w, r)
        /\ \/ /\ alerts' = alerts \cup {<<m, r>>}
              /\ repeated' = (repeated \/ <<m, r>> \in alerts)
              /\ UNCHANGED unsent
           \/ /\ unsent' = unsent \cup {<<m, r>>}
              /\ UNCHANGED <<alerts, repeated>>
  BY DEF ProduceAlert
<1>3. /\ produced'[w] /\ \A v \in Workers \ {w} : produced'[v] = produced[v]
      /\ parsed[w]
  BY <1>1, <1>2 DEF AlertIInv, RulesTypeOK, MatchInOrder
<1>4. /\ LoopIInv' /\ PassedDue' = PassedDue
      /\ \A v \in Workers \ {w}, s \in Rules : Behind(v, s)' <=> Behind(v, s)
      /\ UNCHANGED <<topic, owner, position, committed, pc, batch, dlt, dropped,
                     current, calm>>
      /\ current[w] = {m} /\ m \in Produced /\ m \notin batch[w]
  BY <1>1, <1>2, <1>3, InsideRules
<1>5. m \in Msg /\ r \in Rules /\ toFire[w] \subseteq Rules
  BY <1>2, <1>4, OneFirst DEF AlertIInv, RulesTypeOK, Produced
<1>6. RulesTypeOK'
  <2>1. alerts' \subseteq Msg \X Rules /\ unsent' \subseteq Msg \X Rules
    BY <1>2, <1>5 DEF AlertIInv, RulesTypeOK
  <2>2. repeated' \in BOOLEAN
    BY <1>2 DEF AlertIInv, RulesTypeOK
  <2>3. QED
    BY <1>1, <2>1, <2>2 DEF AlertIInv, RulesTypeOK
<1>7. MatchInOrder'
  <2>1. \A n : Matchable(n)' <=> Matchable(n)
    BY <1>4 DEF Matchable, KindOf, EventOf
  <2>2. QED
    BY <1>1, <1>2, <1>3, <1>4, <2>1 DEF AlertIInv, MatchInOrder
<1>8. /\ \A s : Behind(w, s) => s \notin toFire[w]
      /\ \A s : Behind(w, s)' => s = r \/ Behind(w, s)
      /\ \A s : Behind(w, s) => Behind(w, s)'
      /\ Behind(w, r)'
  <2>1. \A s : NextRule(w, s)' <=> NextRule(w, s)
    BY <1>1 DEF NextRule
  <2>2. \A s : NextRule(w, s) => s = r
    BY <1>2, OneFirst DEF AlertIInv
  <2>3. QED  BY <1>1, <1>2, <1>3, <2>1, <2>2 DEF Behind
<1>9. alerts \cup unsent \cup {<<m, r>>} \subseteq alerts' \cup unsent'
  BY <1>2
<1>10. RulesTried'
  <2> SUFFICES ASSUME NEW v \in Workers, NEW n \in current[v],
                      NEW s \in Matches[EventOf(n)], Behind(v, s)'
               PROVE  <<n, s>> \in alerts' \cup unsent'
    BY <1>4 DEF RulesTried, EventOf
  <2>1. CASE v = w
    BY <1>4, <1>8, <1>9, <2>1 DEF AlertIInv, RulesTried
  <2>2. CASE v # w
    <3>1. n \in Produced
      BY <1>1 DEF Behind, AlertIInv, MatchInOrder, LoopIInv, OnlyProduced, InHand
    <3>2. s \in Rules
      BY <3>1, PassedProduced, RuleAssumption DEF AlertIInv
    <3>3. QED  BY <1>4, <1>9, <2>2, <3>2 DEF AlertIInv, RulesTried
  <2>3. QED  BY <2>1, <2>2
<1>11. PassedTried'
  BY <1>4, <1>9 DEF AlertIInv, PassedTried
<1>12. DueCounted'
  <2>1. CountedNow' = CountedNow
    BY <1>1, <1>4 DEF CountedNow, EventOf
  <2>2. QED  BY <1>1, <1>4, <2>1, CountStays DEF AlertIInv
<1>13. FiredBehind'
  <2> SUFFICES ASSUME calm PROVE FiredBehind'
    BY <1>4 DEF FiredBehind
  <2>1. <<m, r>> \notin alerts
    <3> SUFFICES ASSUME <<m, r>> \in alerts PROVE FALSE
      OBVIOUS
    <3>1. Behind(w, r)
      BY <1>1, <1>4 DEF AlertIInv, FiredBehind
    <3>2. QED  BY <1>2, <1>8, <3>1
  <2>2. ~repeated'
    BY <1>2, <2>1 DEF AlertIInv, FiredBehind
  <2>3. /\ m \in InHand(w) /\ m[2] < position[m[1]]
        /\ \A v \in Workers \ {w} : m \notin InHand(v)
    BY <1>1, <1>4 DEF InHand, AlertIInv, LoopIInv, CalmHands
  <2>4. ASSUME NEW a \in alerts'
        PROVE  /\ a[1][2] < position[a[1][1]]
               /\ \A v \in Workers :
                    /\ a[1] \notin batch[v]
                    /\ pc[v] = "process" /\ a[1] \in current[v] =>
                         Behind(v, a[2])'
    <3>1. CASE a \in alerts
      <4>1. a[2] \in Rules
        BY <3>1 DEF AlertIInv, RulesTypeOK
      <4>2. QED  BY <1>4, <1>8, <3>1, <4>1 DEF AlertIInv, FiredBehind
    <3>2. CASE a = <<m, r>>
      BY <1>4, <1>8, <2>3, <3>2 DEF InHand
    <3>3. QED  BY <1>2, <3>1, <3>2
  <2>5. QED  BY <1>4, <2>2, <2>4 DEF FiredBehind
<1>14. QED
  BY <1>4, <1>6, <1>7, <1>10, <1>11, <1>12, <1>13 DEF AlertIInv

(* The rule is counted, or that failure logged: it stays behind.           *)
LEMMA RuleDoneInv ==
  ASSUME AlertIInv, NEW w \in Workers, CountAlert(w) \/ CountFails(w)
  PROVE  AlertIInv'
<1>1. /\ UNCHANGED <<groupVars, retryVars, parsed>>
      /\ UNCHANGED <<alerts, repeated, unsent>>
      /\ pc[w] = "process" /\ produced[w]
      /\ produced' = [produced EXCEPT ![w] = FALSE]
  BY DEF CountAlert, CountFails, RuleDone
<1>2. PICK r \in toFire[w] :
        NextRule(w, r) /\ toFire' = [toFire EXCEPT ![w] = @ \ {r}]
  BY DEF CountAlert, CountFails, RuleDone
<1>3. /\ toFire'[w] = toFire[w] \ {r} /\ ~produced'[w] /\ parsed[w]
      /\ \A v \in Workers \ {w} : /\ toFire'[v] = toFire[v]
                                 /\ parsed'[v] = parsed[v]
                                 /\ produced'[v] = produced[v]
  BY <1>1, <1>2 DEF AlertIInv, RulesTypeOK, MatchInOrder
<1>4. /\ LoopIInv' /\ PassedDue' = PassedDue
      /\ \A v \in Workers \ {w}, s \in Rules : Behind(v, s)' <=> Behind(v, s)
      /\ \E m \in Produced : current[w] = {m}
      /\ UNCHANGED <<topic, owner, position, committed, pc, batch, dlt, dropped,
                     current, calm>>
  BY <1>1, <1>3, InsideRules
<1>5. r \in Rules
  BY <1>2, OneFirst DEF AlertIInv
<1>6. PICK m \in Produced : current[w] = {m}
  BY <1>4
<1>7. \/ alertCount' = alertCount /\ uncounted' = uncounted \cup {<<m, r>>}
      \/ /\ alertCount' = IF alertCount < MaxCount THEN alertCount + 1 ELSE MaxCount
         /\ uncounted' = uncounted
  <2>1. CASE CountAlert(w)
    BY <2>1 DEF CountAlert
  <2>2. CASE CountFails(w)
    BY <1>2, <1>6, <2>2, OneFirst DEF CountFails, AlertIInv
  <2>3. QED  BY <2>1, <2>2
<1>8. RulesTypeOK'
  <2>1. m \in Msg
    BY DEF Produced
  <2>2. alertCount' \in 0 .. MaxCount /\ uncounted' \subseteq Msg \X Rules
    BY <1>5, <1>7, <2>1, RuleAssumption DEF AlertIInv, RulesTypeOK
  <2>3. QED
    BY <1>1, <1>2, <2>2 DEF AlertIInv, RulesTypeOK
<1>9. MatchInOrder'
  <2>1. \A n : Matchable(n)' <=> Matchable(n)
    BY <1>4 DEF Matchable, KindOf, EventOf
  <2>2. QED
    BY <1>1, <1>3, <1>4, <2>1 DEF AlertIInv, MatchInOrder
<1>10. \A v \in Workers, s \in Rules : Behind(v, s)' <=> Behind(v, s)
  <2>1. \A s \in Rules : Behind(w, s)' <=> s \notin toFire[w] \/ s = r
    BY <1>1, <1>3 DEF Behind
  <2>2. \A s : NextRule(w, s) <=> s = r
    BY <1>2, OneFirst DEF AlertIInv
  <2>3. \A s \in Rules : Behind(w, s) <=> s \notin toFire[w] \/ s = r
    BY <1>1, <1>3, <2>2 DEF Behind
  <2>4. QED  BY <1>4, <2>1, <2>3
<1>11. RulesTried'
  <2> SUFFICES ASSUME NEW v \in Workers, NEW n \in current[v],
                      NEW s \in Matches[EventOf(n)], Behind(v, s)'
               PROVE  <<n, s>> \in alerts \cup unsent
    BY <1>1, <1>4 DEF RulesTried, EventOf
  <2>1. n \in Produced
    BY <1>1 DEF Behind, AlertIInv, MatchInOrder, LoopIInv, OnlyProduced, InHand
  <2>2. s \in Rules
    BY <2>1, PassedProduced, RuleAssumption DEF AlertIInv
  <2>3. QED  BY <1>10, <2>2 DEF AlertIInv, RulesTried
<1>12. PassedTried'
  BY <1>1, <1>4 DEF AlertIInv, PassedTried
<1>13. DueCounted'
  <2>1. ASSUME NEW c \in CountedNow', c # <<w, r>> PROVE c \in CountedNow
    <3>1. /\ c \in Workers \X Rules /\ parsed[c[1]] /\ c[2] \notin toFire'[c[1]]
          /\ \E n \in current[c[1]] : c[2] \in Matches[EventOf(n)]
                                      /\ <<n, c[2]>> \notin uncounted
      BY <1>1, <1>4, <1>7, <2>1 DEF CountedNow, EventOf
    <3>2. c[2] \notin toFire[c[1]]
      BY <1>3, <2>1, <3>1
    <3>3. QED  BY <3>1, <3>2 DEF CountedNow
  <2>2. CASE alertCount' = alertCount /\ uncounted' = uncounted \cup {<<m, r>>}
    <3>1. <<w, r>> \notin CountedNow'
      BY <1>4, <1>6, <2>2 DEF CountedNow
    <3>2. CountedNow' \subseteq CountedNow
      BY <2>1, <3>1
    <3>3. QED  BY <1>4, <2>2, <3>2, CountStays DEF AlertIInv
  <2>3. CASE /\ alertCount' = IF alertCount < MaxCount THEN alertCount + 1
                                                        ELSE MaxCount
             /\ uncounted' = uncounted
    <3>1. CountedNow' \subseteq CountedNow \cup {<<w, r>>}
      BY <2>1
    <3>2. /\ IsFiniteSet(CountedNow \cup {<<w, r>>})
          /\ Cardinality(CountedNow) \in Nat
          /\ Cardinality(CountedNow \cup {<<w, r>>}) <= Cardinality(CountedNow) + 1
      BY FiniteDue, AtMostOneMore
    <3>3. /\ Cardinality(CountedNow') <= Cardinality(CountedNow \cup {<<w, r>>})
          /\ Cardinality(CountedNow') \in Nat
          /\ Cardinality(CountedNow \cup {<<w, r>>}) \in Nat
      BY <3>1, <3>2, Smaller
    <3>4. Cardinality(PassedDue \ uncounted) \in Nat
      BY FiniteDue, Smaller
    <3>5. Cardinality(PassedDue' \ uncounted') = Cardinality(PassedDue \ uncounted)
      BY <1>4, <2>3
    <3>6. /\ alertCount \in Nat /\ MaxCount \in Nat /\ alertCount <= MaxCount
          /\ \/ alertCount = MaxCount
             \/ Cardinality(PassedDue \ uncounted) + Cardinality(CountedNow)
                   <= alertCount
      BY RuleAssumption DEF AlertIInv, RulesTypeOK, DueCounted
    <3>7. QED  BY <2>3, <3>2, <3>3, <3>4, <3>5, <3>6 DEF DueCounted
  <2>4. QED  BY <1>7, <2>2, <2>3
<1>14. FiredBehind'
  <2>1. \A a \in alerts : a[2] \in Rules
    BY DEF AlertIInv, RulesTypeOK
  <2>2. ASSUME calm, NEW a \in alerts, NEW v \in Workers
        PROVE  /\ a[1] \notin batch[v]
               /\ pc[v] = "process" /\ a[1] \in current[v] => Behind(v, a[2])'
    BY <1>10, <2>1, <2>2 DEF AlertIInv, FiredBehind
  <2>3. QED  BY <1>1, <1>4, <2>2 DEF AlertIInv, FiredBehind
<1>15. QED
  BY <1>4, <1>8, <1>9, <1>11, <1>12, <1>13, <1>14 DEF AlertIInv

(* No rule is left: the message is passed, and what it calls for was       *)
(* tried, and counted unless that failed.                                  *)
LEMMA MatchDoneInv ==
  ASSUME AlertIInv, NEW w \in Workers, MatchDone(w)
  PROVE  AlertIInv'
<1>1. /\ LoopIInv' /\ Keeps(Workers \ {w}, current[w])
      /\ UNCHANGED <<topic, current>>
  BY ProcessedKeeps DEF MatchDone, Processed, idleVars, retryVars, AlertIInv
<1>2. /\ pc[w] = "process" /\ pc'[w] = "work"
      /\ parsed[w] /\ toFire[w] = {} /\ ~produced[w]
      /\ parsed' = [parsed EXCEPT ![w] = FALSE]
      /\ UNCHANGED <<toFire, produced, firedVars>>
  BY DEF MatchDone, Processed, AlertIInv, MatchInOrder, LoopIInv, RetryTypeOK
<1>3. UNCHANGED <<alerts, unsent, uncounted, alertCount>>
  BY <1>2 DEF firedVars
<1>4. PICK m \in Msg : current[w] = {m} /\ m \in Produced
  BY <1>2 DEF AlertIInv, LoopIInv, OneAtATime, OnlyProduced, InHand
<1>5. Matches[EventOf(m)] \subseteq Rules
  BY <1>4, PassedProduced, RuleAssumption DEF AlertIInv
<1> DEFINE T == {r \in Matches[EventOf(m)] : <<m, r>> \notin uncounted}
<1>6. PassedDue' \subseteq PassedDue \cup {m} \X Matches[EventOf(m)]
  <2> SUFFICES ASSUME NEW a \in PassedDue', a \notin PassedDue
               PROVE  a \in {m} \X Matches[EventOf(m)]
    OBVIOUS
  <2>1. /\ a \in Msg \X Rules /\ a[1] \in Passed' \ (dlt' \cup dropped')
        /\ a[2] \in Matches[EventOf(a[1])]
    BY <1>1 DEF PassedDue, EventOf
  <2>2. a[1] = m
    BY <1>1, <1>4, <2>1 DEF PassedDue, Keeps
  <2>3. QED  BY <2>1, <2>2
<1>7. PassedTried'
  <2>1. \A r \in Matches[EventOf(m)] : <<m, r>> \in alerts \cup unsent
    BY <1>2, <1>4 DEF AlertIInv, RulesTried, Behind
  <2>2. QED
    BY <1>3, <1>6, <2>1 DEF AlertIInv, PassedTried
<1>8. DueCounted'
  <2>1. /\ IsFiniteSet(T) /\ IsFiniteSet({m}) /\ IsFiniteSet({w})
        /\ Cardinality({m}) = 1 /\ Cardinality({w}) = 1 /\ Cardinality(T) \in Nat
    BY <1>5, RuleAssumption, Smaller, FS_Singleton
  <2>2. /\ IsFiniteSet({m} \X T) /\ IsFiniteSet({w} \X T)
        /\ Cardinality({m} \X T) = Cardinality({m}) * Cardinality(T)
        /\ Cardinality({w} \X T) = Cardinality({w}) * Cardinality(T)
    BY <2>1, FS_Product
  <2>3. /\ Cardinality({m} \X T) = Cardinality(T)
        /\ Cardinality({w} \X T) = Cardinality(T)
    BY <2>1, <2>2
  <2>4. {w} \X T \subseteq CountedNow
    BY <1>2, <1>4, <1>5 DEF CountedNow
  <2>5. CountedNow' \subseteq CountedNow \ ({w} \X T)
    <3> SUFFICES ASSUME NEW c \in CountedNow'
                 PROVE  c \in CountedNow /\ c \notin {w} \X T
      OBVIOUS
    <3>1. /\ c \in Workers \X Rules /\ parsed'[c[1]] /\ c[2] \notin toFire[c[1]]
          /\ \E n \in current[c[1]] : c[2] \in Matches[EventOf(n)]
                                      /\ <<n, c[2]>> \notin uncounted
      BY <1>1, <1>2, <1>3 DEF CountedNow, EventOf
    <3>2. c[1] # w /\ parsed[c[1]]
      BY <1>2, <3>1 DEF AlertIInv, RulesTypeOK
    <3>3. QED  BY <3>1, <3>2 DEF CountedNow
  <2>6. PassedDue' \ uncounted' \subseteq (PassedDue \ uncounted) \cup ({m} \X T)
    BY <1>3, <1>6
  <2>7. /\ Cardinality(CountedNow') <= Cardinality(CountedNow) - Cardinality(T)
        /\ Cardinality(CountedNow') \in Nat /\ Cardinality(CountedNow) \in Nat
    <3>1. IsFiniteSet(CountedNow) /\ CountedNow \cap ({w} \X T) = {w} \X T
      BY <2>4, FiniteDue
    <3>2. Cardinality(CountedNow \ ({w} \X T))
            = Cardinality(CountedNow) - Cardinality(CountedNow \cap ({w} \X T))
          /\ IsFiniteSet(CountedNow \ ({w} \X T))
      BY <3>1, FS_Difference
    <3>3. Cardinality(CountedNow \ ({w} \X T))
            = Cardinality(CountedNow) - Cardinality(T)
      BY <2>3, <3>1, <3>2
    <3>4. /\ Cardinality(CountedNow') <= Cardinality(CountedNow \ ({w} \X T))
          /\ Cardinality(CountedNow') \in Nat
          /\ Cardinality(CountedNow \ ({w} \X T)) \in Nat
      BY <2>5, <3>2, Smaller
    <3>5. Cardinality(CountedNow) \in Nat
      BY <3>1, Smaller
    <3>6. QED  BY <3>3, <3>4, <3>5
  <2>8. /\ Cardinality(PassedDue' \ uncounted')
             <= Cardinality(PassedDue \ uncounted) + Cardinality(T)
        /\ Cardinality(PassedDue' \ uncounted') \in Nat
        /\ Cardinality(PassedDue \ uncounted) \in Nat
    <3> DEFINE D == PassedDue \ uncounted
    <3>1. IsFiniteSet(D) /\ Cardinality(D) \in Nat
      BY FiniteDue, Smaller
    <3>2. /\ IsFiniteSet(D \cup ({m} \X T)) /\ IsFiniteSet(D \cap ({m} \X T))
          /\ Cardinality(D \cup ({m} \X T))
               = Cardinality(D) + Cardinality({m} \X T)
                   - Cardinality(D \cap ({m} \X T))
      BY <2>2, <3>1, FS_Union, FS_Intersection
    <3>3. Cardinality(D \cap ({m} \X T)) \in Nat
      BY <3>2, Smaller
    <3>4. /\ Cardinality(PassedDue' \ uncounted') <= Cardinality(D \cup ({m} \X T))
          /\ Cardinality(PassedDue' \ uncounted') \in Nat
          /\ Cardinality(D \cup ({m} \X T)) \in Nat
      BY <2>6, <3>2, Smaller
    <3>5. QED  BY <2>1, <2>3, <3>1, <3>2, <3>3, <3>4
  <2>9. /\ alertCount' = alertCount /\ alertCount \in Nat
        /\ \/ alertCount = MaxCount
           \/ Cardinality(PassedDue \ uncounted) + Cardinality(CountedNow)
                 <= alertCount
    BY <1>3, RuleAssumption DEF AlertIInv, RulesTypeOK, DueCounted
  <2>10. QED  BY <2>1, <2>7, <2>8, <2>9 DEF DueCounted
<1>9. /\ toFire' \in [Workers -> SUBSET Rules]
      /\ parsed' \in [Workers -> BOOLEAN] /\ produced' \in [Workers -> BOOLEAN]
      /\ ~parsed'[w] /\ \A v \in Workers \ {w} : parsed'[v] = parsed[v]
  BY <1>2 DEF AlertIInv, RulesTypeOK
<1>10. QED
  BY <1>1, <1>2, <1>7, <1>8, <1>9, FiresNothing

(* Every step keeps the invariant.                                         *)
LEMMA NextAlert == AlertIInv /\ [AlertNext]_alertVars => AlertIInv'
<1> SUFFICES ASSUME AlertIInv, [AlertNext]_alertVars PROVE AlertIInv'
  OBVIOUS
<1>0. /\ toFire \in [Workers -> SUBSET Rules] /\ LoopIInv
      /\ parsed \in [Workers -> BOOLEAN] /\ produced \in [Workers -> BOOLEAN]
  BY DEF AlertIInv, RulesTypeOK
<1>1. CASE LoopNext /\ UNCHANGED <<ruleVars, firedVars>>
  <2>1. LoopIInv' /\ Keeps(Workers, {})
    BY <1>0, <1>1, LoopNextKeeps
  <2>2. UNCHANGED <<toFire, parsed, produced, firedVars>>
    BY <1>1 DEF ruleVars
  <2>3. QED  BY <1>0, <2>1, <2>2, FiresNothing
<1>2. ASSUME NEW w \in Workers, CrashFiring(w) PROVE AlertIInv'
  <2>1. LoopIInv' /\ Keeps(Workers \ {w}, {}) /\ pc'[w] = "down"
    BY <1>0, <1>2, DieKeeps DEF CrashFiring
  <2>2. /\ toFire' = [toFire EXCEPT ![w] = {}] /\ UNCHANGED firedVars
        /\ parsed' = [parsed EXCEPT ![w] = FALSE]
        /\ produced' = [produced EXCEPT ![w] = FALSE]
    BY <1>2 DEF CrashFiring, Forget
  <2>3. /\ toFire' \in [Workers -> SUBSET Rules]
        /\ parsed' \in [Workers -> BOOLEAN] /\ produced' \in [Workers -> BOOLEAN]
        /\ toFire'[w] = {} /\ ~parsed'[w] /\ ~produced'[w]
        /\ \A v \in Workers \ {w} : /\ toFire'[v] = toFire[v]
                                   /\ parsed'[v] = parsed[v]
                                   /\ produced'[v] = produced[v]
    BY <1>0, <2>2
  <2>4. QED  BY <2>1, <2>2, <2>3, FiresNothing
<1>3. ASSUME NEW w \in Workers, CannotMatch(w) PROVE AlertIInv'
  <2>1. /\ LoopIInv' /\ Keeps(Workers \ {w}, {})
        /\ UNCHANGED <<toFire, parsed, produced, firedVars>>
    BY <1>0, <1>3, ProcessRaisedKeeps DEF CannotMatch, ruleVars
  <2>2. ~parsed[w] /\ toFire[w] = {} /\ ~produced[w]
    BY <1>3 DEF CannotMatch, AlertIInv, MatchInOrder
  <2>3. QED  BY <1>0, <2>1, <2>2, FiresNothing
<1>4. ASSUME NEW w \in Workers, Match(w) PROVE AlertIInv'
  BY <1>4, MatchInv
<1>5. ASSUME NEW w \in Workers, ProduceAlert(w) PROVE AlertIInv'
  BY <1>5, ProduceAlertInv
<1>6. ASSUME NEW w \in Workers, CountAlert(w) \/ CountFails(w) PROVE AlertIInv'
  BY <1>6, RuleDoneInv
<1>7. ASSUME NEW w \in Workers, MatchDone(w) PROVE AlertIInv'
  BY <1>7, MatchDoneInv
<1>8. CASE UNCHANGED alertVars
  <2>1. /\ LoopIInv' /\ Keeps(Workers, {})
        /\ UNCHANGED <<toFire, parsed, produced, firedVars>>
    BY <1>0, <1>8, InsideKeeps DEF alertVars, ruleVars
  <2>2. QED  BY <1>0, <2>1, FiresNothing
<1>9. QED
  BY <1>1, <1>2, <1>3, <1>4, <1>5, <1>6, <1>7, <1>8 DEF AlertNext

-----------------------------------------------------------------------------
(* AlertConsumer: what follows from the invariant                          *)

(* Every reachable state satisfies the invariant.                          *)
THEOREM AlertInvariant == AlertSpec => []AlertIInv
<1>1. AlertInit => AlertIInv
  BY InitAlert
<1>2. AlertIInv /\ [AlertNext]_alertVars => AlertIInv'
  BY NextAlert
<1>3. QED  BY <1>1, <1>2, PTL DEF AlertSpec

(* The state keeps its shape.                                              *)
THEOREM AlertTypeCorrect == AlertSpec => []AlertTypeOK
<1>1. AlertIInv => AlertTypeOK
  BY DEF AlertIInv, LoopIInv, RulesTypeOK, AlertTypeOK
<1>2. QED  BY <1>1, AlertInvariant, PTL

(* A commit passes no event one of whose rules was not tried.              *)
THEOREM EveryAlertTried == AlertSpec => []AlertDelivered
<1>1. AlertIInv => AlertDelivered
  <2>1. Due \subseteq PassedDue
    BY DEF Due, PassedDue, Committed, Passed
  <2>2. QED  BY <2>1 DEF AlertIInv, PassedTried, AlertDelivered
<1>2. QED  BY <1>1, AlertInvariant, PTL

(* The counter covers every alert due, as long as its bound can.           *)
THEOREM AlertsKeptCount ==
  ASSUME Cardinality(Msg \X Rules) <= MaxCount
  PROVE  AlertSpec => []AlertsCounted
<1>1. AlertIInv => AlertsCounted
  <2> SUFFICES ASSUME AlertIInv
               PROVE  alertCount >= Cardinality(Due \ uncounted)
    BY DEF AlertsCounted
  <2>1. /\ Due \ uncounted \subseteq PassedDue \ uncounted
        /\ Due \ uncounted \subseteq Msg \X Rules
    BY DEF Due, PassedDue, Committed, Passed
  <2>2. /\ Cardinality(Due \ uncounted) \in Nat
        /\ Cardinality(PassedDue \ uncounted) \in Nat
        /\ Cardinality(Due \ uncounted) <= Cardinality(PassedDue \ uncounted)
    BY <2>1, FiniteDue, Smaller
  <2>3. /\ Cardinality(Due \ uncounted) <= Cardinality(Msg \X Rules)
        /\ Cardinality(Msg \X Rules) \in Nat
    BY <2>1, FiniteDue, Smaller
  <2>4. Cardinality(CountedNow) \in Nat
    BY FiniteDue, Smaller
  <2>5. /\ alertCount \in Nat /\ MaxCount \in Nat
        /\ \/ alertCount = MaxCount
           \/ Cardinality(PassedDue \ uncounted) + Cardinality(CountedNow)
                 <= alertCount
    BY RuleAssumption DEF AlertIInv, RulesTypeOK, DueCounted
  <2>6. QED  BY <2>2, <2>3, <2>4, <2>5
<1>2. QED  BY <1>1, AlertInvariant, PTL

(* As long as nothing goes wrong, no alert is sent twice.                  *)
THEOREM AlertsFiredOnce == AlertSpec => []FiredOnce
<1>1. AlertIInv => FiredOnce
  BY DEF AlertIInv, FiredBehind, FiredOnce
<1>2. QED  BY <1>1, AlertInvariant, PTL

-----------------------------------------------------------------------------
(* AlertConsumer: the refinement                                           *)

(* What the group passes without routing it, process() could read; what    *)
(* was routed had been produced.                                           *)
ReadOrRouted ==
  /\ dlt \cup dropped \subseteq Produced
  /\ \A m \in Passed \ (dlt \cup dropped) : Matchable(m)

(* What is routed was in the hand of a process.                            *)
LEMMA RoutedWasHeld ==
  ASSUME LoopIInv, [AlertNext]_alertVars
  PROVE  dlt' \cup dropped' \subseteq dlt \cup dropped \cup Produced
<1>1. CASE UNCHANGED <<dlt, dropped>>
  BY <1>1
<1>2. ASSUME NEW w \in Workers, GiveUp(w)
      PROVE  dlt' \cup dropped' \subseteq dlt \cup dropped \cup Produced
  <2>1. PICK m \in current[w] : SendToDeadLetter(m)
    BY <1>2 DEF GiveUp
  <2>2. m \in Produced
    BY <1>2 DEF GiveUp, LoopIInv, OnlyProduced, InHand
  <2>3. QED  BY <2>1, <2>2 DEF SendToDeadLetter
<1>3. QED
  BY <1>1, <1>2
     DEF AlertNext, LoopNext, Publish, Produce, GroupChange, Assign, Reassign,
         Rebalance, LoopStep, Lifecycle, Start, Started, Signal, StopLoop,
         Poll, NextMessage, BatchDone, CommitBatch, Commit, CrashFiring, Die,
         Crash, CannotMatch, ProcessRaised, Match, ProduceAlert, CountAlert,
         CountFails, RuleDone, MatchDone, Processed, groupVars, alertVars

(* A step that passes readable messages only keeps it so.                  *)
LEMMA KeepsRead ==
  ASSUME LoopIInv, ReadOrRouted, [AlertNext]_alertVars, NEW V, NEW G,
         Keeps(V, G), \A m \in G : m \in Produced /\ Matchable(m)
  PROVE  ReadOrRouted'
<1>1. dlt' \cup dropped' \subseteq Produced'
  BY RoutedWasHeld DEF ReadOrRouted, Keeps
<1>2. ASSUME NEW m \in Passed' \ (dlt' \cup dropped')
      PROVE  Matchable(m)'
  <2>1. m \in Produced /\ Matchable(m)
    BY PassedProduced DEF Keeps, ReadOrRouted
  <2>2. EventOf(m)' = EventOf(m)
    BY <2>1 DEF Keeps
  <2>3. QED  BY <2>1, <2>2 DEF Matchable, KindOf
<1>3. QED  BY <1>1, <1>2 DEF ReadOrRouted

(* A step of the consumer keeps the loop's promises, and the messages that *)
(* it passes were read.                                                    *)
LEMMA AlertKeeps ==
  ASSUME AlertIInv, [AlertNext]_alertVars
  PROVE  \E V, G : Keeps(V, G) /\ \A m \in G : m \in Produced /\ Matchable(m)
<1>1. LoopIInv
  BY DEF AlertIInv
<1>2. ASSUME NEW w \in Workers, CrashFiring(w) \/ CannotMatch(w)
      PROVE  Keeps(Workers \ {w}, {})
  BY <1>1, <1>2, DieKeeps, ProcessRaisedKeeps DEF CrashFiring, CannotMatch
<1>3. ASSUME NEW w \in Workers, MatchDone(w)
      PROVE  /\ Keeps(Workers \ {w}, current[w])
             /\ \A m \in current[w] : m \in Produced /\ Matchable(m)
  <2>1. Keeps(Workers \ {w}, current[w])
    BY <1>1, <1>3, ProcessedKeeps DEF MatchDone
  <2>2. pc[w] = "process" /\ parsed[w]
    BY <1>3 DEF MatchDone, Processed
  <2>3. QED
    BY <2>1, <2>2
       DEF AlertIInv, MatchInOrder, LoopIInv, OnlyProduced, InHand
<1>4. CASE LoopNext
  <2>1. Keeps(Workers, {})
    BY <1>1, <1>4, LoopNextKeeps
  <2>2. QED  BY <2>1
<1>5. CASE \E w \in Workers : CrashFiring(w) \/ CannotMatch(w)
  <2>1. PICK w \in Workers : CrashFiring(w) \/ CannotMatch(w)
    BY <1>5
  <2>2. Keeps(Workers \ {w}, {})
    BY <1>2, <2>1
  <2>3. QED  BY <2>2
<1>6. CASE UNCHANGED <<groupVars, retryVars>>
  <2>1. Keeps(Workers, {})
    BY <1>1, <1>6, InsideKeeps
  <2>2. QED  BY <2>1
<1>7. CASE \E w \in Workers : MatchDone(w)
  <2>1. PICK w \in Workers : MatchDone(w)
    BY <1>7
  <2>2. /\ Keeps(Workers \ {w}, current[w])
        /\ \A m \in current[w] : m \in Produced /\ Matchable(m)
    BY <1>3, <2>1
  <2>3. QED  BY <2>2
<1>8. QED
  BY <1>4, <1>5, <1>6, <1>7
     DEF AlertNext, Match, ProduceAlert, CountAlert, CountFails, RuleDone,
         alertVars

(* What was tried stays tried.                                             *)
LEMMA SettledGrows ==
  ASSUME AlertIInv, [AlertNext]_alertVars
  PROVE  Settled \subseteq Settled' /\ Produced \subseteq Produced'
<1>1. PICK V, G : Keeps(V, G)
  BY AlertKeeps
<1>2. alerts \subseteq alerts' /\ unsent \subseteq unsent'
  BY DEF AlertNext, CrashFiring, CannotMatch, Match, ProduceAlert, CountAlert,
         CountFails, RuleDone, MatchDone, firedVars, alertVars
<1>3. Tried \subseteq Tried'
  <2> SUFFICES ASSUME NEW m \in Tried PROVE m \in Tried'
    OBVIOUS
  <2>1. m \in Produced /\ m \in Produced' /\ EventOf(m)' = EventOf(m)
    BY <1>1 DEF Tried, Keeps
  <2>2. QED  BY <1>2, <2>1 DEF Tried, Matchable, KindOf
<1>4. QED  BY <1>1, <1>3 DEF Settled, Keeps

(* A new message changes nothing else, but it may ask for no alert.        *)
LEMMA PublishAppends ==
  ASSUME AlertIInv, NEW p \in Partitions, NEW e \in Events, Publish(p, e),
         UNCHANGED firedVars
  PROVE  \E m \in DL!Message \ Produced : DL!Append(m)
<1> DEFINE m == <<p, Len(topic[p])>>
<1>0. LoopIInv
  BY DEF AlertIInv
<1>1. /\ topic[p] \in Seq(Events) /\ Len(topic[p]) \in Nat
      /\ Len(topic[p]) < MaxLen /\ topic \in [Partitions -> Seq(Events)]
      /\ UNCHANGED <<committed, dlt, dropped, alerts, unsent>>
  BY <1>0, OffsetsOf
     DEF Publish, Produce, LoopIInv, RetryTypeOK, GroupTypeOK, firedVars
<1>2. m \in Msg /\ m \in DL!Message /\ m \notin Produced
  BY <1>1, GroupAssumption DEF Msg, Offsets, DL!Message, Produced
<1>3. /\ Len(topic'[p]) = Len(topic[p]) + 1
      /\ \A q \in Partitions \ {p} : topic'[q] = topic[q]
  BY <1>1 DEF Publish, Produce
<1>4. Produced' = Produced \cup {m}
  <2>1. ASSUME NEW n \in Msg
        PROVE  n[2] < Len(topic'[n[1]]) <=> n[2] < Len(topic[n[1]]) \/ n = m
    <3>1. CASE n[1] = p
      <4>1. n[2] \in Nat /\ n = <<n[1], n[2]>>
        BY MsgOf DEF Msg
      <4>2. QED  BY <1>1, <1>3, <3>1, <4>1
    <3>2. CASE n[1] # p
      BY <1>3, <3>2, MsgOf
    <3>3. QED  BY <3>1, <3>2
  <2>2. QED  BY <1>2, <2>1 DEF Produced
<1>5. \A n \in Produced : EventOf(n)' = EventOf(n)
  BY <1>0, PublishKeeps DEF Keeps
<1>6. Tried' \in {Tried, Tried \cup {m}}
  <2>1. \A n \in Produced : n \in Tried' <=> n \in Tried
    BY <1>1, <1>4, <1>5 DEF Tried, Matchable, KindOf
  <2>2. Tried \subseteq Produced /\ Tried' \subseteq Produced \cup {m}
    BY <1>4 DEF Tried
  <2>3. QED  BY <2>1, <2>2
<1>7. Settled' \in {Settled, Settled \cup {m}}
  BY <1>1, <1>6 DEF Settled
<1>8. QED  BY <1>1, <1>2, <1>4, <1>7 DEF DL!Append

(***************************************************************************)
(* BaseConsumer's loop around the alerts implements the abstract durable   *)
(* log: each step is an append, settles produced messages, commits past    *)
(* settled ones and never backwards, or is not visible.                    *)
(***************************************************************************)
THEOREM AlertRefinement == AlertSpec => ImplementsDurableLog
<1>1. AlertInit => ReadOrRouted /\ DL!Init
  <2> SUFFICES ASSUME AlertInit PROVE ReadOrRouted /\ DL!Init
    OBVIOUS
  <2>1. Passed = {} /\ dlt = {} /\ dropped = {}
        /\ committed = [p \in Partitions |-> 0]
        /\ topic = [p \in Partitions |-> << >>]
    BY InitLoop DEF AlertInit, RetryInit, GroupInit
  <2>2. Produced = {}
    BY <2>1, MsgOf DEF Produced
  <2>3. QED
    BY <2>1, <2>2 DEF ReadOrRouted, DL!Init, Settled, Tried
<1>2. AlertIInv /\ ReadOrRouted /\ [AlertNext]_alertVars => ReadOrRouted'
  <2> SUFFICES ASSUME AlertIInv, ReadOrRouted, [AlertNext]_alertVars
               PROVE  ReadOrRouted'
    OBVIOUS
  <2>1. PICK V, G : Keeps(V, G) /\ \A m \in G : m \in Produced /\ Matchable(m)
    BY AlertKeeps
  <2>2. QED  BY <2>1, KeepsRead DEF AlertIInv
<1>3. AlertIInv /\ ReadOrRouted => Committed \subseteq Settled
                                   /\ Settled \subseteq Produced
  <2> SUFFICES ASSUME AlertIInv, ReadOrRouted
               PROVE  Committed \subseteq Settled /\ Settled \subseteq Produced
    OBVIOUS
  <2>1. Committed \subseteq Passed /\ Passed \subseteq Produced
    BY PassedProduced DEF Committed, Passed, AlertIInv
  <2>2. ASSUME NEW m \in Passed \ (dlt \cup dropped)
        PROVE  m \in Tried
    <3>1. m \in Produced /\ Matchable(m) /\ m \in Msg
      BY <2>1 DEF ReadOrRouted, Produced
    <3>2. Matches[EventOf(m)] \subseteq Rules
      BY <3>1, PassedProduced, RuleAssumption DEF AlertIInv
    <3>3. \A r \in Matches[EventOf(m)] : <<m, r>> \in PassedDue
      BY <3>1, <3>2 DEF PassedDue
    <3>4. QED  BY <3>1, <3>3 DEF AlertIInv, PassedTried, Tried
  <2>3. QED
    BY <2>1, <2>2 DEF Settled, Tried, ReadOrRouted
<1>4. (AlertIInv /\ ReadOrRouted)' => (/\ Committed \subseteq Settled
                                       /\ Settled \subseteq Produced)'
  BY <1>3, PTL
<1>5. /\ AlertIInv /\ AlertIInv' /\ ReadOrRouted /\ ReadOrRouted'
      /\ [AlertNext]_alertVars
      => [DL!Next]_(DL!vars)
  <2> SUFFICES ASSUME AlertIInv, AlertIInv', ReadOrRouted, ReadOrRouted',
                      [AlertNext]_alertVars
               PROVE  [DL!Next]_(DL!vars)
    OBVIOUS
  <2>1. Msg = DL!Message
    BY DEF Msg, Offsets, DL!Message
  <2>2. /\ Settled \subseteq Settled'
        /\ Committed' \subseteq Settled' /\ Settled' \subseteq Produced'
    BY <1>4, SettledGrows
  <2>3. ASSUME NEW p \in Partitions, NEW e \in Events, Publish(p, e),
               UNCHANGED firedVars
        PROVE  DL!Next
    BY <2>3, PublishAppends DEF DL!Next
  <2>4. ASSUME NEW w \in Workers, CommitBatch(w), UNCHANGED firedVars
        PROVE  DL!Next
    <3>1. Produced' = Produced /\ Settled' = Settled
      BY <2>4
         DEF CommitBatch, Commit, Produced, Settled, Tried, Matchable, KindOf,
             EventOf, firedVars
    <3>2. committed' \in [Partitions -> 0 .. MaxLen]
      BY DEF AlertIInv, LoopIInv, RetryTypeOK, GroupTypeOK
    <3>3. \A p \in Partitions : committed[p] <= committed'[p]
      BY <2>4, OffsetsOf DEF CommitBatch, Commit, CommitOffsets, AlertIInv
    <3>4. DL!Below(committed') \subseteq Settled
      BY <2>1, <2>2, <3>1 DEF Committed, DL!Below
    <3>5. QED  BY <3>1, <3>2, <3>3, <3>4 DEF DL!Commit, DL!Next
  <2>5. CASE UNCHANGED <<topic, committed>>
    <3>1. Produced' = Produced
      BY <2>5 DEF Produced
    <3>2. QED  BY <2>2, <2>5, <3>1 DEF DL!Settle, DL!Next
  <2>6. QED
    BY <2>3, <2>4, <2>5
       DEF AlertNext, LoopNext, GroupChange, Assign, Reassign, Rebalance,
           LoopStep, Lifecycle, Start, Started, Signal, StopLoop, Poll,
           AutoCommit, NextMessage, GiveUp, BatchDone, CrashFiring, Die, Crash,
           CannotMatch, ProcessRaised, Match, ProduceAlert, CountAlert,
           CountFails, RuleDone, MatchDone, Processed, groupVars, idleVars,
           alertVars
<1>6. QED
  BY <1>1, <1>2, <1>5, AlertInvariant, PTL
     DEF AlertSpec, ImplementsDurableLog, DL!Spec

-----------------------------------------------------------------------------
(* The way through a batch                                                 *)

Held(w) == <<pc[w], batch[w], current[w], attempt[w]>>

(* The loop moves on, or lets the batch alone.                             *)
LEMMA LoopNearer ==
  ASSUME RetryTypeOK, LoopNext, NEW w \in Workers, InBatch(w)
  PROVE  UNCHANGED Held(w) \/ Nearer(w)
<1>1. /\ pc \in [Workers -> RetryPlaces] /\ batch \in [Workers -> SUBSET Msg]
      /\ current \in [Workers -> SUBSET Msg]
      /\ attempt \in [Workers -> 0 .. MaxRetries]
  BY DEF RetryTypeOK, GroupTypeOK
<1>2. ASSUME NEW p \in Partitions, NEW e \in Events, Publish(p, e)
      PROVE  UNCHANGED Held(w)
  BY <1>2 DEF Publish, Produce, Held, retryVars
<1>3. CASE GroupChange
  BY <1>3 DEF GroupChange, Assign, Reassign, Rebalance, Held
<1>4. ASSUME NEW v \in Workers, Lifecycle(v) \/ CommitBatch(v)
      PROVE  UNCHANGED Held(w)
  <2>1. v # w \/ Signal(v)
    BY <1>4
       DEF InBatch, Lifecycle, Start, Started, StopLoop, Poll, CommitBatch,
           Commit
  <2>2. QED
    BY <1>1, <1>4, <2>1
       DEF Held, Lifecycle, Start, Started, Signal, StopLoop, Poll,
           CommitBatch, Commit, retryVars
<1>5. ASSUME NEW v \in Workers, NextMessage(v)
      PROVE  UNCHANGED Held(w) \/ Nearer(w)
  <2>1. CASE v = w
    <3>1. PICK m \in batch[w] : batch' = [batch EXCEPT ![w] = @ \ {m}]
      BY <1>5, <2>1 DEF NextMessage, Candidates, SamePartition
    <3>2. batch'[w] = batch[w] \ {m}
      BY <1>1, <3>1
    <3>3. QED  BY <3>2 DEF Nearer
  <2>2. CASE v # w
    BY <1>1, <1>5, <2>2 DEF NextMessage, Held
  <2>3. QED  BY <2>1, <2>2
<1>6. ASSUME NEW v \in Workers, GiveUp(v) \/ BatchDone(v)
      PROVE  UNCHANGED Held(w) \/ Nearer(w)
  <2>1. CASE v = w
    BY <1>1, <1>6, <2>1 DEF GiveUp, BatchDone, Nearer, Ahead
  <2>2. CASE v # w
    BY <1>1, <1>6, <2>2 DEF GiveUp, BatchDone, Held, retryVars
  <2>3. QED  BY <2>1, <2>2
<1>7. QED
  BY <1>2, <1>3, <1>4, <1>5, <1>6 DEF LoopNext, LoopStep

(* process() ends: its message is behind, or has a call less.              *)
LEMMA ProcessEndsNearer ==
  ASSUME RetryTypeOK, NEW v \in Workers, NEW clean,
         Processed(v) \/ ProcessRaised(v, clean), NEW w \in Workers
  PROVE  IF v = w THEN Nearer(w) ELSE UNCHANGED Held(w)
<1>1. /\ pc \in [Workers -> RetryPlaces] /\ batch \in [Workers -> SUBSET Msg]
      /\ current \in [Workers -> SUBSET Msg]
      /\ attempt \in [Workers -> 0 .. MaxRetries] /\ MaxRetries \in Nat
  BY RetryAssumption DEF RetryTypeOK, GroupTypeOK
<1>2. CASE v # w
  BY <1>1, <1>2 DEF Processed, ProcessRaised, Held, retryVars
<1>3. CASE v = w /\ Processed(v)
  BY <1>1, <1>3 DEF Processed, Nearer, Ahead
<1>4. CASE v = w /\ ProcessRaised(v, clean) /\ NoMoreAttempts(v)
  BY <1>1, <1>4 DEF ProcessRaised, Nearer, Ahead
<1>5. CASE v = w /\ ProcessRaised(v, clean) /\ ~NoMoreAttempts(v)
  <2>1. /\ batch'[w] = batch[w] /\ pc'[w] = pc[w]
        /\ attempt'[w] = attempt[w] + 1 /\ attempt[w] # MaxRetries
        /\ attempt[w] \in 0 .. MaxRetries
    BY <1>1, <1>5 DEF ProcessRaised, NoMoreAttempts
  <2>2. attempt'[w] \in (attempt[w] + 1) .. MaxRetries
    BY <1>1, <2>1
  <2>3. QED  BY <1>5, <2>1, <2>2 DEF Nearer
<1>6. QED  BY <1>2, <1>3, <1>4, <1>5

(* A process dies; the others do not notice.                               *)
LEMMA DieAlone ==
  ASSUME RetryTypeOK, NEW v \in Workers, Die(v), NEW w \in Workers
  PROVE  IF v = w THEN pc'[w] = "down" ELSE UNCHANGED Held(w)
  BY DEF RetryTypeOK, GroupTypeOK, Die, Crash, Held

(***************************************************************************)
(* Whatever breaks or raises, a process in a batch comes nearer to its     *)
(* commit with every step it takes, or dies (_consume_loop,                *)
(* _run_with_retry, MetricsConsumer.process).                              *)
(***************************************************************************)
THEOREM MetricsBatchesEnd == MetricsSpec => MetricsBatchEnds
<1> DEFINE Way(w) == \/ UNCHANGED MetricsHands(w)
                     \/ pc'[w] = "down"
                     \/ Nearer(w)
                     \/ /\ UNCHANGED <<pc[w], batch[w], current[w], attempt[w]>>
                        /\ sent'[w] \in (sent[w] + 1) .. 4
<1>1. ASSUME MetricsIInv, [MetricsNext]_metricsVars, NEW w \in Workers, InBatch(w)
      PROVE  Way(w)
  <2>0. RetryTypeOK /\ sent \in [Workers -> 0 .. 4]
    BY <1>1 DEF MetricsIInv, LoopIInv, CountersTypeOK
  <2>1. CASE LoopNext /\ UNCHANGED sent
    <3>1. UNCHANGED Held(w) \/ Nearer(w)
      BY <1>1, <2>0, <2>1, LoopNearer
    <3>2. QED  BY <2>1, <3>1 DEF Held, MetricsHands
  <2>2. ASSUME NEW v \in Workers, CrashCounting(v)
        PROVE  Way(w)
    <3>1. IF v = w THEN pc'[w] = "down" ELSE UNCHANGED Held(w)
      BY <2>0, <2>2, DieAlone DEF CrashCounting
    <3>2. v # w => sent'[w] = sent[w]
      BY <2>0, <2>2 DEF CrashCounting
    <3>3. QED  BY <3>1, <3>2 DEF Held, MetricsHands
  <2>3. ASSUME NEW v \in Workers,
               CannotCount(v) \/ PipelineOk(v) \/ PipelineFails(v)
        PROVE  Way(w)
    <3>1. IF v = w THEN Nearer(w) ELSE UNCHANGED Held(w)
      BY <2>0, <2>3, ProcessEndsNearer
         DEF CannotCount, PipelineOk, PipelineFails
    <3>2. v # w => sent'[w] = sent[w]
      BY <2>0, <2>3 DEF CannotCount, PipelineOk, PipelineFails
    <3>3. QED  BY <3>1, <3>2 DEF Held, MetricsHands
  <2>4. ASSUME NEW v \in Workers, ExecuteCommand(v)
        PROVE  Way(w)
    <3>1. UNCHANGED Held(w)
      BY <2>4 DEF ExecuteCommand, Held, groupVars, retryVars
    <3>2. /\ sent[v] < 4 /\ sent[v] \in 0 .. 4
          /\ sent'[w] = IF v = w THEN sent[w] + 1 ELSE sent[w]
      BY <2>0, <2>4 DEF ExecuteCommand
    <3>3. v = w => sent'[w] \in (sent[w] + 1) .. 4
      BY <3>2
    <3>4. QED  BY <3>1, <3>2, <3>3 DEF Held, MetricsHands
  <2>5. CASE UNCHANGED metricsVars
    BY <2>5 DEF metricsVars, MetricsHands, groupVars, retryVars
  <2>6. QED
    BY <1>1, <2>1, <2>2, <2>3, <2>4, <2>5 DEF MetricsNext
<1>2. MetricsIInv /\ [MetricsNext]_metricsVars
        => \A w \in Workers : InBatch(w) => Way(w)
  BY <1>1
<1>3. QED
  BY <1>2, MetricsInvariant, PTL DEF MetricsSpec, MetricsBatchEnds

(***************************************************************************)
(* The same with the rules of a message: each is tried once on the way     *)
(* (_consume_loop, AlertConsumer.process, _fire_alert).                    *)
(***************************************************************************)
THEOREM AlertBatchesEnd == AlertSpec => AlertBatchEnds
<1> DEFINE OneRule(w) ==
             \/ ~parsed[w] /\ parsed'[w]
             \/ /\ UNCHANGED parsed[w]
                /\ \/ toFire'[w] \in (SUBSET toFire[w]) \ {toFire[w]}
                   \/ /\ UNCHANGED toFire[w]
                      /\ ~produced[w] /\ produced'[w]
           Way(w) == \/ UNCHANGED AlertHands(w)
                     \/ pc'[w] = "down"
                     \/ Nearer(w)
                     \/ /\ UNCHANGED <<pc[w], batch[w], current[w], attempt[w]>>
                        /\ OneRule(w)
<1>1. ASSUME AlertIInv, [AlertNext]_alertVars, NEW w \in Workers, InBatch(w)
      PROVE  Way(w)
  <2>0. /\ RetryTypeOK /\ toFire \in [Workers -> SUBSET Rules]
        /\ parsed \in [Workers -> BOOLEAN] /\ produced \in [Workers -> BOOLEAN]
    BY <1>1 DEF AlertIInv, LoopIInv, RulesTypeOK
  <2>1. CASE LoopNext /\ UNCHANGED ruleVars
    <3>1. UNCHANGED Held(w) \/ Nearer(w)
      BY <1>1, <2>0, <2>1, LoopNearer
    <3>2. QED  BY <2>1, <3>1 DEF Held, AlertHands, ruleVars
  <2>2. ASSUME NEW v \in Workers, CrashFiring(v)
        PROVE  Way(w)
    <3>1. IF v = w THEN pc'[w] = "down" ELSE UNCHANGED Held(w)
      BY <2>0, <2>2, DieAlone DEF CrashFiring
    <3>2. v # w => UNCHANGED <<toFire[w], parsed[w], produced[w]>>
      BY <2>0, <2>2 DEF CrashFiring, Forget
    <3>3. QED  BY <3>1, <3>2 DEF Held, AlertHands
  <2>3. ASSUME NEW v \in Workers, CannotMatch(v) \/ MatchDone(v)
        PROVE  Way(w)
    <3>1. IF v = w THEN Nearer(w) ELSE UNCHANGED Held(w)
      BY <2>0, <2>3, ProcessEndsNearer DEF CannotMatch, MatchDone
    <3>2. v # w => UNCHANGED <<toFire[w], parsed[w], produced[w]>>
      BY <2>0, <2>3 DEF CannotMatch, MatchDone, ruleVars
    <3>3. QED  BY <3>1, <3>2 DEF Held, AlertHands
  <2>4. ASSUME NEW v \in Workers,
               Match(v) \/ ProduceAlert(v) \/ CountAlert(v) \/ CountFails(v)
        PROVE  Way(w)
    <3>1. UNCHANGED Held(w)
      BY <2>4
         DEF Match, ProduceAlert, CountAlert, CountFails, RuleDone, Held,
             groupVars, retryVars
    <3>2. v # w => UNCHANGED <<toFire[w], parsed[w], produced[w]>>
      BY <2>0, <2>4
         DEF Match, ProduceAlert, CountAlert, CountFails, RuleDone
    <3>3. v = w => OneRule(w)
      <4>1. CASE v = w /\ Match(v)
        BY <2>0, <4>1 DEF Match
      <4>2. CASE v = w /\ ProduceAlert(v)
        BY <2>0, <4>2 DEF ProduceAlert
      <4>3. CASE v = w /\ RuleDone(v)
        <5>1. PICK r \in toFire[w] : toFire' = [toFire EXCEPT ![w] = @ \ {r}]
          BY <4>3 DEF RuleDone
        <5>2. toFire'[w] = toFire[w] \ {r} /\ parsed' = parsed
          BY <2>0, <4>3, <5>1 DEF RuleDone
        <5>3. QED  BY <5>2
      <4>4. QED  BY <2>4, <4>1, <4>2, <4>3 DEF CountAlert, CountFails
    <3> HIDE DEF OneRule
    <3>4. QED  BY <3>1, <3>2, <3>3 DEF Held, AlertHands
  <2>5. CASE UNCHANGED alertVars
    BY <2>5 DEF alertVars, AlertHands, groupVars, retryVars, ruleVars
  <2>6. QED
    BY <1>1, <2>1, <2>2, <2>3, <2>4, <2>5 DEF AlertNext
<1>2. AlertIInv /\ [AlertNext]_alertVars
        => \A w \in Workers : InBatch(w) => Way(w)
  BY <1>1
<1>3. QED
  BY <1>2, AlertInvariant, PTL DEF AlertSpec, AlertBatchEnds
==============================================================================
