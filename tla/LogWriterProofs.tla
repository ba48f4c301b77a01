--------------------------- MODULE LogWriterProofs ---------------------------
(***************************************************************************)
(* Proofs about LogWriter, for any number of partitions, processes and     *)
(* messages and any set of faults.                                         *)
(***************************************************************************)
EXTENDS LogWriter, TLAPS

LEMMA InitIInv == Init => IInv
PROOF
<1> SUFFICES ASSUME Init PROVE IInv
  OBVIOUS
<1> USE GroupAssumption, FallbackAssumption DEF Init, GroupInit
<1>1. TypeOK
  BY DEF TypeOK, GroupTypeOK, Places
<1>2. OffsetsOrdered
  BY DEF OffsetsOrdered
<1>3. OnlyProduced
  BY DEF OnlyProduced, InHand
<1>4. HandsEmpty
  BY DEF HandsEmpty
<1>5. NothingForgotten
  BY DEF NothingForgotten
<1>6. AccountedFor
  BY DEF AccountedFor, Committed, Msg, Offsets
<1> QED
  BY <1>1, <1>2, <1>3, <1>4, <1>5, <1>6 DEF IInv

-----------------------------------------------------------------------------
(* Facts about the operators the steps are built from                      *)

(* What the invariant says of the three offsets of a partition.            *)
LEMMA OffsetsOf ==
  ASSUME IInv, NEW p \in Partitions
  PROVE  /\ committed[p] \in Nat /\ position[p] \in Nat
         /\ topic[p] \in Seq(Events) /\ Len(topic[p]) \in Nat
         /\ committed[p] <= position[p]
         /\ position[p] <= Len(topic[p])
         /\ Len(topic[p]) <= MaxLen
BY GroupAssumption DEF IInv, TypeOK, GroupTypeOK, OffsetsOrdered

(* A message is a partition and an offset.                                 *)
LEMMA MsgOf ==
  ASSUME NEW m \in Msg
  PROVE  m[1] \in Partitions /\ m[2] \in Nat /\ m[2] < MaxLen
BY GroupAssumption DEF Msg, Offsets

(* A produced message names an event.                                      *)
LEMMA EventOfProduced ==
  ASSUME GroupTypeOK, NEW m \in Produced
  PROVE  EventOf(m) \in Events
PROOF
<1>1. PICK p \in Partitions, o \in Offsets : m = <<p, o>>
  BY DEF Produced, Msg
<1>2. topic[p] \in Seq(Events) /\ o \in Nat /\ o + 1 \in 1 .. Len(topic[p])
  BY <1>1, GroupAssumption DEF GroupTypeOK, Produced, Offsets
<1> QED
  BY <1>1, <1>2 DEF EventOf

(* INSERT ... ON CONFLICT DO NOTHING stores what it is given and keeps the *)
(* rows that were there.                                                   *)
LEMMA InsertRowsStores ==
  ASSUME TypeOK, NEW S \in SUBSET Produced,
         stored' = InsertRows(S), UNCHANGED topic
  PROVE  /\ stored' \subseteq Events
         /\ Stored \subseteq Stored'
         /\ S \subseteq Stored'
         /\ Produced' = Produced
PROOF
<1>1. \A m \in S : EventOf(m) \in Events
  BY EventOfProduced DEF TypeOK
<1>2. stored' \subseteq Events
  BY <1>1 DEF InsertRows, TypeOK
<1>3. Produced' = Produced
  BY DEF Produced
<1>4. \A m \in Produced : EventOf(m)' = EventOf(m)
  BY DEF EventOf
<1> QED
  BY <1>2, <1>3, <1>4 DEF InsertRows, Stored

(* A stored set that did not change stores what it stored.                 *)
LEMMA StoredSame ==
  ASSUME UNCHANGED <<topic, stored>>
  PROVE  Stored' = Stored /\ Produced' = Produced
BY DEF Stored, Produced, EventOf

-----------------------------------------------------------------------------
(* The steps between two polls leave topic and offsets alone.  Such a step *)
(* preserves the invariant when whatever leaves a hand is settled.         *)

LEMMA KeepsAccounts ==
  ASSUME IInv,
         UNCHANGED <<topic, owner, position, committed>>,
         Settled \subseteq Settled',
         \A w \in Workers : InHand(w) \subseteq InHand(w)' \cup Settled'
  PROVE  OffsetsOrdered' /\ NothingForgotten' /\ AccountedFor'
PROOF
<1>1. OffsetsOrdered'
  BY DEF IInv, OffsetsOrdered
<1>2. NothingForgotten'
  BY DEF IInv, NothingForgotten, InFlight
<1>3. AccountedFor'
  BY DEF IInv, AccountedFor, Committed
<1> QED
  BY <1>1, <1>2, <1>3

-----------------------------------------------------------------------------
(* Every step preserves the invariant                                      *)

(* A produced message stays produced, and keeps its event.                 *)
LEMMA PublishIInv ==
  ASSUME IInv, NEW p \in Partitions, NEW e \in Events, Publish(p, e)
  PROVE  IInv'
PROOF
<1> USE DEF Publish, Produce, writerVars
<1>1. /\ topic' \in [Partitions -> Seq(Events)]
      /\ \A q \in Partitions : Len(topic'[q]) <= MaxLen
      /\ \A q \in Partitions : Len(topic[q]) <= Len(topic'[q])
      /\ \A q \in Partitions : \A i \in 1 .. Len(topic[q]) :
           topic'[q][i] = topic[q][i]
  BY GroupAssumption DEF IInv, TypeOK, GroupTypeOK
<1>2. TypeOK'
  BY <1>1 DEF IInv, TypeOK, GroupTypeOK
<1>3. OffsetsOrdered'
  BY <1>1, GroupAssumption DEF IInv, TypeOK, GroupTypeOK, OffsetsOrdered
<1>4. Produced \subseteq Produced'
  BY <1>1, GroupAssumption
  DEF IInv, TypeOK, GroupTypeOK, Produced, Msg, Offsets
<1>5. \A m \in Produced : EventOf(m)' = EventOf(m)
  <2> SUFFICES ASSUME NEW m \in Produced PROVE EventOf(m)' = EventOf(m)
    OBVIOUS
  <2>1. PICK q \in Partitions, o \in Offsets : m = <<q, o>>
    BY DEF Produced, Msg
  <2>2. o + 1 \in 1 .. Len(topic[q])
    BY <2>1, GroupAssumption
    DEF IInv, TypeOK, GroupTypeOK, Produced, Offsets
  <2> QED
    BY <1>1, <2>1, <2>2 DEF EventOf
<1>6. OnlyProduced'
  BY <1>4 DEF IInv, OnlyProduced, InHand
<1>7. HandsEmpty'
  BY DEF IInv, HandsEmpty
<1>8. Settled \subseteq Settled'
  BY <1>4, <1>5 DEF Settled, Stored
<1>9. NothingForgotten' /\ AccountedFor'
  BY <1>8 DEF IInv, NothingForgotten, InFlight, InHand, AccountedFor, Committed
<1> QED
  BY <1>2, <1>3, <1>6, <1>7, <1>9 DEF IInv

(* A rebalance takes every owner back to the committed offset, so nothing  *)
(* of the new owners is in flight.                                         *)
LEMMA GroupChangeIInv ==
  ASSUME IInv, GroupChange
  PROVE  IInv'
PROOF
<1> USE DEF GroupChange, Assign, Reassign, Rebalance, StartOffsets, writerVars
<1>1. TypeOK'
  BY DEF IInv, TypeOK, GroupTypeOK
<1>2. OffsetsOrdered'
  BY GroupAssumption DEF IInv, TypeOK, GroupTypeOK, OffsetsOrdered
<1>3. OnlyProduced' /\ HandsEmpty'
  BY DEF IInv, OnlyProduced, InHand, Produced, HandsEmpty
<1>4. \A p \in Partitions : InFlight(p)' = {}
  BY GroupAssumption DEF IInv, TypeOK, GroupTypeOK, InFlight, Msg, Offsets
<1>5. Settled' = Settled
  BY StoredSame DEF Settled
<1>6. NothingForgotten' /\ AccountedFor'
  BY <1>4, <1>5 DEF IInv, NothingForgotten, AccountedFor, Committed
<1> QED
  BY <1>1, <1>2, <1>3, <1>6 DEF IInv

(* Starting, stopping and the signal handler move no message.              *)
LEMMA LifecycleIInv ==
  ASSUME IInv, NEW w \in Workers, UNCHANGED writerVars,
         Start(w) \/ Started(w) \/ Signal(w) \/ StopLoop(w)
  PROVE  IInv'
PROOF
<1> USE DEF Start, Started, Signal, StopLoop, Relinquish, writerVars
<1>1. TypeOK'
  BY DEF IInv, TypeOK, GroupTypeOK, Places
<1>2. UNCHANGED <<topic, position, committed, batch, dlt, dropped, writerVars>>
  OBVIOUS
<1>3. \A p \in Partitions : owner'[p] = owner[p] \/ owner'[p] = Nobody
  BY DEF IInv, TypeOK, GroupTypeOK
<1>4. OffsetsOrdered'
  BY <1>2 DEF IInv, OffsetsOrdered
<1>5. OnlyProduced'
  BY <1>2 DEF IInv, OnlyProduced, InHand, Produced
<1>6. HandsEmpty'
  BY DEF IInv, TypeOK, GroupTypeOK, HandsEmpty
<1>7. Settled' = Settled
  BY <1>2, StoredSame DEF Settled
<1>8. NothingForgotten'
  BY <1>2, <1>3, <1>7, GroupAssumption
  DEF IInv, NothingForgotten, InFlight, InHand
<1>9. AccountedFor'
  BY <1>2, <1>7 DEF IInv, AccountedFor, Committed
<1> QED
  BY <1>1, <1>4, <1>5, <1>6, <1>8, <1>9 DEF IInv

(* A process that dies gives up its partitions with its hands.             *)
LEMMA DieIInv ==
  ASSUME IInv, NEW w \in Workers, Die(w)
  PROVE  IInv'
PROOF
<1> USE DEF Die, Crash, Relinquish
<1>1. TypeOK'
  BY DEF IInv, TypeOK, GroupTypeOK, Places
<1>2. OffsetsOrdered'
  BY DEF IInv, OffsetsOrdered
<1>3. /\ InHand(w)' = {}
      /\ \A v \in Workers \ {w} : InHand(v)' = InHand(v)
  BY DEF IInv, TypeOK, GroupTypeOK, InHand
<1>4. OnlyProduced'
  BY <1>3 DEF IInv, OnlyProduced, Produced
<1>5. HandsEmpty'
  BY DEF IInv, TypeOK, GroupTypeOK, HandsEmpty
<1>6. Settled' = Settled
  BY StoredSame DEF Settled
<1>7. \A p \in Partitions : owner'[p] = Nobody \/ (owner'[p] = owner[p] /\ owner[p] # w)
  BY DEF IInv, TypeOK, GroupTypeOK
<1>8. NothingForgotten'
  BY <1>3, <1>6, <1>7, GroupAssumption DEF IInv, NothingForgotten, InFlight
<1>9. AccountedFor'
  BY <1>6 DEF IInv, AccountedFor, Committed
<1> QED
  BY <1>1, <1>2, <1>4, <1>5, <1>8, <1>9 DEF IInv

(* getmany(): what is polled past the committed offset goes into the hands *)
(* of the caller, whose hands were empty.                                  *)
LEMMA PollIInv ==
  ASSUME IInv, NEW w \in Workers, Poll(w), UNCHANGED writerVars
  PROVE  IInv'
PROOF
<1> USE DEF Poll, AutoCommit, writerVars
<1>1. Between(position, position') \subseteq Produced
  <2>1. \A p \in Partitions : position'[p] \in position[p] .. Len(topic[p])
    BY OffsetsOf DEF Fetchable
  <2>2. \A p \in Partitions : position'[p] <= Len(topic[p]) /\ position'[p] \in Nat
    BY <2>1, OffsetsOf
  <2> QED
    BY <2>2, OffsetsOf, MsgOf DEF Between, Produced
<1>2. TypeOK'
  BY <1>1 DEF IInv, TypeOK, GroupTypeOK, Places, Between
<1>3. OffsetsOrdered'
  BY GroupAssumption
  DEF IInv, TypeOK, GroupTypeOK, OffsetsOrdered, Fetchable
<1>4. /\ InHand(w)' = Between(position, position')
      /\ \A v \in Workers \ {w} : InHand(v)' = InHand(v)
      /\ InHand(w) = {}
  BY DEF IInv, TypeOK, GroupTypeOK, HandsEmpty, InHand
<1>5. OnlyProduced'
  BY <1>1, <1>4 DEF IInv, OnlyProduced, Produced
<1>6. HandsEmpty'
  BY DEF IInv, TypeOK, GroupTypeOK, HandsEmpty
<1>7. Settled' = Settled
  BY StoredSame DEF Settled
<1>8. \A p \in Partitions : owner[p] = w =>
        InFlight(p)' \subseteq InFlight(p) \cup Between(position, position')
  BY GroupAssumption
  DEF IInv, TypeOK, GroupTypeOK, OffsetsOrdered, InFlight, Between, Msg, Offsets
<1>9. \A p \in Partitions : owner[p] # w => InFlight(p)' = InFlight(p)
  BY DEF Fetchable, InFlight
<1>10. NothingForgotten'
  BY <1>4, <1>7, <1>8, <1>9 DEF IInv, NothingForgotten
<1>11. AccountedFor'
  BY <1>7 DEF IInv, AccountedFor, Committed
<1> QED
  BY <1>2, <1>3, <1>5, <1>6, <1>10, <1>11 DEF IInv

(* commit(): with empty hands everything in flight is settled.             *)
LEMMA CommitIInv ==
  ASSUME IInv, NEW w \in Workers, Commit(w), UNCHANGED writerVars
  PROVE  IInv'
PROOF
<1> USE DEF Commit, writerVars
<1>1. \A p \in Partitions : \/ committed'[p] = committed[p]
                            \/ owner[p] = w /\ committed'[p] = position[p]
  BY DEF CommitOffsets
<1>2. committed' \in [Partitions -> 0 .. MaxLen]
  BY DEF IInv, TypeOK, GroupTypeOK, CommitOffsets
<1>3. TypeOK'
  BY <1>2 DEF IInv, TypeOK, GroupTypeOK, Places
<1>4. OffsetsOrdered'
  BY <1>1, OffsetsOf DEF OffsetsOrdered
<1>5. OnlyProduced'
  BY DEF IInv, OnlyProduced, InHand, Produced
<1>6. HandsEmpty' /\ InHand(w) = {}
  BY DEF IInv, TypeOK, GroupTypeOK, HandsEmpty, InHand
<1>7. Settled' = Settled
  BY StoredSame DEF Settled
<1>8. \A p \in Partitions : InFlight(p)' \subseteq InFlight(p)
  <2> SUFFICES ASSUME NEW p \in Partitions, NEW m \in Msg, m[1] = p,
                      m[2] >= committed'[p], m[2] < position[p]
               PROVE  m[2] >= committed[p]
    BY DEF InFlight
  <2> QED
    BY <1>1, OffsetsOf, MsgOf
<1>9. NothingForgotten'
  BY <1>7, <1>8 DEF IInv, NothingForgotten, InHand
<1>10. \A p \in Partitions : owner[p] = w => InFlight(p) \subseteq Settled
  BY <1>6 DEF IInv, NothingForgotten
<1>11. AccountedFor'
  <2> SUFFICES ASSUME NEW m \in Committed' PROVE m \in Settled'
    BY DEF AccountedFor
  <2>1. m \in Msg /\ m[1] \in Partitions /\ m[2] \in Int
    BY GroupAssumption DEF Committed, Msg, Offsets
  <2>2. m \in Committed \/ (owner[m[1]] = w /\ m \in InFlight(m[1]))
    BY <1>1, <1>2, <2>1, GroupAssumption
    DEF IInv, TypeOK, GroupTypeOK, Committed, InFlight
  <2> QED
    BY <1>7, <1>10, <2>1, <2>2 DEF IInv, AccountedFor
<1> QED
  BY <1>3, <1>4, <1>5, <1>6, <1>9, <1>11 DEF IInv

(* What is left to show of a step that works on the polled batch.          *)
LEMMA WorkIInv ==
  ASSUME IInv,
         UNCHANGED <<topic, owner, position, committed>>,
         TypeOK', OnlyProduced', HandsEmpty',
         Settled \subseteq Settled',
         \A v \in Workers : InHand(v) \subseteq InHand(v)' \cup Settled'
  PROVE  IInv'
BY KeepsAccounts DEF IInv

(* Parsing splits one partition of the batch in two.                       *)
LEMMA ParsePartitionIInv ==
  ASSUME IInv, NEW w \in Workers, ParsePartition(w)
  PROVE  IInv'
PROOF
<1> USE DEF ParsePartition, loopVars
<1>1. PICK mine \in SUBSET batch[w] :
        /\ batch' = [batch EXCEPT ![w] = @ \ mine]
        /\ pending' = [pending EXCEPT ![w] = {m \in mine : Parses(m)}]
        /\ failed' = [failed EXCEPT ![w] = {m \in mine : ~Parses(m)}]
        /\ pc' = [pc EXCEPT ![w] = IF \E m \in mine : Parses(m)
                                   THEN "batch" ELSE "deadletter"]
  OBVIOUS
<1>2. TypeOK'
  BY <1>1 DEF IInv, TypeOK, GroupTypeOK, Places
<1>3. /\ InHand(w)' = InHand(w)
      /\ \A v \in Workers \ {w} : InHand(v)' = InHand(v)
  BY <1>1 DEF IInv, TypeOK, GroupTypeOK, HandsEmpty, InHand
<1>4. OnlyProduced'
  BY <1>3 DEF IInv, OnlyProduced, Produced
<1>5. HandsEmpty'
  BY <1>1 DEF IInv, TypeOK, GroupTypeOK, HandsEmpty
<1>6. Settled' = Settled
  BY StoredSame DEF Settled
<1> QED
  BY <1>2, <1>3, <1>4, <1>5, <1>6, WorkIInv

(* The whole of pending goes into the table.                               *)
LEMMA BatchInsertIInv ==
  ASSUME IInv, NEW w \in Workers, BatchInsert(w)
  PROVE  IInv'
PROOF
<1> USE DEF BatchInsert, loopVars
<1>1. pending[w] \subseteq Produced
  BY DEF IInv, OnlyProduced, InHand
<1>2. /\ stored' \subseteq Events
      /\ Stored \subseteq Stored'
      /\ pending[w] \subseteq Stored'
      /\ Produced' = Produced
  BY <1>1, InsertRowsStores DEF IInv
<1>3. TypeOK'
  BY <1>2 DEF IInv, TypeOK, GroupTypeOK, Places
<1>4. /\ InHand(w) \subseteq InHand(w)' \cup pending[w]
      /\ InHand(w)' \subseteq InHand(w)
      /\ \A v \in Workers \ {w} : InHand(v)' = InHand(v)
  BY DEF IInv, TypeOK, GroupTypeOK, InHand
<1>5. OnlyProduced'
  BY <1>2, <1>4 DEF IInv, OnlyProduced
<1>6. HandsEmpty'
  BY DEF IInv, TypeOK, GroupTypeOK, HandsEmpty
<1>7. Settled \subseteq Settled' /\ pending[w] \subseteq Settled'
  BY <1>2 DEF Settled
<1> QED
  BY <1>3, <1>4, <1>5, <1>6, <1>7, WorkIInv

(* A failed transaction leaves the hands as they were.                     *)
LEMMA BatchInsertFailsIInv ==
  ASSUME IInv, NEW w \in Workers, BatchInsertFails(w)
  PROVE  IInv'
PROOF
<1> USE DEF BatchInsertFails, loopVars
<1>1. pending[w] \in SUBSET Produced
  BY DEF IInv, OnlyProduced, InHand
<1>2. /\ stored' \subseteq Events
      /\ Stored \subseteq Stored'
      /\ Produced' = Produced
  <2>1. CASE UNCHANGED stored
    BY <2>1, StoredSame DEF IInv, TypeOK
  <2>2. CASE stored' = InsertRows(pending[w])
    BY <1>1, <2>2, InsertRowsStores DEF IInv
  <2> QED
    BY <2>1, <2>2
<1>3. fallbackTotal' \in 0 .. FallbackCap
  BY DEF IInv, TypeOK
<1>4. TypeOK'
  BY <1>2, <1>3 DEF IInv, TypeOK, GroupTypeOK, Places
<1>5. \A v \in Workers : InHand(v)' = InHand(v)
  BY DEF InHand
<1>6. OnlyProduced'
  BY <1>2, <1>5 DEF IInv, OnlyProduced
<1>7. HandsEmpty'
  BY DEF IInv, TypeOK, GroupTypeOK, HandsEmpty
<1>8. Settled \subseteq Settled'
  BY <1>2 DEF Settled
<1> QED
  BY <1>4, <1>5, <1>6, <1>7, <1>8, WorkIInv

(* A row of the fallback ends in the table or among the failed.            *)
LEMMA InsertSingleIInv ==
  ASSUME IInv, NEW w \in Workers, InsertSingle(w)
  PROVE  IInv'
PROOF
<1> USE DEF loopVars
<1>0. UNCHANGED <<loopVars, pc, batch, dlt, dropped, fallbackTotal, abandoned>>
  BY DEF InsertSingle
<1>1. PICK m \in pending[w] :
        \/ stored' = InsertRows({m}) /\ Inserted(w, m)
        \/ /\ UNCHANGED stored \/ stored' = InsertRows(Accepted({m}))
           /\ Rejected(w, m)
  BY DEF InsertSingle
<1>2. m \in Produced
  BY DEF IInv, OnlyProduced, InHand
<1>3. /\ stored' \subseteq Events
      /\ Stored \subseteq Stored'
      /\ Produced' = Produced
      /\ Inserted(w, m) /\ stored' = InsertRows({m}) => m \in Stored'
  <2>1. CASE UNCHANGED stored
    <3>1. m \in Stored' \/ stored' # InsertRows({m})
      BY <1>0, <1>2, <2>1 DEF InsertRows, Stored, EventOf, Produced
    <3> QED
      BY <1>0, <2>1, <3>1, StoredSame DEF IInv, TypeOK
  <2>2. CASE stored' = InsertRows({m})
    BY <1>0, <1>2, <2>2, InsertRowsStores DEF IInv
  <2>3. CASE stored' = InsertRows(Accepted({m}))
    <3>1. Accepted({m}) \in SUBSET Produced
      BY <1>2 DEF Accepted
    <3>2. m \in Stored' \/ stored' # InsertRows({m})
      BY <1>0, <1>2 DEF InsertRows, Stored, EventOf, Produced
    <3> QED
      BY <1>0, <2>3, <3>1, <3>2, InsertRowsStores DEF IInv
  <2> QED
    BY <1>1, <2>1, <2>2, <2>3
<1>4. /\ InHand(w) \subseteq InHand(w)' \cup Stored'
      /\ InHand(w)' \subseteq InHand(w)
      /\ \A v \in Workers \ {w} : InHand(v)' = InHand(v)
  BY <1>0, <1>1, <1>3
  DEF IInv, TypeOK, GroupTypeOK, InHand, Inserted, Rejected
<1>5. TypeOK'
  <2>1. m \in Msg
    BY <1>2 DEF Produced
  <2>2. pending' \in [Workers -> SUBSET Msg] /\ failed' \in [Workers -> SUBSET Msg]
    BY <1>1, <2>1 DEF IInv, TypeOK, Inserted, Rejected
  <2> QED
    BY <1>0, <1>3, <2>2 DEF IInv, TypeOK, GroupTypeOK
<1>6. OnlyProduced'
  BY <1>0, <1>3, <1>4 DEF IInv, OnlyProduced
<1>7. HandsEmpty'
  <2>1. pc[w] = "single"
    BY DEF InsertSingle
  <2> QED
    BY <1>0, <1>1, <2>1
    DEF IInv, TypeOK, GroupTypeOK, HandsEmpty, Inserted, Rejected
<1>8. Settled \subseteq Settled' /\ Stored' \subseteq Settled'
  BY <1>0, <1>3 DEF Settled
<1> QED
  BY <1>0, <1>4, <1>5, <1>6, <1>7, <1>8, WorkIInv

(* The steps around the fallback and between partitions move no message.   *)
LEMMA MoveOnIInv ==
  ASSUME IInv, NEW w \in Workers,
         \/ AcquireForFallback(w) \/ EndFallback(w)
         \/ ReleaseAfterFallback(w) \/ FinishPartition(w)
  PROVE  IInv'
PROOF
<1> USE DEF AcquireForFallback, EndFallback, ReleaseAfterFallback,
            FinishPartition, loopVars, writerVars
<1>1. TypeOK'
  BY DEF IInv, TypeOK, GroupTypeOK, Places
<1>2. \A v \in Workers : InHand(v)' = InHand(v)
  BY DEF InHand
<1>3. OnlyProduced'
  BY <1>2 DEF IInv, OnlyProduced, Produced
<1>4. HandsEmpty'
  BY DEF IInv, TypeOK, GroupTypeOK, HandsEmpty
<1>5. Settled' = Settled
  BY StoredSame DEF Settled
<1> QED
  BY <1>1, <1>2, <1>3, <1>4, <1>5, WorkIInv

(* The outer except forgets the hands, and the history remembers them.     *)
LEMMA LoopErrorIInv ==
  ASSUME IInv, NEW w \in Workers, LoopError(w)
  PROVE  IInv'
PROOF
<1> USE DEF LoopError, loopVars
<1>1. /\ InHand(w)' = {}
      /\ \A v \in Workers \ {w} : InHand(v)' = InHand(v)
  BY DEF IInv, TypeOK, GroupTypeOK, InHand
<1>2. InHand(w) \subseteq Produced /\ InHand(w) \subseteq Msg
  BY DEF IInv, OnlyProduced, Produced
<1>3. TypeOK'
  BY <1>2 DEF IInv, TypeOK, GroupTypeOK, Places
<1>4. OnlyProduced'
  BY <1>1, <1>2 DEF IInv, OnlyProduced, Produced
<1>5. HandsEmpty'
  BY DEF IInv, TypeOK, GroupTypeOK, HandsEmpty
<1>6. Settled' = Settled \cup InHand(w)
  BY StoredSame DEF Settled
<1> QED
  BY <1>1, <1>3, <1>4, <1>5, <1>6, WorkIInv

(* A failed message ends in the topic or is given up.                      *)
LEMMA DeadLetterIInv ==
  ASSUME IInv, NEW w \in Workers, DeadLetter(w)
  PROVE  IInv'
PROOF
<1> USE DEF loopVars
<1>0. UNCHANGED <<loopVars, pc, batch, pending, stored, fallbackTotal,
                  abandoned>>
  BY DEF DeadLetter
<1>1. PICK m \in failed[w] :
        /\ failed' = [failed EXCEPT ![w] = @ \ {m}]
        /\ \/ dlt' = dlt \cup {m} /\ UNCHANGED dropped
           \/ dropped' = dropped \cup {m} /\ UNCHANGED dlt
  BY DEF DeadLetter, SendToDeadLetter
<1>2. m \in Produced /\ m \in Msg
  BY DEF IInv, OnlyProduced, InHand, Produced
<1>3. /\ InHand(w) \subseteq InHand(w)' \cup {m}
      /\ InHand(w)' \subseteq InHand(w)
      /\ \A v \in Workers \ {w} : InHand(v)' = InHand(v)
  BY <1>0, <1>1 DEF IInv, TypeOK, GroupTypeOK, InHand
<1>4. TypeOK'
  BY <1>0, <1>1, <1>2 DEF IInv, TypeOK, GroupTypeOK
<1>5. OnlyProduced'
  BY <1>0, <1>1, <1>2, <1>3 DEF IInv, OnlyProduced, Produced
<1>6. HandsEmpty'
  <2>1. pc[w] = "deadletter"
    BY DEF DeadLetter
  <2> QED
    BY <1>0, <1>1, <2>1 DEF IInv, TypeOK, GroupTypeOK, HandsEmpty
<1>7. Settled \subseteq Settled' /\ m \in Settled'
  BY <1>0, <1>1, StoredSame DEF Settled
<1> QED
  BY <1>0, <1>3, <1>4, <1>5, <1>6, <1>7, WorkIInv

LEMMA StepIInv == IInv /\ [Next]_vars => IInv'
PROOF
<1> SUFFICES ASSUME IInv, [Next]_vars PROVE IInv'
  OBVIOUS
<1>1. CASE \E p \in Partitions, e \in Events : Publish(p, e)
  BY <1>1, PublishIInv
<1>2. CASE GroupChange
  BY <1>2, GroupChangeIInv
<1>3. CASE \E w \in Workers : Live(w)
  BY <1>3, LifecycleIInv, PollIInv, CommitIInv DEF Live
<1>4. CASE \E w \in Workers : Die(w)
  BY <1>4, DieIInv
<1>5. CASE \E w \in Workers : WorkOnBatch(w)
  BY <1>5, ParsePartitionIInv, BatchInsertIInv, BatchInsertFailsIInv,
     InsertSingleIInv, MoveOnIInv, LoopErrorIInv, DeadLetterIInv
  DEF WorkOnBatch
<1>6. CASE UNCHANGED vars
  <2> USE <1>6 DEF vars, groupVars, writerVars
  <2>1. TypeOK' /\ OffsetsOrdered' /\ HandsEmpty'
    BY DEF IInv, TypeOK, GroupTypeOK, OffsetsOrdered, HandsEmpty
  <2>2. OnlyProduced'
    BY DEF IInv, OnlyProduced, InHand, Produced
  <2>3. Settled' = Settled
    BY StoredSame DEF Settled
  <2>4. NothingForgotten' /\ AccountedFor'
    BY <2>3
    DEF IInv, NothingForgotten, InFlight, InHand, AccountedFor, Committed
  <2> QED
    BY <2>1, <2>2, <2>4 DEF IInv
<1> QED
  BY <1>1, <1>2, <1>3, <1>4, <1>5, <1>6 DEF Next

-----------------------------------------------------------------------------
(* The results                                                             *)

(* The inductive invariant holds in every reachable state.                 *)
THEOREM InductiveInvariant == Spec => []IInv
PROOF
<1>1. Init => IInv
  BY InitIInv
<1>2. IInv /\ [Next]_vars => IInv'
  BY StepIInv
<1> QED
  BY <1>1, <1>2, PTL DEF Spec

(* Type correctness of the log writer's state.                             *)
THEOREM TypeCorrect == Spec => []TypeOK
PROOF
<1>1. IInv => TypeOK
  BY DEF IInv
<1> QED
  BY <1>1, InductiveInvariant, PTL

(***************************************************************************)
(* No commit passes a message that was not stored, dead-lettered or given  *)
(* up at one of the two places that log it, whatever crashes, rebalances   *)
(* or fails.                                                               *)
(***************************************************************************)
THEOREM EveryCommitAccountedFor == Spec => []AccountedFor
PROOF
<1>1. IInv => AccountedFor
  BY DEF IInv
<1> QED
  BY <1>1, InductiveInvariant, PTL

(***************************************************************************)
(* A process that lost a partition, or one that takes it over, never moves *)
(* the committed offset of the partition back.                             *)
(***************************************************************************)
THEOREM CommittedOffsetsGrow == Spec => CommitNeverRetreats
PROOF
<1>1. IInv /\ [Next]_vars =>
        [\A p \in Partitions : committed[p] <= committed'[p]]_vars
  <2> SUFFICES ASSUME IInv, Next, NEW p \in Partitions
               PROVE  committed[p] <= committed'[p]
    OBVIOUS
  <2>1. CASE UNCHANGED committed
    BY <2>1, OffsetsOf
  <2>2. CASE committed' # committed
    <3>1. PICK w \in Workers : Commit(w) /\ committed' = CommitOffsets(w)
      BY <2>2
      DEF Next, Publish, Produce, GroupChange, Assign, Reassign, Rebalance,
          Live, Start, Started, Signal, StopLoop, Poll, AutoCommit, Commit,
          Die, Crash, WorkOnBatch, ParsePartition, BatchInsert,
          BatchInsertFails, AcquireForFallback, InsertSingle, EndFallback,
          ReleaseAfterFallback, LoopError, DeadLetter, FinishPartition,
          loopVars
    <3> QED
      BY <3>1, OffsetsOf DEF CommitOffsets
  <2> QED
    BY <2>1, <2>2
<1> QED
  BY <1>1, InductiveInvariant, PTL DEF Spec, CommitNeverRetreats

-----------------------------------------------------------------------------
(* At-least-once                                                           *)

(* Nothing was given up.                                                   *)
NothingLost == dropped = {} /\ abandoned = {}

(***************************************************************************)
(* While the pool serves the fallback, the dead-letter topic accepts what  *)
(* it is sent and every value is UTF-8, a commit happens only after each   *)
(* message behind it is a row or a dead letter.  The three premises are    *)
(* needed: the run LogWriterPoolLoss breaks it without the first, and a    *)
(* failing or binary message is dropped without the others.                *)
(***************************************************************************)
THEOREM CommitAfterInsert ==
  ASSUME "pool" \notin Faults, "deadletter" \notin Faults,
         \A e \in Events : Kind[e] # "binary"
  PROVE  Spec => []AtLeastOnce
PROOF
<1>1. Init => NothingLost
  BY DEF Init, GroupInit, NothingLost
<1>2. IInv /\ NothingLost /\ [Next]_vars => NothingLost'
  <2> SUFFICES ASSUME IInv, NothingLost, [Next]_vars PROVE NothingLost'
    OBVIOUS
  <2> USE DEF NothingLost
  <2>1. CASE UNCHANGED <<dropped, abandoned>>
    BY <2>1
  <2>2. CASE \E w \in Workers : DeadLetter(w)
    <3>0. PICK w \in Workers : DeadLetter(w)
      BY <2>2
    <3>1. PICK m \in failed[w] : SendToDeadLetter(m) /\ UNCHANGED abandoned
      BY <3>0 DEF DeadLetter
    <3>2. EventOf(m) \in Events
      BY EventOfProduced DEF IInv, TypeOK, OnlyProduced, InHand
    <3> QED
      BY <3>1, <3>2 DEF SendToDeadLetter, KindOf
  <2>3. CASE \E w \in Workers : LoopError(w)
    BY <2>3 DEF LoopError
  <2> QED
    BY <2>1, <2>2, <2>3
    DEF Next, Publish, Produce, GroupChange, Assign, Reassign, Rebalance,
        Live, Start, Started, Signal, StopLoop, Poll, Commit, Die, Crash,
        WorkOnBatch, ParsePartition, BatchInsert, BatchInsertFails,
        AcquireForFallback, InsertSingle, EndFallback, ReleaseAfterFallback,
        FinishPartition, writerVars, groupVars, vars
<1>3. IInv /\ NothingLost => AtLeastOnce
  BY DEF IInv, AccountedFor, Settled, NothingLost, AtLeastOnce
<1> QED
  BY <1>1, <1>2, <1>3, InductiveInvariant, PTL DEF Spec

-----------------------------------------------------------------------------
(* The poison pill                                                         *)

(* What was or is about to be dead-lettered, and that no row is among it.  *)
GivenUp      == dlt \cup dropped \cup UNION {failed[w] : w \in Workers}
NoRowGivenUp == \A m \in GivenUp : KindOf(m) # "row"

(* A step never changes what a produced message is.                        *)
LEMMA KindsStay ==
  ASSUME IInv, [Next]_vars, NEW m \in Produced
  PROVE  KindOf(m)' = KindOf(m)
PROOF
<1>1. CASE UNCHANGED topic
  BY <1>1 DEF KindOf, EventOf
<1>2. CASE \E p \in Partitions, e \in Events : Publish(p, e)
  <2>1. PICK p \in Partitions, e \in Events : Publish(p, e)
    BY <1>2
  <2>2. /\ m[1] \in Partitions /\ m[2] \in Nat /\ m[2] < Len(topic[m[1]])
        /\ topic[m[1]] \in Seq(Events)
    BY MsgOf, OffsetsOf DEF Produced
  <2>3. topic'[m[1]] \in {topic[m[1]], Append(topic[m[1]], e)}
    BY <2>1, <2>2 DEF Publish, Produce, IInv, TypeOK, GroupTypeOK
  <2>4. \A s \in Seq(Events) : \A i \in 1 .. Len(s) : Append(s, e)[i] = s[i]
    OBVIOUS
  <2>5. m[2] + 1 \in 1 .. Len(topic[m[1]])
    BY <2>2
  <2>6. topic'[m[1]][m[2] + 1] = topic[m[1]][m[2] + 1]
    BY <2>2, <2>3, <2>4, <2>5
  <2> QED
    BY <2>6 DEF KindOf, EventOf
<1> QED
  BY <1>1, <1>2
  DEF Next, GroupChange, Assign, Reassign, Rebalance, Live, Start, Started,
      Signal, StopLoop, Poll, Commit, Die, Crash, WorkOnBatch, ParsePartition,
      BatchInsert, BatchInsertFails, AcquireForFallback, InsertSingle,
      EndFallback, ReleaseAfterFallback, LoopError, DeadLetter,
      FinishPartition, loopVars, vars, groupVars

(* Whatever a step adds to it is not a row, unless a statement failed that *)
(* PostgreSQL would have accepted.                                         *)
LEMMA OnlyRejectsGivenUp ==
  ASSUME "statement" \notin Faults, IInv, [Next]_vars
  PROVE  \A m \in GivenUp' : m \in GivenUp \/ KindOf(m) # "row"
PROOF
<1>1. CASE UNCHANGED <<dlt, dropped, failed>>
  BY <1>1 DEF GivenUp
<1>2. ASSUME NEW w \in Workers, ParsePartition(w)
      PROVE  \A m \in GivenUp' : m \in GivenUp \/ KindOf(m) # "row"
  <2>1. \A v \in Workers : \A m \in failed'[v] : m \in failed[v] \/ ~Parses(m)
    BY <1>2 DEF ParsePartition, IInv, TypeOK
  <2>2. UNCHANGED <<dlt, dropped>>
    BY <1>2 DEF ParsePartition
  <2> QED
    BY <2>1, <2>2 DEF GivenUp, Parses
<1>3. ASSUME NEW w \in Workers, InsertSingle(w)
      PROVE  \A m \in GivenUp' : m \in GivenUp \/ KindOf(m) # "row"
  <2>1. \A v \in Workers :
          \A m \in failed'[v] : m \in failed[v] \/ KindOf(m) = "poison"
    BY <1>3 DEF InsertSingle, Inserted, Rejected, IInv, TypeOK
  <2>2. UNCHANGED <<dlt, dropped>>
    BY <1>3 DEF InsertSingle
  <2> QED
    BY <2>1, <2>2 DEF GivenUp
<1>4. ASSUME NEW w \in Workers, DeadLetter(w)
      PROVE  GivenUp' \subseteq GivenUp
  <2>1. PICK m \in failed[w] :
          SendToDeadLetter(m) /\ failed' = [failed EXCEPT ![w] = @ \ {m}]
    BY <1>4 DEF DeadLetter
  <2>2. dlt' \cup dropped' \subseteq dlt \cup dropped \cup {m}
    BY <2>1 DEF SendToDeadLetter
  <2>3. \A v \in Workers : failed'[v] \subseteq failed[v]
    BY <2>1 DEF IInv, TypeOK
  <2> QED
    BY <2>2, <2>3 DEF GivenUp
<1>5. ASSUME NEW w \in Workers, Die(w) \/ LoopError(w)
      PROVE  GivenUp' \subseteq GivenUp
  <2>1. \A v \in Workers : failed'[v] \subseteq failed[v]
    BY <1>5 DEF Die, LoopError, IInv, TypeOK
  <2> QED
    BY <1>5, <2>1 DEF Die, Crash, LoopError, GivenUp
<1> QED
  BY <1>1, <1>2, <1>3, <1>4, <1>5
  DEF Next, Publish, Produce, GroupChange, Assign, Reassign, Rebalance, Live,
      Start, Started, Signal, StopLoop, Poll, Commit, WorkOnBatch,
      BatchInsert, BatchInsertFails, AcquireForFallback, EndFallback,
      ReleaseAfterFallback, FinishPartition, loopVars, vars, groupVars,
      writerVars

(***************************************************************************)
(* As long as PostgreSQL rejects poison only, the fallback never sends a   *)
(* good row to the dead-letter topic, however many poison pills share its  *)
(* batch and wherever processes die.                                       *)
(***************************************************************************)
THEOREM PoisonPillIsolated ==
  ASSUME "statement" \notin Faults
  PROVE  Spec => []PoisonIsolated
PROOF
<1>1. Init => NoRowGivenUp
  BY DEF Init, GroupInit, NoRowGivenUp, GivenUp
<1>2. IInv /\ NoRowGivenUp /\ [Next]_vars => NoRowGivenUp'
  <2> SUFFICES ASSUME IInv, NoRowGivenUp, [Next]_vars, NEW m \in GivenUp'
               PROVE  KindOf(m)' # "row"
    BY DEF NoRowGivenUp
  <2>1. KindOf(m) # "row"
    BY OnlyRejectsGivenUp DEF NoRowGivenUp
  <2>2. CASE m \in Produced
    BY <2>1, <2>2, KindsStay
  <2>3. CASE m \notin Produced
    <3>1. m \in Produced'
      BY StepIInv DEF IInv, OnlyProduced, InHand, GivenUp
    <3>2. UNCHANGED topic => Produced' = Produced
      BY DEF Produced
    <3>3. \E p \in Partitions, e \in Events : Publish(p, e)
      BY <2>3, <3>1, <3>2
      DEF Next, GroupChange, Assign, Reassign, Rebalance, Live, Start,
          Started, Signal, StopLoop, Poll, Commit, Die, Crash, WorkOnBatch,
          ParsePartition, BatchInsert, BatchInsertFails, AcquireForFallback,
          InsertSingle, EndFallback, ReleaseAfterFallback, LoopError,
          DeadLetter, FinishPartition, loopVars, vars, groupVars
    <3>4. GivenUp' = GivenUp
      BY <3>3 DEF Publish, Produce, writerVars, GivenUp
    <3> QED
      BY <2>3, <3>4 DEF IInv, OnlyProduced, InHand, GivenUp
  <2> QED
    BY <2>2, <2>3
<1>3. NoRowGivenUp => PoisonIsolated
  BY DEF NoRowGivenUp, GivenUp, PoisonIsolated
<1> QED
  BY <1>1, <1>2, <1>3, InductiveInvariant, PTL DEF Spec

-----------------------------------------------------------------------------
(* Graceful shutdown                                                       *)

(* A process that is not between a poll and its commit has committed what  *)
(* it polled.                                                              *)
Rested ==
  \A p \in Partitions : \A w \in Workers :
    owner[p] = w /\ pc[w] \in {"down", "starting", "loop"} =>
      committed[p] = position[p]

(* Only commit() enters the loop from a batch: the pool, whose errors      *)
(* would, does not fail, and commit() does not raise.                      *)
LEMMA StepRested ==
  ASSUME "commit" \notin Faults, "pool" \notin Faults,
         IInv, Rested, [Next]_vars
  PROVE  Rested'
PROOF
<1> SUFFICES ASSUME NEW p \in Partitions, NEW w \in Workers,
                    owner'[p] = w, pc'[w] \in {"down", "starting", "loop"}
             PROVE  committed'[p] = position'[p]
  BY DEF Rested
<1> USE DEF IInv, TypeOK, GroupTypeOK
<1>1. CASE UNCHANGED <<owner, pc, committed, position>>
  BY <1>1 DEF Rested
<1>2. CASE GroupChange
  BY <1>2 DEF GroupChange, Assign, Reassign, Rebalance, StartOffsets
<1>3. ASSUME NEW v \in Workers, Start(v) \/ Started(v) \/ StopLoop(v) \/ Crash(v)
      PROVE  committed'[p] = position'[p]
  <2>1. owner[p] = w /\ UNCHANGED <<committed, position>>
    BY <1>3, GroupAssumption DEF Start, Started, StopLoop, Crash, Relinquish
  <2>2. pc[w] \in {"down", "starting", "loop"}
    BY <1>3, GroupAssumption DEF Start, Started, StopLoop, Crash, Relinquish
  <2> QED
    BY <2>1, <2>2 DEF Rested
<1>4. ASSUME NEW v \in Workers, Poll(v)
      PROVE  committed'[p] = position'[p]
  <2>1. v # w /\ owner[p] = w /\ pc[w] = pc'[w]
    BY <1>4 DEF Poll
  <2> QED
    BY <1>4, <2>1 DEF Poll, AutoCommit, Fetchable, Rested
<1>5. ASSUME NEW v \in Workers, Commit(v)
      PROVE  committed'[p] = position'[p]
  <2>1. committed' = CommitOffsets(v) /\ UNCHANGED <<owner, position>>
    BY <1>5 DEF Commit
  <2>2. w # v => pc[w] = pc'[w]
    BY <1>5 DEF Commit
  <2> QED
    BY <2>1, <2>2 DEF CommitOffsets, Rested
<1>6. ASSUME NEW v \in Workers, WorkOnBatch(v)
      PROVE  committed'[p] = position'[p]
  <2>1. UNCHANGED <<owner, committed, position>>
    BY <1>6
    DEF WorkOnBatch, ParsePartition, BatchInsert, BatchInsertFails,
        AcquireForFallback, InsertSingle, EndFallback, ReleaseAfterFallback,
        LoopError, DeadLetter, FinishPartition, loopVars
  <2>2. pc'[w] \in {"down", "starting", "loop"} => pc'[w] = pc[w]
    BY <1>6
    DEF WorkOnBatch, ParsePartition, BatchInsert, BatchInsertFails,
        AcquireForFallback, InsertSingle, EndFallback, ReleaseAfterFallback,
        LoopError, DeadLetter, FinishPartition
  <2> QED
    BY <2>1, <2>2 DEF Rested
<1> QED
  BY <1>1, <1>2, <1>3, <1>4, <1>5, <1>6
  DEF Next, Publish, Produce, Live, Signal, Die, vars, groupVars

(***************************************************************************)
(* While commits succeed and the pool serves the fallback, a process that  *)
(* is told to stop leaves no partition with polled but uncommitted         *)
(* messages, whatever rebalances meanwhile.                                *)
(***************************************************************************)
THEOREM ShutdownDrains ==
  ASSUME "commit" \notin Faults, "pool" \notin Faults
  PROVE  Spec => DrainedBeforeStop
PROOF
<1>1. Init => Rested
  BY DEF Init, GroupInit, Rested
<1>2. IInv /\ Rested /\ [Next]_vars => Rested'
  BY StepRested
<1>3. Rested => [\A w \in Workers : StopLoop(w) => Drained(w)]_vars
  BY DEF Rested, StopLoop, Drained
<1> QED
  BY <1>1, <1>2, <1>3, InductiveInvariant, PTL DEF Spec, DrainedBeforeStop

-----------------------------------------------------------------------------
(* The way through a batch                                                 *)

(* What other processes and Kafka do leaves the batch of w alone.          *)
LEMMA OthersLeaveAlone ==
  ASSUME TypeOK, [Next]_vars, NEW w \in Workers, InBatch(w)
  PROVE  UNCHANGED Hands(w) \/ Die(w) \/ WorkOnBatch(w)
PROOF
<1>1. /\ pc \in [Workers -> Places] /\ batch \in [Workers -> SUBSET Msg]
      /\ pending \in [Workers -> SUBSET Msg] /\ failed \in [Workers -> SUBSET Msg]
  BY DEF TypeOK, GroupTypeOK
<1>2. CASE UNCHANGED vars
  BY <1>2 DEF vars, groupVars, writerVars, Hands
<1>3. ASSUME NEW p \in Partitions, NEW e \in Events, Publish(p, e)
      PROVE  UNCHANGED Hands(w)
  BY <1>3 DEF Publish, Produce, writerVars, Hands
<1>4. CASE GroupChange
  BY <1>4 DEF GroupChange, Assign, Reassign, Rebalance, writerVars, Hands
<1>5. ASSUME NEW v \in Workers, Live(v)
      PROVE  UNCHANGED Hands(w)
  <2>1. v # w \/ Signal(v)
    BY <1>5 DEF InBatch, Ahead, Live, Start, Started, StopLoop, Poll, Commit
  <2>2. QED
    BY <1>1, <1>5, <2>1
    DEF Live, Start, Started, Signal, StopLoop, Poll, Commit, writerVars, Hands
<1>6. ASSUME NEW v \in Workers, v # w, Die(v)
      PROVE  UNCHANGED Hands(w)
  BY <1>1, <1>6 DEF Die, Crash, Hands
<1>7. ASSUME NEW v \in Workers, v # w, WorkOnBatch(v)
      PROVE  UNCHANGED Hands(w)
  <2>1. CASE ParsePartition(v) \/ BatchInsert(v) \/ BatchInsertFails(v)
             \/ AcquireForFallback(v)
    BY <1>1, <1>7, <2>1
    DEF ParsePartition, BatchInsert, BatchInsertFails, AcquireForFallback,
        writerVars, Hands
  <2>2. CASE InsertSingle(v)
    BY <1>1, <1>7, <2>2 DEF InsertSingle, Inserted, Rejected, Hands
  <2>3. CASE EndFallback(v) \/ ReleaseAfterFallback(v) \/ LoopError(v)
             \/ DeadLetter(v) \/ FinishPartition(v)
    BY <1>1, <1>7, <2>3
    DEF EndFallback, ReleaseAfterFallback, LoopError, DeadLetter,
        FinishPartition, writerVars, Hands
  <2> QED
    BY <1>7, <2>1, <2>2, <2>3 DEF WorkOnBatch
<1> QED
  BY <1>2, <1>3, <1>4, <1>5, <1>6, <1>7 DEF Next

(* Each step of the work on a batch goes forward, or leaves it.            *)
LEMMA WorkGoesForward ==
  ASSUME TypeOK, NEW w \in Workers, WorkOnBatch(w)
  PROVE  pc'[w] = "loop" \/ Nearer(w)
PROOF
<1>1. /\ pc \in [Workers -> Places] /\ batch \in [Workers -> SUBSET Msg]
      /\ pending \in [Workers -> SUBSET Msg] /\ failed \in [Workers -> SUBSET Msg]
  BY DEF TypeOK, GroupTypeOK
<1>2. CASE ParsePartition(w)
  <2>1. PICK S \in SUBSET batch[w] : S # {} /\ batch'[w] = batch[w] \ S
    <3>1. PICK p \in Partitions :
            LET mine == {m \in batch[w] : m[1] = p} IN
            mine # {} /\ batch' = [batch EXCEPT ![w] = @ \ mine]
      BY <1>2 DEF ParsePartition
    <3>2. batch'[w] = batch[w] \ {m \in batch[w] : m[1] = p}
      BY <1>1, <3>1
    <3> QED
      BY <3>1, <3>2
  <2> QED
    BY <2>1 DEF Nearer
<1>3. CASE BatchInsert(w) \/ BatchInsertFails(w) \/ AcquireForFallback(w)
           \/ EndFallback(w) \/ ReleaseAfterFallback(w) \/ FinishPartition(w)
  <2>1. batch'[w] = batch[w]
    BY <1>3
    DEF BatchInsert, BatchInsertFails, AcquireForFallback, EndFallback,
        ReleaseAfterFallback, FinishPartition
  <2>2. Ahead[pc'[w]] < Ahead[pc[w]]
    BY <1>1, <1>3
    DEF BatchInsert, BatchInsertFails, AcquireForFallback, EndFallback,
        ReleaseAfterFallback, FinishPartition, Ahead
  <2> QED
    BY <2>1, <2>2 DEF Nearer
<1>4. CASE InsertSingle(w)
  <2>1. PICK m \in pending[w] : pending' = [pending EXCEPT ![w] = @ \ {m}]
    BY <1>4 DEF InsertSingle, Inserted, Rejected
  <2>2. /\ pending'[w] = pending[w] \ {m}
        /\ batch'[w] = batch[w] /\ pc'[w] = pc[w]
    BY <1>1, <1>4, <2>1 DEF InsertSingle
  <2> QED
    BY <2>2 DEF Nearer
<1>5. CASE DeadLetter(w)
  <2>1. PICK m \in failed[w] : failed' = [failed EXCEPT ![w] = @ \ {m}]
    BY <1>5 DEF DeadLetter
  <2>2. /\ failed'[w] = failed[w] \ {m} /\ pending'[w] = pending[w]
        /\ batch'[w] = batch[w] /\ pc'[w] = pc[w]
    BY <1>1, <1>5, <2>1 DEF DeadLetter
  <2> QED
    BY <2>2 DEF Nearer
<1>6. CASE LoopError(w)
  BY <1>1, <1>6 DEF LoopError
<1> QED
  BY <1>2, <1>3, <1>4, <1>5, <1>6 DEF WorkOnBatch

(***************************************************************************)
(* However often statements, the pool or Redis fail, a process in a batch  *)
(* goes forward to its commit with every step, leaves the batch by the     *)
(* outer except, or dies (_consume_loop).                                  *)
(***************************************************************************)
THEOREM BatchesEnd == Spec => BatchEnds
PROOF
<1>1. ASSUME IInv, [Next]_vars, NEW w \in Workers, InBatch(w)
      PROVE  UNCHANGED Hands(w) \/ pc'[w] \in {"down", "loop"} \/ Nearer(w)
  <2>1. Die(w) => pc'[w] = "down"
    BY <1>1 DEF IInv, TypeOK, Die, Crash
  <2> QED
    BY <1>1, <2>1, OthersLeaveAlone, WorkGoesForward DEF IInv
<1>2. IInv /\ [Next]_vars
      => \A w \in Workers : InBatch(w) =>
           UNCHANGED Hands(w) \/ pc'[w] \in {"down", "loop"} \/ Nearer(w)
  BY <1>1
<1> QED
  BY <1>2, InductiveInvariant, PTL DEF Spec, BatchEnds

-----------------------------------------------------------------------------
(* Refinement                                                              *)

(* No step takes back a row, an envelope or a record of loss.              *)
LEMMA RecordsGrow ==
  ASSUME Next
  PROVE  /\ stored \subseteq stored'
         /\ dlt \subseteq dlt'
         /\ dropped \subseteq dropped'
         /\ abandoned \subseteq abandoned'
BY DEF Next, Publish, Produce, GroupChange, Assign, Reassign, Rebalance,
       Live, Start, Started, Signal, StopLoop, Poll, Commit, Die, Crash,
       WorkOnBatch, ParsePartition, BatchInsert, BatchInsertFails, InsertRows,
       AcquireForFallback, InsertSingle, EndFallback, ReleaseAfterFallback,
       LoopError, DeadLetter, SendToDeadLetter, FinishPartition, writerVars,
       loopVars

(* The new message is next in its partition, and is settled on arrival     *)
(* when its event is stored already.                                       *)
LEMMA PublishAppends ==
  ASSUME IInv, NEW p \in Partitions, NEW e \in Events, Publish(p, e)
  PROVE  \E m \in DL!Message \ Produced : DL!Append(m)
PROOF
<1> DEFINE m == <<p, Len(topic[p])>>
<1> USE DEF Publish, Produce, writerVars
<1>0. /\ topic[p] \in Seq(Events) /\ Len(topic[p]) \in Nat
      /\ Len(topic[p]) < MaxLen /\ topic \in [Partitions -> Seq(Events)]
  BY OffsetsOf DEF IInv, TypeOK, GroupTypeOK
<1>1. m \in Msg /\ m \in DL!Message /\ m \notin Produced
  BY <1>0, GroupAssumption DEF Msg, Offsets, DL!Message, Produced
<1>2. topic' = [topic EXCEPT ![p] = Append(@, e)]
      /\ Len(topic'[p]) = Len(topic[p]) + 1
      /\ \A q \in Partitions \ {p} : topic'[q] = topic[q]
  BY <1>0
<1>3. Produced' = Produced \cup {m}
  <2>1. ASSUME NEW n \in Msg
        PROVE  n[2] < Len(topic'[n[1]]) <=> n[2] < Len(topic[n[1]]) \/ n = m
    <3>1. CASE n[1] = p
      <4>1. n[2] \in Nat /\ n = <<n[1], n[2]>>
        BY MsgOf DEF Msg
      <4> QED
        BY <1>0, <1>2, <3>1, <4>1
    <3>2. CASE n[1] # p
      BY <1>2, <3>2, MsgOf
    <3> QED
      BY <3>1, <3>2
  <2> QED
    BY <1>1, <2>1 DEF Produced
<1>4. \A n \in Produced : EventOf(n)' = EventOf(n)
  <2> SUFFICES ASSUME NEW n \in Produced PROVE EventOf(n)' = EventOf(n)
    OBVIOUS
  <2>1. n \in Msg /\ n[1] \in Partitions /\ n[2] \in Nat /\ n[2] < Len(topic[n[1]])
    BY MsgOf DEF Produced
  <2>2. CASE n[1] = p
    BY <1>0, <1>2, <2>1, <2>2 DEF EventOf
  <2>3. CASE n[1] # p
    BY <1>2, <2>1, <2>3 DEF EventOf
  <2> QED
    BY <2>2, <2>3
<1>5. Settled' \in {Settled, Settled \cup {m}}
  <2>1. Stored' \in {Stored, Stored \cup {m}}
    BY <1>3, <1>4 DEF Stored
  <2> QED
    BY <2>1 DEF Settled
<1> QED
  BY <1>1, <1>3, <1>5 DEF DL!Append

(***************************************************************************)
(* The log writer implements the abstract durable log: each of its steps   *)
(* is an append, settles produced messages, commits past settled ones, or  *)
(* is not visible.                                                         *)
(***************************************************************************)
THEOREM Refinement == Spec => ImplementsDurableLog
PROOF
<1>1. Init => DL!Init
  BY GroupAssumption
  DEF Init, GroupInit, DL!Init, Produced, Settled, Stored, Msg, Offsets
<1>2. IInv /\ IInv' /\ [Next]_vars => [DL!Next]_(DL!vars)
  <2> SUFFICES ASSUME IInv, IInv', [Next]_vars PROVE [DL!Next]_(DL!vars)
    OBVIOUS
  <2>1. Msg = DL!Message
    BY DEF Msg, Offsets, DL!Message
  <2>2. CASE UNCHANGED vars
    BY <2>2, StoredSame
    DEF vars, groupVars, writerVars, Settled, DL!vars
  <2>3. CASE \E p \in Partitions, e \in Events : Publish(p, e)
    BY <2>3, PublishAppends DEF DL!Next
  <2>4. CASE \E w \in Workers : Commit(w) /\ UNCHANGED writerVars
    <3>1. Produced' = Produced /\ Settled' = Settled
      BY <2>4, StoredSame DEF Commit, writerVars, Settled
    <3>2. committed' \in [Partitions -> 0 .. MaxLen]
      BY DEF IInv, TypeOK, GroupTypeOK
    <3>3. \A p \in Partitions : committed[p] <= committed'[p]
      BY <2>4, OffsetsOf DEF Commit, CommitOffsets
    <3>4. DL!Below(committed') \subseteq Settled
      BY <2>1, <3>1 DEF IInv, AccountedFor, Committed, DL!Below
    <3> QED
      BY <3>1, <3>2, <3>3, <3>4 DEF DL!Commit, DL!Next
  <2>5. CASE Next /\ UNCHANGED <<topic, committed>>
    <3>1. Produced' = Produced
      BY <2>5 DEF Produced
    <3>2. Settled \subseteq Settled'
      BY <2>5, RecordsGrow DEF Settled, Stored, Produced, EventOf
    <3>3. Settled' \subseteq Produced
      BY <3>1 DEF IInv, OnlyProduced, Settled, Stored
    <3>4. DL!Settle
      BY <2>5, <3>1, <3>2, <3>3 DEF DL!Settle
    <3> QED
      BY <3>4 DEF DL!Next
  <2> QED
    BY <2>2, <2>3, <2>4, <2>5
    DEF Next, GroupChange, Assign, Reassign, Rebalance,
        Live, Start, Started, Signal, StopLoop, Poll, AutoCommit,
        Die, Crash, WorkOnBatch, ParsePartition, BatchInsert,
        BatchInsertFails, AcquireForFallback, InsertSingle, EndFallback,
        ReleaseAfterFallback, LoopError, DeadLetter, FinishPartition, loopVars
<1> QED
  BY <1>1, <1>2, InductiveInvariant, PTL DEF Spec, ImplementsDurableLog, DL!Spec

(* A durable log passes only what was settled, and settles only what was   *)
(* produced; so does whatever implements it.                               *)
THEOREM DurableLogSkipsNothing == DL!Spec => []DL!NothingSkipped
PROOF
<1>1. DL!Init => DL!NothingSkipped
  BY DEF DL!Init, DL!NothingSkipped, DL!Below, DL!Message
<1>2. DL!NothingSkipped /\ [DL!Next]_(DL!vars) => DL!NothingSkipped'
  <2> SUFFICES ASSUME DL!NothingSkipped, [DL!Next]_(DL!vars)
               PROVE  DL!NothingSkipped'
    OBVIOUS
  <2>1. ASSUME NEW m \in DL!Message, DL!Append(m)
        PROVE  DL!NothingSkipped'
    BY <2>1 DEF DL!Append, DL!NothingSkipped, DL!Below
  <2>2. CASE DL!Settle
    BY <2>2 DEF DL!Settle, DL!NothingSkipped, DL!Below
  <2>3. CASE DL!Commit
    BY <2>3 DEF DL!Commit, DL!NothingSkipped, DL!Below
  <2>4. CASE UNCHANGED DL!vars
    BY <2>4 DEF DL!vars, DL!NothingSkipped, DL!Below
  <2> QED
    BY <2>1, <2>2, <2>3, <2>4 DEF DL!Next
<1> QED
  BY <1>1, <1>2, PTL DEF DL!Spec
==============================================================================
