---------------------------- MODULE ReplayDlqProofs ----------------------------
(***************************************************************************)
(* Proofs about ReplayDlq, for any events, any limit and bounds, and any   *)
(* number of runs that are interrupted or killed.                          *)
(***************************************************************************)
EXTENDS ReplayDlq, SequenceTheorems, FiniteSetTheorems, TLAPS

(* The consumer holds one message at a time.                               *)
OneInHand == hand = {} \/ \E e \in Events : hand = {e}

(* A message is read only while the limit allows to replay it.             *)
RoomToReplay == pc = "check" => replayed < Limit

(* The dead letters the running consumer has not handed out yet.           *)
Ahead == {dlq[i] : i \in (position + 1) .. Len(dlq)}

(* In hand, with the re-publish or the report still to come.               *)
ToBeHandled == IF pc = "check" THEN hand ELSE {}

(* What no commit, however early, can lose any more, and what one can:     *)
(* messages that an interrupted run has or had in hand.                    *)
Safe   == ingest \cup stored \cup skipped \cup Ahead \cup ToBeHandled
AtRisk == produced \ Safe

RiskBounded == IsFiniteSet(AtRisk) /\ Cardinality(AtRisk) <= interruptions

IInv == TypeOK /\ OneInHand /\ RoomToReplay /\ RiskBounded

-----------------------------------------------------------------------------
(* Sets at risk                                                            *)

(* What is at risk stays within its bound when it does not grow ...        *)
LEMMA NoNewRisk ==
  ASSUME IInv, AtRisk' \subseteq AtRisk, interruptions' = interruptions
  PROVE  RiskBounded'
<1>1. IsFiniteSet(AtRisk') /\ Cardinality(AtRisk') <= Cardinality(AtRisk)
  BY FS_Subset DEF IInv, RiskBounded
<1>2. Cardinality(AtRisk') \in Nat /\ Cardinality(AtRisk) \in Nat
  BY <1>1, FS_CardinalityType DEF IInv, RiskBounded
<1>3. interruptions \in Nat
  BY ReplayAssumption DEF IInv, TypeOK
<1>4. Cardinality(AtRisk') <= interruptions'
  BY <1>1, <1>2, <1>3 DEF IInv, RiskBounded
<1>5. QED  BY <1>1, <1>4 DEF RiskBounded

(* ... and when a run that ends badly adds the message in hand.            *)
LEMMA OneNewRisk ==
  ASSUME IInv, AtRisk' \subseteq AtRisk \cup hand,
         interruptions' = interruptions + 1
  PROVE  RiskBounded'
<1>1. /\ IsFiniteSet(AtRisk) /\ Cardinality(AtRisk) \in Nat
      /\ Cardinality(AtRisk) <= interruptions /\ interruptions \in Nat
  BY FS_CardinalityType, ReplayAssumption DEF IInv, RiskBounded, TypeOK
<1>2. /\ IsFiniteSet(AtRisk \cup hand)
      /\ Cardinality(AtRisk \cup hand) <= interruptions + 1
  <2>1. CASE hand = {}
    <3> DEFINE R == AtRisk \cup hand
    <3>1. R = AtRisk
      BY <2>1
    <3>2. IsFiniteSet(R) /\ Cardinality(R) = Cardinality(AtRisk)
      BY <1>1, <3>1
    <3> HIDE DEF R
    <3>3. Cardinality(R) <= interruptions + 1
      BY <1>1, <3>2
    <3>4. QED  BY <3>2, <3>3 DEF R
  <2>2. ASSUME NEW e \in Events, hand = {e}
        PROVE  /\ IsFiniteSet(AtRisk \cup hand)
               /\ Cardinality(AtRisk \cup hand) <= interruptions + 1
    <3>1. /\ IsFiniteSet(AtRisk \cup {e})
          /\ Cardinality(AtRisk \cup {e})
               \in {Cardinality(AtRisk), Cardinality(AtRisk) + 1}
      BY <1>1, FS_AddElement
    <3>2. QED  BY <1>1, <2>2, <3>1
  <2>3. QED  BY <2>1, <2>2 DEF IInv, OneInHand
<1>3. IsFiniteSet(AtRisk') /\ Cardinality(AtRisk') <= Cardinality(AtRisk \cup hand)
  BY <1>2, FS_Subset
<1>4. Cardinality(AtRisk') \in Nat /\ Cardinality(AtRisk \cup hand) \in Nat
  BY <1>2, <1>3, FS_CardinalityType
<1>5. Cardinality(AtRisk') <= interruptions'
  BY <1>1, <1>2, <1>3, <1>4
<1>6. QED  BY <1>3, <1>5 DEF RiskBounded

-----------------------------------------------------------------------------
(* The dead-letter topic                                                   *)

(* A commit of the position forgets what has been handed out, no more.     *)
LEMMA SlideKeepsAhead ==
  ASSUME IInv, Slide
  PROVE  /\ dlq' \in Seq(Events) /\ Len(dlq') <= Len(dlq)
         /\ position' = 0 /\ Len(dlq') \in Nat
         /\ Ahead' = Ahead
<1>1. /\ dlq \in Seq(Events) /\ position \in 0 .. Len(dlq)
      /\ Len(dlq) \in Nat /\ position \in Nat
      /\ dlq' = SubSeq(dlq, position + 1, Len(dlq)) /\ position' = 0
  BY DEF IInv, TypeOK, Slide
<1>2. \A i \in (position + 1) .. Len(dlq) : dlq[i] \in Events
  BY <1>1
<1>3. /\ dlq' \in Seq(Events) /\ Len(dlq') = Len(dlq) - position
      /\ \A i \in 1 .. (Len(dlq) - position) : dlq'[i] = dlq[position + i]
  BY <1>1, <1>2, SubSeqProperties
<1>4. Ahead' \subseteq Ahead
  <2> SUFFICES ASSUME NEW i \in (position' + 1) .. Len(dlq')
               PROVE  dlq'[i] \in Ahead
    BY DEF Ahead
  <2>1. /\ position + i \in (position + 1) .. Len(dlq)
        /\ dlq'[i] = dlq[position + i]
    BY <1>1, <1>3
  <2>2. QED  BY <2>1 DEF Ahead
<1>5. Ahead \subseteq Ahead'
  <2> SUFFICES ASSUME NEW i \in (position + 1) .. Len(dlq)
               PROVE  dlq[i] \in Ahead'
    BY DEF Ahead
  <2>1. /\ i - position \in (position' + 1) .. Len(dlq')
        /\ dlq'[i - position] = dlq[i]
    BY <1>1, <1>3
  <2>2. \E k \in (position' + 1) .. Len(dlq') : dlq'[k] = dlq[i]
    BY <2>1
  <2>3. QED  BY <2>2 DEF Ahead
<1>6. QED  BY <1>1, <1>3, <1>4, <1>5

(* Without it a later run finds all of them again.                         *)
LEMMA SlideNotKeepsAhead ==
  ASSUME IInv, SlideNot
  PROVE  position' = 0 /\ dlq' = dlq /\ Ahead \subseteq Ahead'
  BY DEF IInv, TypeOK, SlideNot, Ahead

(* A new dead letter lies ahead.                                           *)
LEMMA AppendIsAhead ==
  ASSUME IInv, NEW e \in Events, dlq' = Append(dlq, e),
         Len(dlq) < MaxDlq, position' = position
  PROVE  /\ dlq' \in Seq(Events) /\ Len(dlq') <= MaxDlq
         /\ position' \in 0 .. Len(dlq')
         /\ Ahead' = Ahead \cup {e}
<1>1. /\ dlq \in Seq(Events) /\ Len(dlq) \in Nat
      /\ position \in 0 .. Len(dlq) /\ MaxDlq \in Nat
  BY ReplayAssumption DEF IInv, TypeOK
<1>2. /\ dlq' \in Seq(Events) /\ Len(dlq') = Len(dlq) + 1
      /\ dlq'[Len(dlq) + 1] = e
      /\ \A i \in 1 .. Len(dlq) : dlq'[i] = dlq[i]
  BY <1>1
<1>3. Ahead' \subseteq Ahead \cup {e}
  BY <1>1, <1>2 DEF Ahead
<1>4. Ahead \cup {e} \subseteq Ahead'
  BY <1>1, <1>2 DEF Ahead
<1>5. QED  BY <1>1, <1>2, <1>3, <1>4

(* The message that is handed out moves from ahead into the hand.          *)
LEMMA HandOut ==
  ASSUME IInv, GetOne
  PROVE  /\ dlq[position + 1] \in Events
         /\ position' \in 0 .. Len(dlq)
         /\ Ahead = Ahead' \cup hand'
<1>1. /\ dlq \in Seq(Events) /\ Len(dlq) \in Nat /\ position \in Nat
      /\ position < Len(dlq) /\ position' = position + 1 /\ dlq' = dlq
      /\ hand' = {dlq[position + 1]}
  BY DEF IInv, TypeOK, GetOne
<1>2. Ahead = Ahead' \cup {dlq[position + 1]}
  BY <1>1 DEF Ahead
<1>3. QED  BY <1>1, <1>2

-----------------------------------------------------------------------------
(* The pipeline around the script                                          *)

LEMMA PipelineIInv ==
  ASSUME NEW e \in Events, IInv,
         Publish(e) \/ WriterStores(e) \/ DeadLetter(e) \/ DeadLetterTwice(e)
  PROVE  IInv'
<1>1. CASE Publish(e) \/ WriterStores(e)
  <2>1. TypeOK' /\ OneInHand' /\ RoomToReplay'
    BY <1>1 DEF Publish, WriterStores, IInv, TypeOK, OneInHand, RoomToReplay, run, history
  <2>2. Ahead' = Ahead /\ ToBeHandled' = ToBeHandled
    BY <1>1 DEF Publish, WriterStores, Ahead, ToBeHandled, run
  <2>3. AtRisk' \subseteq AtRisk /\ interruptions' = interruptions
    BY <1>1, <2>2 DEF Publish, WriterStores, AtRisk, Safe, history
  <2>4. QED  BY <2>1, <2>3, NoNewRisk DEF IInv
<1>2. CASE DeadLetter(e) \/ DeadLetterTwice(e)
  <2>1. /\ dlq' = Append(dlq, e) /\ Len(dlq) < MaxDlq
        /\ ingest \subseteq ingest' \cup {e} /\ ingest' \subseteq ingest
        /\ UNCHANGED <<stored, produced, run, history>>
    BY <1>2 DEF DeadLetter, DeadLetterTwice, pipeline
  <2>2. /\ dlq' \in Seq(Events) /\ Len(dlq') <= MaxDlq
        /\ position' \in 0 .. Len(dlq') /\ Ahead' = Ahead \cup {e}
    BY <2>1, AppendIsAhead DEF run
  <2>3. TypeOK' /\ OneInHand' /\ RoomToReplay'
    BY <2>1, <2>2 DEF IInv, TypeOK, OneInHand, RoomToReplay, run, history
  <2>4. AtRisk' \subseteq AtRisk /\ interruptions' = interruptions
    BY <2>1, <2>2 DEF AtRisk, Safe, ToBeHandled, run, history
  <2>5. QED  BY <2>3, <2>4, NoNewRisk DEF IInv
<1>3. QED  BY <1>1, <1>2

-----------------------------------------------------------------------------
(* The script                                                              *)

(* A run begins, or has nothing more to read: its hand is empty.           *)
LEMMA TurnIInv ==
  ASSUME IInv, Start \/ RunOver \/ TimesOut
  PROVE  IInv'
<1>1. /\ pc \in {"down", "read"} /\ pc' \in {"read", "stopping"}
      /\ hand = {} /\ replayed' \in {0, replayed}
      /\ UNCHANGED <<pipeline, dlq, position, hand, history>>
  BY DEF Start, RunOver, TimesOut, IInv, TypeOK
<1>2. TypeOK' /\ OneInHand' /\ RoomToReplay'
  BY <1>1, ReplayAssumption
     DEF IInv, TypeOK, OneInHand, RoomToReplay, pipeline, history
<1>3. AtRisk' \subseteq AtRisk /\ interruptions' = interruptions
  BY <1>1 DEF AtRisk, Safe, Ahead, ToBeHandled, pipeline, history
<1>4. QED  BY <1>2, <1>3, NoNewRisk DEF IInv

LEMMA GetOneIInv == IInv /\ GetOne => IInv'
<1> SUFFICES ASSUME IInv, GetOne PROVE IInv'
  OBVIOUS
<1>1. /\ hand' = {dlq[position + 1]} /\ pc' = "check" /\ dlq' = dlq
      /\ pc = "read" /\ UNCHANGED <<pipeline, replayed, history>>
  BY DEF GetOne
<1>2. /\ hand' \subseteq Events /\ OneInHand'
      /\ position' \in 0 .. Len(dlq')
  BY <1>1, HandOut DEF OneInHand
<1>3. TypeOK'
  BY <1>1, <1>2 DEF IInv, TypeOK, pipeline, history
<1>4. RoomToReplay'
  BY <1>1 DEF GetOne, RoomToReplay
<1>5. AtRisk' \subseteq AtRisk /\ interruptions' = interruptions
  BY <1>1, HandOut DEF AtRisk, Safe, ToBeHandled, pipeline, history
<1>6. QED  BY <1>2, <1>3, <1>4, <1>5, NoNewRisk DEF IInv

(* The message in hand is reported or goes out again.                      *)
LEMMA HandleIInv ==
  ASSUME NEW e \in Events, IInv, Skip(e) \/ Republish(e)
  PROVE  IInv'
<1>1. /\ pc = "check" /\ hand = {e} /\ hand' = {} /\ pc' = "commit"
      /\ e \in skipped' \cup ingest'
      /\ ingest \subseteq ingest' /\ skipped \subseteq skipped'
      /\ UNCHANGED <<stored, produced, dlq, position, interruptions>>
  BY DEF Skip, Republish, pipeline, history
<1>2. ingest' \subseteq Events /\ skipped' \subseteq Invalid
  BY DEF Skip, Republish, pipeline, history, IInv, TypeOK
<1>3. replayed' \in 0 .. Limit
  BY <1>1, ReplayAssumption
     DEF Skip, Republish, IInv, TypeOK, RoomToReplay
<1>4. TypeOK' /\ OneInHand' /\ RoomToReplay'
  BY <1>1, <1>2, <1>3 DEF IInv, TypeOK, OneInHand, RoomToReplay
<1>5. AtRisk' \subseteq AtRisk
  BY <1>1 DEF AtRisk, Safe, Ahead, ToBeHandled
<1>6. QED  BY <1>1, <1>4, <1>5, NoNewRisk DEF IInv

(* A commit, explicit or in the background, loses nothing by itself.       *)
LEMMA CommitIInv ==
  ASSUME IInv, Commit \/ AutoCommit
  PROVE  IInv'
<1>1. /\ Slide /\ UNCHANGED <<pipeline, hand, replayed, history>>
      /\ pc' = pc \/ (pc = "commit" /\ pc' = "read" /\ hand = {})
  BY DEF Commit, AutoCommit, IInv, TypeOK
<1>2. TypeOK' /\ OneInHand' /\ RoomToReplay'
  BY <1>1, SlideKeepsAhead, ReplayAssumption
     DEF IInv, TypeOK, OneInHand, RoomToReplay, pipeline, history
<1>3. AtRisk' \subseteq AtRisk /\ interruptions' = interruptions
  BY <1>1, SlideKeepsAhead
     DEF AtRisk, Safe, ToBeHandled, pipeline, history
<1>4. QED  BY <1>2, <1>3, NoNewRisk DEF IInv

(* The end of a run.  What it still had in hand has been put down to the   *)
(* interruption already.                                                   *)
LEMMA StopIInv == IInv /\ Stop => IInv'
<1> SUFFICES ASSUME IInv, Stop PROVE IInv'
  OBVIOUS
<1>1. /\ Slide \/ SlideNot
      /\ pc = "stopping" /\ pc' = "down" /\ hand' = {} /\ replayed' = 0
      /\ UNCHANGED <<pipeline, history>>
  BY DEF Stop
<1>2. /\ dlq' \in Seq(Events) /\ Len(dlq') <= MaxDlq
      /\ position' \in 0 .. Len(dlq') /\ Ahead \subseteq Ahead'
  BY <1>1, SlideKeepsAhead, SlideNotKeepsAhead, ReplayAssumption
     DEF IInv, TypeOK
<1>3. TypeOK' /\ OneInHand' /\ RoomToReplay'
  BY <1>1, <1>2, ReplayAssumption
     DEF IInv, TypeOK, OneInHand, RoomToReplay, pipeline, history
<1>4. AtRisk' \subseteq AtRisk /\ interruptions' = interruptions
  BY <1>1, <1>2 DEF AtRisk, Safe, ToBeHandled, pipeline, history
<1>5. QED  BY <1>3, <1>4, NoNewRisk DEF IInv

(* A run that ends badly: the message in hand is at risk from here on.     *)
LEMMA InterruptIInv ==
  ASSUME IInv, Interrupt \/ Kill
  PROVE  IInv'
<1>1. /\ interruptions < MaxInterruptions
      /\ interruptions' = interruptions + 1
      /\ interruptions' \in 0 .. MaxInterruptions
  BY ReplayAssumption DEF Interrupt, Kill, IInv, TypeOK
<1>2. CASE Interrupt
  <2>1. /\ ingest \subseteq ingest' /\ ingest' \subseteq ingest \cup hand
        /\ pc' = "stopping"
        /\ UNCHANGED <<stored, produced, dlq, position, hand, replayed,
                       skipped>>
    BY <1>2 DEF Interrupt
  <2>2. TypeOK' /\ OneInHand' /\ RoomToReplay'
    BY <1>1, <2>1 DEF IInv, TypeOK, OneInHand, RoomToReplay
  <2>3. AtRisk' \subseteq AtRisk \cup hand
    BY <2>1 DEF AtRisk, Safe, Ahead, ToBeHandled
  <2>4. QED  BY <1>1, <2>2, <2>3, OneNewRisk DEF IInv
<1>3. CASE Kill
  <2>1. /\ SlideNot /\ pc' = "down" /\ hand' = {} /\ replayed' = 0
        /\ UNCHANGED <<pipeline, skipped>>
    BY <1>3 DEF Kill
  <2>2. dlq' = dlq /\ position' = 0 /\ Ahead \subseteq Ahead'
    BY <2>1, SlideNotKeepsAhead
  <2>3. TypeOK' /\ OneInHand' /\ RoomToReplay'
    BY <1>1, <2>1, <2>2, ReplayAssumption
       DEF IInv, TypeOK, OneInHand, RoomToReplay, pipeline
  <2>4. AtRisk' \subseteq AtRisk \cup hand
    BY <2>1, <2>2 DEF AtRisk, Safe, ToBeHandled, pipeline
  <2>5. QED  BY <1>1, <2>3, <2>4, OneNewRisk DEF IInv
<1>4. QED  BY <1>2, <1>3

-----------------------------------------------------------------------------

(* Initially nothing has been produced.                                    *)
LEMMA InitIInv == Init => IInv
<1> SUFFICES ASSUME Init PROVE IInv
  OBVIOUS
<1>1. TypeOK /\ OneInHand /\ RoomToReplay
  BY ReplayAssumption DEF Init, TypeOK, OneInHand, RoomToReplay
<1>2. AtRisk = {}
  BY DEF Init, AtRisk
<1>3. RiskBounded
  BY <1>2, FS_EmptySet DEF Init, RiskBounded
<1>4. QED  BY <1>1, <1>3 DEF IInv

(* The invariant is inductive: one step per action.                        *)
LEMMA NextIInv == IInv /\ [Next]_vars => IInv'
<1> SUFFICES ASSUME IInv, [Next]_vars PROVE IInv'
  OBVIOUS
<1>1. ASSUME NEW e \in Events,
             Publish(e) \/ WriterStores(e) \/ DeadLetter(e)
               \/ DeadLetterTwice(e)
      PROVE  IInv'
  BY <1>1, PipelineIInv
<1>2. CASE Start \/ RunOver \/ TimesOut
  BY <1>2, TurnIInv
<1>3. CASE GetOne
  BY <1>3, GetOneIInv
<1>4. ASSUME NEW e \in Events, Skip(e) \/ Republish(e)
      PROVE  IInv'
  BY <1>4, HandleIInv
<1>5. CASE Commit \/ AutoCommit
  BY <1>5, CommitIInv
<1>6. CASE Stop
  BY <1>6, StopIInv
<1>7. CASE Interrupt \/ Kill
  BY <1>7, InterruptIInv
<1>8. CASE UNCHANGED vars
  BY <1>8 DEF vars, pipeline, run, history, IInv, TypeOK, OneInHand, RoomToReplay,
              RiskBounded, AtRisk, Safe, Ahead, ToBeHandled
<1>9. QED
  BY <1>1, <1>2, <1>3, <1>4, <1>5, <1>6, <1>7, <1>8 DEF Next, Script

(* The strengthened invariant holds in every reachable state.              *)
THEOREM InductiveInvariant == Spec => []IInv
  BY InitIInv, NextIInv, PTL DEF Spec

(* No more messages are lost than runs have ended badly, whatever the      *)
(* automatic commits do and whatever circulates.                           *)
THEOREM LossesBounded == Spec => []LossBounded
<1>1. IInv => LossBounded
  <2> SUFFICES ASSUME IInv PROVE LossBounded
    OBVIOUS
  <2>1. Lost \subseteq AtRisk
    <3>1. dlq \in Seq(Events) /\ position \in 0 .. Len(dlq)
      BY DEF IInv, TypeOK
    <3>2. Ahead \subseteq ToSet(dlq)
      BY <3>1 DEF Ahead, ToSet
    <3>3. QED  BY <3>2 DEF Lost, AtRisk, Safe, ToBeHandled
  <2>2. IsFiniteSet(Lost) /\ Cardinality(Lost) <= Cardinality(AtRisk)
    BY <2>1, FS_Subset DEF IInv, RiskBounded
  <2>3. Cardinality(Lost) \in Nat /\ Cardinality(AtRisk) \in Nat
    BY <2>2, FS_CardinalityType DEF IInv, RiskBounded
  <2>4. QED
    BY <2>2, <2>3, ReplayAssumption
       DEF IInv, RiskBounded, TypeOK, LossBounded
<1>2. QED  BY <1>1, InductiveInvariant, PTL
==============================================================================
