----------------------------- MODULE DurableLog ------------------------------
(***************************************************************************)
(* What LogFoundry promises of a consumer of logs.ingest: an offset is     *)
(* committed only past messages whose fate is settled, nothing settled is  *)
(* undone, and committed offsets never go back.  Processes, batches,       *)
(* retries and rebalances are the implementation's business.               *)
(***************************************************************************)
EXTENDS Integers

CONSTANTS Partitions, MaxLen

VARIABLES
  produced,   \* messages <<partition, offset>> in the topic
  settled,    \* messages whose effect, or whose loss, is on record
  committed   \* offset stored for each partition

vars == <<produced, settled, committed>>

Message == Partitions \X (0 .. (MaxLen - 1))

Below(c) == {m \in Message : m[2] < c[m[1]]}

Init ==
  /\ produced = {}
  /\ settled = {}
  /\ committed = [p \in Partitions |-> 0]

(* A message that repeats a stored event may be settled on arrival.        *)
Append(m) ==
  /\ produced' = produced \cup {m}
  /\ settled' \in {settled, settled \cup {m}}
  /\ UNCHANGED committed

(* Some of what was produced and is not settled yet is settled now.        *)
Settle ==
  /\ settled' \in SUBSET produced
  /\ settled \subseteq settled'
  /\ UNCHANGED <<produced, committed>>

Commit ==
  /\ committed' \in [Partitions -> 0 .. MaxLen]
  /\ \A p \in Partitions : committed[p] <= committed'[p]
  /\ Below(committed') \subseteq settled
  /\ UNCHANGED <<produced, settled>>

Next ==
  \/ \E m \in Message \ produced : Append(m)
  \/ Settle
  \/ Commit

Spec == Init /\ [][Next]_vars

(* Whatever is behind a committed offset was produced and settled.         *)
NothingSkipped == Below(committed) \subseteq settled /\ settled \subseteq produced
==============================================================================
