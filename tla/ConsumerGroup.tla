---------------------------- MODULE ConsumerGroup ----------------------------
(***************************************************************************)
(* What the three LogFoundry consumers share: the process lifecycle of     *)
(* BaseConsumer (start, signal handler, cleanup), the dead-letter route,   *)
(* and the part of Kafka they lean on - an append-only topic, a consumer   *)
(* group that assigns partitions to processes, the in-memory position that *)
(* getmany() advances and the offsets that commit() stores.                *)
(*                                                                         *)
(* A message is named by the pair <<partition, offset>>; its content is an *)
(* event, and the only thing about an event the consumers branch on is its *)
(* kind.  LogWriter and RetryConsumer extend this module with the loop     *)
(* that each runs between two polls.                                       *)
(***************************************************************************)
EXTENDS Integers, Sequences, FiniteSets

CONSTANTS
  Partitions,   \* partitions of logs.ingest
  Workers,      \* processes of one consumer group
  Nobody,       \* owner of a partition no process is assigned
  Events,       \* events that may be produced
  Kind,         \* what a consumer can do with an event, see Kinds
  MaxLen,       \* bound: length of a partition
  MaxRecords,   \* max_records of getmany()
  Faults        \* what the environment may do, see FaultNames

(***************************************************************************)
(* "row":     parses, and PostgreSQL accepts it                            *)
(* "poison":  parses, but PostgreSQL rejects it (NOT NULL, bad encoding)   *)
(* "garbage": UTF-8 text that is not an event                              *)
(* "binary":  not even UTF-8                                               *)
(***************************************************************************)
Kinds == {"row", "poison", "garbage", "binary"}

FaultNames == {"crash", "signal", "rebalance", "commit", "deadletter",
               "statement", "pool", "redis", "alert"}

ASSUME GroupAssumption ==
  /\ Nobody \notin Workers
  /\ Kind \in [Events -> Kinds]
  /\ MaxLen \in Nat
  /\ MaxRecords \in Nat
  /\ Faults \subseteq FaultNames

ASSUME FiniteAssumption == IsFiniteSet(Partitions) /\ IsFiniteSet(Workers)

Offsets == 0 .. (MaxLen - 1)
Msg     == Partitions \X Offsets

VARIABLES
  topic,      \* topic[p]: the events appended to p
  owner,      \* owner[p]: the process p is assigned to
  position,   \* position[p]: next offset getmany() of p's owner returns
  committed,  \* committed[p]: offset stored by the group coordinator
  pc,         \* pc[w]: where process w is
  running,    \* running[w]: BaseConsumer._running
  batch,      \* batch[w]: messages of the last getmany() not yet worked on
  dlt,        \* messages with an envelope in logs.dead-letter
  dropped     \* messages whose dead-letter send raised and was logged

groupVars == <<topic, owner, position, committed, pc, running, batch, dlt,
               dropped>>

EventOf(m) == topic[m[1]][m[2] + 1]
KindOf(m)  == Kind[EventOf(m)]

Produced   == {m \in Msg : m[2] < Len(topic[m[1]])}
Committed  == {m \in Msg : m[2] < committed[m[1]]}

GroupTypeOK ==
  /\ topic \in [Partitions -> Seq(Events)]
  /\ \A p \in Partitions : Len(topic[p]) <= MaxLen
  /\ owner \in [Partitions -> Workers \cup {Nobody}]
  /\ position \in [Partitions -> 0 .. MaxLen]
  /\ committed \in [Partitions -> 0 .. MaxLen]
  /\ running \in [Workers -> BOOLEAN]
  /\ batch \in [Workers -> SUBSET Msg]
  /\ dlt \subseteq Msg
  /\ dropped \subseteq Msg

GroupInit ==
  /\ topic = [p \in Partitions |-> <<>>]
  /\ owner = [p \in Partitions |-> Nobody]
  /\ position = [p \in Partitions |-> 0]
  /\ committed = [p \in Partitions |-> 0]
  /\ pc = [w \in Workers |-> "down"]
  /\ running = [w \in Workers |-> FALSE]
  /\ batch = [w \in Workers |-> {}]
  /\ dlt = {}
  /\ dropped = {}

-----------------------------------------------------------------------------
(* Kafka                                                                   *)

(* A producer (the gateway, or the dead-letter replay) appends an event.   *)
Produce(p, e) ==
  /\ Len(topic[p]) < MaxLen
  /\ topic' = [topic EXCEPT ![p] = Append(@, e)]
  /\ UNCHANGED <<owner, position, committed, pc, running, batch,
                 dlt, dropped>>

(* Where a new owner starts: at the committed offset, else at the earliest.*)
StartAtBeginning == [p \in Partitions |-> 0]
StartAtLatest    == [p \in Partitions |-> Len(topic[p])]
StartOffsets     == committed

(***************************************************************************)
(* An eager rebalance: every partition gets a new owner among the live     *)
(* members, and every owner starts again at its start offset.  It runs in  *)
(* the client's background task, so it can come between any two awaits of  *)
(* a process that is still working on an earlier batch.                    *)
(***************************************************************************)
Rebalance ==
  /\ owner' \in [Partitions -> {w \in Workers : pc[w] # "down"}]
  /\ position' = StartOffsets
  /\ UNCHANGED <<topic, committed, pc, running, batch, dlt,
                 dropped>>

(* Members joined or left, and some partition has nobody to read it.       *)
Assign == (\E p \in Partitions : owner[p] = Nobody) /\ Rebalance

(* A session or a poll interval expired, or another member joined.         *)
Reassign == "rebalance" \in Faults /\ Rebalance

(* What the group stores for w: the positions of what w owns now.          *)
CommitOffsets(w) ==
  [p \in Partitions |-> IF owner[p] = w THEN position[p] ELSE committed[p]]

(* A process that leaves the group gives its partitions up.                *)
Relinquish(w) ==
  [p \in Partitions |-> IF owner[p] = w THEN Nobody ELSE owner[p]]

-----------------------------------------------------------------------------
(* The life of a process                                                   *)

(* start(): the signal handlers are in place, the Kafka clients are not.   *)
Start(w) ==
  /\ pc[w] = "down"
  /\ pc' = [pc EXCEPT ![w] = "starting"]
  /\ running' = [running EXCEPT ![w] = FALSE]
  /\ UNCHANGED <<topic, owner, position, committed, batch, dlt, dropped>>

(* start() resumes after both clients are up and sets _running.            *)
Started(w) ==
  /\ pc[w] = "starting"
  /\ pc' = [pc EXCEPT ![w] = "loop"]
  /\ running' = [running EXCEPT ![w] = TRUE]
  /\ UNCHANGED <<topic, owner, position, committed, batch, dlt,
                 dropped>>

(* _handle_shutdown_signal(), between any two awaits of the process.       *)
Signal(w) ==
  /\ "signal" \in Faults
  /\ pc[w] # "down"
  /\ running' = [running EXCEPT ![w] = FALSE]
  /\ UNCHANGED <<topic, owner, position, committed, pc, batch, dlt, dropped>>

(* The loop finds _running unset; _cleanup() leaves without a commit.      *)
StopAtOnce(w) ==
  /\ pc[w] \notin {"down", "starting"}
  /\ ~running[w]
  /\ pc' = [pc EXCEPT ![w] = "down"]
  /\ owner' = Relinquish(w)
  /\ UNCHANGED <<topic, position, committed, running, batch, dlt,
                 dropped>>
StopLoop(w) ==
  /\ pc[w] = "loop"
  /\ ~running[w]
  /\ pc' = [pc EXCEPT ![w] = "down"]
  /\ owner' = Relinquish(w)
  /\ UNCHANGED <<topic, position, committed, running, batch, dlt,
                 dropped>>

(* The process dies wherever it is, with what it held in memory.           *)
Crash(w) ==
  /\ "crash" \in Faults
  /\ pc[w] # "down"
  /\ pc' = [pc EXCEPT ![w] = "down"]
  /\ running' = [running EXCEPT ![w] = FALSE]
  /\ batch' = [batch EXCEPT ![w] = {}]
  /\ owner' = Relinquish(w)
  /\ UNCHANGED <<topic, position, committed, dlt, dropped>>

-----------------------------------------------------------------------------
(* The steps of the consume loop that both consumers have                  *)

(* What getmany() may leave as the next offset of p when w calls it.       *)
Fetchable(w, p) ==
  IF owner[p] = w THEN position[p] .. Len(topic[p]) ELSE {position[p]}

(* The messages between two vectors of offsets.                            *)
Between(from, upto) == {m \in Msg : m[2] >= from[m[1]] /\ m[2] < upto[m[1]]}

(* enable_auto_commit=False: a poll by itself stores no offset.            *)
AutoCommitOn(w) ==
  [p \in Partitions |-> IF owner[p] = w THEN position'[p] ELSE committed[p]]
AutoCommit(w) == committed

(***************************************************************************)
(* getmany() returns records of the partitions w owns and moves their      *)
(* positions past them.  An empty result changes nothing.                  *)
(***************************************************************************)
Poll(w) ==
  /\ pc[w] = "loop"
  /\ running[w]
  /\ position' \in [Partitions -> 0 .. MaxLen]
  /\ \A p \in Partitions : position'[p] \in Fetchable(w, p)
  /\ Between(position, position') # {}
  /\ Cardinality(Between(position, position')) <= MaxRecords
  /\ batch' = [batch EXCEPT ![w] = Between(position, position')]
  /\ committed' = AutoCommit(w)
  /\ pc' = [pc EXCEPT ![w] = "work"]
  /\ UNCHANGED <<topic, owner, running, dlt, dropped>>

(* commit(); when it raises, the loop logs the error and polls again.      *)
Commit(w) ==
  /\ pc[w] = "commit"
  /\ \/ committed' = CommitOffsets(w)
     \/ "commit" \in Faults /\ UNCHANGED committed
  /\ pc' = [pc EXCEPT ![w] = "loop"]
  /\ UNCHANGED <<topic, owner, position, running, batch, dlt,
                 dropped>>

(***************************************************************************)
(* _send_to_dead_letter(m) builds an envelope of text, which a value that  *)
(* is not UTF-8 cannot enter, and waits for the broker.  Whatever raises   *)
(* is logged and the message is given up.                                  *)
(***************************************************************************)
SendToDeadLetter(m) ==
  \/ KindOf(m) # "binary" /\ dlt' = dlt \cup {m} /\ UNCHANGED dropped
  \/ /\ KindOf(m) = "binary" \/ "deadletter" \in Faults
     /\ dropped' = dropped \cup {m}
     /\ UNCHANGED dlt
==============================================================================
