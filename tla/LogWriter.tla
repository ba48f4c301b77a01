------------------------------ MODULE LogWriter ------------------------------
(***************************************************************************)
(* LogWriterConsumer: the consumer group that moves logs.ingest into the   *)
(* logs table.  Per polled partition it inserts all parseable events in    *)
(* one transaction, falls back to single inserts when that fails, sends    *)
(* what is left to logs.dead-letter, and commits after the last partition. *)
(***************************************************************************)
EXTENDS ConsumerGroup

CONSTANT FallbackCap   \* bound: batch_insert_fallback_total saturates here

ASSUME FallbackAssumption == FallbackCap \in Nat

VARIABLES
  pending,        \* pending[w]: valid_messages (with rows) not yet inserted
  failed,         \* failed[w]: failed_messages not yet routed
  stored,         \* events with a row in logs (the key is the event's)
  fallbackTotal,  \* metrics:batch_insert_fallback_total
  abandoned       \* history: messages in hand when the outer except ran

writerVars == <<pending, failed, stored, fallbackTotal, abandoned>>
vars       == <<groupVars, writerVars>>

Places == {"down", "starting", "loop", "work", "batch", "acquire", "single",
           "release", "deadletter", "commit"}

TypeOK ==
  /\ GroupTypeOK
  /\ pc \in [Workers -> Places]
  /\ pending \in [Workers -> SUBSET Msg]
  /\ failed \in [Workers -> SUBSET Msg]
  /\ stored \subseteq Events
  /\ fallbackTotal \in 0 .. FallbackCap
  /\ abandoned \subseteq Msg

Init ==
  /\ GroupInit
  /\ pending = [w \in Workers |-> {}]
  /\ failed = [w \in Workers |-> {}]
  /\ stored = {}
  /\ fallbackTotal = 0
  /\ abandoned = {}

(* Everything the process still holds of its last poll.                    *)
InHand(w) == batch[w] \cup pending[w] \cup failed[w]

(* json.loads, UUID and fromisoformat accept the value.                    *)
Parses(m) == KindOf(m) \in {"row", "poison"}

(* The order in which one partition's list is walked.                      *)
IsFirst(m, S) == m \in S /\ \A n \in S : m[2] <= n[2]

(* failed_messages: the unparseable ones first, then those single-row      *)
(* inserts rejected.                                                       *)
NextFailed(m, S) ==
  IF \E n \in S : ~Parses(n) THEN IsFirst(m, {n \in S : ~Parses(n)})
                             ELSE IsFirst(m, S)

-----------------------------------------------------------------------------
(* Kafka and the process, around the loop                                  *)

Publish(p, e) == Produce(p, e) /\ UNCHANGED writerVars
GroupChange   == (Assign \/ Reassign) /\ UNCHANGED writerVars

Live(w) ==
  /\ Start(w) \/ Started(w) \/ Signal(w) \/ StopLoop(w) \/ Poll(w) \/ Commit(w)
  /\ UNCHANGED writerVars

Die(w) ==
  /\ Crash(w)
  /\ pending' = [pending EXCEPT ![w] = {}]
  /\ failed' = [failed EXCEPT ![w] = {}]
  /\ UNCHANGED <<stored, fallbackTotal, abandoned>>

-----------------------------------------------------------------------------
(* One partition of a polled batch                                         *)

loopVars == <<topic, owner, position, committed, running>>

(* The next (tp, batch) pair: parse every value, note the failures.        *)
ParsePartition(w) ==
  /\ pc[w] = "work"
  /\ \E p \in Partitions :
       LET mine == {m \in batch[w] : m[1] = p} IN
       /\ mine # {}
       /\ batch' = [batch EXCEPT ![w] = @ \ mine]
       /\ pending' = [pending EXCEPT ![w] = {m \in mine : Parses(m)}]
       /\ failed' = [failed EXCEPT ![w] = {m \in mine : ~Parses(m)}]
       /\ pc' = [pc EXCEPT ![w] = IF \E m \in mine : Parses(m)
                                  THEN "batch" ELSE "deadletter"]
  /\ UNCHANGED <<loopVars, dlt, dropped, stored, fallbackTotal, abandoned>>

(* INSERT ... ON CONFLICT (id, timestamp) DO NOTHING                       *)
InsertRowsByMessage(S) == stored \cup S
InsertRows(S) == stored \cup {EventOf(m) : m \in S}

(* What PostgreSQL accepts, and whether S holds something it rejects.      *)
Accepted(S) == {m \in S : KindOf(m) # "poison"}
Poisoned(S) == Accepted(S) # S

(* executemany() in one transaction, committed.                            *)
BatchInsert(w) ==
  /\ pc[w] = "batch"
  /\ ~Poisoned(pending[w])
  /\ stored' = InsertRows(pending[w])
  /\ pending' = [pending EXCEPT ![w] = {}]
  /\ pc' = [pc EXCEPT ![w] = "deadletter"]
  /\ UNCHANGED <<loopVars, batch, dlt, dropped, failed, fallbackTotal,
                 abandoned>>

(* Without a fallback the whole batch would be routed.                     *)
BatchInsertFailsWhole(w) ==
  /\ pc[w] = "batch"
  /\ Poisoned(pending[w]) \/ "statement" \in Faults
  /\ failed' = [failed EXCEPT ![w] = @ \cup pending[w]]
  /\ pending' = [pending EXCEPT ![w] = {}]
  /\ pc' = [pc EXCEPT ![w] = "deadletter"]
  /\ UNCHANGED <<loopVars, batch, dlt, dropped, stored, fallbackTotal,
                 abandoned>>

(***************************************************************************)
(* The transaction raises: it rolled back, or (a fault) it committed and   *)
(* the answer was lost.  The counter is incremented unless Redis fails,    *)
(* which is swallowed.                                                     *)
(***************************************************************************)
BatchInsertFails(w) ==
  /\ pc[w] = "batch"
  /\ \/ (Poisoned(pending[w]) \/ "statement" \in Faults) /\ UNCHANGED stored
     \/ /\ "statement" \in Faults /\ ~Poisoned(pending[w])
        /\ stored' = InsertRows(pending[w])
  /\ fallbackTotal' \in {fallbackTotal} \cup
                        ({fallbackTotal + 1} \cap (0 .. FallbackCap))
  /\ pc' = [pc EXCEPT ![w] = "acquire"]
  /\ UNCHANGED <<loopVars, batch, dlt, dropped, pending, failed, abandoned>>

(* pool.acquire() for the fallback, outside the inner try.                 *)
AcquireForFallback(w) ==
  /\ pc[w] = "acquire"
  /\ pc' = [pc EXCEPT ![w] = "single"]
  /\ UNCHANGED <<loopVars, batch, dlt, dropped, writerVars>>

(* execute() raised: the row is given up and the message is appended to    *)
(* failed_messages.                                                        *)
RejectedUnrecorded(w, m) ==
  pending' = [pending EXCEPT ![w] = @ \ {m}] /\ UNCHANGED failed
RejectedRetried(w, m) == UNCHANGED <<pending, failed>>
Rejected(w, m) ==
  /\ pending' = [pending EXCEPT ![w] = @ \ {m}]
  /\ failed' = [failed EXCEPT ![w] = @ \cup {m}]

Inserted(w, m) ==
  pending' = [pending EXCEPT ![w] = @ \ {m}] /\ UNCHANGED failed

(* One execute() of the fallback; each is a transaction of its own.        *)
InsertSingle(w) ==
  /\ pc[w] = "single"
  /\ \E m \in pending[w] :
       /\ IsFirst(m, pending[w])
       /\ \/ /\ KindOf(m) # "poison"
             /\ stored' = InsertRows({m})
             /\ Inserted(w, m)
          \/ /\ KindOf(m) = "poison" \/ "statement" \in Faults
             /\ UNCHANGED stored \/ stored' = InsertRows(Accepted({m}))
             /\ Rejected(w, m)
  /\ UNCHANGED <<loopVars, pc, batch, dlt, dropped, fallbackTotal, abandoned>>

EndFallback(w) ==
  /\ pc[w] = "single"
  /\ pending[w] = {}
  /\ pc' = [pc EXCEPT ![w] = "release"]
  /\ UNCHANGED <<loopVars, batch, dlt, dropped, writerVars>>

(* The connection goes back to the pool.                                   *)
ReleaseAfterFallback(w) ==
  /\ pc[w] = "release"
  /\ pc' = [pc EXCEPT ![w] = "deadletter"]
  /\ UNCHANGED <<loopVars, batch, dlt, dropped, writerVars>>

(***************************************************************************)
(* The pool raises at the fallback's "async with": the outer except logs,  *)
(* and the loop polls on.  getmany() has already moved the positions.      *)
(***************************************************************************)
LoopError(w) ==
  /\ "pool" \in Faults
  /\ pc[w] \in {"acquire", "release"}
  /\ abandoned' = abandoned \cup InHand(w)
  /\ batch' = [batch EXCEPT ![w] = {}]
  /\ pending' = [pending EXCEPT ![w] = {}]
  /\ failed' = [failed EXCEPT ![w] = {}]
  /\ pc' = [pc EXCEPT ![w] = "loop"]
  /\ UNCHANGED <<loopVars, dlt, dropped, stored, fallbackTotal>>

DeadLetter(w) ==
  /\ pc[w] = "deadletter"
  /\ \E m \in failed[w] :
       /\ NextFailed(m, failed[w])
       /\ SendToDeadLetter(m)
       /\ failed' = [failed EXCEPT ![w] = @ \ {m}]
  /\ UNCHANGED <<loopVars, pc, batch, pending, stored, fallbackTotal,
                 abandoned>>

(* failed_messages is done: the next partition, or the commit.             *)
FinishEachPartition(w) ==
  /\ pc[w] = "deadletter"
  /\ failed[w] = {}
  /\ pc' = [pc EXCEPT ![w] = "commit"]
  /\ UNCHANGED <<loopVars, batch, dlt, dropped, writerVars>>
FinishPartition(w) ==
  /\ pc[w] = "deadletter"
  /\ failed[w] = {}
  /\ pc' = [pc EXCEPT ![w] = IF batch[w] = {} THEN "commit" ELSE "work"]
  /\ UNCHANGED <<loopVars, batch, dlt, dropped, writerVars>>

WorkOnBatch(w) ==
  \/ ParsePartition(w)
  \/ BatchInsert(w)
  \/ BatchInsertFails(w)
  \/ AcquireForFallback(w)
  \/ InsertSingle(w)
  \/ EndFallback(w)
  \/ ReleaseAfterFallback(w)
  \/ LoopError(w)
  \/ DeadLetter(w)
  \/ FinishPartition(w)

Next ==
  \/ \E p \in Partitions, e \in Events : Publish(p, e)
  \/ GroupChange
  \/ \E w \in Workers : Live(w) \/ Die(w) \/ WorkOnBatch(w)

Spec == Init /\ [][Next]_vars

-----------------------------------------------------------------------------
(* Properties                                                              *)

Stored  == {m \in Produced : EventOf(m) \in stored}
Settled == Stored \cup dlt \cup dropped \cup abandoned

(***************************************************************************)
(* Behind a committed offset every message is a row, is dead-lettered, or  *)
(* was given up at one of the two places that log it: no crash, rebalance  *)
(* or partial batch lets a commit pass a message nobody dealt with.        *)
(***************************************************************************)
AccountedFor == Committed \subseteq Settled

(***************************************************************************)
(* At-least-once, "commit only after the insert": behind a committed       *)
(* offset every message is a row or is in logs.dead-letter.                *)
(***************************************************************************)
AtLeastOnce == Committed \subseteq Stored \cup dlt

(***************************************************************************)
(* The fallback isolates the poison pill: while PostgreSQL only rejects    *)
(* poison, no good row is dragged into the dead-letter topic with it.      *)
(***************************************************************************)
PoisonIsolated == \A m \in dlt \cup dropped : KindOf(m) # "row"

(***************************************************************************)
(* Offsets only grow: a process that lost its partitions in a rebalance    *)
(* and finishes the batch it still holds cannot move the group back.       *)
(***************************************************************************)
CommitNeverRetreats ==
  [][\A p \in Partitions : committed[p] <= committed'[p]]_vars

(***************************************************************************)
(* Graceful shutdown drains: when the loop ends on a signal, all that was  *)
(* polled from the partitions the process gives up has been committed.     *)
(***************************************************************************)
Drained(w) == \A p \in Partitions :
                owner[p] = w /\ owner'[p] # w => committed[p] = position[p]
DrainedBeforeStop == [][\A w \in Workers : StopLoop(w) => Drained(w)]_vars

(***************************************************************************)
(* Every batch comes to its commit, or is given up by the outer except:    *)
(* whatever fails, a step that changes what a living process has in hand   *)
(* takes it past a partition, a stage of the work on one, or a row.        *)
(***************************************************************************)
Ahead == [batch |-> 6, acquire |-> 5, single |-> 4, release |-> 3,
          deadletter |-> 2, work |-> 1, commit |-> 0]
InBatch(w) == pc[w] \in DOMAIN Ahead \ {"commit"}
Hands(w)   == <<pc[w], batch[w], pending[w], failed[w]>>
Nearer(w) ==
  \/ batch'[w] \in (SUBSET batch[w]) \ {batch[w]}
  \/ /\ UNCHANGED batch[w]
     /\ \/ Ahead[pc'[w]] < Ahead[pc[w]]
        \/ /\ UNCHANGED pc[w]
           /\ \/ pending'[w] \in (SUBSET pending[w]) \ {pending[w]}
              \/ /\ UNCHANGED pending[w]
                 /\ failed'[w] \in (SUBSET failed[w]) \ {failed[w]}
BatchEnds ==
  [][\A w \in Workers : InBatch(w) =>
       UNCHANGED Hands(w) \/ pc'[w] \in {"down", "loop"} \/ Nearer(w)]_vars

(* The loop implements the abstract durable log.                           *)
DL == INSTANCE DurableLog WITH produced <- Produced, settled <- Settled
ImplementsDurableLog == DL!Spec

-----------------------------------------------------------------------------
(* The inductive invariant behind AccountedFor                             *)

OffsetsOrdered ==
  \A p \in Partitions :
    committed[p] <= position[p] /\ position[p] <= Len(topic[p])

(* Only produced messages are held, or recorded.                           *)
OnlyProduced ==
  /\ \A w \in Workers : InHand(w) \subseteq Produced
  /\ dlt \cup dropped \cup abandoned \subseteq Produced

(* Between two batches the process holds nothing; before a partition is    *)
(* parsed, nothing of an earlier one.                                      *)
HandsEmpty ==
  \A w \in Workers :
    /\ pc[w] \in {"down", "starting", "loop", "commit"} => batch[w] = {}
    /\ pc[w] \notin {"batch", "acquire", "single"} => pending[w] = {}
    /\ pc[w] \in {"down", "starting", "loop", "work", "commit"} =>
         failed[w] = {}

(* The messages of p past the committed offset that its owner has polled.  *)
InFlight(p) == {m \in Msg : /\ m[1] = p
                            /\ m[2] >= committed[p]
                            /\ m[2] < position[p]}

(* What an owner polled and did not settle is still in its hands.          *)
NothingForgotten ==
  \A p \in Partitions :
    owner[p] \in Workers => InFlight(p) \subseteq Settled \cup InHand(owner[p])

(***************************************************************************)
(* The strengthening of AccountedFor that every step preserves: a commit   *)
(* stores the owner's positions, so it is right only because everything    *)
(* polled is settled or in hand, and at "commit" the hands are empty.      *)
(***************************************************************************)
IInv == /\ TypeOK
        /\ OffsetsOrdered
        /\ OnlyProduced
        /\ HandsEmpty
        /\ NothingForgotten
        /\ AccountedFor

-----------------------------------------------------------------------------
(* Liveness                                                                *)

(***************************************************************************)
(* Each process is one asyncio task whose awaits all return or raise       *)
(* (PostgreSQL commands time out after 30 s), so its next step comes.  The *)
(* operator starts processes that are down, and the coordinator assigns    *)
(* what nobody owns.                                                       *)
(***************************************************************************)
Works(w) == (Started(w) \/ StopLoop(w) \/ Poll(w) \/ Commit(w))
            /\ UNCHANGED writerVars

Fairness ==
  /\ WF_vars(Assign /\ UNCHANGED writerVars)
  /\ \A w \in Workers :
       /\ WF_vars(Start(w) /\ UNCHANGED writerVars)
       /\ WF_vars(Works(w) \/ WorkOnBatch(w))

FairSpec == Spec /\ Fairness

(* From some point on no process dies or is stopped and no member joins or *)
(* leaves.  Statements and commits may go on failing.                      *)
Disturbance == Reassign \/ \E w \in Workers : Crash(w) \/ Signal(w)
Quiet       == <>[][~Disturbance]_vars

(***************************************************************************)
(* "Quarantined ... without halting the consumer group": once the          *)
(* disturbances end every produced message becomes a row or a dead letter, *)
(* poison or not, and wherever a process died while holding it.            *)
(***************************************************************************)
Progress == Quiet => \A m \in Msg : m \in Produced ~> m \in Stored \cup dlt

(***************************************************************************)
(* A process that sees _running unset ends, however many partitions and    *)
(* failed messages its current batch still has.                            *)
(***************************************************************************)
Serving(w) == pc[w] \notin {"down", "starting"}
ShutdownTerminates ==
  \A w \in Workers : Serving(w) /\ ~running[w] ~> pc[w] = "down"
==============================================================================
