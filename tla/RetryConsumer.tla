---------------------------- MODULE RetryConsumer ----------------------------
(***************************************************************************)
(* BaseConsumer's own loop: every message of a poll is given to process(), *)
(* at most MaxRetries times, then to the dead-letter topic; one commit     *)
(* covers the whole poll.  MetricsConsumer and AlertConsumer extend this   *)
(* module with what their process() does.                                  *)
(***************************************************************************)
EXTENDS ConsumerGroup

CONSTANT MaxRetries   \* _run_with_retry's default, 3

ASSUME RetryAssumption == MaxRetries \in Nat \ {0}

VARIABLES
  current,  \* current[w]: the message being, or last, worked on, if any
  attempt,  \* attempt[w]: which call of process() this is
  calm      \* history: every message polled was worked on once, to its end

retryVars == <<current, attempt, calm>>
idleVars  == <<topic, owner, position, committed, running>>

RetryPlaces == {"down", "starting", "loop", "work", "process", "deadletter",
                "commit"}

RetryTypeOK ==
  /\ GroupTypeOK
  /\ pc \in [Workers -> RetryPlaces]
  /\ current \in [Workers -> SUBSET Msg]
  /\ attempt \in [Workers -> 0 .. MaxRetries]
  /\ calm \in BOOLEAN

RetryInit ==
  /\ GroupInit
  /\ current = [w \in Workers |-> {}]
  /\ attempt = [w \in Workers |-> 0]
  /\ calm = TRUE

(* Before and after the loop, the process has no message.                  *)
Idle(w) == pc[w] \in {"down", "starting", "loop"}

Publish(p, e) == Produce(p, e) /\ UNCHANGED retryVars

(* Partitions that change hands in the middle of a batch are read again.   *)
GroupChange ==
  /\ Assign \/ Reassign
  /\ calm' = (calm /\ \A w \in Workers : Idle(w))
  /\ UNCHANGED <<current, attempt>>

Lifecycle(w) ==
  /\ Start(w) \/ Started(w) \/ Signal(w) \/ StopLoop(w) \/ Poll(w)
  /\ UNCHANGED retryVars

(* A batch whose commit raised is read again after the next rebalance.     *)
CommitBatch(w) ==
  /\ Commit(w)
  /\ calm' = (calm /\ committed' = CommitOffsets(w))
  /\ UNCHANGED <<current, attempt>>

Die(w) ==
  /\ Crash(w)
  /\ current' = [current EXCEPT ![w] = {}]
  /\ attempt' = [attempt EXCEPT ![w] = 0]
  /\ calm' = (calm /\ Idle(w))

(***************************************************************************)
(* The two nested loops: partition by partition, offset by offset.  The    *)
(* partition of the last message comes first while it has messages.        *)
(***************************************************************************)
SamePartition(w) ==
  {n \in batch[w] : \E m \in current[w] : m[1] = n[1]}
Candidates(w) ==
  IF SamePartition(w) = {} THEN batch[w] ELSE SamePartition(w)

NextMessage(w) ==
  /\ pc[w] = "work"
  /\ \E m \in Candidates(w) :
       /\ \A n \in batch[w] : n[1] = m[1] => m[2] <= n[2]
       /\ current' = [current EXCEPT ![w] = {m}]
       /\ batch' = [batch EXCEPT ![w] = @ \ {m}]
  /\ attempt' = [attempt EXCEPT ![w] = 1]
  /\ pc' = [pc EXCEPT ![w] = "process"]
  /\ UNCHANGED <<idleVars, dlt, dropped, calm>>

(* process() returned.                                                     *)
Processed(w) ==
  /\ pc[w] = "process"
  /\ pc' = [pc EXCEPT ![w] = "work"]
  /\ UNCHANGED <<idleVars, batch, dlt, dropped, retryVars>>

(* process() raised, clean if it left no effect behind: sleep and call it  *)
(* again, or give the message up.                                          *)
NoMoreAttemptsLate(w) == attempt[w] > MaxRetries
NoMoreAttempts(w)     == attempt[w] = MaxRetries
ProcessRaised(w, clean) ==
  /\ pc[w] = "process"
  /\ IF NoMoreAttempts(w)
       THEN pc' = [pc EXCEPT ![w] = "deadletter"] /\ UNCHANGED attempt
       ELSE attempt' = [attempt EXCEPT ![w] = @ + 1] /\ UNCHANGED pc
  /\ calm' = (calm /\ clean)
  /\ UNCHANGED <<idleVars, batch, dlt, dropped, current>>

(* The mutant of a retry loop that swallows the last failure.              *)
GiveUpSilently(w) ==
  /\ pc[w] = "deadletter"
  /\ pc' = [pc EXCEPT ![w] = "work"]
  /\ UNCHANGED <<idleVars, batch, dlt, dropped, retryVars>>
GiveUp(w) ==
  /\ pc[w] = "deadletter"
  /\ \E m \in current[w] : SendToDeadLetter(m)
  /\ pc' = [pc EXCEPT ![w] = "work"]
  /\ UNCHANGED <<idleVars, batch, retryVars>>

(* All messages of the poll are behind: on to the commit.                  *)
BatchDone(w) ==
  /\ pc[w] = "work"
  /\ batch[w] = {}
  /\ current' = [current EXCEPT ![w] = {}]
  /\ attempt' = [attempt EXCEPT ![w] = 0]
  /\ pc' = [pc EXCEPT ![w] = "commit"]
  /\ UNCHANGED <<idleVars, batch, dlt, dropped, calm>>

LoopStep(w) ==
  Lifecycle(w) \/ NextMessage(w) \/ GiveUp(w) \/ BatchDone(w) \/ CommitBatch(w)

(* What goes on around process(), whatever it does.                        *)
LoopNext ==
  \/ \E p \in Partitions, e \in Events : Publish(p, e)
  \/ GroupChange
  \/ \E w \in Workers : LoopStep(w)

-----------------------------------------------------------------------------
(* The way through a batch                                                 *)

InBatch(w) == pc[w] \in {"work", "process", "deadletter"}

(* The places of one message, from its first call to the next message.     *)
Ahead == [process |-> 3, deadletter |-> 2, work |-> 1, commit |-> 0]

(* A step that takes w nearer to its commit: it takes up a message, leaves *)
(* one behind, or uses up one of the calls it has for it.                  *)
Nearer(w) ==
  \/ batch'[w] \in (SUBSET batch[w]) \ {batch[w]}
  \/ /\ batch'[w] = batch[w]
     /\ \/ Ahead[pc'[w]] < Ahead[pc[w]]
        \/ pc'[w] = pc[w] /\ attempt'[w] \in (attempt[w] + 1) .. MaxRetries
==============================================================================
