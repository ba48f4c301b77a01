------------------------------ MODULE ReplayDlq ------------------------------
(***************************************************************************)
(* The dead-letter replayer, run by hand now and then, and the circle it   *)
(* closes: logs.ingest -> log writer -> logs.dead-letter -> replayer ->    *)
(* logs.ingest.  Its consumer commits explicitly after every message, and, *)
(* enable_auto_commit being aiokafka's default, in the background and in   *)
(* stop() as well.                                                         *)
(*                                                                         *)
(* The writer is taken to do what LogWriter shows of it: it stores a       *)
(* message or dead-letters it.  logs.dead-letter is taken as one FIFO      *)
(* partition (docker-compose.yml gives a topic three, between which a poll *)
(* takes turns), of which only the messages from the committed offset on   *)
(* are kept.                                                               *)
(***************************************************************************)
EXTENDS SequencesExt

CONSTANTS
  Rows,             \* events the writer can insert
  Rejected,         \* valid to the replayer, not to the writer: poison, or
                    \* no id or timestamp (LogEvent fills those in)
  Invalid,          \* the replayer rejects them too
  Limit,            \* --limit
  MaxDlq,           \* bound: dead letters not yet committed
  MaxInterruptions  \* bound: runs that end badly

Events == Rows \cup Rejected \cup Invalid

ASSUME ReplayAssumption ==
  /\ Rows \cap (Rejected \cup Invalid) = {} /\ Rejected \cap Invalid = {}
  /\ Limit \in Nat \ {0} /\ MaxDlq \in Nat /\ MaxInterruptions \in Nat

VARIABLES
  ingest,        \* events in logs.ingest the writer has not committed
  stored,        \* events with a row
  dlq,           \* logs.dead-letter from the group's committed offset on
  pc,            \* "down", "read", "check", "commit", "stopping"
  position,      \* messages of dlq the running consumer has handed out
  hand,          \* {} or {msg}: read, neither re-published nor skipped
  replayed,      \* the run's counter
  produced,      \* history: events ever ingested
  skipped,       \* history: events the replayer has logged and given up
  interruptions  \* history: runs that ended badly

pipeline == <<ingest, stored, produced>>
run      == <<pc, position, hand, replayed>>
history  == <<skipped, interruptions>>
vars     == <<pipeline, dlq, run, history>>

TypeOK ==
  /\ ingest \cup produced \subseteq Events /\ stored \subseteq Rows
  /\ dlq \in Seq(Events) /\ Len(dlq) <= MaxDlq
  /\ pc \in {"down", "read", "check", "commit", "stopping"}
  /\ position \in 0 .. Len(dlq)
  /\ hand \subseteq Events /\ (hand # {} => pc \in {"check", "stopping"})
  /\ replayed \in 0 .. Limit
  /\ skipped \subseteq Invalid
  /\ interruptions \in 0 .. MaxInterruptions

Init ==
  /\ ingest = {} /\ stored = {} /\ produced = {}
  /\ dlq = << >>
  /\ pc = "down" /\ position = 0 /\ hand = {} /\ replayed = 0
  /\ skipped = {} /\ interruptions = 0

-----------------------------------------------------------------------------
(* The pipeline around the script                                          *)

Publish(e) ==
  /\ e \notin produced
  /\ produced' = produced \cup {e}
  /\ ingest' = ingest \cup {e}
  /\ UNCHANGED <<stored, dlq, run, history>>

(* ON CONFLICT DO NOTHING for a row that is there.                         *)
WriterStores(e) ==
  /\ e \in ingest \cap Rows
  /\ stored' = stored \cup {e}
  /\ ingest' = ingest \ {e}
  /\ UNCHANGED <<produced, dlq, run, history>>

(* Always for what the writer cannot insert, after a failed statement for  *)
(* a row.                                                                  *)
DeadLetter(e) ==
  /\ e \in ingest /\ Len(dlq) < MaxDlq
  /\ dlq' = Append(dlq, e)
  /\ ingest' = ingest \ {e}
  /\ UNCHANGED <<stored, produced, run, history>>

(* The message comes again: the writer died before its commit, or another  *)
(* group on the topic has dead-lettered it.                                *)
DeadLetterTwice(e) ==
  /\ e \in ingest /\ Len(dlq) < MaxDlq
  /\ dlq' = Append(dlq, e)
  /\ UNCHANGED <<pipeline, run, history>>

-----------------------------------------------------------------------------
(* replay_dlq()                                                            *)

(* The group's committed offset becomes the position of the consumer.      *)
Slide == dlq' = SubSeq(dlq, position + 1, Len(dlq)) /\ position' = 0
SlideNot == UNCHANGED dlq /\ position' = 0

(* auto_offset_reset="latest" would skip what is there.                    *)
StartLatest ==
  /\ pc = "down"
  /\ pc' = "read" /\ replayed' = 0 /\ position' = Len(dlq)
  /\ UNCHANGED <<pipeline, dlq, hand, history>>
Start ==
  /\ pc = "down"
  /\ pc' = "read" /\ replayed' = 0
  /\ UNCHANGED <<pipeline, dlq, position, hand, history>>

GetOne ==
  /\ pc = "read" /\ replayed < Limit /\ position < Len(dlq)
  /\ position' = position + 1
  /\ hand' = {dlq[position + 1]}
  /\ pc' = "check"
  /\ UNCHANGED <<pipeline, dlq, replayed, history>>

(* The limit is reached, or getone() has found nothing for 5 seconds.      *)
RunOver ==
  /\ pc = "read" /\ (replayed = Limit \/ position = Len(dlq))
  /\ pc' = "stopping"
  /\ UNCHANGED <<pipeline, dlq, position, hand, replayed, history>>

(* The broker takes those 5 seconds to answer, though there is more.       *)
TimesOut ==
  /\ pc = "read" /\ replayed < Limit /\ position < Len(dlq)
  /\ pc' = "stopping"
  /\ UNCHANGED <<pipeline, dlq, position, hand, replayed, history>>

(* No JSON, no original_value, no valid LogEvent: logged.                  *)
Skip(e) ==
  /\ pc = "check" /\ hand = {e} /\ e \in Invalid
  /\ skipped' = skipped \cup {e}
  /\ hand' = {} /\ pc' = "commit"
  /\ UNCHANGED <<pipeline, dlq, position, replayed, interruptions>>

(* send_and_wait(): what was read goes out again, not what was validated.  *)
RepublishUncounted(e) ==
  /\ pc = "check" /\ hand = {e} /\ e \notin Invalid
  /\ ingest' = ingest \cup {e}
  /\ hand' = {} /\ pc' = "commit"
  /\ UNCHANGED <<stored, produced, dlq, position, replayed, history>>
Republish(e) ==
  /\ pc = "check" /\ hand = {e} /\ e \notin Invalid
  /\ ingest' = ingest \cup {e}
  /\ replayed' = replayed + 1
  /\ hand' = {} /\ pc' = "commit"
  /\ UNCHANGED <<stored, produced, dlq, position, history>>

CommitNothing ==
  /\ pc = "commit"
  /\ pc' = "read"
  /\ UNCHANGED <<pipeline, dlq, position, hand, replayed, history>>
Commit ==
  /\ pc = "commit"
  /\ Slide
  /\ pc' = "read"
  /\ UNCHANGED <<pipeline, hand, replayed, history>>

(* Every 5 seconds, whatever became of the message in hand.                *)
AutoCommit ==
  /\ pc # "down" /\ position > 0
  /\ Slide
  /\ UNCHANGED <<pipeline, pc, hand, replayed, history>>

(* An await raises or is cancelled; no except clause of the loop catches   *)
(* that.  A send may have reached the topic nevertheless.                  *)
Interrupt ==
  /\ pc \in {"read", "check", "commit"} /\ interruptions < MaxInterruptions
  /\ ingest' \in {ingest, ingest \cup (hand \ Invalid)}
  /\ pc' = "stopping"
  /\ interruptions' = interruptions + 1
  /\ UNCHANGED <<stored, produced, dlq, position, hand, replayed, skipped>>

(* The finally block.  consumer.stop() commits a last time, unless that    *)
(* fails or producer.stop() has raised.                                    *)
Stop ==
  /\ pc = "stopping"
  /\ Slide \/ SlideNot
  /\ pc' = "down" /\ hand' = {} /\ replayed' = 0
  /\ UNCHANGED <<pipeline, history>>

(* The process dies on the spot.                                           *)
Kill ==
  /\ pc # "down" /\ interruptions < MaxInterruptions
  /\ SlideNot
  /\ pc' = "down" /\ hand' = {} /\ replayed' = 0
  /\ interruptions' = interruptions + 1
  /\ UNCHANGED <<pipeline, skipped>>

Script ==
  \/ GetOne \/ RunOver \/ Commit \/ Stop
  \/ \E e \in Events : Skip(e) \/ Republish(e)

Next ==
  \/ \E e \in Events :
       Publish(e) \/ WriterStores(e) \/ DeadLetter(e) \/ DeadLetterTwice(e)
  \/ Start \/ Script \/ TimesOut \/ AutoCommit \/ Interrupt \/ Kill

Spec == Init /\ [][Next]_vars

-----------------------------------------------------------------------------
(* Properties                                                              *)

(* Neither on its way, nor stored, nor reported by the replayer.           *)
Lost == produced \ (ingest \cup ToSet(dlq) \cup hand \cup stored \cup skipped)

(***************************************************************************)
(* Replaying is safe but for one message per run that ends badly: the one  *)
(* in hand, whose offset the consumer commits by itself in the background  *)
(* or in stop() though it has not been re-published.                       *)
(***************************************************************************)
LossBounded == Cardinality(Lost) <= interruptions

-----------------------------------------------------------------------------
(* Liveness                                                                *)

(* The operator runs the script again and again; each of its awaits        *)
(* returns or raises.  A row that keeps coming to the writer is inserted   *)
(* in the end.                                                             *)
FairSpec ==
  /\ Spec
  /\ WF_vars(Start) /\ WF_vars(Script)
  /\ \A e \in Rows : SF_vars(WriterStores(e))

Reliable ==
  <>[][~(TimesOut \/ \E e \in Events : DeadLetterTwice(e))]_vars

(***************************************************************************)
(* A run ends, though what the writer rejects comes back to the dead       *)
(* letters while the run is going on, for ever: the limit counts it.       *)
(***************************************************************************)
RunEnds == Reliable => (pc # "down" ~> pc = "down")

(***************************************************************************)
(* Every insertable event gets its row in the end, however often it was    *)
(* dead-lettered and however many messages that never will be insertable   *)
(* circulate before it, or else it is one of the few that LossBounded      *)
(* allows for.                                                             *)
(***************************************************************************)
RowsRecovered ==
  Reliable => \A e \in Rows : e \in produced ~> e \in stored \cup Lost
==============================================================================
