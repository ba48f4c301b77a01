------------------------------ MODULE IngestApi ------------------------------
(***************************************************************************)
(* The ingest half of the API gateway: POST /ingest hands its event to a   *)
(* background task of KafkaLogProducer and answers at once, POST           *)
(* /ingest/batch awaits one send per event, and the shutdown of the        *)
(* application waits for what is under way.  All of it runs on one event   *)
(* loop: a step here is the code between two awaits.                       *)
(***************************************************************************)
EXTENDS Integers, FiniteSets

CONSTANTS
  Requests,    \* HTTP requests
  Single,      \* those to /ingest; the others are to /ingest/batch
  Events,      \* events in the requests
  EventsOf,    \* EventsOf[r]: the events of request r
  Invalid,     \* requests one of whose events BaseModel rejects
  MaxTasks,    \* MAX_FIRE_AND_FORGET_TASKS
  KafkaFails,  \* whether a send may raise
  Kills        \* whether the process may be killed

ASSUME IngestAssumption ==
  /\ Single \subseteq Requests /\ Invalid \subseteq Requests
  /\ IsFiniteSet(Events)
  /\ EventsOf \in [Requests -> SUBSET Events \ {{}}]
  /\ \A r \in Single : Cardinality(EventsOf[r]) = 1
  /\ \A r, s \in Requests : r # s => EventsOf[r] \cap EventsOf[s] = {}
  /\ MaxTasks \in Nat
  /\ KafkaFails \in BOOLEAN /\ Kills \in BOOLEAN

VARIABLES
  server,    \* "up", "stopping", "flushing" (producer.stop()), "down", "killed"
  pc,        \* pc[r]: "new", "checked", "gather", "answered"
  status,    \* status[r]: the HTTP status, or 0
  sends,     \* events whose send() has not returned or raised
  tasks,     \* _background_tasks, each named by its event
  topic,     \* events in logs.ingest
  failed     \* events whose send() raised, which it logs

vars == <<server, pc, status, sends, tasks, topic, failed>>

Statuses == {0, 202, 422, 429, 500, 503}

TypeOK ==
  /\ server \in {"up", "stopping", "flushing", "down", "killed"}
  /\ pc \in [Requests -> {"new", "checked", "gather", "answered"}]
  /\ status \in [Requests -> Statuses]
  /\ sends \subseteq Events /\ topic \subseteq Events /\ failed \subseteq Events
  /\ tasks \subseteq UNION {EventsOf[r] : r \in Single}

Init ==
  /\ server = "up"
  /\ pc = [r \in Requests |-> "new"]
  /\ status = [r \in Requests |-> 0]
  /\ sends = {} /\ tasks = {} /\ topic = {} /\ failed = {}

Answer(r, code) ==
  /\ pc' = [pc EXCEPT ![r] = "answered"]
  /\ status' = [status EXCEPT ![r] = code]

Alive == server \notin {"down", "killed"}

(***************************************************************************)
(* Dependencies are solved before the body is validated: check_rate_limit  *)
(* lets the request pass, refuses it, or raises because Redis does; only   *)
(* then does one bad event refuse the whole request.                       *)
(***************************************************************************)
RateLimit(r) ==
  /\ server = "up"
  /\ pc[r] = "new"
  /\ \/ /\ r \notin Invalid
        /\ pc' = [pc EXCEPT ![r] = "checked"]
        /\ UNCHANGED status
     \/ r \in Invalid /\ Answer(r, 422)
     \/ Answer(r, 429)
     \/ Answer(r, 500)
  /\ UNCHANGED <<server, sends, tasks, topic, failed>>

IsQueueFull == Cardinality(tasks) >= MaxTasks

(* The test comes before the first send.  In the mutant a batch tests it   *)
(* before each, having started some.                                       *)
RejectPartway(r) ==
  /\ Alive
  /\ pc[r] = "checked"
  /\ IsQueueFull
  /\ \E begun \in SUBSET EventsOf[r] : sends' = sends \cup begun
  /\ Answer(r, 503)
  /\ UNCHANGED <<server, tasks, topic, failed>>
Reject(r) ==
  /\ Alive
  /\ pc[r] = "checked"
  /\ IsQueueFull
  /\ Answer(r, 503)
  /\ UNCHANGED <<server, sends, tasks, topic, failed>>

(* ingest(): no await between the test and create_task().                  *)
Ingest(r) ==
  /\ Alive
  /\ pc[r] = "checked" /\ r \in Single
  /\ ~IsQueueFull
  /\ tasks' = tasks \cup EventsOf[r]
  /\ sends' = sends \cup EventsOf[r]
  /\ Answer(r, 202)
  /\ UNCHANGED <<server, topic, failed>>

(* ingest_batch(): gather() starts every send and waits; the mutant does   *)
(* what its docstring says, and makes each a fire-and-forget task.         *)
IngestBatchForget(r) ==
  /\ Alive
  /\ pc[r] = "checked" /\ r \notin Single
  /\ ~IsQueueFull
  /\ tasks' = tasks \cup EventsOf[r]
  /\ sends' = sends \cup EventsOf[r]
  /\ Answer(r, 202)
  /\ UNCHANGED <<server, topic, failed>>
IngestBatch(r) ==
  /\ Alive
  /\ pc[r] = "checked" /\ r \notin Single
  /\ ~IsQueueFull
  /\ sends' = sends \cup EventsOf[r]
  /\ pc' = [pc EXCEPT ![r] = "gather"]
  /\ UNCHANGED <<server, status, tasks, topic, failed>>

(* send_and_wait() returns: the brokers have the event.                    *)
SendOk(e) ==
  /\ Alive
  /\ e \in sends
  /\ topic' = topic \cup {e}
  /\ sends' = sends \ {e}
  /\ UNCHANGED <<server, pc, status, tasks, failed>>

(* It raises; the event may have reached the topic all the same.           *)
SendFails(e) ==
  /\ Alive /\ KafkaFails
  /\ e \in sends
  /\ topic' \in {topic, topic \cup {e}}
  /\ sends' = sends \ {e}
  /\ failed' = failed \cup {e}
  /\ UNCHANGED <<server, pc, status, tasks>>

(* The done callback of a background task, which returned whether send()   *)
(* raised or not; in the mutant only success takes it off.                 *)
Delivered(e) == e \in topic \ (sends \cup failed)
Settled(e)   == e \notin sends
Discard(e) ==
  /\ Alive
  /\ e \in tasks /\ Settled(e)
  /\ tasks' = tasks \ {e}
  /\ UNCHANGED <<server, pc, status, sends, topic, failed>>

(* gather() returns when every send did, or raises with the first that     *)
(* did; the mutant gathers the exceptions as results.                      *)
GatheredAll(r)  == EventsOf[r] \cap sends = {}
GatheredOk(r)   == EventsOf[r] \cap (sends \cup failed) = {}
GatherRaises(r) == EventsOf[r] \cap failed # {}

BatchOk(r) ==
  /\ Alive
  /\ pc[r] = "gather"
  /\ GatheredOk(r)
  /\ Answer(r, 202)
  /\ UNCHANGED <<server, sends, tasks, topic, failed>>

BatchFails(r) ==
  /\ Alive
  /\ pc[r] = "gather"
  /\ GatherRaises(r)
  /\ Answer(r, 500)
  /\ UNCHANGED <<server, sends, tasks, topic, failed>>

-----------------------------------------------------------------------------
(* The end of the process                                                  *)

(* SIGTERM: uvicorn accepts nothing more and waits for open requests.      *)
Terminate ==
  /\ server = "up"
  /\ server' = "stopping"
  /\ UNCHANGED <<pc, status, sends, tasks, topic, failed>>

(* The lifespan ends: KafkaLogProducer.stop() awaits the tasks it has, and *)
(* AIOKafkaProducer.stop() what its accumulator still holds.               *)
StopProducer ==
  /\ server = "stopping"
  /\ \A r \in Requests : pc[r] \in {"new", "answered"}
  /\ server' = "flushing"
  /\ UNCHANGED <<pc, status, sends, tasks, topic, failed>>

NothingAwaited == TRUE
Flushed        == tasks = {} /\ sends = {}
Stopped ==
  /\ server = "flushing"
  /\ Flushed
  /\ server' = "down"
  /\ UNCHANGED <<pc, status, sends, tasks, topic, failed>>

Kill ==
  /\ Kills /\ Alive
  /\ server' = "killed"
  /\ UNCHANGED <<pc, status, sends, tasks, topic, failed>>

Next ==
  \/ \E r \in Requests :
       \/ RateLimit(r) \/ Reject(r)
       \/ Ingest(r) \/ IngestBatch(r)
       \/ BatchOk(r) \/ BatchFails(r)
  \/ \E e \in Events : SendOk(e) \/ SendFails(e) \/ Discard(e)
  \/ Terminate \/ StopProducer \/ Stopped \/ Kill

Spec == Init /\ [][Next]_vars

(* The event loop runs what is ready, and a send ends: aiokafka gives up   *)
(* after request_timeout_ms.  Nothing obliges a client or an operator.     *)
FairSpec ==
  /\ Spec
  /\ \A e \in Events : WF_vars(SendOk(e) \/ SendFails(e)) /\ WF_vars(Discard(e))

-----------------------------------------------------------------------------
(* Properties                                                              *)

(***************************************************************************)
(* A refusal is whole: whatever becomes of other requests, none of the     *)
(* events of one answered 422, 429 or 503 is sent, so that the client may  *)
(* repeat it without making duplicates.  (A 500 says nothing.)             *)
(***************************************************************************)
RefusalIsClean ==
  \A r \in Requests :
    status[r] \in {422, 429, 503} =>
      EventsOf[r] \cap (sends \cup tasks \cup topic \cup failed) = {}

(***************************************************************************)
(* A 202 of /ingest/batch is a promise kept: every event of the request is *)
(* in Kafka, whatever failed or was killed.  (A 202 of /ingest is none.)   *)
(***************************************************************************)
BatchAcknowledged ==
  \A r \in Requests \ Single :
    status[r] = 202 => EventsOf[r] \subseteq topic

(***************************************************************************)
(* A clean shutdown loses no accepted event in silence: when the lifespan  *)
(* has ended, every event of a 202 is in Kafka or its failure was logged.  *)
(***************************************************************************)
ShutdownFlushes ==
  server = "down" =>
    \A r \in Requests :
      status[r] = 202 => EventsOf[r] \subseteq topic \cup failed

(***************************************************************************)
(* A full queue is a passing state: tasks leave it when their send fails   *)
(* too, so the API does not answer 503 for ever.                           *)
(***************************************************************************)
QueueDrains == (Alive /\ IsQueueFull) ~> (Alive => ~IsQueueFull)
==============================================================================
