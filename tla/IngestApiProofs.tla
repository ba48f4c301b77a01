---------------------------- MODULE IngestApiProofs ----------------------------
(***************************************************************************)
(* Proofs about IngestApi, for any requests of any size, any bound on the  *)
(* background tasks, and with or without failing sends and kills.          *)
(***************************************************************************)
EXTENDS IngestApi, TLAPS

(* The events of a request that have got past the endpoint.                *)
Begun == sends \cup tasks \cup topic \cup failed

(* An answer is given once, and with a status.                             *)
AnsweredOnce == \A r \in Requests : pc[r] # "answered" => status[r] = 0

(* No event of a request is sent before the endpoint has let it pass.      *)
NothingBegun ==
  \A r \in Requests :
    pc[r] \in {"new", "checked"} => EventsOf[r] \cap Begun = {}

(* What was accepted, or is being gathered, is on its way or has arrived.  *)
OnItsWay ==
  \A r \in Requests :
    pc[r] = "gather" \/ status[r] = 202 =>
      EventsOf[r] \subseteq sends \cup topic \cup failed

(* A single request is answered at once, and gathers nothing.              *)
OnlyBatchesGather == \A r \in Single : pc[r] # "gather"

(* A clean shutdown has waited for every send.                             *)
DownIsQuiet == server = "down" => sends = {}

IInv ==
  /\ TypeOK /\ AnsweredOnce /\ OnlyBatchesGather
  /\ NothingBegun /\ OnItsWay /\ DownIsQuiet
  /\ RefusalIsClean /\ BatchAcknowledged

-----------------------------------------------------------------------------

(* Initially no request has been made.                                     *)
LEMMA InitIInv == Init => IInv
  BY IngestAssumption
     DEF Init, IInv, TypeOK, Statuses, AnsweredOnce, OnlyBatchesGather,
         NothingBegun, Begun, OnItsWay, DownIsQuiet, RefusalIsClean,
         BatchAcknowledged

(* The events of two requests are different events.                        *)
LEMMA Apart ==
  ASSUME NEW r \in Requests, NEW s \in Requests, r # s
  PROVE  EventsOf[r] \cap EventsOf[s] = {} /\ EventsOf[r] \subseteq Events
  BY IngestAssumption

(* A step that answers r, with all else as it was, or lets it pass.        *)
LEMMA AnswerIInv ==
  ASSUME NEW r \in Requests, NEW code \in Statuses, IInv,
         Answer(r, code),
         UNCHANGED <<server, sends, tasks, topic, failed>>,
         code = 202 => /\ r \notin Single /\ pc[r] = "gather"
                       /\ EventsOf[r] \cap (sends \cup failed) = {},
         code \in {422, 429, 503} => pc[r] \in {"new", "checked"}
  PROVE  IInv'
<1>1. \A s \in Requests :
        /\ pc'[s] = IF s = r THEN "answered" ELSE pc[s]
        /\ status'[s] = IF s = r THEN code ELSE status[s]
  BY DEF Answer, IInv, TypeOK
<1>2. TypeOK' /\ AnsweredOnce' /\ OnlyBatchesGather'
  BY <1>1, IngestAssumption
     DEF Answer, IInv, TypeOK, AnsweredOnce, OnlyBatchesGather
<1>3. NothingBegun'
  BY <1>1 DEF IInv, NothingBegun, Begun
<1>4. OnItsWay' /\ DownIsQuiet'
  BY <1>1 DEF IInv, OnItsWay, DownIsQuiet
<1>5. RefusalIsClean'
  BY <1>1 DEF IInv, RefusalIsClean, NothingBegun, Begun
<1>6. BatchAcknowledged'
  BY <1>1 DEF IInv, BatchAcknowledged, OnItsWay
<1>7. QED  BY <1>2, <1>3, <1>4, <1>5, <1>6 DEF IInv

(* The rate limit decides, and after it the validation of the body.        *)
LEMMA RateLimitIInv ==
  ASSUME NEW r \in Requests, IInv, RateLimit(r)
  PROVE  IInv'
<1>1. CASE \E code \in {422, 429, 500} : Answer(r, code)
  BY <1>1, AnswerIInv DEF RateLimit, Statuses
<1>2. CASE pc' = [pc EXCEPT ![r] = "checked"] /\ UNCHANGED status
  <2>1. \A s \in Requests : pc'[s] = IF s = r THEN "checked" ELSE pc[s]
    BY <1>2 DEF IInv, TypeOK
  <2>2. TypeOK' /\ AnsweredOnce' /\ OnlyBatchesGather'
    BY <1>2, <2>1, IngestAssumption
       DEF RateLimit, IInv, TypeOK, AnsweredOnce, OnlyBatchesGather
  <2>3. NothingBegun' /\ OnItsWay' /\ DownIsQuiet'
    BY <1>2, <2>1
       DEF RateLimit, IInv, NothingBegun, Begun, OnItsWay, DownIsQuiet
  <2>4. RefusalIsClean' /\ BatchAcknowledged'
    BY <1>2 DEF RateLimit, IInv, RefusalIsClean, BatchAcknowledged
  <2>5. QED  BY <2>2, <2>3, <2>4 DEF IInv
<1>3. QED  BY <1>1, <1>2 DEF RateLimit

(* An endpoint starts the sends of r, which begin with this step.          *)
LEMMA BeginIInv ==
  ASSUME NEW r \in Requests, IInv, Ingest(r) \/ IngestBatch(r)
  PROVE  IInv'
<1>1. /\ server # "down" /\ server' = server
      /\ pc[r] = "checked" /\ status[r] = 0
      /\ sends' = sends \cup EventsOf[r]
      /\ Begun' = Begun \cup EventsOf[r]
      /\ UNCHANGED <<topic, failed>>
      /\ pc'[r] \in {"gather", "answered"}
      /\ status'[r] = IF pc'[r] = "gather" THEN 0 ELSE 202
      /\ status'[r] = 202 => r \in Single
  BY DEF Ingest, IngestBatch, Answer, Alive, IInv, TypeOK, AnsweredOnce, Begun
<1>2. \A s \in Requests \ {r} : pc'[s] = pc[s] /\ status'[s] = status[s]
  BY DEF Ingest, IngestBatch, Answer, IInv, TypeOK
<1>3. TypeOK'
  <2>1. EventsOf[r] \subseteq Events
    BY IngestAssumption
  <2>2. tasks' \subseteq UNION {EventsOf[s] : s \in Single}
    BY DEF Ingest, IngestBatch, IInv, TypeOK
  <2>3. /\ pc' \in [Requests -> {"new", "checked", "gather", "answered"}]
        /\ status' \in [Requests -> Statuses]
    BY DEF Ingest, IngestBatch, Answer, Statuses, IInv, TypeOK
  <2>4. QED
    BY <1>1, <2>1, <2>2, <2>3 DEF IInv, TypeOK
<1>4. AnsweredOnce' /\ OnlyBatchesGather'
  <2>1. r \in Single => pc'[r] = "answered"
    BY DEF Ingest, IngestBatch, Answer, IInv, TypeOK
  <2>2. QED
    BY <1>1, <1>2, <2>1, IngestAssumption
       DEF IInv, AnsweredOnce, OnlyBatchesGather
<1>5. NothingBegun'
  BY <1>1, <1>2, Apart DEF IInv, NothingBegun
<1>6. OnItsWay' /\ DownIsQuiet'
  BY <1>1, <1>2 DEF IInv, OnItsWay, DownIsQuiet
<1>7. RefusalIsClean'
  <2>1. \A s \in Requests :
          status[s] \in {422, 429, 503} => EventsOf[s] \cap Begun = {}
    BY DEF IInv, RefusalIsClean, Begun
  <2>2. \A s \in Requests :
          status'[s] \in {422, 429, 503} => EventsOf[s] \cap Begun' = {}
    BY <1>1, <1>2, <2>1, Apart
  <2>3. QED  BY <2>2 DEF RefusalIsClean, Begun
<1>8. BatchAcknowledged'
  BY <1>1, <1>2 DEF IInv, BatchAcknowledged
<1>9. QED  BY <1>3, <1>4, <1>5, <1>6, <1>7, <1>8 DEF IInv

(* A send that ends, or a task that is taken off, begins nothing.          *)
LEMMA SendIInv ==
  ASSUME NEW e \in Events, IInv, SendOk(e) \/ SendFails(e) \/ Discard(e)
  PROVE  IInv'
<1>1. /\ server # "down" /\ UNCHANGED <<server, pc, status>>
      /\ topic \subseteq topic'
      /\ Begun' \subseteq Begun
      /\ sends \cup topic \cup failed \subseteq sends' \cup topic' \cup failed'
  BY DEF SendOk, SendFails, Discard, Alive, Begun
<1>2. TypeOK'
  BY DEF SendOk, SendFails, Discard, IInv, TypeOK
<1>3. /\ AnsweredOnce' /\ OnlyBatchesGather'
      /\ NothingBegun' /\ OnItsWay' /\ DownIsQuiet'
  BY <1>1 DEF IInv, AnsweredOnce, OnlyBatchesGather, NothingBegun, OnItsWay,
              DownIsQuiet
<1>4. RefusalIsClean'
  BY <1>1 DEF IInv, RefusalIsClean, Begun
<1>5. BatchAcknowledged'
  BY <1>1 DEF IInv, BatchAcknowledged
<1>6. QED  BY <1>2, <1>3, <1>4, <1>5 DEF IInv

(* The server stops when no send is left, or is killed.                    *)
LEMMA ServerIInv ==
  ASSUME IInv, Terminate \/ StopProducer \/ Stopped \/ Kill
  PROVE  IInv'
<1>1. /\ UNCHANGED <<pc, status, sends, tasks, topic, failed>>
      /\ server' \in {"stopping", "flushing", "down", "killed"}
      /\ server' = "down" => sends = {}
  BY DEF Terminate, StopProducer, Stopped, Flushed, Kill
<1>2. QED
  BY <1>1 DEF IInv, TypeOK, AnsweredOnce, OnlyBatchesGather, NothingBegun,
              Begun, OnItsWay, DownIsQuiet, RefusalIsClean, BatchAcknowledged

(* The invariant is inductive: one step per action.                        *)
LEMMA NextIInv == IInv /\ [Next]_vars => IInv'
<1> SUFFICES ASSUME IInv, [Next]_vars PROVE IInv'
  OBVIOUS
<1>1. ASSUME NEW r \in Requests, RateLimit(r)
      PROVE  IInv'
  BY <1>1, RateLimitIInv
<1>2. ASSUME NEW r \in Requests, Reject(r)
      PROVE  IInv'
  BY <1>2, AnswerIInv DEF Reject, Statuses
<1>3. ASSUME NEW r \in Requests, Ingest(r) \/ IngestBatch(r)
      PROVE  IInv'
  BY <1>3, BeginIInv
<1>4. ASSUME NEW r \in Requests, BatchOk(r)
      PROVE  IInv'
  <2>1. r \notin Single
    BY <1>4 DEF BatchOk, IInv, OnlyBatchesGather
  <2>2. QED
    BY <1>4, <2>1, AnswerIInv DEF BatchOk, GatheredOk, Statuses
<1>5. ASSUME NEW r \in Requests, BatchFails(r)
      PROVE  IInv'
  BY <1>5, AnswerIInv DEF BatchFails, Statuses
<1>6. ASSUME NEW e \in Events, SendOk(e) \/ SendFails(e) \/ Discard(e)
      PROVE  IInv'
  BY <1>6, SendIInv
<1>7. CASE Terminate \/ StopProducer \/ Stopped \/ Kill
  BY <1>7, ServerIInv
<1>8. CASE UNCHANGED vars
  BY <1>8 DEF vars, IInv, TypeOK, AnsweredOnce, OnlyBatchesGather, NothingBegun,
              Begun, OnItsWay, DownIsQuiet, RefusalIsClean, BatchAcknowledged
<1>9. QED
  BY <1>1, <1>2, <1>3, <1>4, <1>5, <1>6, <1>7, <1>8 DEF Next

-----------------------------------------------------------------------------

(* The strengthened invariant holds in every reachable state.              *)
THEOREM InductiveInvariant == Spec => []IInv
  BY InitIInv, NextIInv, PTL DEF Spec

(* Type correctness of the ingest endpoints.                               *)
THEOREM TypeCorrect == Spec => []TypeOK
<1>1. IInv => TypeOK
  BY DEF IInv
<1>2. QED  BY <1>1, InductiveInvariant, PTL

(* A request answered 422, 429 or 503 has left nothing behind.             *)
THEOREM RefusedWhole == Spec => []RefusalIsClean
<1>1. IInv => RefusalIsClean
  BY DEF IInv
<1>2. QED  BY <1>1, InductiveInvariant, PTL

(* Every event of a batch answered 202 is in Kafka.                        *)
THEOREM PromiseKept == Spec => []BatchAcknowledged
<1>1. IInv => BatchAcknowledged
  BY DEF IInv
<1>2. QED  BY <1>1, InductiveInvariant, PTL

(* A clean shutdown loses no accepted event in silence.                    *)
THEOREM CleanShutdown == Spec => []ShutdownFlushes
<1>1. IInv => ShutdownFlushes
  BY DEF IInv, OnItsWay, DownIsQuiet, ShutdownFlushes
<1>2. QED  BY <1>1, InductiveInvariant, PTL
==============================================================================
