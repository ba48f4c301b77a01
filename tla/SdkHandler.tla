------------------------------ MODULE SdkHandler -----------------------------
(***************************************************************************)
(* LogFoundryHandler: application threads append to a buffer under a lock, *)
(* a daemon thread swaps the buffer out and posts it, and close() or the   *)
(* atexit handler flush what is left.  A critical section under self._lock *)
(* is one action; _closed is read and written without it.                  *)
(*                                                                         *)
(* logging.Handler.handle() holds the handler's own lock around emit(),    *)
(* which only shows in synchronous mode, where emit() also posts.          *)
(***************************************************************************)
EXTENDS Integers, FiniteSets

CONSTANTS
  Callers,         \* application threads that log
  Flusher,         \* the background thread
  Main,            \* the thread that calls close() and runs atexit handlers
  Nobody,
  Events,          \* records the application may log, each once
  Unserializable,  \* those whose extra attributes json.dumps rejects
  BatchSize,       \* batch_size
  MaxBuffer,       \* max_buffer_size
  ApiMax,          \* events POST /ingest/batch accepts
  ApiFails         \* whether requests may fail or time out

Threads == Callers \cup {Flusher, Main}

ASSUME HandlerAssumption ==
  /\ Flusher \notin Callers /\ Main \notin Callers /\ Flusher # Main
  /\ Nobody \notin Threads
  /\ IsFiniteSet(Events)
  /\ Unserializable \subseteq Events
  /\ ApiFails \in BOOLEAN
  /\ BatchSize \in Nat \ {0}
  /\ MaxBuffer \in Nat /\ ApiMax \in Nat

VARIABLES
  asyncMode,  \* _async_mode, the constructor's argument
  pc,         \* pc[t]: where thread t is
  buffer,     \* _buffer
  sending,    \* sending[t]: events_to_send of t
  closed,     \* _closed
  ending,     \* the interpreter joined the callers and runs atexit handlers
  flushEvent, \* _flush_event
  emitting,   \* who holds the lock of logging.Handler across steps
  accepted,   \* events emit() appended
  refused,    \* events emit() dropped: buffer full, or closed
  delivered,  \* events of a batch the API answered 202
  lost,       \* events of a batch that failed
  killed      \* events in the hands of the flusher when the process ended

vars == <<asyncMode, pc, buffer, sending, closed, ending, flushEvent, emitting,
          accepted, refused, delivered, lost, killed>>

Places == {"idle", "sending", "check", "wait", "clear", "swap", "ended",
           "closing", "closed", "exited"}

TypeOK ==
  /\ asyncMode \in BOOLEAN
  /\ pc \in [Threads -> Places]
  /\ buffer \subseteq Events /\ Cardinality(buffer) <= MaxBuffer
  /\ sending \in [Threads -> SUBSET Events]
  /\ closed \in BOOLEAN /\ ending \in BOOLEAN
  /\ flushEvent \in BOOLEAN
  /\ emitting \in Callers \cup {Nobody}
  /\ accepted \subseteq Events /\ refused \subseteq Events
  /\ delivered \subseteq Events /\ lost \subseteq Events
  /\ killed \subseteq Events

Init ==
  /\ asyncMode \in BOOLEAN
  /\ pc = [t \in Threads |-> IF t # Flusher THEN "idle"
                             ELSE IF asyncMode THEN "check" ELSE "ended"]
  /\ buffer = {}
  /\ sending = [t \in Threads |-> {}]
  /\ closed = FALSE /\ ending = FALSE
  /\ flushEvent = FALSE
  /\ emitting = Nobody
  /\ accepted = {} /\ refused = {} /\ delivered = {} /\ lost = {}
  /\ killed = {}

Running == pc[Main] # "exited"
Goto(t, place) == pc' = [pc EXCEPT ![t] = place]

-----------------------------------------------------------------------------
(* emit()                                                                  *)

FullLate == Cardinality(buffer) > MaxBuffer
Full     == Cardinality(buffer) >= MaxBuffer

MayEmit(t, e) ==
  /\ ~ending
  /\ pc[t] = "idle" /\ emitting = Nobody
  /\ e \notin accepted \cup refused

EmitRefused(t, e) ==
  /\ MayEmit(t, e)
  /\ closed \/ Full
  /\ refused' = refused \cup {e}
  /\ UNCHANGED <<asyncMode, pc, buffer, sending, closed, ending, flushEvent,
                 emitting, accepted, delivered, lost, killed>>

EmitBuffered(t, e) ==
  /\ MayEmit(t, e)
  /\ ~closed /\ ~Full
  /\ asyncMode
  /\ accepted' = accepted \cup {e}
  /\ buffer' = buffer \cup {e}
  /\ flushEvent' = (flushEvent \/ Cardinality(buffer') >= BatchSize)
  /\ UNCHANGED <<asyncMode, pc, sending, closed, ending, emitting, refused,
                 delivered, lost, killed>>

(* async_mode=False: emit() takes the buffer along and posts it itself.    *)
EmitSends(t, e) ==
  /\ MayEmit(t, e)
  /\ ~closed /\ ~Full
  /\ ~asyncMode
  /\ accepted' = accepted \cup {e}
  /\ sending' = [sending EXCEPT ![t] = buffer \cup {e}]
  /\ buffer' = {}
  /\ emitting' = t
  /\ Goto(t, "sending")
  /\ UNCHANGED <<asyncMode, closed, ending, flushEvent, refused, delivered,
                 lost, killed>>

-----------------------------------------------------------------------------
(* flush() and _send_batch()                                               *)

(* Where a thread goes when its flush is over.                             *)
AfterFlush(t) ==
  CASE t = Flusher -> "check"
    [] t = Main    -> "closed"
    [] OTHER       -> "idle"

(* events_to_send = self._buffer[:]; self._buffer.clear().  The mutant     *)
(* forgets the second.                                                     *)
CopyOut(t) ==
  sending' = [sending EXCEPT ![t] = buffer] /\ UNCHANGED buffer
SwapOut(t) ==
  sending' = [sending EXCEPT ![t] = buffer] /\ buffer' = {}

Flush(t) ==
  /\ SwapOut(t)
  /\ Goto(t, IF buffer = {} THEN AfterFlush(t) ELSE "sending")
  /\ UNCHANGED <<asyncMode, closed, ending, flushEvent, emitting, accepted,
                 refused, delivered, lost, killed>>

(* The application calls flush() itself.                                   *)
UserFlush(t) == ~ending /\ pc[t] = "idle" /\ buffer # {} /\ Flush(t)

ReleaseHandler(t) == emitting' = IF emitting = t THEN Nobody ELSE emitting
SendDone(t) ==
  /\ sending' = [sending EXCEPT ![t] = {}]
  /\ ReleaseHandler(t)
  /\ UNCHANGED <<asyncMode, buffer, closed, ending, flushEvent, accepted,
                 refused, killed>>

Serializable(t) == sending[t] \cap Unserializable = {}

PostOk(t) ==
  /\ Running /\ pc[t] = "sending"
  /\ Serializable(t)
  /\ Cardinality(sending[t]) <= ApiMax
  /\ delivered' = delivered \cup sending[t]
  /\ Goto(t, AfterFlush(t))
  /\ SendDone(t)
  /\ UNCHANGED lost

(* Refused, unreachable or late: urlopen raises and the batch is dropped.  *)
PostFails(t) ==
  /\ Running /\ pc[t] = "sending"
  /\ Serializable(t)
  /\ ApiFails \/ Cardinality(sending[t]) > ApiMax
  /\ lost' = lost \cup sending[t]
  /\ Goto(t, AfterFlush(t))
  /\ SendDone(t)
  /\ UNCHANGED delivered

(***************************************************************************)
(* json.dumps raises, before the try of _send_batch.  The background loop  *)
(* catches it; from emit(), flush() and close() it reaches the             *)
(* application, from the atexit handler it does not.                       *)
(***************************************************************************)
AfterRaiseUncaught(t) == IF t = Flusher THEN "ended" ELSE AfterFlush(t)
AfterRaise(t)         == AfterFlush(t)

DumpsRaises(t) ==
  /\ Running /\ pc[t] = "sending"
  /\ ~Serializable(t)
  /\ lost' = lost \cup sending[t]
  /\ Goto(t, AfterRaise(t))
  /\ SendDone(t)
  /\ UNCHANGED delivered

-----------------------------------------------------------------------------
(* _background_flush_loop()                                                *)

LoopVars == <<asyncMode, buffer, sending, closed, ending, emitting, accepted,
              refused, delivered, lost, killed>>

FlusherClearsLast ==
  /\ Running /\ pc[Flusher] = "check"
  /\ flushEvent' = FALSE
  /\ Goto(Flusher, IF closed THEN "ended" ELSE "wait")
  /\ UNCHANGED LoopVars
FlusherChecks ==
  /\ Running /\ pc[Flusher] = "check"
  /\ Goto(Flusher, IF closed THEN "ended" ELSE "wait")
  /\ UNCHANGED <<LoopVars, flushEvent>>

(* The event is set or flush_interval is over.                             *)
FlusherWakes ==
  /\ Running /\ pc[Flusher] = "wait"
  /\ Goto(Flusher, "clear")
  /\ UNCHANGED <<LoopVars, flushEvent>>

FlusherClears ==
  /\ Running /\ pc[Flusher] = "clear"
  /\ flushEvent' = FALSE
  /\ Goto(Flusher, "swap")
  /\ UNCHANGED LoopVars

FlusherFlushes == Running /\ pc[Flusher] = "swap" /\ Flush(Flusher)

-----------------------------------------------------------------------------
(* close(), __exit__() and the end of the process                          *)

(* The mutant of close() that forgets the flag.                            *)
CloseUnflagged == UNCHANGED closed
CloseFlag      == closed' = TRUE

Close ==
  /\ pc[Main] \in {"idle", "closed"} /\ ~ending
  /\ CloseFlag
  /\ Goto(Main, "closing")
  /\ UNCHANGED <<asyncMode, buffer, sending, ending, flushEvent, emitting,
                 accepted, refused, delivered, lost, killed>>

(* _atexit_flush(), once the application's own threads have ended.         *)
AtExit ==
  /\ pc[Main] \in {"idle", "closed"} /\ ~ending
  /\ \A t \in Callers : pc[t] = "idle"
  /\ CloseFlag
  /\ ending' = TRUE
  /\ Goto(Main, "closing")
  /\ UNCHANGED <<asyncMode, buffer, sending, flushEvent, emitting, accepted,
                 refused, delivered, lost, killed>>

CloseFlushes == pc[Main] = "closing" /\ Flush(Main)

(* The process ends; the daemon thread dies where it is.                   *)
Exit ==
  /\ pc[Main] = "closed" /\ ending
  /\ killed' = sending[Flusher]
  /\ sending' = [sending EXCEPT ![Flusher] = {}]
  /\ Goto(Main, "exited")
  /\ UNCHANGED <<asyncMode, buffer, closed, ending, flushEvent, emitting,
                 accepted, refused, delivered, lost>>

Post(t) == PostOk(t) \/ PostFails(t) \/ DumpsRaises(t)
Background == FlusherChecks \/ FlusherWakes \/ FlusherClears \/ FlusherFlushes

Next ==
  \/ \E t \in Callers, e \in Events :
       EmitRefused(t, e) \/ EmitBuffered(t, e) \/ EmitSends(t, e)
  \/ \E t \in Callers : UserFlush(t)
  \/ \E t \in Threads : Post(t)
  \/ Background
  \/ Close \/ AtExit \/ CloseFlushes \/ Exit

Spec == Init /\ [][Next]_vars

-----------------------------------------------------------------------------
(* Properties                                                              *)

InFlight == UNION {sending[t] : t \in Threads}

(***************************************************************************)
(* Two threads never send the same event and none falls between the swap   *)
(* and the send: an accepted event is in exactly one of the buffer, one    *)
(* thread's batch, and the outcomes.                                       *)
(***************************************************************************)
EachEventOnce ==
  /\ accepted = buffer \cup InFlight \cup delivered \cup lost \cup killed
  /\ buffer \cap InFlight = {}
  /\ (buffer \cup InFlight) \cap (delivered \cup lost \cup killed) = {}
  /\ \A t, u \in Threads : t # u => sending[t] \cap sending[u] = {}

(***************************************************************************)
(* The threshold signal is never lost: with a full batch in the buffer the *)
(* event is set, or the flusher cleared it and has the swap still ahead.   *)
(***************************************************************************)
NoLostWakeup ==
  asyncMode /\ Cardinality(buffer) >= BatchSize =>
    flushEvent \/ pc[Flusher] = "swap"

(***************************************************************************)
(* Once close() has flushed, nothing is buffered any more: emit() reads    *)
(* _closed under the lock that the last swap takes, so no caller slips an  *)
(* event in behind it.                                                     *)
(***************************************************************************)
NothingStranded == pc[Main] \in {"closed", "exited"} => buffer = {}

(***************************************************************************)
(* What sdk/README.md says of losses: only an API that is down, a request  *)
(* that fails or a full buffer drops events.  With an API that answers and *)
(* records that serialize, nothing accepted is lost.                       *)
(***************************************************************************)
NothingLost == lost = {}

-----------------------------------------------------------------------------
(* Liveness                                                                *)

(***************************************************************************)
(* The OS schedules every thread, wait() ends after flush_interval and a   *)
(* request after its 5 s timeout.  Nobody has to log, close or exit.       *)
(***************************************************************************)
Fairness ==
  /\ WF_vars(Background)
  /\ \A t \in Threads : WF_vars(Post(t))
  /\ WF_vars(CloseFlushes)

FairSpec == Spec /\ Fairness

(***************************************************************************)
(* No event stays in the process for ever: a batch that cannot be sent     *)
(* stops neither the background thread nor the batches after it.           *)
(***************************************************************************)
EveryEventResolved ==
  \A e \in Events : e \in accepted ~> e \in delivered \cup lost \cup killed
==============================================================================
