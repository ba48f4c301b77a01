--------------------------- MODULE SdkHandlerProofs ---------------------------
(***************************************************************************)
(* Proofs about SdkHandler, for any number of application threads and      *)
(* events, any thresholds, both modes and an API that may fail.            *)
(***************************************************************************)
EXTENDS SdkHandler, FiniteSetTheorems, TLAPS

(* Only a thread that is posting has a batch in its hands.                 *)
BatchWhileSending == \A t \in Threads : pc[t] # "sending" => sending[t] = {}

(* Nothing is killed before the process ends.                              *)
KilledAtExit == Running => killed = {}

(* The thread that closes has set the flag, and later emptied the buffer.  *)
ClosedInOrder ==
  /\ pc[Main] \in {"idle", "closing", "sending", "closed", "exited"}
  /\ pc[Main] # "idle" => closed
  /\ pc[Main] \in {"sending", "closed", "exited"} => buffer = {}

IInv ==
  /\ TypeOK /\ BatchWhileSending /\ KilledAtExit
  /\ EachEventOnce /\ NoLostWakeup /\ ClosedInOrder

-----------------------------------------------------------------------------
(* Facts about buffers, threads and batches                                *)

(* The three kinds of thread are different threads.                        *)
LEMMA ThreadsDiffer ==
  /\ Flusher \in Threads /\ Main \in Threads /\ Flusher # Main
  /\ \A t \in Callers : t \in Threads /\ t # Flusher /\ t # Main
  BY HandlerAssumption DEF Threads

(* Events are few, and one more is at most one more.                       *)
LEMMA BufferGrows ==
  ASSUME NEW b \in SUBSET Events, NEW e \in Events
  PROVE  /\ Cardinality(b) \in Nat
         /\ Cardinality(b \cup {e}) \in Nat
         /\ Cardinality(b \cup {e}) <= Cardinality(b) + 1
<1>1. IsFiniteSet(b)
  BY FS_Subset, HandlerAssumption
<1>2. Cardinality(b) \in Nat
  BY <1>1, FS_CardinalityType
<1>3. Cardinality(b \cup {e}) \in {Cardinality(b), Cardinality(b) + 1}
  BY <1>1, FS_AddElement
<1>4. QED  BY <1>2, <1>3

(* An empty buffer holds no full batch.                                    *)
LEMMA EmptyBuffer == Cardinality({}) = 0 /\ ~(Cardinality({}) >= BatchSize)
  BY FS_EmptySet, HandlerAssumption

(* A flush leaves its thread in a known place.                             *)
LEMMA AfterFlushPlace ==
  ASSUME NEW t \in Threads
  PROVE  /\ AfterFlush(t) \in {"check", "closed", "idle"}
         /\ t = Flusher => AfterFlush(t) = "check"
         /\ t = Main => AfterFlush(t) = "closed"
  BY ThreadsDiffer DEF AfterFlush

(* Initially everything is empty.                                          *)
LEMMA InitIInv == Init => IInv
<1> SUFFICES ASSUME Init PROVE IInv
  OBVIOUS
<1>1. TypeOK
  <2>1. pc \in [Threads -> Places]
    BY DEF Init, Places
  <2>2. Cardinality(buffer) <= MaxBuffer
    BY EmptyBuffer, HandlerAssumption DEF Init
  <2>3. closed \in BOOLEAN /\ ending \in BOOLEAN /\ flushEvent \in BOOLEAN
    BY DEF Init
  <2>4. QED
    BY <2>1, <2>2, <2>3 DEF Init, TypeOK
<1>2. BatchWhileSending /\ KilledAtExit
  BY DEF Init, BatchWhileSending, KilledAtExit
<1>3. EachEventOnce
  BY DEF Init, EachEventOnce, InFlight
<1>4. NoLostWakeup
  BY EmptyBuffer DEF Init, NoLostWakeup
<1>5. ClosedInOrder
  BY ThreadsDiffer DEF Init, ClosedInOrder
<1>6. QED  BY <1>1, <1>2, <1>3, <1>4, <1>5 DEF IInv

-----------------------------------------------------------------------------
(* emit()                                                                  *)

(* A refused event leaves everything else as it was.                       *)
LEMMA EmitRefusedIInv ==
  ASSUME NEW t \in Callers, NEW e \in Events, IInv, EmitRefused(t, e)
  PROVE  IInv'
<1>1. TypeOK'
  BY DEF EmitRefused, IInv, TypeOK
<1>2. BatchWhileSending' /\ KilledAtExit'
  BY DEF EmitRefused, IInv, BatchWhileSending, KilledAtExit, Running
<1>3. EachEventOnce'
  BY DEF EmitRefused, IInv, EachEventOnce, InFlight
<1>4. NoLostWakeup' /\ ClosedInOrder'
  BY DEF EmitRefused, IInv, NoLostWakeup, ClosedInOrder
<1>5. QED  BY <1>1, <1>2, <1>3, <1>4 DEF IInv

(* An appended event was nowhere before; a full batch sets the flag.       *)
LEMMA EmitBufferedIInv ==
  ASSUME NEW t \in Callers, NEW e \in Events, IInv, EmitBuffered(t, e)
  PROVE  IInv'
<1>1. /\ buffer \in SUBSET Events /\ buffer' = buffer \cup {e}
      /\ Cardinality(buffer) < MaxBuffer /\ MaxBuffer \in Nat
  <2>1. buffer \in SUBSET Events
    BY DEF IInv, TypeOK
  <2>2. QED
    BY <2>1, BufferGrows, HandlerAssumption DEF EmitBuffered, Full
<1>2. TypeOK'
  <2>1. Cardinality(buffer') <= MaxBuffer
    BY <1>1, BufferGrows
  <2>2. flushEvent' \in BOOLEAN
    BY DEF EmitBuffered, IInv, TypeOK
  <2>3. QED
    BY <1>1, <2>1, <2>2 DEF EmitBuffered, IInv, TypeOK
<1>3. BatchWhileSending' /\ KilledAtExit'
  BY DEF EmitBuffered, IInv, BatchWhileSending, KilledAtExit, Running
<1>4. EachEventOnce'
  BY DEF EmitBuffered, MayEmit, IInv, EachEventOnce, InFlight
<1>5. NoLostWakeup'
  BY DEF EmitBuffered, NoLostWakeup
<1>6. ClosedInOrder'
  BY DEF EmitBuffered, IInv, ClosedInOrder
<1>7. QED  BY <1>2, <1>3, <1>4, <1>5, <1>6 DEF IInv

(* In synchronous mode the buffer changes hands with the new event.        *)
LEMMA EmitSendsIInv ==
  ASSUME NEW t \in Callers, NEW e \in Events, IInv, EmitSends(t, e)
  PROVE  IInv'
<1>1. /\ t \in Threads /\ t # Main /\ t # Flusher
      /\ pc[t] = "idle" /\ sending[t] = {} /\ ~closed /\ ~asyncMode
      /\ e \notin accepted
  BY ThreadsDiffer DEF EmitSends, MayEmit, IInv, BatchWhileSending
<1>2. /\ sending' = [sending EXCEPT ![t] = buffer \cup {e}]
      /\ buffer' = {} /\ pc' = [pc EXCEPT ![t] = "sending"]
      /\ accepted' = accepted \cup {e}
      /\ UNCHANGED <<closed, flushEvent, delivered, lost, killed, asyncMode>>
  BY DEF EmitSends, Goto
<1>3. TypeOK'
  BY <1>1, EmptyBuffer, HandlerAssumption
     DEF EmitSends, Goto, IInv, TypeOK, Places
<1>4. BatchWhileSending' /\ KilledAtExit'
  BY <1>1, <1>2, ThreadsDiffer
     DEF IInv, TypeOK, BatchWhileSending, KilledAtExit, Running
<1>5. EachEventOnce'
  <2>1. \A u \in Threads :
          sending'[u] = IF u = t THEN buffer \cup {e} ELSE sending[u]
    BY <1>1, <1>2 DEF IInv, TypeOK
  <2>2. InFlight' = InFlight \cup buffer \cup {e}
    BY <1>1, <2>1 DEF InFlight
  <2>3. \A u \in Threads : sending[u] \subseteq InFlight
    BY DEF InFlight
  <2>4. QED
    BY <1>1, <1>2, <2>1, <2>2, <2>3 DEF IInv, EachEventOnce
<1>6. NoLostWakeup'
  BY <1>1, <1>2 DEF NoLostWakeup
<1>7. ClosedInOrder'
  BY <1>1, <1>2, ThreadsDiffer DEF IInv, TypeOK, ClosedInOrder
<1>8. QED  BY <1>3, <1>4, <1>5, <1>6, <1>7 DEF IInv

-----------------------------------------------------------------------------
(* flush() and the end of a request                                        *)

(* The swap moves the buffer into hands that were empty.                   *)
LEMMA FlushIInv ==
  ASSUME NEW t \in Threads, IInv, Flush(t), sending[t] = {},
         t = Main => pc[t] = "closing"
  PROVE  IInv'
<1>1. /\ sending' = [sending EXCEPT ![t] = buffer]
      /\ buffer' = {}
      /\ pc' = [pc EXCEPT ![t] = IF buffer = {} THEN AfterFlush(t)
                                                ELSE "sending"]
      /\ UNCHANGED <<asyncMode, closed, ending, flushEvent, emitting,
                     accepted, refused, delivered, lost, killed>>
  BY DEF Flush, SwapOut, Goto
<1>2. pc'[t] \in {"check", "closed", "idle", "sending"}
  BY <1>1, AfterFlushPlace DEF IInv, TypeOK
<1>3. TypeOK'
  BY <1>1, <1>2, EmptyBuffer, HandlerAssumption DEF IInv, TypeOK, Places
<1>4. BatchWhileSending'
  BY <1>1 DEF IInv, TypeOK, BatchWhileSending
<1>5. KilledAtExit'
  BY <1>1, ThreadsDiffer DEF IInv, TypeOK, KilledAtExit, Running
<1>6. EachEventOnce'
  <2>1. \A u \in Threads :
          sending'[u] = IF u = t THEN buffer ELSE sending[u]
    BY <1>1 DEF IInv, TypeOK
  <2>2. InFlight' = InFlight \cup buffer
    BY <2>1 DEF InFlight
  <2>3. \A u \in Threads : sending[u] \subseteq InFlight
    BY DEF InFlight
  <2>4. QED
    BY <1>1, <2>1, <2>2, <2>3 DEF IInv, EachEventOnce
<1>7. NoLostWakeup'
  BY <1>1, EmptyBuffer DEF NoLostWakeup
<1>8. ClosedInOrder'
  <2>1. CASE t = Main
    BY <1>1, <2>1, AfterFlushPlace DEF IInv, TypeOK, ClosedInOrder
  <2>2. CASE t # Main
    BY <1>1, <2>2 DEF IInv, TypeOK, ClosedInOrder
  <2>3. QED  BY <2>1, <2>2
<1>9. QED  BY <1>3, <1>4, <1>5, <1>6, <1>7, <1>8 DEF IInv

(* However a request ends, its batch is delivered or lost as a whole.      *)
LEMMA PostIInv ==
  ASSUME NEW t \in Threads, IInv, Post(t)
  PROVE  IInv'
<1>1. /\ Running /\ pc[t] = "sending"
      /\ sending' = [sending EXCEPT ![t] = {}]
      /\ pc' = [pc EXCEPT ![t] = AfterFlush(t)]
      /\ emitting' = IF emitting = t THEN Nobody ELSE emitting
      /\ UNCHANGED <<asyncMode, buffer, closed, ending, flushEvent, accepted,
                     refused, killed>>
  BY DEF Post, PostOk, PostFails, DumpsRaises, SendDone, ReleaseHandler, Goto,
         AfterRaise
<1>2. \/ delivered' = delivered \cup sending[t] /\ lost' = lost
      \/ lost' = lost \cup sending[t] /\ delivered' = delivered
  BY DEF Post, PostOk, PostFails, DumpsRaises
<1>3. TypeOK'
  BY <1>1, <1>2, AfterFlushPlace DEF IInv, TypeOK, Places
<1>4. BatchWhileSending'
  BY <1>1 DEF IInv, TypeOK, BatchWhileSending
<1>5. KilledAtExit'
  BY <1>1 DEF IInv, KilledAtExit
<1>6. EachEventOnce'
  <2>1. \A u \in Threads :
          sending'[u] = IF u = t THEN {} ELSE sending[u]
    BY <1>1 DEF IInv, TypeOK
  <2>2. InFlight' = InFlight \ sending[t]
    BY <2>1 DEF InFlight, IInv, EachEventOnce
  <2>3. sending[t] \subseteq InFlight
    BY DEF InFlight
  <2>4. QED
    BY <1>1, <1>2, <2>1, <2>2, <2>3 DEF IInv, EachEventOnce
<1>7. NoLostWakeup'
  <2>1. pc[Flusher] = "swap" => pc'[Flusher] = "swap"
    BY <1>1, ThreadsDiffer DEF IInv, TypeOK
  <2>2. QED
    BY <1>1, <2>1 DEF IInv, NoLostWakeup
<1>8. ClosedInOrder'
  <2>1. CASE t = Main
    BY <1>1, <2>1, AfterFlushPlace DEF IInv, TypeOK, ClosedInOrder
  <2>2. CASE t # Main
    BY <1>1, <2>2, ThreadsDiffer DEF IInv, TypeOK, ClosedInOrder
  <2>3. QED  BY <2>1, <2>2
<1>9. QED  BY <1>3, <1>4, <1>5, <1>6, <1>7, <1>8 DEF IInv

-----------------------------------------------------------------------------
(* The background thread                                                   *)

(* A step of the loop other than a flush: the flag is cleared only where   *)
(* the swap comes next.                                                    *)
LEMMA LoopIInv ==
  ASSUME IInv, FlusherChecks \/ FlusherWakes \/ FlusherClears
  PROVE  IInv'
<1>1. UNCHANGED LoopVars /\ flushEvent' \in BOOLEAN
  BY DEF FlusherChecks, FlusherWakes, FlusherClears, IInv, TypeOK
<1>2. PICK place \in {"ended", "wait", "clear", "swap"} :
        pc' = [pc EXCEPT ![Flusher] = place]
  BY DEF FlusherChecks, FlusherWakes, FlusherClears, Goto
<1>3. pc[Flusher] \in {"check", "wait", "clear"}
  BY DEF FlusherChecks, FlusherWakes, FlusherClears
<1>4. \/ flushEvent' = flushEvent
      \/ pc'[Flusher] = "swap"
  BY ThreadsDiffer
     DEF FlusherChecks, FlusherWakes, FlusherClears, Goto, IInv, TypeOK
<1>5. pc'[Main] = pc[Main]
  BY <1>2, ThreadsDiffer DEF IInv, TypeOK
<1>6. TypeOK'
  BY <1>1, <1>2 DEF LoopVars, IInv, TypeOK, Places
<1>7. BatchWhileSending' /\ KilledAtExit'
  BY <1>1, <1>2, <1>3, <1>5, ThreadsDiffer
     DEF LoopVars, IInv, TypeOK, BatchWhileSending, KilledAtExit, Running
<1>8. EachEventOnce'
  BY <1>1 DEF LoopVars, IInv, EachEventOnce, InFlight
<1>9. NoLostWakeup' /\ ClosedInOrder'
  BY <1>1, <1>3, <1>4, <1>5 DEF LoopVars, IInv, NoLostWakeup, ClosedInOrder
<1>10. QED  BY <1>6, <1>7, <1>8, <1>9 DEF IInv

-----------------------------------------------------------------------------
(* The end of the process                                                  *)

(* close() and the atexit handler begin by setting the flag.               *)
LEMMA ClosingIInv ==
  ASSUME IInv, Close \/ AtExit
  PROVE  IInv'
<1>1. /\ pc[Main] \in {"idle", "closed"}
      /\ closed' = TRUE /\ ending' \in BOOLEAN
      /\ pc' = [pc EXCEPT ![Main] = "closing"]
      /\ UNCHANGED <<asyncMode, buffer, sending, flushEvent, emitting,
                     accepted, refused, delivered, lost, killed>>
  BY DEF Close, AtExit, CloseFlag, Goto, IInv, TypeOK
<1>2. pc'[Main] = "closing" /\ pc'[Flusher] = pc[Flusher]
  BY <1>1, ThreadsDiffer DEF IInv, TypeOK
<1>3. TypeOK'
  BY <1>1 DEF IInv, TypeOK, Places
<1>4. BatchWhileSending' /\ KilledAtExit'
  BY <1>1, ThreadsDiffer
     DEF IInv, TypeOK, BatchWhileSending, KilledAtExit, Running
<1>5. EachEventOnce'
  BY <1>1 DEF IInv, EachEventOnce, InFlight
<1>6. NoLostWakeup' /\ ClosedInOrder'
  BY <1>1, <1>2 DEF IInv, NoLostWakeup, ClosedInOrder
<1>7. QED  BY <1>3, <1>4, <1>5, <1>6 DEF IInv

(* What the daemon thread held when the process ended is accounted for.    *)
LEMMA ExitIInv ==
  ASSUME IInv, Exit
  PROVE  IInv'
<1>1. /\ pc[Main] = "closed" /\ killed = {}
      /\ killed' = sending[Flusher]
      /\ sending' = [sending EXCEPT ![Flusher] = {}]
      /\ pc' = [pc EXCEPT ![Main] = "exited"]
      /\ UNCHANGED <<asyncMode, buffer, closed, ending, flushEvent, emitting,
                     accepted, refused, delivered, lost>>
  BY DEF Exit, Goto, IInv, KilledAtExit, Running
<1>2. pc'[Main] = "exited" /\ pc'[Flusher] = pc[Flusher]
  BY <1>1, ThreadsDiffer DEF IInv, TypeOK
<1>3. TypeOK'
  BY <1>1, ThreadsDiffer DEF IInv, TypeOK, Places
<1>4. BatchWhileSending'
  BY <1>1, ThreadsDiffer DEF IInv, TypeOK, BatchWhileSending
<1>5. KilledAtExit'
  BY <1>2 DEF KilledAtExit, Running
<1>6. EachEventOnce'
  <2>1. \A u \in Threads :
          sending'[u] = IF u = Flusher THEN {} ELSE sending[u]
    BY <1>1 DEF IInv, TypeOK
  <2>2. InFlight' = InFlight \ sending[Flusher]
    BY <2>1, ThreadsDiffer DEF InFlight, IInv, EachEventOnce
  <2>3. sending[Flusher] \subseteq InFlight
    BY ThreadsDiffer DEF InFlight
  <2>4. QED
    BY <1>1, <2>1, <2>2, <2>3 DEF IInv, EachEventOnce
<1>7. NoLostWakeup' /\ ClosedInOrder'
  BY <1>1, <1>2 DEF IInv, NoLostWakeup, ClosedInOrder
<1>8. QED  BY <1>3, <1>4, <1>5, <1>6, <1>7 DEF IInv

-----------------------------------------------------------------------------

(* The invariant is inductive: one step per action.                        *)
LEMMA NextIInv == IInv /\ [Next]_vars => IInv'
<1> SUFFICES ASSUME IInv, [Next]_vars PROVE IInv'
  OBVIOUS
<1>1. ASSUME NEW t \in Callers, NEW e \in Events,
             EmitRefused(t, e) \/ EmitBuffered(t, e) \/ EmitSends(t, e)
      PROVE  IInv'
  BY <1>1, EmitRefusedIInv, EmitBufferedIInv, EmitSendsIInv
<1>2. ASSUME NEW t \in Callers, UserFlush(t)
      PROVE  IInv'
  BY <1>2, FlushIInv, ThreadsDiffer DEF UserFlush, IInv, BatchWhileSending
<1>3. ASSUME NEW t \in Threads, Post(t)
      PROVE  IInv'
  BY <1>3, PostIInv
<1>4. CASE Background
  BY <1>4, LoopIInv, FlushIInv, ThreadsDiffer
     DEF Background, FlusherFlushes, IInv, BatchWhileSending
<1>5. CASE Close \/ AtExit
  BY <1>5, ClosingIInv
<1>6. CASE CloseFlushes
  BY <1>6, FlushIInv, ThreadsDiffer DEF CloseFlushes, IInv, BatchWhileSending
<1>7. CASE Exit
  BY <1>7, ExitIInv
<1>8. CASE UNCHANGED vars
  BY <1>8 DEF vars, IInv, TypeOK, BatchWhileSending, KilledAtExit, Running,
              EachEventOnce, InFlight, NoLostWakeup, ClosedInOrder
<1>9. QED
  BY <1>1, <1>2, <1>3, <1>4, <1>5, <1>6, <1>7, <1>8 DEF Next

(* The strengthened invariant holds in every reachable state.              *)
THEOREM InductiveInvariant == Spec => []IInv
  BY InitIInv, NextIInv, PTL DEF Spec

(* Type correctness of the handler; the buffer keeps its bound, though     *)
(* several threads reach it at once.                                       *)
THEOREM TypeCorrect == Spec => []TypeOK
<1>1. IInv => TypeOK
  BY DEF IInv
<1>2. QED  BY <1>1, InductiveInvariant, PTL

(* An accepted event is in exactly one place, from emit() to its outcome.  *)
THEOREM NeverTwiceNeverGone == Spec => []EachEventOnce
<1>1. IInv => EachEventOnce
  BY DEF IInv
<1>2. QED  BY <1>1, InductiveInvariant, PTL

(* The threshold signal to the background thread is never lost.            *)
THEOREM WakeupKept == Spec => []NoLostWakeup
<1>1. IInv => NoLostWakeup
  BY DEF IInv
<1>2. QED  BY <1>1, InductiveInvariant, PTL

(* No caller slips an event in behind the last flush of close().           *)
THEOREM NothingLeftBehind == Spec => []NothingStranded
<1>1. IInv => NothingStranded
  BY DEF IInv, ClosedInOrder, NothingStranded
<1>2. QED  BY <1>1, InductiveInvariant, PTL
==============================================================================
