--------------------------- MODULE MetricsConsumer ---------------------------
(***************************************************************************)
(* MetricsConsumer: each event increments four Redis counters through a    *)
(* pipeline that is one round trip but no transaction, so a connection     *)
(* that breaks leaves any prefix of the four commands applied.  Only the   *)
(* keys the four commands touch are told apart: an event has a label, the  *)
(* pair of its service and its level.                                      *)
(***************************************************************************)
EXTENDS RetryConsumer

CONSTANTS
  Labels,    \* pairs <<service, level>>
  Label,     \* Label[e]: the pair of event e
  MaxTotal   \* bound: no pipeline is started once metrics:total is this

ASSUME LabelAssumption ==
  /\ Label \in [Events -> Labels]
  /\ MaxTotal \in Nat

VARIABLES
  sent,           \* sent[w]: commands of w's pipeline the server executed
  total,          \* metrics:total
  services,       \* metrics:services
  levels,         \* metrics:levels
  serviceLevels   \* metrics:service_levels

counters    == <<total, services, levels, serviceLevels>>
metricsVars == <<groupVars, retryVars, sent, counters>>

Services == {l[1] : l \in Labels}
Levels   == {l[2] : l \in Labels}
Counts   == 0 .. MaxTotal

MetricsTypeOK ==
  /\ RetryTypeOK
  /\ sent \in [Workers -> 0 .. 4]
  /\ total \in Counts
  /\ services \in [Services -> Counts]
  /\ levels \in [Levels -> Counts]
  /\ serviceLevels \in [Labels -> Counts]

MetricsInit ==
  /\ RetryInit
  /\ sent = [w \in Workers |-> 0]
  /\ total = 0
  /\ services = [s \in Services |-> 0]
  /\ levels = [l \in Levels |-> 0]
  /\ serviceLevels = [sl \in Labels |-> 0]

(* What json.loads and payload.get accept.                                 *)
Countable(m) == KindOf(m) \in {"row", "poison"}

Bump(counter, key) == [counter EXCEPT ![key] = @ + 1]

(* The k-th command of the pipeline for an event labelled sl; the mutant   *)
(* sends the breakdown first.                                              *)
CommandBreakdownFirst(k, sl) ==
  CASE k = 1 -> serviceLevels' = Bump(serviceLevels, sl)
                /\ UNCHANGED <<total, services, levels>>
    [] k = 2 -> services' = Bump(services, sl[1])
                /\ UNCHANGED <<total, levels, serviceLevels>>
    [] k = 3 -> levels' = Bump(levels, sl[2])
                /\ UNCHANGED <<total, services, serviceLevels>>
    [] k = 4 -> total' = total + 1
                /\ UNCHANGED <<services, levels, serviceLevels>>
Command(k, sl) ==
  CASE k = 1 -> total' = total + 1
                /\ UNCHANGED <<services, levels, serviceLevels>>
    [] k = 2 -> services' = Bump(services, sl[1])
                /\ UNCHANGED <<total, levels, serviceLevels>>
    [] k = 3 -> levels' = Bump(levels, sl[2])
                /\ UNCHANGED <<total, services, serviceLevels>>
    [] k = 4 -> serviceLevels' = Bump(serviceLevels, sl)
                /\ UNCHANGED <<total, services, levels>>

(* The commands a dead client had sent may still run, or not: a prefix.    *)
CrashCounting(w) ==
  /\ Die(w)
  /\ sent' = [sent EXCEPT ![w] = 0]
  /\ UNCHANGED counters

(* process() with a value it cannot read.                                  *)
CannotCount(w) ==
  /\ \E m \in current[w] : ~Countable(m)
  /\ ProcessRaised(w, TRUE)
  /\ UNCHANGED <<sent, counters>>

(* The server executes the next command of w's pipeline.                   *)
ExecuteCommand(w) ==
  /\ pc[w] = "process"
  /\ sent[w] < 4
  /\ sent[w] = 0 => total < MaxTotal
  /\ \E m \in current[w] :
       Countable(m) /\ Command(sent[w] + 1, Label[EventOf(m)])
  /\ sent' = [sent EXCEPT ![w] = @ + 1]
  /\ UNCHANGED <<groupVars, retryVars>>

(* execute() returned all four answers.                                    *)
PipelineOk(w) ==
  /\ sent[w] = 4
  /\ Processed(w)
  /\ sent' = [sent EXCEPT ![w] = 0]
  /\ UNCHANGED counters

(* The connection broke after a prefix; process() raises.                  *)
PipelineFails(w) ==
  /\ "redis" \in Faults
  /\ \E m \in current[w] : Countable(m)
  /\ ProcessRaised(w, sent[w] = 0)
  /\ sent' = [sent EXCEPT ![w] = 0]
  /\ UNCHANGED counters

MetricsNext ==
  \/ LoopNext /\ UNCHANGED <<sent, counters>>
  \/ \E w \in Workers :
       \/ CrashCounting(w)
       \/ CannotCount(w)
       \/ ExecuteCommand(w)
       \/ PipelineOk(w)
       \/ PipelineFails(w)

MetricsSpec == MetricsInit /\ [][MetricsNext]_metricsVars

-----------------------------------------------------------------------------
(* Properties                                                              *)

(* What a counter adds up to over its keys: one unit per increment.        *)
Units(counter) == UNION {{k} \X (1 .. counter[k]) : k \in DOMAIN counter}
Sum(counter)   == Cardinality(Units(counter))

(***************************************************************************)
(* A committed event that was not dead-lettered is in all four counters:   *)
(* the breakdown per service and level, written last, never undercounts    *)
(* what the group has committed.                                           *)
(***************************************************************************)
CountedFor(sl) ==
  {m \in Committed \ (dlt \cup dropped) : Label[EventOf(m)] = sl}
NeverUndercounted ==
  \A sl \in Labels : serviceLevels[sl] >= Cardinality(CountedFor(sl))

(***************************************************************************)
(* The breakdowns never run ahead of the total: whatever prefixes broken   *)
(* pipelines leave, metrics:total >= services >= levels >= service_levels. *)
(***************************************************************************)
TotalsNested ==
  /\ total >= Sum(services)
  /\ Sum(services) >= Sum(levels)
  /\ Sum(levels) >= Sum(serviceLevels)

(***************************************************************************)
(* What the HELP text says, "Total number of log events ingested": the     *)
(* total never exceeds what was produced.  It holds across signals,        *)
(* restarts, retries and rebalances until a pipeline breaks after a first  *)
(* command, a commit raises, or a crash or a rebalance comes while a batch *)
(* is worked on.                                                           *)
(***************************************************************************)
TotalIsEvents == calm => total <= Cardinality(Produced)

(***************************************************************************)
(* Every batch comes to its commit: whatever raises, breaks or is rebal-   *)
(* anced meanwhile, a step that changes what a process has in hand kills   *)
(* it, takes it nearer to the end of its batch (the bound of               *)
(* _run_with_retry), or is one of the four commands.                       *)
(***************************************************************************)
MetricsHands(w) == <<pc[w], batch[w], current[w], attempt[w], sent[w]>>
MetricsBatchEnds ==
  [][\A w \in Workers : InBatch(w) =>
       \/ UNCHANGED MetricsHands(w)
       \/ pc'[w] = "down"
       \/ Nearer(w)
       \/ /\ UNCHANGED <<pc[w], batch[w], current[w], attempt[w]>>
          /\ sent'[w] \in (sent[w] + 1) .. 4]_metricsVars
==============================================================================
