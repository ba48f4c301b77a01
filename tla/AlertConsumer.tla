---------------------------- MODULE AlertConsumer ----------------------------
(***************************************************************************)
(* AlertConsumer: for every rule an event matches, in the order of         *)
(* alerts.yml, send an alert to logs.alerts and increment a counter in     *)
(* Redis.  A failure of either is logged and swallowed, so process()       *)
(* raises only before the first rule is looked at.                         *)
(***************************************************************************)
EXTENDS RetryConsumer

CONSTANTS
  Rules,    \* positions of the rules in alerts.yml
  Matches,  \* Matches[e]: the rules whose pattern event e matches
  MaxCount,    \* bound: the counter saturates here
  MaxFailures  \* bound: sends and increments that may raise

ASSUME RuleAssumption ==
  /\ Rules \subseteq Nat /\ IsFiniteSet(Rules)
  /\ Matches \in [Events -> SUBSET Rules]
  /\ MaxCount \in Nat /\ MaxFailures \in Nat

VARIABLES
  toFire,     \* toFire[w]: rules of the current message not yet fired
  parsed,     \* parsed[w]: process() is past its checks
  produced,   \* produced[w]: the first of toFire[w] was sent, not counted
  alerts,     \* pairs <<message, rule>> in logs.alerts
  repeated,   \* history: some pair was sent twice
  alertCount, \* metrics:alerts
  unsent,     \* pairs whose send to logs.alerts raised, which was logged
  uncounted   \* pairs whose hincrby() raised, which was logged

ruleVars  == <<toFire, parsed, produced>>
firedVars == <<alerts, repeated, alertCount, unsent, uncounted>>
alertVars == <<groupVars, retryVars, ruleVars, firedVars>>

AlertTypeOK ==
  /\ RetryTypeOK
  /\ toFire \in [Workers -> SUBSET Rules]
  /\ parsed \in [Workers -> BOOLEAN]
  /\ produced \in [Workers -> BOOLEAN]
  /\ alerts \subseteq Msg \X Rules
  /\ repeated \in BOOLEAN
  /\ alertCount \in 0 .. MaxCount
  /\ unsent \subseteq Msg \X Rules /\ uncounted \subseteq Msg \X Rules

AlertInit ==
  /\ RetryInit
  /\ toFire = [w \in Workers |-> {}]
  /\ parsed = [w \in Workers |-> FALSE]
  /\ produced = [w \in Workers |-> FALSE]
  /\ alerts = {}
  /\ repeated = FALSE
  /\ alertCount = 0
  /\ unsent = {} /\ uncounted = {}

(* json.loads, payload.get and the regular expressions accept it; the last *)
(* raise for a message that is not a string, which is what poison means to *)
(* this consumer.                                                          *)
Matchable(m) == KindOf(m) = "row"

Forget(w) ==
  /\ toFire' = [toFire EXCEPT ![w] = {}]
  /\ parsed' = [parsed EXCEPT ![w] = FALSE]
  /\ produced' = [produced EXCEPT ![w] = FALSE]

CrashFiring(w) ==
  /\ Die(w)
  /\ Forget(w)
  /\ UNCHANGED firedVars

CannotMatch(w) ==
  /\ \E m \in current[w] : ~Matchable(m)
  /\ ProcessRaised(w, TRUE)
  /\ UNCHANGED <<ruleVars, firedVars>>

(* The payload is read, and the rules that will fire are determined.       *)
Match(w) ==
  /\ pc[w] = "process"
  /\ ~parsed[w]
  /\ \E m \in current[w] :
       /\ Matchable(m)
       /\ toFire' = [toFire EXCEPT ![w] = Matches[EventOf(m)]]
  /\ parsed' = [parsed EXCEPT ![w] = TRUE]
  /\ UNCHANGED <<groupVars, retryVars, produced, firedVars>>

MayFail == Cardinality(unsent) + Cardinality(uncounted) < MaxFailures

NextRule(w, r) == r \in toFire[w] /\ \A s \in toFire[w] : r <= s

(* send_and_wait() to logs.alerts; a failure is logged and the rule goes   *)
(* on to its counter.                                                      *)
ProduceAlert(w) ==
  /\ pc[w] = "process" /\ ~produced[w]
  /\ \E r \in toFire[w], m \in current[w] :
       /\ NextRule(w, r)
       /\ \/ /\ alerts' = alerts \cup {<<m, r>>}
             /\ repeated' = (repeated \/ <<m, r>> \in alerts)
             /\ UNCHANGED unsent
          \/ /\ "alert" \in Faults /\ MayFail
             /\ unsent' = unsent \cup {<<m, r>>}
             /\ UNCHANGED <<alerts, repeated>>
  /\ produced' = [produced EXCEPT ![w] = TRUE]
  /\ UNCHANGED <<groupVars, retryVars, toFire, parsed, alertCount, uncounted>>

(* hincrby(), after which the rule is done.                                *)
RuleDone(w) ==
  /\ pc[w] = "process" /\ produced[w]
  /\ \E r \in toFire[w] :
       NextRule(w, r) /\ toFire' = [toFire EXCEPT ![w] = @ \ {r}]
  /\ produced' = [produced EXCEPT ![w] = FALSE]
  /\ UNCHANGED <<groupVars, retryVars, parsed, alerts, repeated, unsent>>

CountAlert(w) ==
  /\ RuleDone(w)
  /\ alertCount' = IF alertCount < MaxCount THEN alertCount + 1 ELSE MaxCount
  /\ UNCHANGED uncounted

(* A failed hincrby() is logged; the mutant lets it out of process().      *)
CountRaises(w) ==
  /\ "redis" \in Faults
  /\ produced[w]
  /\ ProcessRaised(w, TRUE)
  /\ Forget(w)
  /\ UNCHANGED firedVars
CountFails(w) ==
  /\ "redis" \in Faults /\ MayFail
  /\ RuleDone(w)
  /\ \E r \in toFire[w], m \in current[w] :
       NextRule(w, r) /\ uncounted' = uncounted \cup {<<m, r>>}
  /\ UNCHANGED alertCount

(* Every rule was looked at.                                               *)
MatchDone(w) ==
  /\ parsed[w]
  /\ toFire[w] = {}
  /\ Processed(w)
  /\ parsed' = [parsed EXCEPT ![w] = FALSE]
  /\ UNCHANGED <<toFire, produced, firedVars>>

AlertNext ==
  \/ LoopNext /\ UNCHANGED <<ruleVars, firedVars>>
  \/ \E w \in Workers :
       \/ CrashFiring(w)
       \/ CannotMatch(w)
       \/ Match(w)
       \/ ProduceAlert(w)
       \/ CountAlert(w)
       \/ CountFails(w)
       \/ MatchDone(w)

AlertSpec == AlertInit /\ [][AlertNext]_alertVars

-----------------------------------------------------------------------------
(* Properties                                                              *)

(* The alerts that the events behind the committed offsets call for.       *)
Due == {a \in Msg \X Rules : /\ a[1] \in Committed \ (dlt \cup dropped)
                             /\ a[2] \in Matches[EventOf(a[1])]}

(***************************************************************************)
(* A commit never passes an event one of whose rules has neither fired nor *)
(* had its failure logged, whichever rule a crash or a rebalance fell      *)
(* between.                                                                *)
(***************************************************************************)
AlertDelivered == Due \subseteq alerts \cup unsent

(***************************************************************************)
(* The counter in Redis keeps up: it covers every alert due behind the     *)
(* committed offsets but those whose increment failed and was logged.      *)
(***************************************************************************)
AlertsCounted == alertCount >= Cardinality(Due \ uncounted)

(***************************************************************************)
(* Retries never fire an alert twice: a failing broker or Redis is         *)
(* swallowed rather than retried, and process() raises only before the     *)
(* first alert.  Only a crash or a rebalance in the middle of a batch, or  *)
(* a commit that raises, repeats one.                                      *)
(***************************************************************************)
FiredOnce == calm => ~repeated

(***************************************************************************)
(* Every batch comes to its commit: the rules of a message are gone        *)
(* through one after the other, and no failure starts them again.          *)
(***************************************************************************)
AlertHands(w) ==
  <<pc[w], batch[w], current[w], attempt[w], toFire[w], parsed[w], produced[w]>>
AlertBatchEnds ==
  [][\A w \in Workers : InBatch(w) =>
       \/ UNCHANGED AlertHands(w)
       \/ pc'[w] = "down"
       \/ Nearer(w)
       \/ /\ UNCHANGED <<pc[w], batch[w], current[w], attempt[w]>>
          /\ \/ ~parsed[w] /\ parsed'[w]
             \/ /\ UNCHANGED parsed[w]
                /\ \/ toFire'[w] \in (SUBSET toFire[w]) \ {toFire[w]}
                   \/ /\ UNCHANGED toFire[w]
                      /\ ~produced[w] /\ produced'[w]]_alertVars

-----------------------------------------------------------------------------
(* The abstract durable log                                                *)

(* Every rule the message matches was tried, or the message was routed.    *)
Tried ==
  {m \in Produced : /\ Matchable(m)
                    /\ \A r \in Matches[EventOf(m)] :
                         <<m, r>> \in alerts \cup unsent}
Settled == Tried \cup dlt \cup dropped

(***************************************************************************)
(* The loop of BaseConsumer, with alerts for an effect, is a durable log   *)
(* as the log writer's is: committed offsets never go back, and none gets  *)
(* past a message that was neither read and tried nor routed, which an     *)
(* event that matches no rule could do behind AlertDelivered.              *)
(***************************************************************************)
DL == INSTANCE DurableLog WITH produced <- Produced, settled <- Settled
ImplementsDurableLog == DL!Spec
==============================================================================
