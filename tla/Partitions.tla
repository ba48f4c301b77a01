------------------------------ MODULE Partitions ------------------------------
(***************************************************************************)
(* The monthly partitions of the logs table and the maintenance script     *)
(* that creates those of the coming months and drops expired ones.  Each   *)
(* statement is a transaction of its own and rows arrive between any two;  *)
(* runs may overlap, and one may outlast the month it began in.            *)
(*                                                                         *)
(* Months are numbers.  Of the rows only their month is told apart, and    *)
(* only in logs_default: any other partition is taken to have some.        *)
(***************************************************************************)
EXTENDS Integers

CONSTANTS
  Jobs,          \* runs of the script that may overlap
  CreateMonths,  \* --create-months
  RetainMonths,  \* --retain-months
  SchemaMonths,  \* partitions schema.sql starts with
  LastNow,       \* bound: the calendar ends here
  LastMonth      \* bound: last month of a partition or a row

ASSUME PartitionsAssumption ==
  /\ CreateMonths \in Nat /\ RetainMonths \in Nat /\ SchemaMonths \in Nat
  /\ LastNow \in Nat /\ LastMonth \in Nat
  /\ LastNow + CreateMonths <= LastMonth
  /\ SchemaMonths <= LastMonth + 1

Months == 0 .. LastMonth

VARIABLES
  now,          \* the current month
  partitions,   \* months m with a table logs_m
  defaultRows,  \* months of the rows in logs_default
  pc,           \* pc[j]: "idle", "create", "list", "drop"
  started,      \* started[j]: `now` of the run, read once
  step,         \* step[j]: the loop variable i of the creation
  expired,      \* expired[j]: partitions still to drop
  runway        \* history: last month that creation has reached so far

tables  == <<partitions, defaultRows>>
jobVars == <<pc, started, step, expired>>
vars    == <<now, tables, jobVars, runway>>

TypeOK ==
  /\ now \in 0 .. LastNow
  /\ partitions \subseteq Months
  /\ defaultRows \subseteq Months
  /\ pc \in [Jobs -> {"idle", "create", "list", "drop"}]
  /\ started \in [Jobs -> 0 .. LastNow]
  /\ step \in [Jobs -> 0 .. CreateMonths]
  /\ expired \in [Jobs -> SUBSET Months]
  /\ runway \in -1 .. LastMonth

Init ==
  /\ now = 0
  /\ partitions = 0 .. (SchemaMonths - 1)
  /\ defaultRows = {}
  /\ pc = [j \in Jobs |-> "idle"]
  /\ started = [j \in Jobs |-> 0]
  /\ step = [j \in Jobs |-> 0]
  /\ expired = [j \in Jobs |-> {}]
  /\ runway = SchemaMonths - 1

MonthPasses ==
  /\ now < LastNow
  /\ now' = now + 1
  /\ UNCHANGED <<tables, jobVars, runway>>

(* The log writer inserts a row that no other partition takes.  Its        *)
(* timestamp is the client's: any month, past or to come.                  *)
InsertIntoDefault(m) ==
  /\ m \notin partitions
  /\ defaultRows' = defaultRows \cup {m}
  /\ UNCHANGED <<now, partitions, jobVars, runway>>

-----------------------------------------------------------------------------
(* manage_partitions()                                                     *)

Goto(j, place) == pc' = [pc EXCEPT ![j] = place]

(* Connected; datetime.now() is read.                                      *)
Begin(j) ==
  /\ pc[j] = "idle"
  /\ Goto(j, "create")
  /\ started' = [started EXCEPT ![j] = now]
  /\ UNCHANGED <<now, tables, step, expired, runway>>

(* conn.close(), and the run's locals are gone.                            *)
End(j) ==
  /\ Goto(j, "idle")
  /\ started' = [started EXCEPT ![j] = 0]
  /\ step' = [step EXCEPT ![j] = 0]
  /\ expired' = [expired EXCEPT ![j] = {}]
  /\ UNCHANGED <<now, tables, runway>>

(* add_months(now, i); the first month is the current one.                 *)
TargetNext(j) == started[j] + step[j] + 1
Target(j)     == started[j] + step[j]

(* range(create_months + 1), and what range(create_months) would do.       *)
LastStepExclusive(j) == step[j] + 1 >= CreateMonths
LastStep(j)          == step[j] = CreateMonths

NextStep(j) ==
  IF LastStep(j)
    THEN /\ Goto(j, "list")
         /\ runway' = IF runway < started[j] + CreateMonths
                      THEN started[j] + CreateMonths ELSE runway
         /\ UNCHANGED step
    ELSE step' = [step EXCEPT ![j] = @ + 1] /\ UNCHANGED <<pc, runway>>

(* CREATE TABLE IF NOT EXISTS ... PARTITION OF logs                        *)
Refused(j) == Target(j) \in defaultRows \ partitions
Create(j) ==
  /\ pc[j] = "create"
  /\ ~Refused(j)
  /\ partitions' = partitions \cup {Target(j)}
  /\ NextStep(j)
  /\ UNCHANGED <<now, defaultRows, started, expired>>

(* PostgreSQL refuses a partition some of whose rows logs_default already  *)
(* holds; the exception ends the run.                                      *)
CreateRefused(j) == pc[j] = "create" /\ Refused(j) /\ End(j)

(* Any other failure of a statement before the drops ends it too.          *)
StatementFails(j) ==
  /\ \/ pc[j] = "create" /\ ~Refused(j)
     \/ pc[j] = "list"
  /\ End(j)

(* p_date < cutoff_start_of_month; logs_default fails the name pattern.    *)
KeptToCutoff(m, j) == m <= started[j] - RetainMonths
KeptByNow(m, j)    == m + 1 < started[j] - RetainMonths
Expired(m, j)      == m < started[j] - RetainMonths

List(j) ==
  /\ pc[j] = "list"
  /\ expired' = [expired EXCEPT ![j] = {m \in partitions : Expired(m, j)}]
  /\ Goto(j, "drop")
  /\ UNCHANGED <<now, tables, started, step, runway>>

(* DROP TABLE IF EXISTS                                                    *)
Drop(j, m) ==
  /\ pc[j] = "drop" /\ m \in expired[j]
  /\ partitions' = partitions \ {m}
  /\ expired' = [expired EXCEPT ![j] = @ \ {m}]
  /\ UNCHANGED <<now, defaultRows, pc, started, step, runway>>

(* It raises, which is logged: on to the next one.                         *)
DropFails(j, m) ==
  /\ pc[j] = "drop" /\ m \in expired[j] \cap partitions
  /\ expired' = [expired EXCEPT ![j] = @ \ {m}]
  /\ UNCHANGED <<now, tables, pc, started, step, runway>>

Done(j) == pc[j] = "drop" /\ expired[j] = {} /\ End(j)

Next ==
  \/ MonthPasses
  \/ \E m \in Months : InsertIntoDefault(m)
  \/ \E j \in Jobs :
       \/ Begin(j) \/ Create(j) \/ CreateRefused(j) \/ StatementFails(j)
       \/ List(j) \/ Done(j)
       \/ \E m \in Months : Drop(j, m) \/ DropFails(j, m)

Spec == Init /\ [][Next]_vars

-----------------------------------------------------------------------------
(* Properties                                                              *)

(***************************************************************************)
(* Retention deletes only what has expired: whatever month a run began in  *)
(* and whatever another run does meanwhile, no step removes a partition    *)
(* younger than RetainMonths months, with its rows.                        *)
(***************************************************************************)
RetentionKeeps ==
  [][\A m \in partitions \ partitions' : m < now - RetainMonths]_vars

(***************************************************************************)
(* "6 months of runway": from the current month up to the last one that    *)
(* the schema or a completed creation covered, every month has its         *)
(* partition, so current rows never fall into logs_default; runs that      *)
(* overlap, fail half way or clean up do not tear a hole.                  *)
(***************************************************************************)
Runway == \A m \in Months : now <= m /\ m <= runway => m \in partitions

-----------------------------------------------------------------------------
(* Liveness                                                                *)

(* Cron starts the script again and again; a statement returns or raises.  *)
Run(j) == \/ Create(j) \/ CreateRefused(j) \/ StatementFails(j)
          \/ List(j) \/ Done(j)
          \/ \E m \in Months : Drop(j, m) \/ DropFails(j, m)

FairSpec == Spec /\ \A j \in Jobs : WF_vars(Begin(j)) /\ WF_vars(Run(j))

Failure ==
  \E j \in Jobs : StatementFails(j) \/ \E m \in Months : DropFails(j, m)
Reliable == <>[][~Failure]_vars

Unobstructed == \A m \in now .. (now + CreateMonths) : m \notin defaultRows

IsExpired(m) == m \in partitions /\ m < now - RetainMonths

(***************************************************************************)
(* Expired partitions go, once the database stops failing, whatever had    *)
(* been left by broken and overlapping runs.  It takes a logs_default that *)
(* holds no row of the months to create: one such row, and no run gets as  *)
(* far as the retention.                                                   *)
(***************************************************************************)
ExpiredDropped ==
  Reliable /\ <>[]Unobstructed =>
    \A m \in Months : IsExpired(m) ~> m \notin partitions
==============================================================================
