--------------------------- MODULE PartitionsProofs ---------------------------
(***************************************************************************)
(* Proofs about Partitions, for any number of overlapping runs, any months *)
(* of creation and retention, and any length of the calendar.              *)
(***************************************************************************)
EXTENDS Partitions, TLAPS

(* A run began in this month or before: its date never lies ahead.         *)
BegunBefore == \A j \in Jobs : started[j] <= now

(* An idle run starts counting from the current month.                     *)
IdleAtFirst == \A j \in Jobs : pc[j] = "idle" => step[j] = 0

(* What a run has gone through and is not over yet is there.               *)
CreatedSoFar ==
  \A j \in Jobs : pc[j] = "create" =>
    \A m \in Months :
      now <= m /\ started[j] <= m /\ m < Target(j) => m \in partitions

(* What a run is about to drop has expired, and stays so.                  *)
ListedExpired ==
  \A j \in Jobs : \A m \in expired[j] : m < now - RetainMonths

IInv ==
  /\ TypeOK
  /\ BegunBefore /\ IdleAtFirst /\ CreatedSoFar /\ ListedExpired
  /\ Runway

(* The initial state satisfies it: the schema's partitions are the runway. *)
LEMMA InitIInv == Init => IInv
  BY PartitionsAssumption
     DEF Init, IInv, TypeOK, BegunBefore, IdleAtFirst, CreatedSoFar,
         ListedExpired, Runway, Months

(* Time passing only makes fewer months matter.                            *)
LEMMA MonthPassesIInv == IInv /\ MonthPasses => IInv'
  BY PartitionsAssumption
     DEF MonthPasses, IInv, TypeOK, BegunBefore, IdleAtFirst, CreatedSoFar,
         ListedExpired, Runway, Months, Target, tables, jobVars

(* Rows in the default partition touch nothing the invariant speaks of.    *)
LEMMA InsertIInv ==
  ASSUME NEW m \in Months, IInv, InsertIntoDefault(m)
  PROVE  IInv'
  BY PartitionsAssumption
     DEF InsertIntoDefault, IInv, TypeOK, BegunBefore, IdleAtFirst,
         CreatedSoFar, ListedExpired, Runway, Months, Target, jobVars

(* A run that ends, well or not, leaves no trace but its tables.           *)
LEMMA EndIInv ==
  ASSUME NEW j \in Jobs, IInv, End(j)
  PROVE  IInv'
<1>1. TypeOK'
  BY PartitionsAssumption DEF End, Goto, IInv, TypeOK, tables
<1>2. BegunBefore' /\ IdleAtFirst'
  BY DEF End, Goto, IInv, TypeOK, BegunBefore, IdleAtFirst, tables
<1>3. CreatedSoFar'
  BY DEF End, Goto, IInv, TypeOK, CreatedSoFar, Target, Months, tables
<1>4. ListedExpired'
  BY DEF End, Goto, IInv, TypeOK, ListedExpired, tables
<1>5. Runway'
  BY DEF End, IInv, Runway, Months, tables
<1>6. QED  BY <1>1, <1>2, <1>3, <1>4, <1>5 DEF IInv

(* A run reads the date: no month lies before it that it has to create.    *)
LEMMA BeginIInv ==
  ASSUME NEW j \in Jobs, IInv, Begin(j)
  PROVE  IInv'
<1>1. TypeOK' /\ BegunBefore' /\ IdleAtFirst'
  BY PartitionsAssumption
     DEF Begin, Goto, IInv, TypeOK, BegunBefore, IdleAtFirst, tables
<1>2. CreatedSoFar'
  BY DEF Begin, Goto, IInv, TypeOK, IdleAtFirst, CreatedSoFar, Target, Months,
         tables
<1>3. ListedExpired' /\ Runway'
  BY DEF Begin, IInv, ListedExpired, Runway, Months, tables
<1>4. QED  BY <1>1, <1>2, <1>3 DEF IInv

(* The creation of one month.  With the last one the runway is extended,   *)
(* and by CreatedSoFar every month of the extension is there.              *)
LEMMA CreateIInv ==
  ASSUME NEW j \in Jobs, IInv, Create(j)
  PROVE  IInv'
<1>1. /\ started[j] \in 0 .. LastNow /\ step[j] \in 0 .. CreateMonths
      /\ started[j] <= now /\ pc[j] = "create" /\ Target(j) \in Months
  BY PartitionsAssumption
     DEF IInv, TypeOK, BegunBefore, Create, Target, Months
<1>2. TypeOK'
  <2>1. CASE LastStep(j)
    <3>1. runway' \in -1 .. LastMonth
      BY <1>1, <2>1, PartitionsAssumption DEF Create, NextStep, IInv, TypeOK
    <3>2. pc' \in [Jobs -> {"idle", "create", "list", "drop"}]
      BY <2>1 DEF Create, NextStep, Goto, IInv, TypeOK
    <3>3. partitions' \subseteq Months /\ step' = step
      BY <1>1, <2>1 DEF Create, NextStep, IInv, TypeOK
    <3>4. QED
      BY <3>1, <3>2, <3>3 DEF Create, IInv, TypeOK
  <2>2. CASE ~LastStep(j)
    <3>1. step[j] + 1 \in 0 .. CreateMonths
      BY <1>1, <2>2, PartitionsAssumption DEF LastStep
    <3>2. QED
      BY <1>1, <2>2, <3>1 DEF Create, NextStep, IInv, TypeOK
  <2>3. QED  BY <2>1, <2>2
<1>3. BegunBefore' /\ IdleAtFirst' /\ ListedExpired'
  BY <1>1 DEF Create, NextStep, Goto, IInv, TypeOK, BegunBefore, IdleAtFirst,
              ListedExpired
<1>4. CreatedSoFar'
  <2>1. CASE LastStep(j)
    BY <1>1, <2>1 DEF Create, NextStep, Goto, IInv, TypeOK, CreatedSoFar,
                      Target, Months
  <2>2. CASE ~LastStep(j)
    <3> SUFFICES ASSUME NEW k \in Jobs, pc[k] = "create", NEW m \in Months,
                        now <= m, started[k] <= m, m < Target(k)'
                 PROVE  m \in partitions'
      BY <2>2 DEF CreatedSoFar, Create, NextStep
    <3>1. CASE k = j
      <4>1. Target(k)' = Target(j) + 1
        BY <1>1, <2>2, <3>1 DEF Create, NextStep, Target, IInv, TypeOK
      <4>2. m < Target(j) \/ m = Target(j)
        BY <1>1, <4>1 DEF Target, Months
      <4>3. QED
        BY <1>1, <3>1, <4>2 DEF Create, IInv, CreatedSoFar
    <3>2. CASE k # j
      BY <2>2, <3>2 DEF Create, NextStep, Target, IInv, TypeOK, CreatedSoFar
    <3>3. QED  BY <3>1, <3>2
  <2>3. QED  BY <2>1, <2>2
<1>5. Runway'
  <2>1. CASE LastStep(j)
    <3> SUFFICES ASSUME NEW m \in Months, now <= m, m <= runway',
                        m \notin partitions, m # Target(j)
                 PROVE  FALSE
      BY DEF Runway, Create
    <3>1. ~(m <= runway)
      BY DEF IInv, Runway
    <3>2. m <= started[j] + CreateMonths
      BY <1>1, <2>1, <3>1, PartitionsAssumption
         DEF Create, NextStep, Months, IInv, TypeOK
    <3>3. m < Target(j) /\ started[j] <= m
      BY <1>1, <2>1, <3>2, PartitionsAssumption
         DEF LastStep, Target, Months, IInv, TypeOK
    <3>4. QED
      BY <1>1, <3>3 DEF IInv, CreatedSoFar
  <2>2. CASE ~LastStep(j)
    BY <2>2 DEF Create, NextStep, IInv, Runway
  <2>3. QED  BY <2>1, <2>2
<1>6. QED  BY <1>2, <1>3, <1>4, <1>5 DEF IInv

(* Months before the run's own cutoff are before that of the present.      *)
LEMMA ListIInv ==
  ASSUME NEW j \in Jobs, IInv, List(j)
  PROVE  IInv'
<1>1. TypeOK' /\ BegunBefore' /\ IdleAtFirst'
  BY PartitionsAssumption
     DEF List, Goto, IInv, TypeOK, BegunBefore, IdleAtFirst, tables
<1>2. CreatedSoFar' /\ Runway'
  BY DEF List, Goto, IInv, TypeOK, CreatedSoFar, Runway, Target, tables
<1>3. ListedExpired'
  <2>1. \A m \in Months : Expired(m, j) => m < now - RetainMonths
    BY PartitionsAssumption DEF Expired, IInv, TypeOK, BegunBefore, Months
  <2>2. QED
    BY <2>1 DEF List, IInv, TypeOK, ListedExpired
<1>4. QED  BY <1>1, <1>2, <1>3 DEF IInv

(* Only an expired month goes, none that the runway or a run counts on.    *)
LEMMA DropIInv ==
  ASSUME NEW j \in Jobs, NEW m \in Months, IInv, Drop(j, m)
  PROVE  IInv'
<1>1. m < now
  BY PartitionsAssumption DEF Drop, IInv, TypeOK, ListedExpired, Months
<1>2. TypeOK'
  BY DEF Drop, IInv, TypeOK
<1>3. BegunBefore' /\ IdleAtFirst' /\ ListedExpired'
  BY DEF Drop, IInv, TypeOK, BegunBefore, IdleAtFirst, ListedExpired
<1>4. CreatedSoFar' /\ Runway'
  BY <1>1 DEF Drop, IInv, TypeOK, CreatedSoFar, Runway, Target, Months
<1>5. QED  BY <1>2, <1>3, <1>4 DEF IInv

(* A drop that raises leaves the table, and takes it off the list.         *)
LEMMA DropFailsIInv ==
  ASSUME NEW j \in Jobs, NEW m \in Months, IInv, DropFails(j, m)
  PROVE  IInv'
<1>1. TypeOK' /\ BegunBefore' /\ IdleAtFirst'
  BY DEF DropFails, IInv, TypeOK, BegunBefore, IdleAtFirst, tables
<1>2. CreatedSoFar' /\ Runway'
  BY DEF DropFails, IInv, CreatedSoFar, Runway, Target, tables
<1>3. ListedExpired'
  BY DEF DropFails, IInv, TypeOK, ListedExpired
<1>4. QED  BY <1>1, <1>2, <1>3 DEF IInv

-----------------------------------------------------------------------------

(* The invariant is inductive: one step per action.                        *)
LEMMA NextIInv == IInv /\ [Next]_vars => IInv'
<1> SUFFICES ASSUME IInv, [Next]_vars PROVE IInv'
  OBVIOUS
<1>1. CASE MonthPasses
  BY <1>1, MonthPassesIInv
<1>2. CASE \E m \in Months : InsertIntoDefault(m)
  BY <1>2, InsertIInv
<1>3. ASSUME NEW j \in Jobs,
             Begin(j) \/ Create(j) \/ CreateRefused(j) \/ StatementFails(j)
               \/ List(j) \/ Done(j)
      PROVE  IInv'
  BY <1>3, BeginIInv, CreateIInv, ListIInv, EndIInv
     DEF CreateRefused, StatementFails, Done
<1>4. ASSUME NEW j \in Jobs, NEW m \in Months, Drop(j, m) \/ DropFails(j, m)
      PROVE  IInv'
  BY <1>4, DropIInv, DropFailsIInv
<1>5. CASE UNCHANGED vars
  BY <1>5 DEF IInv, TypeOK, BegunBefore, IdleAtFirst, CreatedSoFar,
              ListedExpired, Runway, Target, vars, tables, jobVars
<1>6. QED
  BY <1>1, <1>2, <1>3, <1>4, <1>5 DEF Next

(* The strengthened invariant holds in every reachable state.              *)
THEOREM InductiveInvariant == Spec => []IInv
  BY InitIInv, NextIInv, PTL DEF Spec

(* Type correctness of the maintenance script and its tables.              *)
THEOREM TypeCorrect == Spec => []TypeOK
<1>1. IInv => TypeOK
  BY DEF IInv
<1>2. QED  BY <1>1, InductiveInvariant, PTL

(* Every month covered so far keeps its partition, whatever runs of the    *)
(* script overlap, fail half way or clean up.                              *)
THEOREM RunwayKept == Spec => []Runway
<1>1. IInv => Runway
  BY DEF IInv
<1>2. QED  BY <1>1, InductiveInvariant, PTL

(* No step removes a partition younger than the retention period.          *)
THEOREM YoungKept == Spec => RetentionKeeps
<1>1. IInv /\ [Next]_vars
        => [\A m \in partitions \ partitions' : m < now - RetainMonths]_vars
  <2> SUFFICES ASSUME IInv, Next,
                      NEW m \in partitions \ partitions'
               PROVE  m < now - RetainMonths
    OBVIOUS
  <2>1. PICK j \in Jobs, n \in Months : Drop(j, n)
    BY DEF Next, MonthPasses, InsertIntoDefault, Begin, End, Create,
           CreateRefused, StatementFails, List, Done, DropFails, tables
  <2>2. m = n /\ n \in expired[j]
    BY <2>1 DEF Drop
  <2>3. QED  BY <2>1, <2>2 DEF IInv, ListedExpired
<1>2. QED
  BY <1>1, InductiveInvariant, PTL DEF Spec, RetentionKeeps
==============================================================================
