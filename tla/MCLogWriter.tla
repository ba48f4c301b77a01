---------------------------- MODULE MCLogWriter ------------------------------
(* Small instances of LogWriter: events are named after their kind.        *)
EXTENDS LogWriter, TLC

MCKind == [e \in Events |-> IF e \in {"r1", "r2"} THEN "row" ELSE e]

(* Sound for safety only: no action names a process or a partition.        *)
Processes == Permutations(Workers)
==============================================================================
