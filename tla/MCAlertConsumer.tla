-------------------------- MODULE MCAlertConsumer ----------------------------
(* Small instances of AlertConsumer: two rules; "both" matches both.       *)
EXTENDS AlertConsumer, TLC

MCRules   == 1 .. 2
MCMatches == [e \in Events |-> IF e = "both" THEN {1, 2} ELSE {}]
MCKind    == [e \in Events |-> IF e = "both" THEN "row" ELSE e]
Processes == Permutations(Workers)
==============================================================================
