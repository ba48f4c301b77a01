------------------------- MODULE MCMetricsConsumer ---------------------------
(* Small instances of MetricsConsumer: two levels of one service.          *)
EXTENDS MetricsConsumer, TLC

MCLabels == {<<"auth", "INFO">>, <<"auth", "ERROR">>}
MCLabel  == [e \in Events |-> IF e = "r2" THEN <<"auth", "ERROR">>
                                          ELSE <<"auth", "INFO">>]
MCKind   == [e \in Events |-> IF e \in {"r1", "r2"} THEN "row" ELSE e]
Processes == Permutations(Workers)
==============================================================================
