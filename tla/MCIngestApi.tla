----------------------------- MODULE MCIngestApi -----------------------------
(* Two single requests, a batch of two events and one that is not valid.   *)
EXTENDS IngestApi

MCRequests == {"s1", "s2", "b1", "b2"}
MCSingle   == {"s1", "s2"}
MCEvents   == 1 .. 5
MCEventsOf == [s1 |-> {1}, s2 |-> {2}, b1 |-> {3, 4}, b2 |-> {5}]
MCInvalid  == {"b2"}
==============================================================================
