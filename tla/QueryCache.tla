------------------------------ MODULE QueryCache ------------------------------
(***************************************************************************)
(* GET /query: the newest rows from some timestamp on, through a Redis     *)
(* cache.  Requests interleave at their awaits (get, fetch, setex), so     *)
(* what one read from the table may be cached after what another read      *)
(* later.                                                                  *)
(*                                                                         *)
(* Of the parameters only `since` is told apart: the others select rows in *)
(* the same way and are part of the key.  Time is counted in ticks.        *)
(***************************************************************************)
EXTENDS Integers, FiniteSets

CONSTANTS
  Clients,   \* requests that may be under way at once
  Row,       \* rows that may be inserted into logs
  Ts,        \* Ts[r]: the client's timestamp of r
  LastTs,    \* bound: timestamps are 1 .. LastTs, 0 stands for no `since`
  Limit,     \* ?limit=
  Ttl,       \* CACHE_TTL_SECONDS, in ticks
  MaxDelay   \* assumed: ticks from a SELECT to its setex, at most

ASSUME QueryAssumption ==
  /\ IsFiniteSet(Row) /\ LastTs \in Nat /\ Ts \in [Row -> 1 .. LastTs]
  /\ Limit \in Nat \ {0} /\ Ttl \in Nat \ {0} /\ MaxDelay \in Nat

Since == 0 .. LastTs
Lag   == Ttl + MaxDelay   \* longer quiet is not told apart

VARIABLES
  rows,    \* SUBSET Row: the table
  cache,   \* cache[s]: its answer and remaining lifetime, 0 if there is none
  pc,      \* pc[c]: "idle", "fetch", "store"
  key,     \* key[c]: the request's since
  result,  \* result[c]: the rows it has read
  delay,   \* delay[c]: ticks since it read them
  quiet    \* history: ticks since the last row was inserted

requestVars == <<pc, key, result, delay>>
queryVars   == <<rows, quiet, cache, requestVars>>

QueryTypeOK ==
  /\ rows \subseteq Row
  /\ cache \in [Since -> [answer : SUBSET Row, ttl : 0 .. Ttl]]
  /\ pc \in [Clients -> {"idle", "fetch", "store"}]
  /\ key \in [Clients -> Since]
  /\ result \in [Clients -> SUBSET Row]
  /\ delay \in [Clients -> 0 .. MaxDelay]
  /\ quiet \in 0 .. Lag

NoEntry == [answer |-> {}, ttl |-> 0]

QueryInit ==
  /\ rows = {}
  /\ cache = [s \in Since |-> NoEntry]
  /\ pc = [c \in Clients |-> "idle"]
  /\ key = [c \in Clients |-> 0]
  /\ result = [c \in Clients |-> {}]
  /\ delay = [c \in Clients |-> 0]
  /\ quiet = 0

-----------------------------------------------------------------------------
(* The table and the clock                                                 *)

Insert(r) ==
  /\ r \notin rows
  /\ rows' = rows \cup {r}
  /\ quiet' = 0
  /\ UNCHANGED <<cache, requestVars>>

(* Redis counts an entry down; without a TTL it would stay.                *)
AgedNever(entry) == entry
Aged(entry) == IF entry.ttl <= 1 THEN NoEntry
                                 ELSE [entry EXCEPT !.ttl = @ - 1]

(* Entries expire; what lies between a SELECT and its setex is bounded.    *)
Tick ==
  /\ \A c \in Clients : pc[c] = "store" => delay[c] < MaxDelay
  /\ cache' = [s \in Since |-> Aged(cache[s])]
  /\ delay' = [c \in Clients |-> IF pc[c] = "store" THEN delay[c] + 1 ELSE 0]
  /\ quiet' = IF quiet < Lag THEN quiet + 1 ELSE quiet
  /\ UNCHANGED <<rows, pc, key, result>>

-----------------------------------------------------------------------------
(* query_logs()                                                            *)

Cached(s) == cache[s].ttl > 0

(* redis.get() answers the request at once: with cache[s].answer.          *)
Hit(c, s) == pc[c] = "idle" /\ Cached(s) /\ UNCHANGED queryVars

Miss(c, s) ==
  /\ pc[c] = "idle" /\ ~Cached(s)
  /\ pc' = [pc EXCEPT ![c] = "fetch"]
  /\ key' = [key EXCEPT ![c] = s]
  /\ UNCHANGED <<rows, quiet, cache, result, delay>>

(* WHERE timestamp >= since; `>` would be the obvious slip.                *)
MatchingAfter(s) == {r \in rows : Ts[r] > s}
Matching(s)      == {r \in rows : Ts[r] >= s}

(* r is cut off by the LIMIT of an answer S: S is full of rows as new.     *)
Crowded(r, S) == Cardinality(S) = Limit /\ \A q \in S : Ts[r] <= Ts[q]

(* ORDER BY timestamp DESC LIMIT; the order of equal timestamps is open.   *)
Answers(s) ==
  {S \in SUBSET Matching(s) :
     /\ Cardinality(S) <= Limit
     /\ \A r \in Matching(s) \ S : Crowded(r, S)}

Fetch(c) ==
  /\ pc[c] = "fetch"
  /\ pc' = [pc EXCEPT ![c] = "store"]
  /\ \E S \in Answers(key[c]) : result' = [result EXCEPT ![c] = S]
  /\ UNCHANGED <<rows, quiet, cache, key, delay>>

(* The request is over, and its locals are gone.                           *)
End(c) ==
  /\ pc' = [pc EXCEPT ![c] = "idle"]
  /\ key' = [key EXCEPT ![c] = 0]
  /\ result' = [result EXCEPT ![c] = {}]
  /\ delay' = [delay EXCEPT ![c] = 0]
  /\ UNCHANGED <<rows, quiet>>

(* setex, over whatever another request has cached since; then result[c]   *)
(* is the answer.                                                          *)
Store(c) ==
  /\ pc[c] = "store"
  /\ cache' = [cache EXCEPT ![key[c]] = [answer |-> result[c], ttl |-> Ttl]]
  /\ End(c)

(* Redis or PostgreSQL raises.  The rows, if read, are not returned.       *)
Fails(c) == End(c) /\ UNCHANGED cache

-----------------------------------------------------------------------------
(* Properties                                                              *)

(***************************************************************************)
(* The table can be out of date in an answer only for so long: once no row *)
(* has come for the lifetime of an entry and the longest delay before it   *)
(* was stored, every cached answer is one the table would give, whichever  *)
(* of two overlapping requests has written the entry last.                 *)
(***************************************************************************)
Fresh ==
  quiet = Lag =>
    \A s \in Since : Cached(s) => cache[s].answer \in Answers(s)
==============================================================================
