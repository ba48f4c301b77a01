--------------------------------- MODULE Tail ---------------------------------
(***************************************************************************)
(* `logfoundry tail --follow`: polls GET /query from the timestamp of the  *)
(* last row printed on, and remembers the ids it has printed lately.       *)
(***************************************************************************)
EXTENDS QueryCache, SequencesExt

CONSTANTS
  Me,        \* the requests of this command
  Asked,     \* bound: timestamps the other clients ask from
  SeenCap,   \* 10000: ids remembered before some are forgotten
  SeenKeep   \* 5000: the newest ones, which stay

Ties(t) == Cardinality({r \in Row : Ts[r] = t})

(* Without room for one page and the rows of a timestamp, rows would be    *)
(* printed again.                                                          *)
ASSUME TailAssumption ==
  /\ Me \in Clients /\ Asked \subseteq Since
  /\ SeenCap \in Nat /\ SeenKeep \in 0 .. SeenCap
  /\ \A t \in 1 .. LastTs : Ties(t) + Limit - 1 <= SeenKeep

VARIABLES
  tailing,  \* the command is running
  since,    \* since_dt
  seen,     \* seen_ids, in the order of insertion
  printed,  \* history: rows printed
  again,    \* history: rows printed more than once
  late,     \* history: rows inserted after one with a later timestamp
  crowded   \* history: rows a full page did not show

tailVars    == <<tailing, since, seen>>
tailHistory == <<printed, again, late, crowded>>
vars        == <<queryVars, tailVars, tailHistory>>

TypeOK ==
  /\ QueryTypeOK
  /\ tailing \in BOOLEAN
  /\ since \in Since
  /\ seen \in Seq(Row) /\ Len(seen) <= SeenCap /\ IsInjective(seen)
  /\ printed \cup late \cup crowded \subseteq rows
  /\ again \subseteq printed

(* Without --since; with it the rows before it are as good as not there.   *)
Init ==
  /\ QueryInit
  /\ tailing = TRUE
  /\ since = 0
  /\ seen = << >>
  /\ printed = {} /\ again = {} /\ late = {} /\ crowded = {}

-----------------------------------------------------------------------------
(* The other clients and the table                                         *)

Appear(r) ==
  /\ Insert(r)
  /\ late' = IF \E q \in rows : Ts[q] > Ts[r] THEN late \cup {r} ELSE late
  /\ UNCHANGED <<tailVars, printed, again, crowded>>

Others ==
  /\ \/ Tick
     \/ \E c \in Clients : Fetch(c)
     \/ \E c \in Clients \ {Me} :
          Store(c) \/ Fails(c) \/ \E s \in Asked : Hit(c, s) \/ Miss(c, s)
  /\ UNCHANGED <<tailVars, tailHistory>>

-----------------------------------------------------------------------------
(* tail()                                                                  *)

(* Rows newest first, as the API returns them: one order of several.       *)
NewestFirst(page) ==
  \A i, j \in DOMAIN page : i < j => Ts[page[i]] >= Ts[page[j]]
Pages(S) == {page \in SetToSeqs(S) : NewestFirst(page)}

(* More than SeenCap ids: only the last SeenKeep inserted stay.  Without   *)
(* the test they would grow for ever; the first ones are the wrong half.   *)
PruneNever(ids) == ids
PruneFirst(ids) == IF Len(ids) > SeenCap THEN SubSeq(ids, 1, SeenKeep) ELSE ids
Prune(ids) ==
  IF Len(ids) > SeenCap
    THEN SubSeq(ids, Len(ids) - SeenKeep + 1, Len(ids)) ELSE ids

(* Entries are printed oldest first, so since ends at the newest.          *)
SinceAfter(new)  == IF new = << >> THEN since ELSE Ts[Head(new)]

(* The rows of an answer S that have not been seen are printed.            *)
Show(S) ==
  /\ \E new \in Pages(S \ ToSet(seen)) :
       /\ seen' = Prune(seen \o new)
       /\ since' = SinceAfter(new)
       /\ printed' = printed \cup ToSet(new)
       /\ again' = again \cup (printed \cap ToSet(new))
  /\ crowded' = crowded \cup {r \in rows \ S : Crowded(r, S)}
  /\ UNCHANGED <<tailing, late>>

(* A poll asks with `since` and waits for the answer.  A failure is shown  *)
(* as an empty one.                                                        *)
PollHit    == Hit(Me, since) /\ Show(cache[since].answer)
PollMiss   == Miss(Me, since) /\ UNCHANGED <<tailVars, tailHistory>>
PollAnswer == Store(Me) /\ Show(result[Me])
PollFails  == Fails(Me) /\ Show({})

(* Ctrl-C, or a read that times out, which nothing catches.                *)
Quit ==
  /\ tailing' = FALSE
  /\ UNCHANGED <<queryVars, since, seen, tailHistory>>

(* Nothing that follows the end of the command is of interest.             *)
Next ==
  /\ tailing
  /\ \/ \E r \in Row : Appear(r)
     \/ Others \/ PollHit \/ PollMiss \/ PollAnswer \/ PollFails \/ Quit

Spec == Init /\ [][Next]_vars

-----------------------------------------------------------------------------
(* Properties                                                              *)

(***************************************************************************)
(* No row is printed twice, although a poll returns the rows of the last   *)
(* timestamp again, from the cache or not, and old ids are forgotten.      *)
(***************************************************************************)
PrintedOnce == again = {}

(***************************************************************************)
(* What tail has moved past without printing is explained: the row arrived *)
(* after one with a later timestamp, or a full page had no room for it.    *)
(* Anything else comes, out of a stale cache or after failed polls.        *)
(***************************************************************************)
NothingSkipped ==
  \A r \in rows \ printed : Ts[r] < since => r \in late \cup crowded

-----------------------------------------------------------------------------
(* Liveness                                                                *)

(* Time passes, requests are served, and tail goes on polling.             *)
Idle(A) == tailing /\ A /\ UNCHANGED <<tailVars, tailHistory>>

FairSpec ==
  /\ Spec
  /\ WF_vars(Idle(Tick))
  /\ \A c \in Clients : WF_vars(Idle(Fetch(c))) /\ WF_vars(Idle(Store(c)))
  /\ WF_vars(tailing /\ (PollHit \/ PollMiss)) /\ WF_vars(tailing /\ PollAnswer)

Reliable == <>[][~\E c \in Clients : Fails(c)]_vars

(***************************************************************************)
(* A row that is neither late nor crowded out is printed in the end, once  *)
(* requests stop failing: no answer cached before it arrived hides it for  *)
(* ever, however often that answer is asked for.                           *)
(***************************************************************************)
EventuallyShown ==
  Reliable =>
    \A r \in Row : r \in rows ~>
      r \in printed \cup late \cup crowded \/ ~tailing
==============================================================================
