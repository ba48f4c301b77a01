------------------------------ MODULE TailProofs ------------------------------
(***************************************************************************)
(* Proofs about Tail and the cache it reads through, for any rows with any *)
(* timestamps, any clients, limit, lifetimes and sizes of seen_ids.        *)
(***************************************************************************)
EXTENDS Tail, SequenceTheorems, FiniteSetTheorems, TLAPS

(* What tail remembers it has printed, and its position is a row's.        *)
TailTypeOK ==
  /\ QueryTypeOK
  /\ since \in Since /\ seen \in Seq(Row)
  /\ printed \subseteq rows /\ late \subseteq rows /\ crowded \subseteq rows
SeenPrinted == ToSet(seen) \subseteq printed
SinceOfRow  == since = 0 \/ \E q \in rows : Ts[q] = since

(* Tail waits for the answer to what it would ask now.                     *)
AsksSince == pc[Me] # "idle" => key[Me] = since

(***************************************************************************)
(* An answer S to a query from s on, however old: a row it lacks was       *)
(* crowded out, or came late, or is as new as any row of S.                *)
(***************************************************************************)
Explained(s, S) ==
  \A r \in rows \ S :
    Ts[r] >= s => \/ Crowded(r, S)
                  \/ r \in late
                  \/ \A q \in S : Ts[q] <= Ts[r]

AnswersExplained ==
  /\ \A s \in Since : Cached(s) =>
       cache[s].answer \subseteq rows /\ Explained(s, cache[s].answer)
  /\ \A c \in Clients : pc[c] = "store" =>
       result[c] \subseteq rows /\ Explained(key[c], result[c])

(***************************************************************************)
(* An answer the table would not give now is older than the last insert:   *)
(* as old as its request's delay, or that and its time in the cache.       *)
(***************************************************************************)
AgeBounded ==
  /\ \A s \in Since : Cached(s) =>
       \/ cache[s].answer \in Answers(s)
       \/ quiet <= MaxDelay + Ttl - cache[s].ttl
  /\ \A c \in Clients : pc[c] = "store" =>
       result[c] \in Answers(key[c]) \/ quiet <= delay[c]

IInv ==
  /\ TailTypeOK /\ SeenPrinted /\ SinceOfRow /\ AsksSince
  /\ AnswersExplained /\ AgeBounded /\ NothingSkipped

-----------------------------------------------------------------------------
(* The endpoint and its cache                                              *)

(* What a key may hold, one part at a time.                                *)
LEMMA CacheOf ==
  ASSUME TailTypeOK, NEW s \in Since
  PROVE  /\ cache[s].answer \subseteq Row
         /\ cache[s].ttl \in Nat /\ Ttl \in Nat /\ cache[s].ttl <= Ttl
         /\ cache[s] = [answer |-> cache[s].answer, ttl |-> cache[s].ttl]
  BY QueryAssumption DEF TailTypeOK, QueryTypeOK

(* While the table stays the same, so do the answers it would give.        *)
LEMMA AnswersSame ==
  ASSUME rows' = rows
  PROVE  \A s : Answers(s)' = Answers(s)
  BY DEF Answers, Matching, Crowded

(* An answer read from the table just now is explained.                    *)
LEMMA AnswersAreExplained ==
  ASSUME NEW s \in Since, NEW S \in Answers(s)
  PROVE  S \subseteq rows /\ Explained(s, S)
  BY DEF Answers, Matching, Explained

(* Whether tail runs does not matter.                                      *)
LEMMA UnchangedIInv ==
  ASSUME IInv, UNCHANGED <<queryVars, since, seen, tailHistory>>
  PROVE  IInv'
<1>1. UNCHANGED <<rows, quiet, cache, pc, key, result, delay, since, seen,
                  printed, late, crowded>>
  BY DEF queryVars, requestVars, tailHistory
<1>2. \A t, T : Explained(t, T)' = Explained(t, T)
  BY <1>1 DEF Explained, Crowded
<1>3. TailTypeOK' /\ SeenPrinted' /\ SinceOfRow' /\ AsksSince'
  BY <1>1 DEF IInv, TailTypeOK, QueryTypeOK, SeenPrinted, SinceOfRow, AsksSince
<1>4. AnswersExplained' /\ AgeBounded' /\ NothingSkipped'
  BY <1>1, <1>2, AnswersSame
     DEF IInv, AnswersExplained, AgeBounded, NothingSkipped, Cached
<1>5. QED  BY <1>3, <1>4 DEF IInv

(* A row arrives.  If it is older than a row of an answer, it is late.     *)
LEMMA AppearIInv ==
  ASSUME NEW r \in Row, IInv, Appear(r)
  PROVE  IInv'
<1>1. /\ r \notin rows /\ rows' = rows \cup {r} /\ quiet' = 0
      /\ UNCHANGED <<cache, requestVars, tailVars, printed, again, crowded>>
      /\ late \subseteq late' /\ late' \subseteq late \cup {r}
      /\ (\E q \in rows : Ts[q] > Ts[r]) => r \in late'
  BY DEF Appear, Insert
<1>2. /\ \A q \in Row : Ts[q] \in Nat /\ Ts[q] > 0
      /\ rows \subseteq Row
  BY QueryAssumption DEF IInv, TailTypeOK, QueryTypeOK
<1>3. TailTypeOK'
  <2>1. QueryTypeOK'
    BY <1>1, QueryAssumption
       DEF IInv, TailTypeOK, QueryTypeOK, requestVars, Lag
  <2>2. QED
    BY <1>1, <2>1 DEF IInv, TailTypeOK, tailVars
<1>4. SeenPrinted' /\ SinceOfRow' /\ AsksSince'
  BY <1>1 DEF IInv, SeenPrinted, SinceOfRow, AsksSince, requestVars, tailVars
<1>5. ASSUME NEW s, NEW S \in SUBSET rows, Explained(s, S)
      PROVE  Explained(s, S)'
  BY <1>1, <1>2, <1>5 DEF Explained, Crowded
<1>6. AnswersExplained'
  BY <1>1, <1>5 DEF IInv, AnswersExplained, Cached, requestVars
<1>7. AgeBounded'
  <2>1. \A s \in Since : quiet' <= MaxDelay + Ttl - cache'[s].ttl
    <3> SUFFICES ASSUME NEW s \in Since
                 PROVE  0 <= MaxDelay + Ttl - cache[s].ttl
      BY <1>1
    <3>1. cache[s].ttl \in Nat /\ Ttl \in Nat /\ cache[s].ttl <= Ttl
      BY CacheOf DEF IInv
    <3>2. QED  BY <3>1, QueryAssumption
  <2>2. \A c \in Clients : quiet' <= delay'[c]
    BY <1>1, QueryAssumption DEF IInv, TailTypeOK, QueryTypeOK, requestVars
  <2>3. QED  BY <2>1, <2>2 DEF AgeBounded
<1>8. NothingSkipped'
  BY <1>1, <1>2 DEF IInv, NothingSkipped, SinceOfRow, tailVars
<1>9. QED  BY <1>3, <1>4, <1>6, <1>7, <1>8 DEF IInv

(* A tick: what is cached grows older by one, and so does the table.       *)
LEMMA TickIInv ==
  ASSUME IInv, Tick, UNCHANGED <<tailVars, tailHistory>>
  PROVE  IInv'
<1>1. /\ UNCHANGED <<rows, pc, key, result>>
      /\ cache' = [s \in Since |-> Aged(cache[s])]
      /\ delay' = [c \in Clients |-> IF pc[c] = "store" THEN delay[c] + 1
                                                        ELSE 0]
      /\ quiet' = IF quiet < Lag THEN quiet + 1 ELSE quiet
      /\ \A c \in Clients : pc[c] = "store" => delay[c] < MaxDelay
  BY DEF Tick
<1>2. /\ quiet \in Nat /\ quiet' \in Nat /\ quiet' <= quiet + 1
      /\ quiet' \in 0 .. Lag
      /\ Ttl \in Nat /\ MaxDelay \in Nat
      /\ \A c \in Clients : delay[c] \in Nat
  BY <1>1, QueryAssumption DEF IInv, TailTypeOK, QueryTypeOK, Lag
<1>3. ASSUME NEW s \in Since
      PROVE  /\ cache'[s] \in [answer : SUBSET Row, ttl : 0 .. Ttl]
             /\ cache'[s].ttl > 0 =>
                  /\ cache[s].ttl > 0
                  /\ cache'[s].answer = cache[s].answer
                  /\ cache'[s].ttl = cache[s].ttl - 1
  <2>1. cache'[s] = Aged(cache[s])
    BY <1>1
  <2>2. CASE cache[s].ttl <= 1
    BY <1>2, <2>1, <2>2 DEF Aged, NoEntry
  <2>3. CASE ~(cache[s].ttl <= 1)
    <3>1. cache'[s] = [answer |-> cache[s].answer, ttl |-> cache[s].ttl - 1]
      BY <2>1, <2>3, CacheOf DEF Aged, IInv
    <3>2. /\ cache[s].answer \subseteq Row /\ cache[s].ttl \in Nat
          /\ cache[s].ttl <= Ttl
      BY CacheOf DEF IInv
    <3>3. cache[s].ttl - 1 \in 0 .. Ttl /\ cache[s].ttl > 0
      BY <1>2, <2>3, <3>2
    <3>4. QED
      BY <3>1, <3>2, <3>3
  <2>4. QED  BY <2>2, <2>3
<1>4. TailTypeOK'
  <2>1. cache' \in [Since -> [answer : SUBSET Row, ttl : 0 .. Ttl]]
    BY <1>1, <1>3
  <2>2. delay' \in [Clients -> 0 .. MaxDelay]
    BY <1>1, <1>2
  <2>3. QED
    BY <1>1, <1>2, <2>1, <2>2
       DEF IInv, TailTypeOK, QueryTypeOK, tailVars, tailHistory
<1>5. SeenPrinted' /\ SinceOfRow' /\ AsksSince' /\ NothingSkipped'
  BY <1>1 DEF IInv, SeenPrinted, SinceOfRow, AsksSince, NothingSkipped,
              tailVars, tailHistory
<1>6. AnswersExplained'
  <2>1. \A s, S : Explained(s, S)' = Explained(s, S)
    BY <1>1 DEF Explained, Crowded, tailHistory
  <2>2. QED
    BY <1>1, <1>3, <2>1 DEF IInv, AnswersExplained, Cached
<1>7. AgeBounded'
  <2>1. ASSUME NEW s \in Since, cache'[s].ttl > 0
        PROVE  \/ cache'[s].answer \in Answers(s)'
               \/ quiet' <= MaxDelay + Ttl - cache'[s].ttl
    <3>1. \/ cache[s].answer \in Answers(s)
          \/ quiet <= MaxDelay + Ttl - cache[s].ttl
      BY <1>3, <2>1 DEF IInv, AgeBounded, Cached
    <3>2. cache[s].ttl \in Nat
      BY CacheOf DEF IInv
    <3>3. QED
      BY <1>1, <1>2, <1>3, <2>1, <3>1, <3>2, AnswersSame
  <2>2. ASSUME NEW c \in Clients, pc[c] = "store"
        PROVE  result[c] \in Answers(key[c])' \/ quiet' <= delay'[c]
    <3>1. delay'[c] = delay[c] + 1
      BY <1>1, <2>2
    <3>2. QED
      BY <1>1, <1>2, <2>2, <3>1, AnswersSame DEF IInv, AgeBounded
  <2>3. QED
    BY <1>1, <2>1, <2>2 DEF AgeBounded, Cached
<1>8. QED  BY <1>4, <1>5, <1>6, <1>7 DEF IInv

(* A request reads the table.                                              *)
LEMMA FetchIInv ==
  ASSUME NEW c \in Clients, IInv, Fetch(c), UNCHANGED <<tailVars, tailHistory>>
  PROVE  IInv'
<1>1. PICK S \in Answers(key[c]) : result' = [result EXCEPT ![c] = S]
  BY DEF Fetch
<1>2. /\ pc[c] = "fetch" /\ pc' = [pc EXCEPT ![c] = "store"]
      /\ UNCHANGED <<rows, quiet, cache, key, delay>>
      /\ key[c] \in Since
  BY DEF Fetch, IInv, TailTypeOK, QueryTypeOK
<1>3. S \subseteq rows /\ Explained(key[c], S) /\ S \subseteq Row
  BY <1>2, AnswersAreExplained DEF IInv, TailTypeOK, QueryTypeOK
<1>4. TailTypeOK'
  BY <1>1, <1>2, <1>3
     DEF IInv, TailTypeOK, QueryTypeOK, tailVars, tailHistory
<1>5. SeenPrinted' /\ SinceOfRow' /\ NothingSkipped'
  BY <1>2 DEF IInv, SeenPrinted, SinceOfRow, NothingSkipped, tailVars,
              tailHistory
<1>6. AsksSince'
  BY <1>2 DEF IInv, TailTypeOK, QueryTypeOK, AsksSince, tailVars
<1>7. \A d \in Clients :
        /\ pc'[d] = IF d = c THEN "store" ELSE pc[d]
        /\ result'[d] = IF d = c THEN S ELSE result[d]
  BY <1>1, <1>2 DEF IInv, TailTypeOK, QueryTypeOK
<1>8. AnswersExplained'
  <2>1. \A s, T : Explained(s, T)' = Explained(s, T)
    BY <1>2 DEF Explained, Crowded, tailHistory
  <2>2. QED
    BY <1>2, <1>3, <1>7, <2>1 DEF IInv, AnswersExplained, Cached
<1>9. AgeBounded'
  BY <1>1, <1>2, <1>7, AnswersSame DEF IInv, AgeBounded, Cached
<1>10. QED  BY <1>4, <1>5, <1>6, <1>8, <1>9 DEF IInv

(* A request finds nothing in the cache.                                   *)
LEMMA MissIInv ==
  ASSUME NEW c \in Clients, NEW s \in Since, IInv, Miss(c, s),
         c = Me => s = since, UNCHANGED <<tailVars, tailHistory>>
  PROVE  IInv'
<1>1. /\ pc' = [pc EXCEPT ![c] = "fetch"] /\ key' = [key EXCEPT ![c] = s]
      /\ pc[c] = "idle"
      /\ UNCHANGED <<rows, quiet, cache, result, delay>>
  BY DEF Miss
<1>2. TailTypeOK'
  BY <1>1 DEF IInv, TailTypeOK, QueryTypeOK, tailVars, tailHistory
<1>3. SeenPrinted' /\ SinceOfRow' /\ NothingSkipped'
  BY <1>1 DEF IInv, SeenPrinted, SinceOfRow, NothingSkipped, tailVars,
              tailHistory
<1>4. AsksSince'
  BY <1>1, TailAssumption
     DEF IInv, TailTypeOK, QueryTypeOK, AsksSince, tailVars
<1>5. \A d \in Clients :
        pc'[d] = "store" => pc[d] = "store" /\ key'[d] = key[d]
  BY <1>1 DEF IInv, TailTypeOK, QueryTypeOK
<1>6. AnswersExplained'
  <2>1. \A t, T : Explained(t, T)' = Explained(t, T)
    BY <1>1 DEF Explained, Crowded, tailHistory
  <2>2. QED
    BY <1>1, <1>5, <2>1 DEF IInv, AnswersExplained, Cached
<1>7. AgeBounded'
  BY <1>1, <1>5, AnswersSame DEF IInv, AgeBounded, Cached
<1>8. QED  BY <1>2, <1>3, <1>4, <1>6, <1>7 DEF IInv

(* A request ends.  Its answer enters the cache with its age, or none does.*)
LEMMA EndIsFine ==
  ASSUME NEW c \in Clients, IInv, Store(c) \/ Fails(c), late' = late
  PROVE  /\ QueryTypeOK' /\ AnswersExplained' /\ AgeBounded'
         /\ rows' = rows
         /\ \A d \in Clients :
              pc'[d] # "idle" => d # c /\ pc[d] # "idle" /\ key'[d] = key[d]
<1>1. /\ End(c)
      /\ \/ cache' = cache
         \/ /\ pc[c] = "store"
            /\ cache' = [cache EXCEPT ![key[c]] =
                           [answer |-> result[c], ttl |-> Ttl]]
  BY DEF Store, Fails
<1>2. /\ pc' = [pc EXCEPT ![c] = "idle"] /\ key' = [key EXCEPT ![c] = 0]
      /\ result' = [result EXCEPT ![c] = {}]
      /\ delay' = [delay EXCEPT ![c] = 0]
      /\ UNCHANGED <<rows, quiet>>
  BY <1>1 DEF End
<1>3. \A d \in Clients :
        pc'[d] # "idle" => /\ d # c /\ pc'[d] = pc[d] /\ key'[d] = key[d]
                           /\ result'[d] = result[d] /\ delay'[d] = delay[d]
  BY <1>2 DEF IInv, TailTypeOK, QueryTypeOK
<1>4. key[c] \in Since /\ result[c] \subseteq Row /\ Ttl \in Nat \ {0}
      /\ delay[c] \in Nat /\ delay[c] <= MaxDelay /\ MaxDelay \in Nat
      /\ quiet \in Nat
  BY QueryAssumption DEF IInv, TailTypeOK, QueryTypeOK, Lag
<1>5. ASSUME NEW s \in Since, cache'[s] # cache[s]
      PROVE  /\ s = key[c] /\ pc[c] = "store"
             /\ cache'[s].answer = result[c] /\ cache'[s].ttl = Ttl
  BY <1>1, <1>5 DEF IInv, TailTypeOK, QueryTypeOK
<1>6. QueryTypeOK'
  <2>1. cache' \in [Since -> [answer : SUBSET Row, ttl : 0 .. Ttl]]
    <3> DEFINE E == [answer : SUBSET Row, ttl : 0 .. Ttl]
    <3>1. cache \in [Since -> E]
      BY DEF IInv, TailTypeOK, QueryTypeOK
    <3>2. [answer |-> result[c], ttl |-> Ttl] \in E
      BY <1>4
    <3> HIDE DEF E
    <3>3. cache' \in [Since -> E]
      BY <1>1, <3>1, <3>2
    <3>4. QED  BY <3>3 DEF E
  <2>2. /\ key' \in [Clients -> Since] /\ delay' \in [Clients -> 0 .. MaxDelay]
    BY <1>2, QueryAssumption DEF IInv, TailTypeOK, QueryTypeOK, Since
  <2>3. QED
    BY <1>2, <2>1, <2>2 DEF IInv, TailTypeOK, QueryTypeOK
<1>7. AnswersExplained'
  <2>1. \A t, T : Explained(t, T)' = Explained(t, T)
    BY <1>2 DEF Explained, Crowded
  <2>2. ASSUME NEW s \in Since, cache'[s].ttl > 0
        PROVE  cache'[s].answer \subseteq rows /\ Explained(s, cache'[s].answer)
    BY <1>5, <2>2 DEF IInv, AnswersExplained, Cached
  <2>3. \A d \in Clients : pc'[d] = "store" =>
          result'[d] \subseteq rows /\ Explained(key'[d], result'[d])
    BY <1>3 DEF IInv, AnswersExplained
  <2>4. QED
    BY <1>2, <2>1, <2>2, <2>3 DEF AnswersExplained, Cached
<1>8. AgeBounded'
  <2>1. ASSUME NEW s \in Since, cache'[s].ttl > 0
        PROVE  \/ cache'[s].answer \in Answers(s)
               \/ quiet <= MaxDelay + Ttl - cache'[s].ttl
    <3>1. CASE cache'[s] = cache[s]
      BY <2>1, <3>1 DEF IInv, AgeBounded, Cached
    <3>2. CASE cache'[s] # cache[s]
      <4>1. result[c] \in Answers(s) \/ quiet <= delay[c]
        BY <1>5, <3>2 DEF IInv, AgeBounded
      <4>2. quiet <= delay[c] => quiet <= MaxDelay + Ttl - Ttl
        BY <1>4
      <4>3. QED  BY <1>5, <3>2, <4>1, <4>2
    <3>3. QED  BY <3>1, <3>2
  <2>2. \A d \in Clients : pc'[d] = "store" =>
          result'[d] \in Answers(key'[d]) \/ quiet <= delay'[d]
    BY <1>3 DEF IInv, AgeBounded
  <2>3. QED
    BY <1>2, <2>1, <2>2, AnswersSame DEF AgeBounded, Cached
<1>9. QED  BY <1>2, <1>3, <1>6, <1>7, <1>8

-----------------------------------------------------------------------------
(* What tail does with an answer                                           *)

(* An order of a set of rows is a sequence of just these rows.             *)
LEMMA PageIsSequence ==
  ASSUME NEW S \in SUBSET Row, NEW page \in Pages(S)
  PROVE  /\ page \in Seq(Row) /\ ToSet(page) = S
         /\ Len(page) = Cardinality(S) /\ IsInjective(page)
         /\ page # << >> =>
              Head(page) \in S /\ \A q \in S : Ts[q] <= Ts[Head(page)]
<1>1. IsFiniteSet(S) /\ Cardinality(S) \in Nat
  BY FS_Subset, FS_CardinalityType, QueryAssumption
<1> DEFINE D == 1 .. Cardinality(S)
<1>2. page \in [D -> S] /\ \A i, j \in D : i # j => page[i] # page[j]
  BY DEF Pages, SetToSeqs
<1>3. page \in Seq(S) /\ Len(page) = Cardinality(S)
  BY <1>1, <1>2
<1>4. IsFiniteSet(D) /\ Cardinality(D) = Cardinality(S)
  BY <1>1, FS_Interval
<1>5. page \in Injection(D, S)
  BY <1>2 DEF Injection, IsInjective
<1>6. page \in Surjection(D, S)
  BY <1>1, <1>4, <1>5, FS_Injection
<1>7. ToSet(page) = S
  BY <1>2, <1>6 DEF ToSet, Surjection
<1>8. ASSUME page # << >>
      PROVE  Head(page) \in S /\ \A q \in S : Ts[q] <= Ts[Head(page)]
  <2>1. 1 \in DOMAIN page /\ Head(page) = page[1] /\ DOMAIN page = D
    BY <1>3, <1>8
  <2>2. \A i, j \in D : i < j => Ts[page[i]] >= Ts[page[j]]
    BY <2>1 DEF Pages, NewestFirst
  <2>3. \A q \in S : Ts[q] \in Nat
    BY QueryAssumption
  <2>4. \A i \in D : Ts[page[i]] <= Ts[page[1]]
    BY <1>1, <1>2, <2>1, <2>2, <2>3
  <2>5. QED
    BY <1>7, <2>1, <2>4, <1>2 DEF ToSet
<1>9. IsInjective(page)
  BY <1>2 DEF IsInjective
<1>10. QED  BY <1>3, <1>7, <1>8, <1>9

(* What is forgotten are the first d ids, and only so many that SeenKeep   *)
(* stay.                                                                   *)
LEMMA PruneDrops ==
  ASSUME NEW ids \in Seq(Row)
  PROVE  /\ Prune(ids) \in Seq(Row) /\ Len(Prune(ids)) <= SeenCap
         /\ \E d \in Nat :
              /\ Len(ids) = Len(Prune(ids)) + d
              /\ d > 0 => Len(Prune(ids)) = SeenKeep
              /\ \A i \in 1 .. Len(Prune(ids)) : Prune(ids)[i] = ids[i + d]
<1>0. Len(ids) \in Nat /\ SeenKeep \in Nat /\ SeenCap \in Nat
      /\ SeenKeep <= SeenCap
  BY TailAssumption
<1>1. CASE ~(Len(ids) > SeenCap)
  <2>1. Prune(ids) = ids
    BY <1>0, <1>1 DEF Prune
  <2>2. \E d \in Nat : /\ Len(ids) = Len(ids) + d
                       /\ d > 0 => Len(ids) = SeenKeep
                       /\ \A i \in 1 .. Len(ids) : ids[i] = ids[i + d]
    <3> WITNESS 0 \in Nat
    <3>1. \A i \in 1 .. Len(ids) : i + 0 = i
      BY <1>0
    <3>2. QED  BY <1>0, <3>1
  <2>3. QED  BY <1>0, <1>1, <2>1, <2>2
<1>2. CASE Len(ids) > SeenCap
  <2> DEFINE d == Len(ids) - SeenKeep
             t == SubSeq(ids, d + 1, Len(ids))
  <2>1. Prune(ids) = t
    BY <1>0, <1>2 DEF Prune
  <2>2. d \in Nat /\ d + 1 > 0 /\ Len(ids) = SeenKeep + d
        /\ \A i \in d + 1 .. Len(ids) : ids[i] \in Row
    BY <1>0, <1>2
  <2>3. /\ t \in Seq(Row) /\ Len(t) = SeenKeep
        /\ \A i \in 1 .. SeenKeep : t[i] = ids[d + 1 + i - 1]
    BY <1>0, <2>2, SubSeqProperties
  <2> HIDE DEF d, t
  <2>4. \A i \in 1 .. SeenKeep : t[i] = ids[i + d]
    BY <1>0, <2>2, <2>3
  <2>5. QED  BY <1>0, <2>1, <2>2, <2>3, <2>4
<1>3. QED  BY <1>1, <1>2

(* What is remembered are ids that were.                                   *)
LEMMA PruneIsPart ==
  ASSUME NEW ids \in Seq(Row)
  PROVE  Prune(ids) \in Seq(Row) /\ ToSet(Prune(ids)) \subseteq ToSet(ids)
<1>1. PICK d \in Nat :
        /\ Len(ids) = Len(Prune(ids)) + d
        /\ \A i \in 1 .. Len(Prune(ids)) : Prune(ids)[i] = ids[i + d]
  BY PruneDrops
<1>2. Prune(ids) \in Seq(Row)
  BY PruneDrops
<1>3. ASSUME NEW i \in 1 .. Len(Prune(ids))
      PROVE  i + d \in DOMAIN ids
  BY <1>1, <1>2
<1>4. QED  BY <1>1, <1>2, <1>3 DEF ToSet

(***************************************************************************)
(* The rows of an answer are printed, and `since` moves to the newest of   *)
(* them.  What it passes over is explained because the answer was.         *)
(***************************************************************************)
LEMMA ShowIsFine ==
  ASSUME IInv, NEW S \in SUBSET rows, Explained(since, S), Show(S),
         rows' = rows
  PROVE  /\ since' \in Since /\ seen' \in Seq(Row)
         /\ printed' \subseteq rows' /\ late' = late
         /\ late' \subseteq rows' /\ crowded' \subseteq rows'
         /\ SeenPrinted' /\ SinceOfRow' /\ NothingSkipped'
<1> DEFINE T == S \ ToSet(seen)
<1>1. PICK new \in Pages(T) :
        /\ seen' = Prune(seen \o new)
        /\ since' = SinceAfter(new)
        /\ printed' = printed \cup ToSet(new)
  BY DEF Show
<1>2. /\ late' = late
      /\ crowded' = crowded \cup {r \in rows \ S : Crowded(r, S)}
  BY DEF Show
<1>3. /\ rows \subseteq Row /\ seen \in Seq(Row) /\ since \in Since
      /\ T \in SUBSET Row
  BY DEF IInv, TailTypeOK, QueryTypeOK
<1>4. /\ new \in Seq(Row) /\ ToSet(new) = T
      /\ new # << >> => Head(new) \in T /\ \A q \in T : Ts[q] <= Ts[Head(new)]
  BY <1>3, PageIsSequence
<1>5. /\ since' = since \/ \E q \in S : since' = Ts[q]
      /\ since' \in Since
  BY <1>1, <1>3, <1>4, QueryAssumption DEF SinceAfter, Since
<1>6. seen' \in Seq(Row) /\ ToSet(seen') \subseteq ToSet(seen) \cup ToSet(new)
  <2>1. seen \o new \in Seq(Row)
    BY <1>3, <1>4
  <2>2. ToSet(seen \o new) \subseteq ToSet(seen) \cup ToSet(new)
    BY <1>3, <1>4 DEF ToSet
  <2>3. QED  BY <1>1, <2>1, <2>2, PruneIsPart
<1>7. printed' \subseteq rows /\ crowded' \subseteq rows /\ late \subseteq rows
  BY <1>1, <1>2, <1>4 DEF IInv, TailTypeOK
<1>8. SeenPrinted'
  BY <1>1, <1>6 DEF IInv, SeenPrinted
<1>9. SinceOfRow'
  BY <1>5 DEF IInv, SinceOfRow
<1>10. NothingSkipped'
  <2> SUFFICES ASSUME NEW r \in rows \ printed', Ts[r] < since'
               PROVE  r \in late' \cup crowded'
    BY DEF NothingSkipped
  <2>1. r \notin printed /\ r \notin S
    BY <1>1, <1>4 DEF IInv, SeenPrinted
  <2>2. CASE Ts[r] < since
    BY <1>2, <2>1, <2>2 DEF IInv, NothingSkipped
  <2>3. CASE ~(Ts[r] < since)
    <3>1. Ts[r] \in Nat /\ since \in Nat /\ \A q \in S : Ts[q] \in Nat
      BY <1>3, QueryAssumption DEF Since
    <3>2. PICK q \in S : since' = Ts[q]
      BY <1>5, <2>3
    <3>3. Ts[r] >= since /\ ~(Ts[q] <= Ts[r])
      BY <2>3, <3>1, <3>2
    <3>4. Crowded(r, S) \/ r \in late
      BY <2>1, <3>2, <3>3 DEF Explained
    <3>5. QED  BY <1>2, <2>1, <3>4
  <2>4. QED  BY <2>2, <2>3
<1>11. QED  BY <1>2, <1>5, <1>6, <1>7, <1>8, <1>9, <1>10

-----------------------------------------------------------------------------
(* The steps                                                               *)

LEMMA InitIInv == Init => IInv
<1> SUFFICES ASSUME Init PROVE IInv
  OBVIOUS
<1>1. /\ rows = {} /\ quiet = 0
      /\ cache = [s \in Since |-> [answer |-> {}, ttl |-> 0]]
      /\ pc = [c \in Clients |-> "idle"] /\ key = [c \in Clients |-> 0]
      /\ result = [c \in Clients |-> {}] /\ delay = [c \in Clients |-> 0]
      /\ since = 0 /\ seen = << >>
      /\ printed = {} /\ late = {} /\ crowded = {}
  BY DEF Init, QueryInit, NoEntry
<1>2. QueryTypeOK
  <2>1. 0 \in Since /\ 0 \in 0 .. Ttl /\ 0 \in 0 .. MaxDelay /\ 0 \in 0 .. Lag
    BY QueryAssumption DEF Since, Lag
  <2>2. QED  BY <1>1, <2>1 DEF QueryTypeOK
<1>3. TailTypeOK
  BY <1>1, <1>2, QueryAssumption DEF TailTypeOK, Since
<1>4. SeenPrinted /\ SinceOfRow /\ AsksSince /\ NothingSkipped
  BY <1>1, TailAssumption
     DEF SeenPrinted, SinceOfRow, AsksSince, NothingSkipped, ToSet
<1>5. AnswersExplained /\ AgeBounded
  BY <1>1 DEF AnswersExplained, AgeBounded, Cached
<1>6. QED  BY <1>3, <1>4, <1>5 DEF IInv

(* Nothing but the rest of the cache's state is left to a request that is  *)
(* not tail's.                                                             *)
LEMMA OthersIInv ==
  ASSUME IInv, Others
  PROVE  IInv'
<1>1. UNCHANGED <<tailVars, tailHistory>>
  BY DEF Others
<1>2. CASE Tick
  BY <1>1, <1>2, TickIInv
<1>3. ASSUME NEW c \in Clients, Fetch(c)
      PROVE  IInv'
  BY <1>1, <1>3, FetchIInv
<1>4. ASSUME NEW c \in Clients \ {Me}, Store(c) \/ Fails(c)
      PROVE  IInv'
  <2>1. late' = late
    BY <1>1 DEF tailHistory
  <2>2. /\ QueryTypeOK' /\ AnswersExplained' /\ AgeBounded' /\ rows' = rows
        /\ \A d \in Clients :
             pc'[d] # "idle" => d # c /\ pc[d] # "idle" /\ key'[d] = key[d]
    BY <1>4, <2>1, EndIsFine
  <2>3. TailTypeOK' /\ SeenPrinted' /\ SinceOfRow' /\ NothingSkipped'
    BY <1>1, <2>2 DEF IInv, TailTypeOK, SeenPrinted, SinceOfRow,
                      NothingSkipped, tailVars, tailHistory
  <2>4. AsksSince'
    BY <1>1, <2>2, TailAssumption DEF IInv, AsksSince, tailVars
  <2>5. QED  BY <2>2, <2>3, <2>4 DEF IInv
<1>5. ASSUME NEW c \in Clients \ {Me}, NEW s \in Asked, Hit(c, s)
      PROVE  IInv'
  BY <1>1, <1>5, UnchangedIInv DEF Hit, tailVars
<1>6. ASSUME NEW c \in Clients \ {Me}, NEW s \in Asked, Miss(c, s)
      PROVE  IInv'
  BY <1>1, <1>6, MissIInv, TailAssumption
<1>7. QED  BY <1>2, <1>3, <1>4, <1>5, <1>6 DEF Others

(* tail's own steps: it asks, from the cache or not, and shows the answer. *)
LEMMA PollIInv ==
  ASSUME IInv, PollHit \/ PollMiss \/ PollAnswer \/ PollFails
  PROVE  IInv'
<1>1. Me \in Clients /\ since \in Since
  BY TailAssumption DEF IInv, TailTypeOK
<1>2. CASE PollHit
  <2>1. Hit(Me, since) /\ Show(cache[since].answer)
    BY <1>2 DEF PollHit
  <2>2. UNCHANGED <<rows, quiet, cache, pc, key, result, delay>>
    BY <2>1 DEF Hit, queryVars, requestVars
  <2>3. cache[since].answer \subseteq rows
        /\ Explained(since, cache[since].answer)
    BY <1>1, <2>1 DEF Hit, IInv, AnswersExplained
  <2>4. /\ since' \in Since /\ seen' \in Seq(Row)
        /\ printed' \subseteq rows' /\ late' = late
        /\ late' \subseteq rows' /\ crowded' \subseteq rows'
        /\ SeenPrinted' /\ SinceOfRow' /\ NothingSkipped'
    BY <2>1, <2>2, <2>3, ShowIsFine
  <2>5. QueryTypeOK' /\ AnswersExplained' /\ AgeBounded'
    <3>1. \A t, T : Explained(t, T)' = Explained(t, T)
      BY <2>2, <2>4 DEF Explained, Crowded
    <3>2. QED
      BY <2>2, <3>1, AnswersSame
         DEF IInv, TailTypeOK, QueryTypeOK, AnswersExplained, AgeBounded, Cached
  <2>6. AsksSince'
    BY <2>1, <2>2 DEF Hit, AsksSince
  <2>7. QED  BY <2>4, <2>5, <2>6 DEF IInv, TailTypeOK
<1>3. CASE PollMiss
  BY <1>1, <1>3, MissIInv DEF PollMiss
<1>4. ASSUME NEW S \in SUBSET rows, Explained(since, S), Show(S),
             Store(Me) \/ Fails(Me)
      PROVE  IInv'
  <2>1. late' = late
    BY <1>4 DEF Show
  <2>2. /\ QueryTypeOK' /\ AnswersExplained' /\ AgeBounded' /\ rows' = rows
        /\ \A d \in Clients :
             pc'[d] # "idle" => d # Me /\ pc[d] # "idle" /\ key'[d] = key[d]
    BY <1>1, <1>4, <2>1, EndIsFine
  <2>3. /\ since' \in Since /\ seen' \in Seq(Row)
        /\ printed' \subseteq rows' /\ late' = late
        /\ late' \subseteq rows' /\ crowded' \subseteq rows'
        /\ SeenPrinted' /\ SinceOfRow' /\ NothingSkipped'
    BY <1>4, <2>2, ShowIsFine
  <2>4. AsksSince'
    BY <1>1, <2>2 DEF AsksSince
  <2>5. QED  BY <2>2, <2>3, <2>4 DEF IInv, TailTypeOK
<1>5. CASE PollAnswer
  <2>1. Store(Me) /\ Show(result[Me]) /\ pc[Me] = "store"
    BY <1>5 DEF PollAnswer, Store
  <2>2. result[Me] \subseteq rows /\ Explained(since, result[Me])
    BY <1>1, <2>1 DEF IInv, AnswersExplained, AsksSince
  <2>3. QED  BY <1>4, <2>1, <2>2
<1>6. CASE PollFails
  <2>1. Fails(Me) /\ Show({})
    BY <1>6 DEF PollFails
  <2>2. Explained(since, {})
    BY DEF Explained
  <2>3. QED  BY <1>4, <2>1, <2>2
<1>7. QED  BY <1>2, <1>3, <1>5, <1>6

LEMMA NextIInv == IInv /\ [Next]_vars => IInv'
<1> SUFFICES ASSUME IInv, [Next]_vars PROVE IInv'
  OBVIOUS
<1>1. ASSUME NEW r \in Row, Appear(r) PROVE IInv'
  BY <1>1, AppearIInv
<1>2. CASE Others
  BY <1>2, OthersIInv
<1>3. CASE PollHit \/ PollMiss \/ PollAnswer \/ PollFails
  BY <1>3, PollIInv
<1>4. CASE Quit \/ UNCHANGED vars
  <2>1. UNCHANGED <<queryVars, since, seen, tailHistory>>
    BY <1>4 DEF Quit, vars, tailVars
  <2>2. QED  BY <2>1, UnchangedIInv
<1>5. QED  BY <1>1, <1>2, <1>3, <1>4 DEF Next

(* Every reachable state satisfies the invariant.                          *)
THEOREM InductiveInvariant == Spec => []IInv
BY InitIInv, NextIInv, PTL DEF Spec

(***************************************************************************)
(* However requests overlap, no answer is wrong for longer than an entry   *)
(* lives and a request may take (query_logs).                              *)
(***************************************************************************)
THEOREM FreshCache == Spec => []Fresh
<1>1. IInv => Fresh
  <2> SUFFICES ASSUME IInv, quiet = Lag, NEW s \in Since, Cached(s)
               PROVE  cache[s].answer \in Answers(s)
    BY DEF Fresh
  <2>1. cache[s].ttl \in Nat /\ cache[s].ttl > 0 /\ Ttl \in Nat
        /\ MaxDelay \in Nat
    BY CacheOf, QueryAssumption DEF Cached, IInv
  <2>2. ~(quiet <= MaxDelay + Ttl - cache[s].ttl)
    BY <2>1 DEF Lag
  <2>3. QED  BY <2>2 DEF IInv, AgeBounded
<1>2. QED  BY <1>1, InductiveInvariant, PTL

(***************************************************************************)
(* tail passes over no row but those that came late and those a full page  *)
(* had no room for, whatever the cache answers (tail, query_logs).         *)
(***************************************************************************)
THEOREM NothingPassedOver == Spec => []NothingSkipped
<1>1. IInv => NothingSkipped
  BY DEF IInv
<1>2. QED  BY <1>1, InductiveInvariant, PTL

-----------------------------------------------------------------------------
(* No row is printed twice                                                 *)

(* What a query from s on may return.                                      *)
Fits(s, S) == Cardinality(S) <= Limit /\ \A r \in S : Ts[r] >= s

AnswersFit ==
  /\ \A s \in Since : Cached(s) => Fits(s, cache[s].answer)
  /\ \A c \in Clients : pc[c] = "store" => Fits(key[c], result[c])

(* `since` is the newest timestamp printed.  Rows of that timestamp come   *)
(* again with the next answer; these of them have been printed.            *)
PrintedUpTo == \A r \in printed : Ts[r] <= since
Shown       == {r \in printed : Ts[r] = since}

(* They are remembered: behind the first of them seen holds, besides them, *)
(* only the rest of the page it came with, which is too few to prune it.   *)
TiesRemembered == Shown \subseteq ToSet(seen)
TiesLast ==
  \A i \in DOMAIN seen :
    Ts[seen[i]] = since =>
      Len(seen) - i + 1 <= Cardinality(Shown) + Limit - 1

SeenOK == Len(seen) <= SeenCap /\ IsInjective(seen)

PrintIInv ==
  /\ tailing \in BOOLEAN /\ SeenOK
  /\ AnswersFit /\ PrintedUpTo /\ TiesRemembered /\ TiesLast /\ PrintedOnce

(* Whatever is answered, from the cache or not, fits the question.         *)
LEMMA AnswersFitStep ==
  ASSUME IInv, AnswersFit, [Next]_vars
  PROVE  AnswersFit'
<1> USE DEF AnswersFit, Cached
<1>1. CASE UNCHANGED <<cache, requestVars>>
  BY <1>1 DEF requestVars
<1>2. CASE Tick
  <2>1. ASSUME NEW s \in Since, cache'[s].ttl > 0
        PROVE  Fits(s, cache'[s].answer)
    <3>1. cache'[s] = Aged(cache[s]) /\ cache[s].ttl \in Nat
      BY <1>2, CacheOf DEF Tick, IInv
    <3>2. ~(cache[s].ttl <= 1)
      BY <2>1, <3>1 DEF Aged, NoEntry
    <3>3. cache'[s].answer = cache[s].answer /\ cache[s].ttl > 0
      BY <3>1, <3>2, CacheOf DEF Aged, IInv
    <3>4. QED  BY <3>3
  <2>2. QED  BY <1>2, <2>1 DEF Tick
<1>3. ASSUME NEW c \in Clients, Fetch(c)
      PROVE  AnswersFit'
  <2>1. PICK S \in Answers(key[c]) : result' = [result EXCEPT ![c] = S]
    BY <1>3 DEF Fetch
  <2>2. Fits(key[c], S)
    BY <2>1 DEF Answers, Matching, Fits
  <2>3. \A d \in Clients : /\ pc'[d] = IF d = c THEN "store" ELSE pc[d]
                           /\ result'[d] = IF d = c THEN S ELSE result[d]
    BY <1>3, <2>1 DEF Fetch, IInv, TailTypeOK, QueryTypeOK
  <2>4. QED  BY <1>3, <2>2, <2>3 DEF Fetch
<1>4. ASSUME NEW c \in Clients, NEW s, Miss(c, s)
      PROVE  AnswersFit'
  <2>1. \A d \in Clients :
          pc'[d] = "store" => pc[d] = "store" /\ key'[d] = key[d]
    BY <1>4 DEF Miss, IInv, TailTypeOK, QueryTypeOK
  <2>2. QED  BY <1>4, <2>1 DEF Miss
<1>5. ASSUME NEW c \in Clients, Store(c) \/ Fails(c)
      PROVE  AnswersFit'
  <2>1. \A d \in Clients :
          pc'[d] = "store" =>
            pc[d] = "store" /\ key'[d] = key[d] /\ result'[d] = result[d]
    BY <1>5 DEF Store, Fails, End, IInv, TailTypeOK, QueryTypeOK
  <2>2. ASSUME NEW s \in Since
        PROVE  \/ cache'[s] = cache[s]
               \/ pc[c] = "store" /\ s = key[c] /\ cache'[s].answer = result[c]
    BY <1>5 DEF Store, Fails, IInv, TailTypeOK, QueryTypeOK
  <2>3. QED  BY <2>1, <2>2
<1>6. QED
  BY <1>1, <1>2, <1>3, <1>4, <1>5, TailAssumption
     DEF Next, Appear, Insert, Others, PollHit, PollMiss, PollAnswer,
         PollFails, Quit, Hit, queryVars, vars

(* A sequence behind another: its elements, and their being all different. *)
LEMMA ConcatOf ==
  ASSUME NEW s \in Seq(Row), NEW t \in Seq(Row)
  PROVE  /\ s \o t \in Seq(Row) /\ Len(s \o t) = Len(s) + Len(t)
         /\ \A i \in 1 .. Len(s) :
              (s \o t)[i] = s[i] /\ (s \o t)[i] \in ToSet(s)
         /\ \A i \in Len(s) + 1 .. Len(s) + Len(t) :
              /\ i - Len(s) \in 1 .. Len(t)
              /\ (s \o t)[i] = t[i - Len(s)] /\ (s \o t)[i] \in ToSet(t)
         /\ \A r \in ToSet(s) \cup ToSet(t) :
              \E i \in 1 .. Len(s) + Len(t) : (s \o t)[i] = r
<1>1. /\ s \o t \in Seq(Row) /\ Len(s \o t) = Len(s) + Len(t)
      /\ Len(s) \in Nat /\ Len(t) \in Nat
      /\ DOMAIN s = 1 .. Len(s) /\ DOMAIN t = 1 .. Len(t)
  OBVIOUS
<1>2. ASSUME NEW i \in 1 .. Len(s)
      PROVE  (s \o t)[i] = s[i] /\ (s \o t)[i] \in ToSet(s)
  <2>1. (s \o t)[i] = s[i]
    OBVIOUS
  <2>2. QED  BY <1>1, <2>1 DEF ToSet
<1>3. ASSUME NEW j \in 1 .. Len(t)
      PROVE  /\ (s \o t)[Len(s) + j] = t[j] /\ t[j] \in ToSet(t)
             /\ Len(s) + j \in 1 .. Len(s) + Len(t)
  <2>1. (s \o t)[Len(s) + j] = t[j]
    OBVIOUS
  <2>2. QED  BY <1>1, <2>1 DEF ToSet
<1>4. ASSUME NEW i \in Len(s) + 1 .. Len(s) + Len(t)
      PROVE  /\ i - Len(s) \in 1 .. Len(t)
             /\ (s \o t)[i] = t[i - Len(s)] /\ (s \o t)[i] \in ToSet(t)
  <2>1. i - Len(s) \in 1 .. Len(t) /\ Len(s) + (i - Len(s)) = i
    BY <1>1
  <2>2. QED  BY <1>3, <2>1
<1>5. ASSUME NEW r \in ToSet(s) \cup ToSet(t)
      PROVE  \E i \in 1 .. Len(s) + Len(t) : (s \o t)[i] = r
  <2>1. CASE r \in ToSet(s)
    <3>1. PICK i \in 1 .. Len(s) : s[i] = r
      BY <1>1, <2>1 DEF ToSet
    <3>2. i \in 1 .. Len(s) + Len(t)
      BY <1>1
    <3>3. QED  BY <1>2, <3>1, <3>2
  <2>2. CASE r \in ToSet(t)
    <3>1. PICK j \in 1 .. Len(t) : t[j] = r
      BY <1>1, <2>2 DEF ToSet
    <3>2. QED  BY <1>3, <3>1
  <2>3. QED  BY <2>1, <2>2
<1>6. QED  BY <1>1, <1>2, <1>4, <1>5

LEMMA ConcatInjective ==
  ASSUME NEW s \in Seq(Row), NEW t \in Seq(Row), IsInjective(s),
         IsInjective(t), ToSet(s) \cap ToSet(t) = {}
  PROVE  \A i, j \in 1 .. Len(s) + Len(t) :
           i # j => (s \o t)[i] # (s \o t)[j]
<1> DEFINE u == s \o t
           n == Len(s)
           k == Len(t)
<1>1. /\ \A i, j \in 1 .. n : i # j => s[i] # s[j]
      /\ \A i, j \in 1 .. k : i # j => t[i] # t[j]
      /\ n \in Nat /\ k \in Nat
  BY DEF IsInjective
<1>2. /\ \A i \in 1 .. n : u[i] = s[i] /\ u[i] \in ToSet(s)
      /\ \A i \in n + 1 .. n + k :
           i - n \in 1 .. k /\ u[i] = t[i - n] /\ u[i] \in ToSet(t)
  BY ConcatOf
<1> HIDE DEF u, n, k
<1>3. ASSUME NEW i \in 1 .. n + k, NEW j \in 1 .. n + k, i < j
      PROVE  u[i] # u[j]
  <2>1. CASE j <= n
    BY <1>1, <1>2, <1>3, <2>1
  <2>2. CASE i > n
    <3>1. i \in n + 1 .. n + k /\ j \in n + 1 .. n + k /\ i - n # j - n
      BY <1>1, <1>3, <2>2
    <3>2. /\ i - n \in 1 .. k /\ j - n \in 1 .. k
          /\ u[i] = t[i - n] /\ u[j] = t[j - n]
      BY <1>2, <3>1
    <3>3. QED  BY <1>1, <3>1, <3>2
  <2>3. CASE i <= n /\ j > n
    <3>1. u[i] \in ToSet(s) /\ u[j] \in ToSet(t)
      BY <1>1, <1>2, <2>3
    <3>2. QED  BY <3>1
  <2>4. QED  BY <1>1, <1>3, <2>1, <2>2, <2>3
<1>4. \A i, j \in 1 .. n + k : i # j => u[i] # u[j]
  <2> SUFFICES ASSUME NEW i \in 1 .. n + k, NEW j \in 1 .. n + k, i # j
               PROVE  u[i] # u[j]
    OBVIOUS
  <2>1. i < j \/ j < i
    BY <1>1
  <2>2. QED  BY <1>3, <2>1
<1>5. QED  BY <1>4 DEF u, n, k

(***************************************************************************)
(* An answer that fits is printed but for what has been: a row of it that  *)
(* is not remembered is newer than `since`, or of its timestamp and new.   *)
(***************************************************************************)
LEMMA ShowPrintsOnce ==
  ASSUME IInv, PrintIInv, NEW S \in SUBSET rows, Fits(since, S), Show(S)
  PROVE  SeenOK' /\ PrintedUpTo' /\ TiesRemembered' /\ TiesLast' /\ PrintedOnce'
<1> DEFINE T == S \ ToSet(seen)
<1>1. PICK new \in Pages(T) :
        /\ seen' = Prune(seen \o new)
        /\ since' = SinceAfter(new)
        /\ printed' = printed \cup ToSet(new)
        /\ again' = again \cup (printed \cap ToSet(new))
  BY DEF Show
<1> DEFINE ids == seen \o new
           n == Len(seen)
           k == Len(new)
<1>0. seen' = Prune(ids)
  BY <1>1
<1>2. /\ T \in SUBSET Row /\ S \in SUBSET Row /\ printed \in SUBSET Row
      /\ IsFiniteSet(S) /\ IsFiniteSet(printed)
      /\ Limit \in Nat \ {0} /\ since \in Nat /\ seen \in Seq(Row)
      /\ \A r \in Row : Ts[r] \in Nat
  BY QueryAssumption, FS_Subset DEF IInv, TailTypeOK, QueryTypeOK, Since
<1>3. /\ new \in Seq(Row) /\ ToSet(new) = T
      /\ IsInjective(new) /\ k = Cardinality(T) /\ k \in Nat /\ k <= Limit
      /\ new # << >> => Head(new) \in T /\ \A q \in T : Ts[q] <= Ts[Head(new)]
  <2>1. Cardinality(T) \in Nat /\ Cardinality(S) \in Nat
        /\ Cardinality(T) <= Cardinality(S)
    BY <1>2, FS_Subset, FS_CardinalityType
  <2>2. QED  BY <1>1, <1>2, <2>1, PageIsSequence DEF Fits
<1>4. T \cap printed = {}
  <2> SUFFICES ASSUME NEW r \in T, r \in printed PROVE FALSE
    OBVIOUS
  <2>1. Ts[r] >= since /\ Ts[r] <= since /\ Ts[r] \in Nat
    BY <1>2 DEF Fits, PrintIInv, PrintedUpTo
  <2>2. r \in Shown
    BY <1>2, <2>1 DEF Shown
  <2>3. QED  BY <2>2 DEF PrintIInv, TiesRemembered
<1>5. PrintedOnce'
  BY <1>1, <1>3, <1>4 DEF PrintIInv, PrintedOnce
<1>6. /\ since' \in Nat /\ since' >= since
      /\ \A q \in T : Ts[q] <= since' /\ Ts[q] >= since
      /\ since' # since => new # << >> /\ since' = Ts[Head(new)]
  <2>1. CASE new = << >>
    BY <1>1, <1>2, <1>3, <2>1 DEF SinceAfter, ToSet
  <2>2. CASE new # << >>
    BY <1>1, <1>2, <1>3, <2>2 DEF SinceAfter, Fits
  <2>3. QED  BY <2>1, <2>2
<1>7. PrintedUpTo'
  BY <1>1, <1>2, <1>3, <1>6 DEF PrintIInv, PrintedUpTo
<1>8. /\ ids \in Seq(Row) /\ Len(ids) = n + k /\ n \in Nat
      /\ \A i \in 1 .. n : ids[i] = seen[i] /\ ids[i] \in ToSet(seen)
      /\ \A r \in ToSet(seen) \cup T : \E i \in 1 .. n + k : ids[i] = r
  <2>1. n \in Nat
    BY <1>2
  <2>2. QED
    <3> HIDE DEF T
    <3>1. QED  BY <1>2, <1>3, <2>1, ConcatOf
<1>9. \A i, j \in 1 .. n + k : i # j => ids[i] # ids[j]
  BY <1>2, <1>3, ConcatInjective DEF PrintIInv, SeenOK
<1>10. Shown' = {r \in printed \cup T : Ts[r] = since'}
  BY <1>1, <1>3 DEF Shown
<1>11. /\ IsFiniteSet(Shown) /\ Cardinality(Shown) \in Nat
       /\ IsFiniteSet(Shown') /\ Cardinality(Shown') \in Nat
  <2>1. Shown \subseteq Row /\ Shown' \subseteq Row
    BY <1>2, <1>10 DEF Shown
  <2>2. QED  BY <2>1, QueryAssumption, FS_Subset, FS_CardinalityType
<1>12. \A i \in 1 .. n + k :
         Ts[ids[i]] = since' =>
           n + k - i + 1 <= Cardinality(Shown') + Limit - 1
  <2> SUFFICES ASSUME NEW i \in 1 .. n + k, Ts[ids[i]] = since'
               PROVE  n + k - i + 1 <= Cardinality(Shown') + Limit - 1
    OBVIOUS
  <2>1. CASE since' = since
    <3>1. Shown' = Shown \cup T
      BY <1>2, <1>6, <1>10, <2>1 DEF Shown
    <3>2. Shown \cap T = {} /\ IsFiniteSet(T)
      BY <1>2, <1>4, QueryAssumption, FS_Subset DEF Shown
    <3>3. Cardinality(Shown') = Cardinality(Shown) + k
      <4>1. Cardinality(Shown \cap T) = 0
        BY <3>2, FS_EmptySet
      <4>2. Cardinality(Shown \cup T)
              = Cardinality(Shown) + Cardinality(T) - Cardinality(Shown \cap T)
        BY <1>11, <3>2, FS_Union
      <4>3. QED  BY <1>3, <1>11, <3>1, <4>1, <4>2
    <3>4. CASE i <= n
      <4>1. n - i + 1 <= Cardinality(Shown) + Limit - 1
        BY <1>2, <1>8, <2>1, <3>4 DEF PrintIInv, TiesLast
      <4>2. QED  BY <1>2, <1>3, <1>8, <1>11, <3>3, <4>1
    <3>5. CASE i > n
      BY <1>2, <1>3, <1>8, <1>11, <3>3, <3>5
    <3>6. QED  BY <1>8, <3>4, <3>5
  <2>2. CASE since' # since
    <3>1. Head(new) \in Shown'
      BY <1>3, <1>6, <1>10, <2>2
    <3>2. Cardinality(Shown') >= 1
      BY <1>11, <3>1, FS_EmptySet
    <3>3. i > n
      <4>1. i <= n => ids[i] \in printed
        BY <1>8 DEF IInv, SeenPrinted
      <4>2. i <= n => Ts[ids[i]] <= since
        BY <4>1 DEF PrintIInv, PrintedUpTo
      <4>3. QED  BY <1>2, <1>6, <1>8, <2>2, <4>2
    <3>4. QED  BY <1>2, <1>3, <1>8, <1>11, <3>2, <3>3
  <2>3. QED  BY <2>1, <2>2
<1>13. Shown' \subseteq ToSet(seen) \cup T
  BY <1>2, <1>6, <1>10 DEF PrintIInv, PrintedUpTo, TiesRemembered, Shown
<1>14. ASSUME NEW r \in Shown'
       PROVE  Cardinality(Shown') + Limit - 1 <= SeenKeep
  <2> DEFINE A == {q \in Row : Ts[q] = since'}
  <2>1. r \in Row /\ Ts[r] = since' /\ since' \in 1 .. LastTs
    BY <1>2, <1>10, QueryAssumption
  <2>2. Shown' \subseteq A /\ IsFiniteSet(A) /\ Cardinality(A) \in Nat
    BY <1>2, <1>10, QueryAssumption, FS_Subset, FS_CardinalityType
  <2>3. Cardinality(Shown') <= Cardinality(A)
    BY <2>2, FS_Subset
  <2>4. Cardinality(A) + Limit - 1 <= SeenKeep
    BY <2>1, TailAssumption DEF Ties
  <2>5. QED  BY <1>2, <1>11, <2>2, <2>3, <2>4, TailAssumption
<1> HIDE DEF ids, n, k, T
<1>15. PICK d \in Nat :
         /\ Len(ids) = Len(seen') + d
         /\ d > 0 => Len(seen') = SeenKeep
         /\ \A i \in 1 .. Len(seen') : seen'[i] = ids[i + d]
  BY <1>0, <1>8, PruneDrops
<1>16. seen' \in Seq(Row) /\ Len(seen') <= SeenCap /\ Len(seen') \in Nat
  BY <1>0, <1>8, PruneDrops
<1>17. n + k = Len(seen') + d /\ n \in Nat /\ k \in Nat
       /\ \A i \in 1 .. Len(seen') : i + d \in 1 .. n + k
  <2>1. n + k = Len(seen') + d /\ n \in Nat /\ k \in Nat
    BY <1>3, <1>8, <1>15
  <2>2. QED  BY <1>16, <2>1
<1>18. SeenOK' /\ TiesLast'
  <2>1. ASSUME NEW i \in 1 .. Len(seen'), NEW j \in 1 .. Len(seen'), i # j
        PROVE  seen'[i] # seen'[j]
    <3>1. i + d # j + d
      BY <1>15, <2>1
    <3>2. QED  BY <1>9, <1>15, <1>17, <3>1
  <2>2. ASSUME NEW i \in 1 .. Len(seen'), Ts[seen'[i]] = since'
        PROVE  Len(seen') - i + 1 <= Cardinality(Shown') + Limit - 1
    <3>1. n + k - (i + d) + 1 <= Cardinality(Shown') + Limit - 1
      BY <1>12, <1>15, <1>17, <2>2
    <3>2. n + k - (i + d) + 1 = Len(seen') - i + 1
      <4>1. /\ n + k = Len(seen') + d /\ n \in Nat /\ k \in Nat
            /\ Len(seen') \in Nat /\ i \in Nat
        BY <1>16, <1>17
      <4>2. QED  BY <4>1
    <3>3. QED  BY <3>1, <3>2
  <2>3. DOMAIN seen' = 1 .. Len(seen')
    BY <1>16
  <2>4. QED
    BY <1>16, <2>1, <2>2, <2>3 DEF SeenOK, IsInjective, TiesLast
<1>19. TiesRemembered'
  <2> SUFFICES ASSUME NEW r \in Shown' PROVE r \in ToSet(seen')
    BY DEF TiesRemembered
  <2>1. PICK i \in 1 .. n + k : ids[i] = r
    BY <1>8, <1>13
  <2>2. Ts[ids[i]] = since'
    BY <1>10, <2>1
  <2>3. n + k - i + 1 <= Cardinality(Shown') + Limit - 1
    BY <1>12, <2>2
  <2>4. Cardinality(Shown') + Limit - 1 <= SeenKeep
    BY <1>14
  <2>5. i - d \in 1 .. Len(seen') /\ (i - d) + d = i
    <3>1. n + k - i + 1 <= SeenKeep
      BY <1>2, <1>11, <1>17, <2>3, <2>4, TailAssumption
    <3>2. d > 0 => Len(seen') = SeenKeep
      BY <1>15
    <3>3. QED  BY <1>16, <1>17, <3>1, <3>2, TailAssumption
  <2>6. seen'[i - d] = r
    BY <1>15, <2>1, <2>5
  <2>7. QED  BY <1>16, <2>5, <2>6 DEF ToSet
<1>20. QED  BY <1>5, <1>7, <1>18, <1>19

LEMMA NextPrintIInv == IInv /\ PrintIInv /\ [Next]_vars => PrintIInv'
<1> SUFFICES ASSUME IInv, PrintIInv, [Next]_vars PROVE PrintIInv'
  OBVIOUS
<1>1. AnswersFit'
  BY AnswersFitStep DEF PrintIInv
<1>2. CASE UNCHANGED <<since, seen, printed, again>> /\ tailing' \in BOOLEAN
  BY <1>1, <1>2
     DEF PrintIInv, SeenOK, PrintedUpTo, TiesRemembered, TiesLast, Shown,
         PrintedOnce
<1>3. ASSUME NEW S \in SUBSET rows, Fits(since, S), Show(S)
      PROVE  PrintIInv'
  <2>1. tailing' = tailing
    BY <1>3 DEF Show
  <2>2. QED  BY <1>1, <1>3, <2>1, ShowPrintsOnce DEF PrintIInv
<1>4. CASE PollHit
  <2>1. cache[since].answer \subseteq rows /\ Fits(since, cache[since].answer)
    BY <1>4
       DEF PollHit, Hit, IInv, TailTypeOK, AnswersExplained, PrintIInv,
           AnswersFit
  <2>2. QED  BY <1>3, <1>4, <2>1 DEF PollHit
<1>5. CASE PollAnswer
  <2>1. result[Me] \subseteq rows /\ Fits(since, result[Me])
    BY <1>5, TailAssumption
       DEF PollAnswer, Store, IInv, AnswersExplained, AsksSince, PrintIInv,
           AnswersFit
  <2>2. QED  BY <1>3, <1>5, <2>1 DEF PollAnswer
<1>6. CASE PollFails
  <2>1. Fits(since, {})
    BY FS_EmptySet, QueryAssumption DEF Fits
  <2>2. QED  BY <1>3, <1>6, <2>1 DEF PollFails
<1>7. QED
  BY <1>2, <1>4, <1>5, <1>6
     DEF Next, Appear, Others, PollMiss, Quit, PrintIInv, tailVars,
         tailHistory, vars

(* What tail remembers suffices, in every reachable state.                 *)
THEOREM PrintInvariant == Spec => []PrintIInv
<1>1. Init => PrintIInv
  <2> SUFFICES ASSUME Init PROVE PrintIInv
    OBVIOUS
  <2>1. /\ tailing = TRUE /\ seen = << >> /\ printed = {} /\ again = {}
        /\ cache = [s \in Since |-> NoEntry]
        /\ pc = [c \in Clients |-> "idle"]
    BY DEF Init, QueryInit
  <2>2. SeenOK
    BY <2>1, TailAssumption DEF SeenOK, IsInjective
  <2>3. AnswersFit
    BY <2>1 DEF AnswersFit, Cached, NoEntry
  <2>4. QED
    BY <2>1, <2>2, <2>3
       DEF PrintIInv, PrintedUpTo, TiesRemembered, TiesLast, PrintedOnce, Shown
<1>2. QED  BY <1>1, NextPrintIInv, InductiveInvariant, PTL DEF Spec

(* Type correctness, with the bound on the ids remembered.                 *)
THEOREM TypeCorrect == Spec => []TypeOK
<1>1. IInv /\ PrintIInv => TypeOK
  BY DEF IInv, TailTypeOK, PrintIInv, SeenOK, PrintedOnce, TypeOK
<1>2. QED  BY <1>1, InductiveInvariant, PrintInvariant, PTL

(***************************************************************************)
(* No row is printed twice, whatever the cache answers and whatever is     *)
(* forgotten, if a page and the rows of one timestamp fit what is kept.    *)
(***************************************************************************)
THEOREM NoDuplicates == Spec => []PrintedOnce
<1>1. PrintIInv => PrintedOnce
  BY DEF PrintIInv
<1>2. QED  BY <1>1, PrintInvariant, PTL
==============================================================================
