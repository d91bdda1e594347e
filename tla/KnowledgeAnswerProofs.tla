------------------------- MODULE KnowledgeAnswerProofs -------------------------
(***************************************************************************)
(* Proofs about KnowledgeAnswer, for any chunks, texts, scores, scenes and *)
(* changes of the knowledge base: what a question is answered from.        *)
(***************************************************************************)
EXTENDS KnowledgeAnswer, FiniteSetTheorems, SequenceTheorems,
        WellFoundedInduction, TLAPS

Current(m) == read.row[m[1]] = m[2] /\ m[1] \in read.done

(* What has been found, up to the sources: the hits are of one text per     *)
(* chunk, the ranked ones were current when they were read, one per chunk,  *)
(* and with the stale ones no more than the hits.                           *)
HitsOK ==
  /\ pc \in {"prepare", "search", "read"} => ranked = <<>> /\ stale = 0
  /\ pc = "read" =>
       /\ raw = Len(hits)
       /\ matched = {<<hits[i].id, hits[i].text>> : i \in DOMAIN hits}
       /\ \A i, j \in DOMAIN hits : hits[i].id = hits[j].id => hits[i].text = hits[j].text

RankedOK ==
  /\ \A i, j \in DOMAIN ranked : ranked[i].id = ranked[j].id => i = j
  /\ \A i \in DOMAIN ranked :
       <<ranked[i].id, ranked[i].text>> \in {m \in matched : Current(m)}
  /\ Len(ranked) + stale <= raw

(* Why nothing is ranked, if nothing is. *)
CauseOK ==
  pc \in {"score", "sort", "save", "decide", "assess"} =>
    /\ raw = 0 <=> matched = {}
    /\ ranked = <<>> <=> {m \in matched : Current(m)} = {}
    /\ ranked = <<>> /\ raw > 0 => stale > 0

SortedOK ==
  pc \in {"save", "decide"} =>
    \A i, j \in DOMAIN ranked : i < j => ranked[i].score >= ranked[j].score

(* Sources are chosen once, and the first is the most relevant. *)
ChosenOK ==
  /\ pc \in {"prepare", "search", "read", "score", "sort", "save", "decide"} =>
       sources = <<>>
  /\ pc = "assess" => sources # <<>>
  /\ sources # <<>> =>
       ranked # <<>> /\ sources[1].number = 1 /\ sources[1].score = Best

SupportOK ==
  pc \in {"workflow_answer", "generate"} => support # {} /\ support \subseteq SourceIds

\* All that is said of the question's own variables.
QuestionInv ==
  /\ SearchKeepsTheQuestion /\ SourcesAreTheBest /\ EvidenceWasCurrent /\ OutcomeIsGrounded
  /\ HitsOK /\ RankedOK /\ CauseOK /\ SortedOK /\ ChosenOK /\ SupportOK

AnswerInv == TypeOK /\ LinkShowsTheCitedText /\ QuestionInv

-----------------------------------------------------------------------------
(* Lemmas about the operators of the model. *)

\* A set of numbers that is not empty has a least one.
LEMMA Least ==
  ASSUME NEW T \in SUBSET Nat, T # {}
  PROVE  \E n \in T : \A m \in T : n <= m
<1> DEFINE Lt == {p \in Nat \X Nat : p[1] < p[2]}
<1>1. IsWellFoundedOn(Lt, Nat)
  BY NatLessThanWellFounded DEF OpToRel
<1>2. PICK n \in T : \A m \in T : <<m, n>> \notin Lt
  BY <1>1, WFMin
<1>3. ASSUME NEW m \in T PROVE n <= m
  <2>1. m \in Nat /\ n \in Nat
    OBVIOUS
  <2>2. m < n => <<m, n>> \in Lt
    BY <2>1
  <2>3. ~(m < n)
    BY <1>2, <2>2
  <2> QED
    BY <2>1, <2>3
<1> QED
  BY <1>3

\* Every chunk that was hit has its best hit: a longest prefix of the hits
\* in which it has none cannot end anywhere.
LEMMA BestHit ==
  ASSUME NEW s, NEW n \in Nat, DOMAIN s = 1..n,
         \A i \in 1..n : s[i].score \in Nat, NEW k \in 1..n
  PROVE  \E i \in DeduplicateHits(s) : s[i].id = s[k].id
<1> DEFINE Beats(i, j) == \/ s[i].score > s[j].score
                          \/ s[i].score = s[j].score /\ i <= j
           Of(m) == {i \in 1..m : s[i].id = s[k].id}
           Bad == {m \in 1..n : /\ Of(m) # {}
                                /\ \A i \in Of(m) : \E j \in Of(m) : ~Beats(i, j)}
<1>1. SUFFICES ASSUME n \in Bad PROVE FALSE
  <2>1. n \in 1..n /\ k \in Of(n)
    OBVIOUS
  <2>2. PICK i \in Of(n) : \A j \in Of(n) : Beats(i, j)
    BY <1>1, <2>1
  <2>3. i \in DeduplicateHits(s)
    BY <2>2 DEF DeduplicateHits
  <2> QED
    BY <2>2, <2>3
<1>2. PICK m \in Bad : \A l \in Bad : m <= l
  <2>1. Bad \subseteq 1..n
    OBVIOUS
  <2>2. Bad # {}
    BY <1>1
  <2> HIDE DEF Bad
  <2>3. Bad \in SUBSET Nat
    BY <2>1
  <2> QED
    BY <2>2, <2>3, Least
<1>3. m \in 1..n /\ Of(m) # {} /\ \A i \in Of(m) : \E j \in Of(m) : ~Beats(i, j)
  OBVIOUS
<1>4. CASE Of(m - 1) = {}
  <2>1. Of(m) = {m}
    BY <1>3, <1>4
  <2>2. Beats(m, m)
    BY <1>3
  <2> QED
    BY <1>3, <2>1, <2>2
<1>5. CASE Of(m - 1) # {}
  <2>1. m - 1 \in 1..n /\ m - 1 \notin Bad
    <3>1. m - 1 \in 1..n
      BY <1>3, <1>5
    <3>2. m - 1 \in Bad => m <= m - 1
      BY <1>2
    <3> HIDE DEF Bad
    <3> QED
      BY <1>3, <3>1, <3>2
  <2>2. PICK i \in Of(m - 1) : \A j \in Of(m - 1) : Beats(i, j)
    BY <1>5, <2>1
  <2>3. i \in 1..n /\ m \in 1..n /\ i < m /\ i \in Of(m)
    BY <1>3, <2>1
  <2>4. CASE s[m].id = s[k].id /\ s[m].score > s[i].score
    <3>1. m \in Of(m)
      BY <1>3, <2>4
    <3>2. ASSUME NEW j \in Of(m) PROVE Beats(m, j)
      <4>1. CASE j = m
        BY <4>1
      <4>2. CASE j # m
        <5>1. j \in Of(m - 1) /\ j \in 1..n
          BY <1>3, <4>2
        <5>2. s[i].score >= s[j].score
          BY <2>2, <2>3, <5>1
        <5> QED
          BY <2>3, <2>4, <5>1, <5>2
      <4> QED
        BY <4>1, <4>2
    <3> QED
      BY <1>3, <3>1, <3>2
  <2>5. CASE ~(s[m].id = s[k].id /\ s[m].score > s[i].score)
    <3>1. ASSUME NEW j \in Of(m) PROVE Beats(i, j)
      <4>1. CASE j = m
        BY <2>3, <2>5, <4>1
      <4>2. CASE j # m
        <5>1. j \in Of(m - 1)
          BY <1>3, <4>2
        <5> QED
          BY <2>2, <5>1
      <4> QED
        BY <4>1, <4>2
    <3> QED
      BY <1>3, <2>3, <3>1
  <2> QED
    BY <2>4, <2>5
<1> QED
  BY <1>4, <1>5

\* What the scenes allow.
LEMMA SceneFacts ==
  ASSUME scene \in Scenes
  PROVE  /\ scene.chunks \subseteq Chunks /\ scene.texts \subseteq Texts
         /\ scene.chunks \subseteq Nat
         /\ scene.scores \subseteq Nat /\ scene.hitScores \subseteq scene.scores
         /\ scene.hits \in Nat /\ scene.changes \in Nat
         /\ Question \in Query
<1>1. scene \in Scenes
  OBVIOUS
<1>2. /\ scene.chunks \subseteq Chunks /\ scene.texts \subseteq Texts
      /\ scene.hits \in Nat /\ scene.changes \in Nat
      /\ scene.hitScores \subseteq scene.scores
  BY <1>1, ScenesAssumption
<1>3. scene.scores \subseteq Nat
  BY <1>1, ScenesAssumption
<1>4. Question.words \in scene.words /\ Question.terms \in SUBSET scene.terms
  BY <1>1, ScenesAssumption
<1>5. Question \in Query
  <2>1. /\ Question = [words |-> Question.words, terms |-> Question.terms, negations |-> 1]
        /\ 1 \in 0..1
    BY DEF Question
  <2> HIDE DEF Question
  <2> QED
    BY <1>4, <2>1 DEF Query
<1>6. scene.chunks \subseteq Nat
  BY <1>2, ChunksAssumption
<1> QED
  BY <1>2, <1>3, <1>5, <1>6

\* What get_many leaves of the hits: the best of each chunk whose row is still
\* the one that was found.
LEMMA ReadKeeps ==
  ASSUME TypeOK, HitsOK, ReadRows
  PROVE  /\ ranked' \in Seq(Hit)
         /\ \A n \in DOMAIN ranked' : \E i \in DOMAIN hits :
              Fresh(hits[i]) /\ ranked'[n] = hits[i]
         /\ \A m, n \in DOMAIN ranked' : ranked'[m].id = ranked'[n].id => m = n
         /\ ranked' = <<>> <=> \A i \in DOMAIN hits : ~Fresh(hits[i])
         /\ stale' \in Nat /\ Len(ranked') + stale' <= raw
         /\ ranked' = <<>> /\ raw > 0 => stale' > 0
<1> DEFINE unique == DeduplicateHits(hits)
           fresh == {i \in unique : Fresh(hits[i])}
           N == Len(hits)
<1>1. /\ N \in Nat /\ DOMAIN hits = 1..N /\ raw = N
      /\ \A i \in 1..N : hits[i] \in Hit
  BY ElementOfSeq, LenProperties DEF TypeOK, HitsOK, ReadRows
<1>2. \A i \in 1..N : hits[i].id \in Nat /\ hits[i].score \in Nat
  BY <1>1, ChunksAssumption DEF Hit
<1>3. unique \subseteq 1..N
  BY <1>1 DEF DeduplicateHits
<1>4. ASSUME NEW i \in unique, NEW j \in unique, hits[i].id = hits[j].id PROVE i = j
  <2>1. /\ i \in 1..N /\ j \in 1..N
        /\ hits[i].score > hits[j].score \/ (hits[i].score = hits[j].score /\ i <= j)
        /\ hits[j].score > hits[i].score \/ (hits[j].score = hits[i].score /\ j <= i)
    BY <1>1, <1>3, <1>4 DEF DeduplicateHits
  <2>2. hits[i].score \in Nat /\ hits[j].score \in Nat
    BY <1>2, <2>1
  <2> QED
    BY <1>1, <2>1, <2>2
<1>5. \A k \in 1..N : \E i \in unique : hits[i].id = hits[k].id
  BY <1>1, <1>2, BestHit
<1>6. /\ IsFiniteSet(unique) /\ IsFiniteSet(fresh)
      /\ Cardinality(unique) \in Nat /\ Cardinality(fresh) \in Nat
      /\ Cardinality(unique) <= N /\ Cardinality(fresh) <= Cardinality(unique)
      /\ Cardinality(fresh) = 0 <=> fresh = {}
      /\ Cardinality(unique) = 0 <=> unique = {}
  <2>1. IsFiniteSet(1..N) /\ Cardinality(1..N) = N
    <3> HIDE DEF N
    <3>1. 1 \in Int /\ N \in Int
      BY <1>1
    <3>2. IsFiniteSet(1..N) /\ Cardinality(1..N) = IF 1 > N THEN 0 ELSE N - 1 + 1
      BY <3>1, FS_Interval
    <3> QED
      BY <1>1, <3>2
  <2>2. /\ IsFiniteSet(unique) /\ Cardinality(unique) <= N
    BY <1>3, <2>1, FS_Subset
  <2>3. IsFiniteSet(fresh) /\ Cardinality(fresh) <= Cardinality(unique)
    BY <2>2, FS_Subset
  <2> HIDE DEF fresh, unique
  <2> QED
    BY <2>2, <2>3, FS_CardinalityType, FS_EmptySet
<1>7. PICK at \in [1..Cardinality(fresh) -> fresh] :
        /\ \A m, n \in 1..Cardinality(fresh) : at[m] = at[n] => m = n
        /\ ranked' = [n \in 1..Cardinality(fresh) |-> hits[at[n]]]
  BY DEF ReadRows, Bijection, Injection, IsInjective
<1>8. stale' = Cardinality(unique) - Cardinality(fresh)
  BY DEF ReadRows
<1>9. fresh = {} <=> \A i \in 1..N : ~Fresh(hits[i])
  <2>1. ASSUME NEW k \in 1..N, Fresh(hits[k]) PROVE fresh # {}
    <3>1. PICK i \in unique : hits[i].id = hits[k].id
      BY <1>5
    <3>2. hits[i].text = hits[k].text
      BY <1>1, <1>3, <3>1 DEF HitsOK, ReadRows
    <3>3. Fresh(hits[i])
      BY <2>1, <3>1, <3>2 DEF Fresh
    <3> QED
      BY <3>3
  <2> QED
    BY <1>3, <2>1
<1> DEFINE C == Cardinality(fresh)
<1> HIDE DEF fresh, unique, N, C
<1>10. C \in Nat /\ DOMAIN ranked' = 1..C /\ \A n \in 1..C : ranked'[n] = hits[at[n]]
  BY <1>6, <1>7 DEF C
<1>11. \A n \in 1..C : at[n] \in fresh
  BY <1>7 DEF C
<1>12. fresh \subseteq unique /\ \A i \in fresh : Fresh(hits[i])
  BY DEF fresh
<1>13. ranked' \in Seq(Hit) /\ Len(ranked') = C
  <2>1. ranked' = [n \in 1..C |-> hits[at[n]]] /\ \A n \in 1..C : hits[at[n]] \in Hit
    BY <1>1, <1>3, <1>7, <1>11, <1>12 DEF C
  <2> QED
    BY <1>10, <2>1
<1>14. ranked' = <<>> <=> fresh = {}
  BY <1>6, <1>13 DEF C
<1>15. ASSUME NEW n \in DOMAIN ranked'
       PROVE  \E i \in DOMAIN hits : Fresh(hits[i]) /\ ranked'[n] = hits[i]
  BY <1>1, <1>3, <1>10, <1>11, <1>12
<1>16. ASSUME NEW m \in DOMAIN ranked', NEW n \in DOMAIN ranked',
              ranked'[m].id = ranked'[n].id
       PROVE  m = n
  <2>1. at[m] = at[n]
    BY <1>4, <1>10, <1>11, <1>12, <1>16
  <2> QED
    BY <1>7, <1>10, <2>1 DEF C
<1>17. stale' \in Nat /\ Len(ranked') + stale' <= raw
  BY <1>1, <1>6, <1>8, <1>13 DEF C
<1>18. ASSUME ranked' = <<>>, raw > 0 PROVE stale' > 0
  <2>1. unique # {}
    BY <1>1, <1>5, <1>18
  <2>2. Cardinality(fresh) = 0 /\ Cardinality(unique) > 0
    BY <1>6, <1>14, <1>18, <2>1
  <2> QED
    BY <1>6, <1>8, <2>2
<1> QED
  BY <1>1, <1>9, <1>13, <1>14, <1>15, <1>16, <1>17, <1>18

-----------------------------------------------------------------------------
(* Types. *)

LEMMA InitTypes == Init => TypeOK
<1> SUFFICES ASSUME Init PROVE TypeOK
  OBVIOUS
<1> USE DEF Init
<1>1. scene \in Scenes /\ events \in 0..scene.changes
  BY SceneFacts
<1>2. plan \in [normalized: Query, synonyms: SUBSET Query, fallback: BOOLEAN]
  BY <1>1, SceneFacts DEF Asked
<1>3. row \in Rows /\ vec \in Rows /\ done \subseteq Chunks
  BY <1>1, SceneFacts
<1>4. read \in [row: Rows, done: SUBSET Chunks]
  BY <1>3
<1>5. raw \in 0..scene.hits /\ stale \in 0..scene.hits
  BY <1>1, SceneFacts
<1> QED
  BY <1>1, <1>2, <1>3, <1>4, <1>5 DEF TypeOK, Stages

\* The scene is chosen once.
LEMMA SceneStays ==
  Next => scene' = scene /\ Query' = Query
<1> SUFFICES ASSUME Next PROVE scene' = scene
  BY DEF Query
<1> USE DEF base
<1>1. CASE Pipeline
  BY <1>1 DEF Pipeline, Prepare, Search, ReadRows, Rerank, Sort, Save, Decide, Assess,
     Render, Generate
<1>2. CASE OutOfBudget \/ Fail
  BY <1>2 DEF OutOfBudget, Fail
<1>3. CASE KnowledgeBase
  BY <1>3 DEF KnowledgeBase, Edit, Lose, Upsert, Mark
<1>4. CASE \E i \in 1..MaxSources : Open(i)
  BY <1>4 DEF Open
<1> QED
  BY <1>1, <1>2, <1>3, <1>4 DEF Next

\* The first candidates as citations, one for each, the edges first.
LEMMA SelectKeeps ==
  ASSUME TypeOK, NEW k \in 0..MaxSources, k <= Len(ranked), Select(k)
  PROVE  /\ sources' \in Seq(Citation) /\ Len(sources') = k
         /\ \A i \in 1..k :
              LET n == IF 2*i - 1 <= k THEN 2*i - 1 ELSE 2*(k - i + 1)
              IN /\ n \in 1..k
                 /\ sources'[i] = [number |-> n, id |-> ranked[n].id,
                                   text |-> ranked[n].text, score |-> ranked[n].score]
         /\ dropped' \in Seq(Chunks)
         /\ DOMAIN dropped' = 1..(Len(ranked) - k)
         /\ \A i \in 1..(Len(ranked) - k) : dropped'[i] = ranked[k + i].id
<1> DEFINE N == Len(ranked)
           best == SubSeq(ranked, 1, k)
           C == [n \in DOMAIN best |-> [number |-> n, id |-> best[n].id,
                                        text |-> best[n].text, score |-> best[n].score]]
<1>1. /\ k \in Nat /\ MaxSources \in Nat /\ k <= MaxSources
      /\ N \in Nat /\ DOMAIN ranked = 1..N /\ \A i \in 1..N : ranked[i] \in Hit
      /\ k <= N
  BY BoundsAssumption, ElementOfSeq, LenProperties DEF TypeOK
<1>2. DOMAIN best = 1..k /\ Len(best) = k /\ \A i \in 1..k : best[i] = ranked[i]
  <2>1. \A i \in 1..k : ranked[i] \in Hit
    BY <1>1
  <2>2. /\ best \in Seq(Hit)
        /\ Len(best) = IF 1 <= k THEN k - 1 + 1 ELSE 0
        /\ \A i \in 1..(k - 1 + 1) : best[i] = ranked[1 + i - 1]
    <3>1. 1 \in Int /\ k \in Int
      BY <1>1
    <3> QED
      BY <2>1, <3>1, SubSeqProperties
  <2>3. Len(best) = k
    BY <1>1, <2>2
  <2>4. DOMAIN best = 1..k
    BY <2>2, <2>3, LenProperties
  <2>5. \A i \in 1..k : best[i] = ranked[i]
    BY <1>1, <2>2
  <2> QED
    BY <2>3, <2>4, <2>5
<1> HIDE DEF best, N
<1>3. DOMAIN C = 1..k /\ C \in Seq(Citation) /\ Len(C) = k
  <2>1. ASSUME NEW n \in 1..k PROVE C[n] \in Citation
    <3>1. n \in 1..MaxSources /\ best[n] \in Hit
      BY <1>1, <1>2
    <3> QED
      BY <1>2, <3>1 DEF Hit, Citation
  <2> QED
    BY <1>1, <1>2, <2>1
<1>4. \A n \in 1..k : C[n] = [number |-> n, id |-> ranked[n].id,
                              text |-> ranked[n].text, score |-> ranked[n].score]
  BY <1>2
<1>5. sources' = EdgeOrder(C)
  BY DEF Select, Citations, best
<1> HIDE DEF C
<1>6. sources' = [n \in 1..k |-> IF 2*n - 1 <= k THEN C[2*n - 1] ELSE C[2*(k - n + 1)]]
  BY <1>3, <1>5 DEF EdgeOrder
<1>7. ASSUME NEW i \in 1..k
      PROVE  LET n == IF 2*i - 1 <= k THEN 2*i - 1 ELSE 2*(k - i + 1)
             IN n \in 1..k /\ sources'[i] = C[n]
  BY <1>1, <1>6
<1>8. \A i \in 1..k : sources'[i] \in Citation
  BY <1>3, <1>7, ElementOfSeq
<1>9. sources' \in Seq(Citation) /\ Len(sources') = k
  BY <1>1, <1>6, <1>8
<1>10. dropped' = [i \in 1..(N - k) |-> ranked[k + i].id]
  BY DEF Select, N
<1>11. /\ dropped' \in Seq(Chunks)
       /\ DOMAIN dropped' = 1..(N - k)
       /\ \A i \in 1..(N - k) : dropped'[i] = ranked[k + i].id
  <2>1. N - k \in Nat /\ \A i \in 1..(N - k) : k + i \in 1..N
    BY <1>1
  <2>2. \A i \in 1..N : ranked[i].id \in Chunks
    BY <1>1, ChunksAssumption DEF Hit
  <2>3. \A i \in 1..(N - k) : ranked[k + i].id \in Chunks
    BY <2>1, <2>2
  <2> DEFINE M == N - k
  <2>4. M \in Nat /\ dropped' = [i \in 1..M |-> ranked[k + i].id]
    BY <1>10, <2>1
  <2>5. \A i \in 1..M : ranked[k + i].id \in Chunks
    BY <2>3
  <2> HIDE DEF M
  <2>6. /\ dropped' \in Seq(Chunks) /\ DOMAIN dropped' = 1..M
        /\ \A i \in 1..M : dropped'[i] = ranked[k + i].id
    BY <2>4, <2>5
  <2> QED
    BY <2>6 DEF M
<1> QED
  BY <1>4, <1>7, <1>9, <1>11 DEF N

LEMMA StepTypes == TypeOK /\ HitsOK /\ Next => TypeOK'
<1> SUFFICES ASSUME TypeOK, HitsOK, Next PROVE TypeOK'
  OBVIOUS
<1>1. scene' = scene /\ Query' = Query
  BY SceneStays
<1>2. /\ scene.chunks \subseteq Chunks /\ scene.texts \subseteq Texts
      /\ scene.scores \subseteq Nat /\ scene.hitScores \subseteq scene.scores
      /\ scene.hits \in Nat /\ scene.changes \in Nat /\ Question \in Query
  BY SceneFacts DEF TypeOK
<1> USE DEF base, found, chosen, verdict
<1>3. CASE KnowledgeBase
  <2>1. PICK c \in Chunks : Edit(c) \/ Lose(c) \/ Upsert(c) \/ Mark(c)
    BY <1>3 DEF KnowledgeBase
  <2>2. row' \in Rows /\ vec' \in Rows /\ done' \subseteq Chunks
    <3> USE DEF TypeOK, Rows
    <3>1. CASE Edit(c)
      <4>1. PICK t \in scene.texts : row' = [row EXCEPT ![c] = t]
        BY <3>1 DEF Edit
      <4> QED
        BY <1>2, <3>1, <4>1 DEF Edit
    <3>2. CASE Lose(c)
      BY <3>2 DEF Lose
    <3>3. CASE Upsert(c)
      BY <3>3 DEF Upsert
    <3>4. CASE Mark(c)
      BY <3>4 DEF Mark
    <3> QED
      BY <2>1, <3>1, <3>2, <3>3, <3>4
  <2>3. Changes
    BY <2>1 DEF Edit, Lose, Upsert, Mark
  <2>4. events' \in 0..scene.changes
    BY <1>2, <2>3 DEF TypeOK, Changes
  <2> QED
    BY <1>1, <2>2, <2>3, <2>4 DEF TypeOK, Changes
<1>4. CASE Prepare
  <2>1. ASSUME NEW normalized \in Query, NEW synonyms \in SynonymSets
        PROVE  Kept(normalized, synonyms) \subseteq Query
    BY DEF SynonymSets, kSubset, Kept
  <2>2. plan' \in [normalized: Query, synonyms: SUBSET Query, fallback: BOOLEAN]
    <3>1. CASE plan' = Asked
      BY <1>2, <3>1 DEF Asked
    <3>2. CASE plan' # Asked
      <4>1. PICK normalized \in Query, synonyms \in SynonymSets :
              plan' = [normalized |-> normalized, fallback |-> FALSE,
                       synonyms |-> Kept(normalized, synonyms)]
        BY <1>4, <3>2 DEF Prepare
      <4> QED
        BY <2>1, <4>1
    <3> QED
      BY <3>1, <3>2
  <2> QED
    BY <1>1, <1>4, <2>2 DEF TypeOK, Prepare, Stages
<1>5. CASE Search
  <2>1. PICK ids \in BoundedSeq({c \in Chunks : vec[c] # None}, scene.hits) :
          \E score \in [DOMAIN ids -> scene.hitScores] :
            hits' = [i \in DOMAIN ids |->
                      [id |-> ids[i], score |-> score[i], text |-> vec[ids[i]]]]
    BY <1>5 DEF Search
  <2>2. PICK score \in [DOMAIN ids -> scene.hitScores] :
          hits' = [i \in DOMAIN ids |->
                    [id |-> ids[i], score |-> score[i], text |-> vec[ids[i]]]]
    BY <2>1
  <2>3. PICK m \in 0..scene.hits : ids \in [1..m -> {c \in Chunks : vec[c] # None}]
    BY DEF BoundedSeq, SeqOf
  <2>4. m \in Nat /\ DOMAIN ids = 1..m
    BY <1>2, <2>3
  <2>5. ASSUME NEW i \in 1..m
        PROVE  [id |-> ids[i], score |-> score[i], text |-> vec[ids[i]]] \in Hit
    <3>1. ids[i] \in Chunks /\ vec[ids[i]] \in Texts
      BY <2>3 DEF TypeOK, Rows
    <3>2. score[i] \in Nat
      BY <1>2, <2>4
    <3> QED
      BY <3>1, <3>2 DEF Hit
  <2>6. hits' \in Seq(Hit) /\ Len(hits') = m
    BY <2>2, <2>4, <2>5
  <2>7. matched' \subseteq Chunks \X Texts
    <3>1. matched' = {<<hits'[i].id, hits'[i].text>> : i \in DOMAIN hits'}
      BY <1>5 DEF Search
    <3>2. \A i \in DOMAIN hits' : hits'[i] \in Hit
      BY <2>6, ElementOfSeq, LenProperties
    <3> QED
      BY <3>1, <3>2 DEF Hit
  <2>8. raw' \in 0..scene.hits
    BY <1>5, <2>3, <2>6 DEF Search
  <2>9. /\ pc' \in Stages
        /\ UNCHANGED <<base, entry, plan, read, ranked, stale, chosen, verdict, cited, opened>>
    BY <1>5 DEF Search, Stages
  <2> QED
    BY <1>1, <2>6, <2>7, <2>8, <2>9 DEF TypeOK
<1>6. CASE ReadRows
  <2>1. ranked' \in Seq(Hit) /\ stale' \in Nat /\ Len(ranked') + stale' <= raw
    BY <1>6, ReadKeeps
  <2>2. stale' \in 0..scene.hits
    BY <1>2, <2>1, LenProperties DEF TypeOK
  <2>3. hits' = <<>> /\ read' \in [row: Rows, done: SUBSET Chunks]
    BY <1>6 DEF ReadRows, TypeOK
  <2>4. pc' \in Stages
    BY <1>6 DEF ReadRows, Stages
  <2>5. UNCHANGED <<base, entry, plan, matched, raw, chosen, verdict, cited, opened>>
    BY <1>6 DEF ReadRows
  <2> QED
    BY <1>1, <2>1, <2>2, <2>3, <2>4, <2>5 DEF TypeOK
<1>7. CASE Rerank
  <2>1. PICK score \in [DOMAIN ranked -> scene.scores] :
          ranked' = [i \in DOMAIN ranked |-> [ranked[i] EXCEPT !.score = score[i]]]
    BY <1>7 DEF Rerank
  <2>2. ASSUME NEW i \in DOMAIN ranked
        PROVE  [ranked[i] EXCEPT !.score = score[i]] \in Hit
    <3>1. ranked[i] \in Hit
      BY ElementOfSeq, LenProperties DEF TypeOK
    <3>2. score[i] \in Nat
      BY <1>2, <2>1
    <3> QED
      BY <3>1, <3>2 DEF Hit
  <2>3. ranked' \in Seq(Hit)
    <3>1. Len(ranked) \in Nat /\ DOMAIN ranked = 1..Len(ranked)
      BY LenProperties DEF TypeOK
    <3> QED
      BY <2>1, <2>2, <3>1
  <2> QED
    BY <1>1, <1>7, <2>3 DEF TypeOK, Rerank, Stages
<1>8. CASE Sort
  <2>1. PICK at \in [DOMAIN ranked -> DOMAIN ranked] :
          ranked' = [n \in DOMAIN ranked |-> ranked[at[n]]]
    BY <1>8 DEF Sort, Bijection, Injection
  <2>2. \A n \in DOMAIN ranked : ranked[at[n]] \in Hit
    BY <2>1, ElementOfSeq, LenProperties DEF TypeOK
  <2>3. ranked' \in Seq(Hit)
    <3>1. Len(ranked) \in Nat /\ DOMAIN ranked = 1..Len(ranked)
      BY LenProperties DEF TypeOK
    <3> QED
      BY <2>1, <2>2, <3>1
  <2> QED
    BY <1>1, <1>8, <2>3 DEF TypeOK, Sort, Stages
<1>9. CASE Save \/ OutOfBudget \/ Fail
  BY <1>1, <1>9 DEF TypeOK, Save, OutOfBudget, Fail, Stages, Ends
<1>10. CASE Decide
  <2>1. /\ sources' \in Seq(Citation) /\ dropped' \in Seq(Chunks)
        /\ pc' \in {"refused", "assess"} /\ reason' \in Refusals \union {None}
    <3>1. CASE EarlyRefusal # None
      BY <1>10, <3>1 DEF TypeOK, Decide, Refuse, EarlyRefusal, Refusals
    <3>2. CASE EarlyRefusal = None
      <4>1. PICK room \in 0..MaxSources : 
              /\ room <= Len(ranked) /\ Select(room)
              /\ IF sources' = <<>> THEN Refuse("context_budget")
                                    ELSE pc' = "assess" /\ UNCHANGED reason
        BY <1>10, <3>2 DEF Decide
      <4>2. sources' \in Seq(Citation) /\ dropped' \in Seq(Chunks)
        BY <4>1, SelectKeeps
      <4> QED
        BY <4>1, <4>2 DEF TypeOK, Refuse, Refusals
    <3> QED
      BY <3>1, <3>2
  <2>2. UNCHANGED <<base, entry, plan, found, support, cited, opened>>
    BY <1>10 DEF Decide
  <2> QED
    BY <1>1, <2>1, <2>2 DEF TypeOK, Stages, Ends
<1>11. CASE Assess
  <2>1. /\ support' \subseteq Chunks /\ reason' \in Refusals \union {None}
        /\ pc' \in Stages \union Ends
    BY <1>2, <1>11 DEF TypeOK, Assess, Refuse, Refusals, Stages, Ends, Target,
       ValidAssessment
  <2> QED
    BY <1>1, <1>11, <2>1 DEF TypeOK, Assess
<1>12. CASE Render
  <2>1. NumbersOf(support) \subseteq 1..MaxSources
    <3>1. \A i \in DOMAIN sources : sources[i] \in Citation
      BY ElementOfSeq, LenProperties DEF TypeOK
    <3> QED
      BY <3>1 DEF NumbersOf, Citation
  <2> QED
    BY <1>1, <1>12, <2>1 DEF TypeOK, Render, Stages, Ends
<1>13. CASE Generate
  BY <1>1, <1>13 DEF TypeOK, Generate, Stages, Ends
<1>14. CASE \E i \in 1..MaxSources : Open(i)
  <2>1. PICK i \in 1..MaxSources : Open(i)
    BY <1>14
  <2>2. sources[i] \in Citation
    BY <2>1, ElementOfSeq, LenProperties DEF TypeOK, Open
  <2>3. sources[i].text \in Texts /\ sources[i].id \in Chunks
    BY <1>2, <2>2 DEF Citation
  <2>4. row[sources[i].id] \in Texts \union {None}
    BY <2>3 DEF TypeOK, Rows
  <2>5. opened' \in [cited: Texts, shown: Texts \union {"CHUNK_CHANGED", "CHUNK_NOT_FOUND"}]
    BY <2>1, <2>3, <2>4 DEF Open
  <2> QED
    BY <1>1, <2>1, <2>5 DEF TypeOK, Open
<1> QED
  BY <1>3, <1>4, <1>5, <1>6, <1>7, <1>8, <1>9, <1>10, <1>11, <1>12, <1>13, <1>14
     DEF Next, Pipeline

-----------------------------------------------------------------------------
(* The question, one lemma for each step of the pipeline. *)

\* The question as it was asked is what is searched for, cut or not.
LEMMA UnwrittenKeeps ==
  ASSUME plan = Asked
  PROVE  SearchKeepsTheQuestion
<1>1. plan.normalized = Question /\ plan.synonyms = {} /\ plan.fallback = TRUE
  BY DEF Asked
<1>2. BM25Query = {Part(Question)}
  BY <1>1 DEF BM25Query
<1>3. Part(Question).text = Question /\ (~scene.long => Part(Question).whole)
  BY DEF Part
<1>4. ProtectedTermsPreserved(Question)
  BY DEF ProtectedTermsPreserved
<1> QED
  BY <1>1, <1>2, <1>3, <1>4 DEF SearchKeepsTheQuestion

\* The same of the next state.
LEMMA UnwrittenKeepsNext ==
  ASSUME plan' = Asked
  PROVE  SearchKeepsTheQuestion'
<1>1. plan'.normalized = Question /\ plan'.synonyms = {} /\ plan'.fallback = TRUE
  BY DEF Asked
<1>2. BM25Query' = {Part(Question)'}
  BY <1>1 DEF BM25Query, Part
<1>3. Part(Question)'.text = Question /\ (~scene.long' => Part(Question)'.whole)
  BY DEF Part
<1>4. ProtectedTermsPreserved(Question)
  BY DEF ProtectedTermsPreserved
<1> QED
  BY <1>1, <1>2, <1>3, <1>4 DEF SearchKeepsTheQuestion, ProtectedTermsPreserved

\* Nothing else is searched for while the plan stays.
LEMMA SameSearch ==
  ASSUME SearchKeepsTheQuestion, UNCHANGED <<scene, plan>>
  PROVE  SearchKeepsTheQuestion'
BY DEF SearchKeepsTheQuestion, BM25Query, Part, ProtectedTermsPreserved

LEMMA InitInv == Init => AnswerInv
<1> SUFFICES ASSUME Init PROVE AnswerInv
  OBVIOUS
<1>1. TypeOK
  BY InitTypes
<1>2. SearchKeepsTheQuestion
  BY UnwrittenKeeps DEF Init
<1>3. LinkShowsTheCitedText
  BY DEF Init, LinkShowsTheCitedText
<1>4. RankedOK
  BY DEF Init, RankedOK
<1>5. EvidenceWasCurrent /\ SourcesAreTheBest /\ OutcomeIsGrounded
  BY DEF Init, EvidenceWasCurrent, SourcesAreTheBest, OutcomeIsGrounded,
     RefusalNamesItsCause, AnswerIsGrounded, OwnSnapshotIsValid
<1>6. HitsOK /\ CauseOK /\ SortedOK /\ ChosenOK /\ SupportOK
  BY DEF Init, HitsOK, CauseOK, SortedOK, ChosenOK, SupportOK
<1> QED
  BY <1>1, <1>2, <1>3, <1>4, <1>5, <1>6 DEF AnswerInv, QuestionInv

\* What changes nothing of the question, or ends it without a verdict.
LEMMA RestKeeps ==
  ASSUME QuestionInv, pc' \in {pc, "error", "limited"},
         UNCHANGED <<scene, entry, plan, found, chosen, verdict, cited>>
  PROVE  QuestionInv'
<1> USE DEF QuestionInv, found, chosen, verdict
<1>1. SearchKeepsTheQuestion'
  BY SameSearch
<1>2. SourcesAreTheBest' /\ EvidenceWasCurrent'
  BY DEF SourcesAreTheBest, EvidenceWasCurrent, Numbers, SourceIds
<1>3. OutcomeIsGrounded'
  BY DEF OutcomeIsGrounded, RefusalNamesItsCause, AnswerIsGrounded, OwnSnapshotIsValid,
     Numbers, SourceIds
<1>4. HitsOK' /\ RankedOK' /\ CauseOK'
  BY DEF HitsOK, RankedOK, CauseOK, Current
<1>5. SortedOK' /\ ChosenOK' /\ SupportOK'
  BY DEF SortedOK, ChosenOK, SupportOK, Best, SourceIds
<1> QED
  BY <1>1, <1>2, <1>3, <1>4, <1>5

LEMMA PrepareKeeps == QuestionInv /\ Prepare => QuestionInv'
<1> SUFFICES ASSUME QuestionInv, Prepare PROVE QuestionInv'
  OBVIOUS
<1>1. /\ pc = "prepare" /\ pc' = "search"
      /\ UNCHANGED <<entry, found, chosen, verdict, cited>>
  BY DEF Prepare
<1> USE DEF QuestionInv, found, chosen, verdict
<1>2. SearchKeepsTheQuestion'
  <2>1. CASE plan' = Asked
    BY <2>1, UnwrittenKeepsNext
  <2>2. CASE plan' # Asked
    <3>1. PICK normalized \in Query, synonyms \in SynonymSets :
            /\ scene.long => normalized # Question
            /\ ProtectedTermsPreserved(normalized)
            /\ \A q \in synonyms : ~IntroducesProtectedTerms(q)
            /\ plan' = [normalized |-> normalized, fallback |-> FALSE,
                        synonyms |-> Kept(normalized, synonyms)]
      BY <2>2 DEF Prepare
    <3>2. /\ plan'.normalized = normalized /\ plan'.synonyms \subseteq synonyms
          /\ scene' = scene
      BY <3>1 DEF Kept, Prepare, base
    <3>3. BM25Query' = {Part(q) : q \in {Question, normalized} \union plan'.synonyms}
      BY <3>2 DEF BM25Query, Part
    <3>4. /\ \A q \in {Question, normalized} \union plan'.synonyms : Part(q) \in BM25Query'
          /\ \A q : Part(q).text = q
          /\ \A q : q # Question \/ ~scene.long => Part(q).whole
      BY <3>3 DEF Part
    <3>5. ASSUME NEW q \in {Question, normalized} \union plan'.synonyms
          PROVE  /\ q.terms \subseteq Question.terms
                 /\ (q.negations > 0) = (Question.negations > 0)
      <4>1. CASE q = Question
        BY <4>1
      <4>2. CASE q = normalized
        BY <3>1, <4>2 DEF ProtectedTermsPreserved
      <4>3. CASE q \in plan'.synonyms
        BY <3>1, <3>2, <4>3 DEF IntroducesProtectedTerms
      <4> QED
        BY <4>1, <4>2, <4>3
    <3>6. \A p \in BM25Query' : /\ p.text.terms \subseteq Question.terms
                                /\ p.whole => (p.text.negations > 0) = (Question.negations > 0)
      BY <3>3, <3>4, <3>5
    <3>7. ~scene.long => \E p \in BM25Query' : p.text = Question /\ p.whole
      BY <3>4
    <3>8. \E p \in BM25Query' : p.whole /\ ProtectedTermsPreserved(p.text)
      <4>1. normalized # Question \/ ~scene.long
        BY <3>1
      <4> QED
        BY <3>1, <3>4, <4>1
    <3>9. ProtectedTermsPreserved(plan'.normalized)
      BY <3>1, <3>2
    <3> QED
      BY <3>2, <3>6, <3>7, <3>8, <3>9 DEF SearchKeepsTheQuestion, ProtectedTermsPreserved
  <2> QED
    BY <2>1, <2>2
<1>3. SourcesAreTheBest' /\ EvidenceWasCurrent'
  BY <1>1 DEF SourcesAreTheBest, EvidenceWasCurrent, Numbers, SourceIds
<1>4. OutcomeIsGrounded'
  BY <1>1 DEF OutcomeIsGrounded, RefusalNamesItsCause, AnswerIsGrounded, OwnSnapshotIsValid
<1>5. HitsOK' /\ RankedOK' /\ CauseOK'
  BY <1>1 DEF HitsOK, RankedOK, CauseOK, Current
<1>6. SortedOK' /\ ChosenOK' /\ SupportOK'
  BY <1>1 DEF SortedOK, ChosenOK, SupportOK, Best
<1> QED
  BY <1>2, <1>3, <1>4, <1>5, <1>6

LEMMA SearchKeeps == TypeOK /\ TypeOK' /\ QuestionInv /\ Search => QuestionInv'
<1> SUFFICES ASSUME TypeOK, TypeOK', QuestionInv, Search PROVE QuestionInv'
  OBVIOUS
<1>1. /\ pc = "search" /\ pc' = "read" /\ raw' = Len(hits')
      /\ matched' = {<<hits'[i].id, hits'[i].text>> : i \in DOMAIN hits'}
      /\ UNCHANGED <<entry, plan, read, ranked, stale, chosen, verdict, cited>>
  BY DEF Search
<1>2. ranked = <<>> /\ stale = 0 /\ sources = <<>> /\ raw' \in Nat
  BY <1>1, LenProperties DEF QuestionInv, HitsOK, ChosenOK, TypeOK
<1>3. \A i, j \in DOMAIN hits' : hits'[i].id = hits'[j].id => hits'[i].text = hits'[j].text
  BY DEF Search
<1> USE DEF QuestionInv, chosen, verdict
<1>4. SearchKeepsTheQuestion'
  BY <1>1, SameSearch DEF Search, base
<1>5. SourcesAreTheBest' /\ EvidenceWasCurrent'
  BY <1>1, <1>2 DEF SourcesAreTheBest, EvidenceWasCurrent
<1>6. OutcomeIsGrounded'
  BY <1>1 DEF OutcomeIsGrounded, RefusalNamesItsCause, AnswerIsGrounded, OwnSnapshotIsValid
<1>7. HitsOK' /\ CauseOK'
  BY <1>1, <1>2, <1>3 DEF HitsOK, CauseOK
<1>8. RankedOK'
  BY <1>1, <1>2 DEF RankedOK
<1>9. SortedOK' /\ ChosenOK' /\ SupportOK'
  BY <1>1, <1>2 DEF SortedOK, ChosenOK, SupportOK
<1> QED
  BY <1>4, <1>5, <1>6, <1>7, <1>8, <1>9

LEMMA ReadRowsKeeps == TypeOK /\ QuestionInv /\ ReadRows => QuestionInv'
<1> SUFFICES ASSUME TypeOK, QuestionInv, ReadRows PROVE QuestionInv'
  OBVIOUS
<1>1. /\ pc = "read" /\ pc' \in {"sort", "score"}
      /\ read' = [row |-> row, done |-> done]
      /\ UNCHANGED <<entry, plan, matched, raw, chosen, verdict, cited>>
  BY DEF ReadRows
<1>2. /\ sources = <<>> /\ raw = Len(hits) /\ raw \in Nat /\ DOMAIN hits = 1..raw
      /\ matched = {<<hits[i].id, hits[i].text>> : i \in DOMAIN hits}
  BY <1>1, LenProperties DEF QuestionInv, HitsOK, ChosenOK, TypeOK
<1>3. HitsOK
  BY DEF QuestionInv
<1>4. /\ \A n \in DOMAIN ranked' : \E i \in DOMAIN hits :
           Fresh(hits[i]) /\ ranked'[n] = hits[i]
      /\ \A m, n \in DOMAIN ranked' : ranked'[m].id = ranked'[n].id => m = n
      /\ ranked' = <<>> <=> \A i \in DOMAIN hits : ~Fresh(hits[i])
      /\ Len(ranked') + stale' <= raw
      /\ ranked' = <<>> /\ raw > 0 => stale' > 0
  BY <1>3, ReadKeeps
<1>5. {m \in matched : Current(m)'} =
        {<<hits[i].id, hits[i].text>> : i \in {j \in DOMAIN hits : Fresh(hits[j])}}
  BY <1>1, <1>2 DEF Current, Fresh
<1> USE DEF QuestionInv, chosen, verdict
<1>6. SearchKeepsTheQuestion'
  BY <1>1, SameSearch DEF ReadRows, base
<1>7. SourcesAreTheBest' /\ EvidenceWasCurrent'
  BY <1>1, <1>2 DEF SourcesAreTheBest, EvidenceWasCurrent
<1>8. OutcomeIsGrounded'
  BY <1>1 DEF OutcomeIsGrounded, RefusalNamesItsCause, AnswerIsGrounded, OwnSnapshotIsValid
<1>9. HitsOK'
  BY <1>1 DEF HitsOK
<1>10. RankedOK'
  BY <1>1, <1>4, <1>5 DEF RankedOK
<1>11. CauseOK'
  <2>1. raw' = 0 <=> matched' = {}
    <3>1. CASE raw = 0
      BY <1>1, <1>2, <3>1
    <3>2. CASE raw # 0
      <4>1. 1 \in DOMAIN hits
        BY <1>2, <3>2
      <4>2. <<hits[1].id, hits[1].text>> \in matched
        BY <1>2, <4>1
      <4> QED
        BY <1>1, <3>2, <4>2
    <3> QED
      BY <3>1, <3>2
  <2>2. ranked' = <<>> <=> {m \in matched : Current(m)'} = {}
    <3>1. ASSUME NEW i \in DOMAIN hits, Fresh(hits[i])
          PROVE  <<hits[i].id, hits[i].text>> \in {m \in matched : Current(m)'}
      BY <1>5, <3>1
    <3>2. ASSUME NEW m \in {m \in matched : Current(m)'}
          PROVE  \E i \in DOMAIN hits : Fresh(hits[i])
      BY <1>5
    <3> QED
      BY <1>4, <3>1, <3>2
  <2> QED
    BY <1>1, <1>4, <2>1, <2>2 DEF CauseOK
<1>12. SortedOK' /\ ChosenOK' /\ SupportOK'
  BY <1>1, <1>2 DEF SortedOK, ChosenOK, SupportOK
<1> QED
  BY <1>6, <1>7, <1>8, <1>9, <1>10, <1>11, <1>12

LEMMA RerankKeeps == TypeOK /\ TypeOK' /\ QuestionInv /\ Rerank => QuestionInv'
<1> SUFFICES ASSUME TypeOK, TypeOK', QuestionInv, Rerank PROVE QuestionInv'
  OBVIOUS
<1>1. /\ pc = "score" /\ pc' = "sort"
      /\ UNCHANGED <<entry, plan, hits, matched, raw, read, stale, chosen, verdict, cited>>
  BY DEF Rerank
<1>2. PICK score \in [DOMAIN ranked -> scene.scores] :
        ranked' = [i \in DOMAIN ranked |-> [ranked[i] EXCEPT !.score = score[i]]]
  BY DEF Rerank
<1>3. Len(ranked) \in Nat /\ DOMAIN ranked = 1..Len(ranked)
  BY LenProperties DEF TypeOK
<1>4. \A i \in DOMAIN ranked : ranked[i] \in Hit
  BY <1>3, ElementOfSeq DEF TypeOK
<1>5. /\ DOMAIN ranked' = DOMAIN ranked
      /\ \A i \in DOMAIN ranked :
           ranked'[i].id = ranked[i].id /\ ranked'[i].text = ranked[i].text
  BY <1>2, <1>4 DEF Hit
<1>6. Len(ranked') = Len(ranked) /\ (ranked' = <<>> <=> ranked = <<>>)
  <2>1. /\ Len(ranked') \in Nat /\ DOMAIN ranked' = 1..Len(ranked')
        /\ ranked' \in Seq(Hit) /\ ranked \in Seq(Hit)
    BY LenProperties DEF TypeOK
  <2>2. Len(ranked') = Len(ranked)
    BY <1>3, <1>5, <2>1
  <2> QED
    BY <2>1, <2>2
<1>7. sources = <<>>
  BY <1>1 DEF QuestionInv, ChosenOK
<1> USE DEF QuestionInv, chosen, verdict
<1>8. SearchKeepsTheQuestion'
  BY <1>1, SameSearch DEF Rerank, base
<1>9. SourcesAreTheBest' /\ EvidenceWasCurrent'
  BY <1>1, <1>7 DEF SourcesAreTheBest, EvidenceWasCurrent
<1>10. OutcomeIsGrounded'
  BY <1>1 DEF OutcomeIsGrounded, RefusalNamesItsCause, AnswerIsGrounded, OwnSnapshotIsValid
<1>11. HitsOK'
  BY <1>1 DEF HitsOK
<1>12. RankedOK'
  BY <1>1, <1>5, <1>6 DEF RankedOK, Current
<1>13. CauseOK'
  BY <1>1, <1>6 DEF CauseOK, Current
<1>14. SortedOK' /\ ChosenOK' /\ SupportOK'
  BY <1>1, <1>7 DEF SortedOK, ChosenOK, SupportOK
<1> QED
  BY <1>8, <1>9, <1>10, <1>11, <1>12, <1>13, <1>14

LEMMA SortKeeps == TypeOK /\ QuestionInv /\ Sort => QuestionInv'
<1> SUFFICES ASSUME TypeOK, QuestionInv, Sort PROVE QuestionInv'
  OBVIOUS
<1>1. /\ pc = "sort" /\ pc' \in {"save", "decide"}
      /\ UNCHANGED <<entry, plan, hits, matched, raw, read, stale, chosen, verdict, cited>>
  BY DEF Sort
<1>2. PICK at \in [DOMAIN ranked -> DOMAIN ranked] :
        /\ \A m, n \in DOMAIN ranked : at[m] = at[n] => m = n
        /\ \A m, n \in DOMAIN ranked :
             m < n => ~RelevanceOrder(ranked[at[n]], ranked[at[m]])
        /\ ranked' = [n \in DOMAIN ranked |-> ranked[at[n]]]
  BY DEF Sort, Bijection, Injection, IsInjective
<1>3. Len(ranked) \in Nat /\ DOMAIN ranked = 1..Len(ranked)
  BY LenProperties DEF TypeOK
<1>4. \A i \in DOMAIN ranked : ranked[i].score \in Nat
  <2>1. \A i \in DOMAIN ranked : ranked[i] \in Hit
    BY <1>3, ElementOfSeq DEF TypeOK
  <2> QED
    BY <2>1 DEF Hit
<1>5. Len(ranked') = Len(ranked) /\ (ranked' = <<>> <=> ranked = <<>>)
  BY <1>2, <1>3
<1>6. sources = <<>>
  BY <1>1 DEF QuestionInv, ChosenOK
<1> USE DEF QuestionInv, chosen, verdict
<1>7. SearchKeepsTheQuestion'
  BY <1>1, SameSearch DEF Sort, base
<1>8. SourcesAreTheBest' /\ EvidenceWasCurrent'
  BY <1>1, <1>6 DEF SourcesAreTheBest, EvidenceWasCurrent
<1>9. OutcomeIsGrounded'
  BY <1>1 DEF OutcomeIsGrounded, RefusalNamesItsCause, AnswerIsGrounded, OwnSnapshotIsValid
<1>10. HitsOK'
  BY <1>1 DEF HitsOK
<1>11. RankedOK'
  BY <1>1, <1>2, <1>5 DEF RankedOK, Current
<1>12. CauseOK'
  BY <1>1, <1>5 DEF CauseOK, Current
<1>13. SortedOK'
  <2>1. ASSUME NEW m \in DOMAIN ranked, NEW n \in DOMAIN ranked, m < n
        PROVE  ranked'[m].score >= ranked'[n].score
    <3>1. ~(ranked[at[n]].score > ranked[at[m]].score)
      BY <1>2, <2>1 DEF RelevanceOrder
    <3>2. ranked[at[n]].score \in Nat /\ ranked[at[m]].score \in Nat
      BY <1>2, <1>4
    <3> QED
      BY <1>2, <3>1, <3>2
  <2> QED
    BY <1>2, <2>1 DEF SortedOK
<1>14. ChosenOK' /\ SupportOK'
  BY <1>1, <1>6 DEF ChosenOK, SupportOK
<1> QED
  BY <1>7, <1>8, <1>9, <1>10, <1>11, <1>12, <1>13, <1>14

\* What the retriever has ranked is a snapshot that can be read back.
LEMMA SaveKeeps == TypeOK /\ QuestionInv /\ Save => QuestionInv'
<1> SUFFICES ASSUME TypeOK, QuestionInv, Save PROVE QuestionInv'
  OBVIOUS
<1>1. ValidSnapshot
  <2>1. Len(ranked) \in Nat /\ stale \in Nat /\ raw \in Nat
    BY SceneFacts, LenProperties DEF TypeOK
  <2> QED
    BY <2>1 DEF QuestionInv, RankedOK, ValidSnapshot
<1>2. /\ pc = "save" /\ pc' = "decide"
      /\ UNCHANGED <<entry, plan, found, chosen, verdict, cited>>
  BY <1>1 DEF Save
<1> USE DEF QuestionInv, found, chosen, verdict
<1>3. SearchKeepsTheQuestion'
  BY <1>2, SameSearch DEF Save, base
<1>4. SourcesAreTheBest' /\ EvidenceWasCurrent'
  BY <1>2 DEF SourcesAreTheBest, EvidenceWasCurrent, Numbers, SourceIds
<1>5. OutcomeIsGrounded'
  BY <1>2 DEF OutcomeIsGrounded, RefusalNamesItsCause, AnswerIsGrounded, OwnSnapshotIsValid
<1>6. HitsOK' /\ RankedOK' /\ CauseOK'
  BY <1>2 DEF HitsOK, RankedOK, CauseOK, Current
<1>7. SortedOK' /\ ChosenOK' /\ SupportOK'
  BY <1>2 DEF SortedOK, ChosenOK, SupportOK, Best
<1> QED
  BY <1>3, <1>4, <1>5, <1>6, <1>7

\* Citations of the k best candidates: numbered by relevance, the two best at
\* the ends, and what is dropped ranks below.
LEMMA SelectIsTheBest ==
  ASSUME TypeOK, QuestionInv, pc = "decide", UNCHANGED ranked,
         NEW k \in 0..MaxSources, k <= Len(ranked), Select(k)
  PROVE  /\ SourcesAreTheBest'
         /\ k > 0 => /\ sources' # <<>> /\ ranked # <<>>
                     /\ sources'[1].number = 1 /\ sources'[1].score = Best
         /\ k = 0 => sources' = <<>>
         /\ \A i \in DOMAIN sources' : \E n \in DOMAIN ranked :
              /\ sources'[i].id = ranked[n].id /\ sources'[i].text = ranked[n].text
<1> DEFINE N == Len(ranked)
           At(i) == IF 2*i - 1 <= k THEN 2*i - 1 ELSE 2*(k - i + 1)
           Cite(n) == [number |-> n, id |-> ranked[n].id,
                       text |-> ranked[n].text, score |-> ranked[n].score]
<1>1. /\ k \in Nat /\ MaxSources \in Nat /\ k <= MaxSources
      /\ N \in Nat /\ DOMAIN ranked = 1..N /\ k <= N
      /\ ranked \in Seq(Hit)
  BY BoundsAssumption, LenProperties DEF TypeOK
<1>2. \A i \in 1..N : ranked[i].score \in Nat
  <2>1. \A i \in 1..N : ranked[i] \in Hit
    BY <1>1, ElementOfSeq
  <2> QED
    BY <2>1 DEF Hit
<1>3. /\ sources' \in Seq(Citation) /\ Len(sources') = k
      /\ \A i \in 1..k : At(i) \in 1..k /\ sources'[i] = Cite(At(i))
      /\ dropped' \in Seq(Chunks) /\ DOMAIN dropped' = 1..(N - k)
      /\ \A i \in 1..(N - k) : dropped'[i] = ranked[k + i].id
  BY SelectKeeps
<1>4. DOMAIN sources' = 1..k /\ (k = 0 <=> sources' = <<>>)
  BY <1>1, <1>3, LenProperties
<1>5. \A i, j \in 1..N : /\ i < j => ranked[i].score >= ranked[j].score
                         /\ ranked[i].id = ranked[j].id => i = j
  BY <1>1 DEF QuestionInv, SortedOK, RankedOK
<1>6. ASSUME NEW n \in 1..k PROVE \E i \in 1..k : At(i) = n
  <2>1. PICK j \in Nat : n = 2*j \/ n = 2*j - 1
    <3>1. (n + 1) \div 2 \in Nat
      BY <1>1
    <3>2. n = 2*((n + 1) \div 2) \/ n = 2*((n + 1) \div 2) - 1
      BY <1>1
    <3> QED
      BY <3>1, <3>2
  <2>2. CASE n = 2*j - 1
    <3>1. j \in 1..k /\ At(j) = n
      BY <1>1, <2>1, <2>2
    <3> QED
      BY <3>1
  <2>3. CASE n = 2*j
    <3>1. k - j + 1 \in 1..k /\ At(k - j + 1) = n
      BY <1>1, <2>1, <2>3
    <3> QED
      BY <3>1
  <2> QED
    BY <2>1, <2>2, <2>3
<1>7. k > 0 => At(1) = 1
  BY <1>1
<1>8. k > 1 => At(k) = 2
  BY <1>1
<1> HIDE DEF At, N
<1>9. \A i \in 1..k : /\ At(i) \in 1..k /\ At(i) \in 1..N
                      /\ sources'[i].number = At(i) /\ sources'[i].id = ranked[At(i)].id
                      /\ sources'[i].text = ranked[At(i)].text
                      /\ sources'[i].score = ranked[At(i)].score
  BY <1>1, <1>3
<1>10. Numbers' = 1..k
  BY <1>4, <1>6, <1>9 DEF Numbers
<1>11. SourceIds' = {ranked[n].id : n \in 1..k}
  <2>1. SourceIds' = {sources'[i].id : i \in 1..k}
    BY <1>4 DEF SourceIds
  <2>2. \A i \in 1..k : sources'[i].id \in {ranked[n].id : n \in 1..k}
    BY <1>9
  <2>3. ASSUME NEW n \in 1..k PROVE ranked[n].id \in SourceIds'
    <3>1. PICK i \in 1..k : At(i) = n
      BY <1>6
    <3> QED
      BY <1>9, <2>1, <3>1
  <2> QED
    BY <2>1, <2>2, <2>3
<1>12. ToSet(dropped') = {ranked[n].id : n \in (k + 1)..N}
  <2>1. ToSet(dropped') = {dropped'[i] : i \in 1..(N - k)}
    BY <1>3 DEF ToSet, N
  <2>2. ASSUME NEW i \in 1..(N - k)
        PROVE  k + i \in (k + 1)..N /\ dropped'[i] = ranked[k + i].id
    BY <1>1, <1>3 DEF N
  <2>3. ASSUME NEW n \in (k + 1)..N
        PROVE  n - k \in 1..(N - k) /\ dropped'[n - k] = ranked[n].id
    <3>1. n - k \in 1..(N - k) /\ k + (n - k) = n
      BY <1>1
    <3> QED
      BY <2>2, <3>1
  <2>4. \A i \in 1..(N - k) : dropped'[i] \in {ranked[n].id : n \in (k + 1)..N}
    BY <2>2
  <2>5. \A n \in (k + 1)..N : ranked[n].id \in ToSet(dropped')
    BY <2>1, <2>3
  <2> QED
    BY <2>1, <2>4, <2>5
<1>13. SourcesAreTheBest'
  <2> SUFFICES ASSUME sources' # <<>> PROVE SourcesAreTheBest'
    BY DEF SourcesAreTheBest
  <2>1. k > 0 /\ Len(sources') = k /\ k <= MaxSources
    BY <1>1, <1>3, <1>4
  <2>2. Numbers' = 1..Len(sources') /\ Len(sources') <= MaxSources
    BY <1>10, <2>1
  <2>3. ASSUME NEW i \in 1..k, NEW j \in 1..k, sources'[i].number < sources'[j].number
        PROVE  sources'[i].score >= sources'[j].score
    BY <1>5, <1>9, <2>3
  <2>4. sources'[1].number = 1 /\ (Len(sources') > 1 => sources'[Len(sources')].number = 2)
    BY <1>1, <1>7, <1>8, <1>9, <2>1
  <2>5. ASSUME NEW i \in 1..N, NEW j \in 1..k, ranked[i].id \in ToSet(dropped')
        PROVE  ranked[i].score <= sources'[j].score
    <3>1. PICK n \in (k + 1)..N : ranked[n].id = ranked[i].id
      BY <1>12, <2>5
    <3>2. i = n /\ At(j) < i /\ At(j) \in 1..N
      BY <1>1, <1>5, <1>9, <3>1
    <3>3. ranked[At(j)].score >= ranked[i].score
      BY <1>5, <3>2
    <3> QED
      BY <1>2, <1>9, <3>2, <3>3
  <2>6. ToSet(dropped') \union SourceIds' = {ranked[i].id : i \in 1..N}
    <3>1. 1..N = (1..k) \union ((k + 1)..N)
      BY <1>1
    <3> QED
      BY <1>11, <1>12, <3>1
  <2>7. ToSet(dropped') \intersect SourceIds' = {}
    <3>1. ASSUME NEW m \in 1..k, NEW n \in (k + 1)..N, ranked[m].id = ranked[n].id
          PROVE  FALSE
      <4>1. m \in 1..N /\ n \in 1..N /\ m < n
        BY <1>1
      <4> QED
        BY <1>5, <3>1, <4>1
    <3> QED
      BY <1>11, <1>12, <3>1
  <2> QED
    BY <1>1, <1>4, <2>2, <2>3, <2>4, <2>5, <2>6, <2>7 DEF SourcesAreTheBest
<1>14. k > 0 => /\ sources' # <<>> /\ ranked # <<>>
                /\ sources'[1].number = 1 /\ sources'[1].score = Best
  <2> SUFFICES ASSUME k > 0
               PROVE  /\ sources' # <<>> /\ ranked # <<>>
                      /\ sources'[1].number = 1 /\ sources'[1].score = Best
    OBVIOUS
  <2>1. 1 \in 1..k /\ N > 0
    BY <1>1
  <2>2. ranked # <<>>
    BY <1>1, <2>1 DEF N
  <2> QED
    BY <1>1, <1>4, <1>7, <1>9, <2>1, <2>2 DEF Best
<1> QED
  BY <1>1, <1>4, <1>9, <1>13, <1>14

LEMMA DecideKeeps == TypeOK /\ QuestionInv /\ Decide => QuestionInv'
<1> SUFFICES ASSUME TypeOK, QuestionInv, Decide PROVE QuestionInv'
  OBVIOUS
<1>1. /\ pc = "decide" /\ sources = <<>>
      /\ UNCHANGED <<entry, plan, found, support, cited>>
  BY DEF Decide, QuestionInv, ChosenOK
<1>2. /\ raw = 0 <=> matched = {}
      /\ ranked = <<>> <=> {m \in matched : Current(m)} = {}
      /\ ranked = <<>> /\ raw > 0 => stale > 0
      /\ raw \in Nat
  BY <1>1, SceneFacts DEF QuestionInv, CauseOK, TypeOK
<1>3. None \notin Refusals
  BY ChunksAssumption
<1>4. \A i \in DOMAIN ranked : ranked[i].score \in Nat
  <2>1. \A i \in DOMAIN ranked : ranked[i] \in Hit
    BY LenProperties, ElementOfSeq DEF TypeOK
  <2> QED
    BY <2>1 DEF Hit
<1>5. \/ /\ sources' = <<>>
         /\ pc' = "refused" /\ reason' \in {"no_hits", "stale_evidence", "low_relevance",
                                            "context_budget"}
         /\ reason' = "no_hits" <=> matched = {}
         /\ reason' = "stale_evidence" <=> matched # {} /\ {m \in matched : Current(m)} = {}
         /\ reason' = "low_relevance" =>
              entry = "chat" /\ \A i \in DOMAIN ranked : ranked[i].score < Threshold
      \/ /\ pc' = "assess" /\ sources' # <<>> /\ ranked # <<>>
         /\ SourcesAreTheBest'
         /\ sources'[1].number = 1 /\ sources'[1].score = Best
         /\ \A i \in DOMAIN sources' : \E n \in DOMAIN ranked :
              /\ sources'[i].id = ranked[n].id /\ sources'[i].text = ranked[n].text
  <2>1. CASE EarlyRefusal # None
    <3>1. sources' = <<>> /\ pc' = "refused" /\ reason' = EarlyRefusal
      BY <1>1, <2>1 DEF Decide, Refuse, chosen
    <3>2. CASE raw = 0
      BY <1>2, <3>1, <3>2 DEF EarlyRefusal
    <3>3. CASE raw # 0 /\ ranked = <<>>
      BY <1>2, <3>1, <3>3 DEF EarlyRefusal
    <3>4. CASE raw # 0 /\ ranked # <<>>
      <4>1. /\ reason' = "low_relevance" /\ entry = "chat" /\ ranked[1].score < Threshold
        BY <2>1, <3>1, <3>4 DEF EarlyRefusal
      <4>2. ASSUME NEW i \in DOMAIN ranked PROVE ranked[i].score < Threshold
        <5>1. DOMAIN ranked = 1..Len(ranked) /\ Len(ranked) \in Nat
          BY LenProperties DEF TypeOK
        <5>2. 1 \in DOMAIN ranked /\ i \in Nat /\ (i = 1 \/ 1 < i)
          BY <5>1
        <5>3. ranked[1].score >= ranked[i].score
          BY <1>1, <1>4, <5>2 DEF QuestionInv, SortedOK
        <5> QED
          BY <1>4, <4>1, <5>2, <5>3, BoundsAssumption
      <4> QED
        BY <1>2, <3>1, <3>4, <4>1, <4>2
    <3> QED
      BY <3>2, <3>3, <3>4
  <2>2. CASE EarlyRefusal = None
    <3>1. PICK room \in 0..MaxSources :
            /\ room <= Len(ranked) /\ Select(room)
            /\ IF sources' = <<>> THEN Refuse("context_budget")
                                  ELSE pc' = "assess" /\ UNCHANGED reason
      BY <2>2 DEF Decide
    <3>2. UNCHANGED ranked
      BY <1>1 DEF found
    <3>3. /\ SourcesAreTheBest'
          /\ room > 0 => /\ sources' # <<>> /\ ranked # <<>>
                         /\ sources'[1].number = 1 /\ sources'[1].score = Best
          /\ room = 0 => sources' = <<>>
          /\ \A i \in DOMAIN sources' : \E n \in DOMAIN ranked :
               /\ sources'[i].id = ranked[n].id /\ sources'[i].text = ranked[n].text
      BY <1>1, <3>1, <3>2, SelectIsTheBest
    <3>4. raw # 0 /\ ranked # <<>>
      BY <1>3, <2>2 DEF EarlyRefusal, Refusals
    <3>5. CASE sources' = <<>>
      BY <1>2, <3>1, <3>4, <3>5 DEF Refuse
    <3>6. CASE sources' # <<>>
      <4>1. room > 0
        BY <3>3, <3>6, BoundsAssumption
      <4> QED
        BY <3>1, <3>3, <3>6, <4>1
    <3> QED
      BY <3>5, <3>6
  <2> QED
    BY <2>1, <2>2
<1> USE DEF QuestionInv, found
<1>6. SearchKeepsTheQuestion'
  BY <1>1, SameSearch DEF Decide, base
<1>7. SourcesAreTheBest'
  BY <1>5 DEF SourcesAreTheBest
<1>8. EvidenceWasCurrent'
  <2>1. ASSUME NEW i \in DOMAIN sources'
        PROVE  /\ read.row[sources'[i].id] = sources'[i].text
               /\ sources'[i].id \in read.done
               /\ <<sources'[i].id, sources'[i].text>> \in matched
    <3>1. PICK n \in DOMAIN ranked :
            sources'[i].id = ranked[n].id /\ sources'[i].text = ranked[n].text
      BY <1>5
    <3> QED
      BY <3>1 DEF RankedOK, Current
  <2> QED
    BY <1>1, <2>1 DEF EvidenceWasCurrent
<1>9. OutcomeIsGrounded'
  <2>1. RefusalNamesItsCause'
    BY <1>1, <1>5 DEF RefusalNamesItsCause, Current
  <2> QED
    BY <1>5, <2>1 DEF OutcomeIsGrounded, AnswerIsGrounded, OwnSnapshotIsValid
<1>10. HitsOK' /\ RankedOK' /\ CauseOK'
  BY <1>1, <1>5 DEF HitsOK, RankedOK, CauseOK, Current
<1>11. SortedOK' /\ SupportOK'
  BY <1>1, <1>5 DEF SortedOK, SupportOK
<1>12. ChosenOK'
  BY <1>1, <1>5 DEF ChosenOK, Best
<1> QED
  BY <1>6, <1>7, <1>8, <1>9, <1>10, <1>11, <1>12

LEMMA AssessKeeps == TypeOK /\ QuestionInv /\ Assess => QuestionInv'
<1> SUFFICES ASSUME TypeOK, QuestionInv, Assess PROVE QuestionInv'
  OBVIOUS
<1>1. /\ pc = "assess" /\ sources # <<>> /\ ranked # <<>>
      /\ sources[1].number = 1 /\ sources[1].score = Best
      /\ UNCHANGED <<entry, plan, found, chosen, cited>>
  BY DEF Assess, QuestionInv, ChosenOK
<1>2. 1 \in DOMAIN sources
  BY <1>1, LenProperties DEF TypeOK
<1>3. /\ raw = 0 <=> matched = {}
      /\ {m \in matched : Current(m)} # {}
  BY <1>1 DEF QuestionInv, CauseOK
<1>4. \/ pc' = "error" /\ UNCHANGED verdict
      \/ /\ support' # {} /\ support' \subseteq SourceIds
         /\ \/ pc' = "workflow_answer" /\ Best > Upper
            \/ pc' = "generate"
      \/ pc' = "refused" /\ reason' \in {"insufficient_evidence", "ambiguous_question"}
  <2>1. PICK sufficient \in BOOLEAN, business \in BOOLEAN, ids \in SUBSET scene.chunks,
             code \in {"supported", "insufficient_evidence", "ambiguous_question"} :
         \/ /\ ~ValidAssessment(sufficient, code, ids)
            /\ pc' = "error"
            /\ UNCHANGED verdict
         \/ /\ ValidAssessment(sufficient, code, ids)
            /\ support' = ids
            /\ IF sufficient THEN pc' = Target(business) /\ UNCHANGED reason
                             ELSE Refuse(code)
    BY DEF Assess
  <2>2. CASE sufficient
    BY <2>1, <2>2 DEF ValidAssessment, Target
  <2>3. CASE ~sufficient
    BY <2>1, <2>3 DEF ValidAssessment, Refuse
  <2> QED
    BY <2>2, <2>3
<1> USE DEF QuestionInv, found, chosen, verdict
<1>5. SearchKeepsTheQuestion'
  BY <1>1, SameSearch DEF Assess, base
<1>6. SourcesAreTheBest' /\ EvidenceWasCurrent'
  BY <1>1 DEF SourcesAreTheBest, EvidenceWasCurrent, Numbers, SourceIds
<1>7. RefusalNamesItsCause'
  <2> SUFFICES ASSUME pc' = "refused" PROVE RefusalNamesItsCause'
    BY DEF RefusalNamesItsCause
  <2>1. reason' \in {"insufficient_evidence", "ambiguous_question"}
    BY <1>4
  <2>2. \E m \in matched : read.row[m[1]] = m[2] /\ m[1] \in read.done
    BY <1>3 DEF Current
  <2> QED
    BY <1>1, <2>1, <2>2 DEF RefusalNamesItsCause
<1>8. AnswerIsGrounded'
  BY <1>1, <1>2, <1>4 DEF AnswerIsGrounded, SourceIds
<1>9. OutcomeIsGrounded'
  BY <1>4, <1>7, <1>8 DEF OutcomeIsGrounded, OwnSnapshotIsValid
<1>10. HitsOK' /\ RankedOK' /\ CauseOK'
  BY <1>1, <1>4 DEF HitsOK, RankedOK, CauseOK, Current
<1>11. SortedOK' /\ ChosenOK'
  BY <1>1, <1>4 DEF SortedOK, ChosenOK, Best
<1>12. SupportOK'
  BY <1>1, <1>4 DEF SupportOK, SourceIds
<1> QED
  BY <1>5, <1>6, <1>9, <1>10, <1>11, <1>12

\* The answers cite what was supplied; the template never misses a source.
LEMMA AnswerKeeps == TypeOK /\ QuestionInv /\ (Render \/ Generate) => QuestionInv'
<1> SUFFICES ASSUME TypeOK, QuestionInv, Render \/ Generate PROVE QuestionInv'
  OBVIOUS
<1>1. /\ pc \in {"workflow_answer", "generate"}
      /\ UNCHANGED <<entry, plan, found, chosen, verdict>>
  BY DEF Render, Generate
<1>2. support # {} /\ support \subseteq SourceIds
  BY <1>1 DEF QuestionInv, SupportOK
<1>3. \/ pc' = "error" /\ UNCHANGED cited
      \/ pc' = "answered" /\ cited' # {} /\ cited' \subseteq Numbers
  <2>1. CASE Render
    <3>1. pc' = "answered" /\ cited' = NumbersOf(support)
      BY <1>2, <2>1 DEF Render
    <3>2. PICK c \in support : c \in SourceIds
      BY <1>2
    <3>3. PICK i \in DOMAIN sources : sources[i].id = c
      BY <3>2 DEF SourceIds
    <3>4. sources[i].number \in NumbersOf(support)
      BY <3>3 DEF NumbersOf
    <3>5. NumbersOf(support) \subseteq Numbers
      BY DEF NumbersOf, Numbers
    <3> QED
      BY <3>1, <3>4, <3>5
  <2>2. CASE Generate
    BY <2>2 DEF Generate, ValidCitations
  <2> QED
    BY <2>1, <2>2
<1> USE DEF QuestionInv, found, chosen, verdict
<1>4. SearchKeepsTheQuestion'
  BY <1>1, SameSearch DEF Render, Generate, base
<1>5. SourcesAreTheBest' /\ EvidenceWasCurrent'
  BY <1>1 DEF SourcesAreTheBest, EvidenceWasCurrent, Numbers, SourceIds
<1>6. OutcomeIsGrounded'
  BY <1>1, <1>2, <1>3 DEF OutcomeIsGrounded, RefusalNamesItsCause, AnswerIsGrounded,
     OwnSnapshotIsValid, Numbers, SourceIds
<1>7. HitsOK' /\ RankedOK' /\ CauseOK'
  BY <1>1, <1>3 DEF HitsOK, RankedOK, CauseOK, Current
<1>8. SortedOK' /\ ChosenOK' /\ SupportOK'
  BY <1>1, <1>3 DEF SortedOK, ChosenOK, SupportOK, Best
<1> QED
  BY <1>4, <1>5, <1>6, <1>7, <1>8

LEMMA StepKeepsInv == AnswerInv /\ [Next]_vars => AnswerInv'
<1> SUFFICES ASSUME AnswerInv, [Next]_vars PROVE AnswerInv'
  OBVIOUS
<1> USE DEF AnswerInv
<1> USE DEF base, found, chosen, verdict
<1>1. CASE UNCHANGED vars
  <2>1. UNCHANGED <<scene, row, done, vec, events, entry, pc, plan, hits, matched, raw,
                    read, ranked, stale, sources, dropped, support, reason, cited, opened>>
    BY <1>1 DEF vars
  <2>2. QuestionInv'
    BY <2>1, RestKeeps
  <2>3. TypeOK' /\ LinkShowsTheCitedText'
    BY <2>1 DEF TypeOK, LinkShowsTheCitedText, Query
  <2> QED
    BY <2>2, <2>3
<1>2. CASE Next
  <2>1. TypeOK'
    BY <1>2, StepTypes DEF QuestionInv
  <2>2. CASE KnowledgeBase
    <3>1. UNCHANGED <<scene, entry, pc, plan, found, chosen, verdict, cited, opened>>
      BY <2>2 DEF KnowledgeBase, Edit, Lose, Upsert, Mark, Changes
    <3>2. QuestionInv'
      BY <3>1, RestKeeps
    <3> QED
      BY <2>1, <3>1, <3>2 DEF LinkShowsTheCitedText
  <2>3. CASE OutOfBudget \/ Fail
    <3>1. /\ pc' \in {"error", "limited"}
          /\ UNCHANGED <<scene, entry, plan, found, chosen, verdict, cited, opened>>
      BY <2>3 DEF OutOfBudget, Fail
    <3>2. QuestionInv'
      BY <3>1, RestKeeps
    <3> QED
      BY <2>1, <3>1, <3>2 DEF LinkShowsTheCitedText
  <2>4. CASE \E i \in 1..MaxSources : Open(i)
    <3>1. UNCHANGED <<scene, entry, pc, plan, found, chosen, verdict, cited>>
      BY <2>4 DEF Open
    <3>2. QuestionInv'
      BY <3>1, RestKeeps
    <3>3. LinkShowsTheCitedText'
      BY <2>4 DEF Open, LinkShowsTheCitedText
    <3> QED
      BY <2>1, <3>2, <3>3
  <2>5. CASE Pipeline
    <3>1. QuestionInv'
      BY <2>1, <2>5, PrepareKeeps, SearchKeeps, ReadRowsKeeps, RerankKeeps, SortKeeps,
         SaveKeeps, DecideKeeps, AssessKeeps, AnswerKeeps DEF Pipeline
    <3>2. UNCHANGED opened
      BY <2>5 DEF Pipeline, Prepare, Search, ReadRows, Rerank, Sort, Save, Decide, Assess,
         Render, Generate
    <3> QED
      BY <2>1, <3>1, <3>2 DEF LinkShowsTheCitedText
  <2> QED
    BY <1>2, <2>2, <2>3, <2>4, <2>5 DEF Next
<1> QED
  BY <1>1, <1>2

-----------------------------------------------------------------------------
(* Theorems *)

LEMMA AnswerInvariance == Spec => []AnswerInv
<1> QED
  BY InitInv, StepKeepsInv, PTL DEF Spec

\* From the question to its sources, for any chunks, texts and limits: nothing
\* that the question does not say is searched for, and all that it says is, but
\* what lies behind the cut of a long question that was not rewritten; and the
\* best that was found is supplied, with the numbers of its relevance.
THEOREM SourcesAreFit == Spec => []SourcesFitTheQuestion
<1>1. AnswerInv => SourcesFitTheQuestion
  BY DEF AnswerInv, QuestionInv, SourcesFitTheQuestion
<1> QED
  BY <1>1, AnswerInvariance, PTL

\* Whatever is edited, lost or indexed between the search, the reading, the
\* answer and a click on its link, no stale text is a source and no other
\* text is shown for it.
THEOREM NothingStaleIsUsed == Spec => []NoStaleText
<1>1. AnswerInv => NoStaleText
  BY DEF AnswerInv, QuestionInv, NoStaleText
<1> QED
  BY <1>1, AnswerInvariance, PTL

\* An answer stands on supplied sources, a refusal names its cause, and the
\* checkpoint of a retrieval can be read back.
THEOREM OutcomesAreGrounded == Spec => []OutcomeIsGrounded
<1>1. AnswerInv => OutcomeIsGrounded
  BY DEF AnswerInv, QuestionInv
<1> QED
  BY <1>1, AnswerInvariance, PTL
=============================================================================
