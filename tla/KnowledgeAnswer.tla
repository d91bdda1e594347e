---------------------------- MODULE KnowledgeAnswer ----------------------------
(***************************************************************************)
(* One question on its way from QueryNormalizer through KnowledgeRetriever *)
(* and decide_evidence to an answer with citations, by the chat pipeline   *)
(* or by the workflow's knowledge stage, while rows are edited, lost and   *)
(* indexed again; and what a citation's link shows later.                  *)
(***************************************************************************)
EXTENDS Naturals, FiniteSets, Sequences, SequencesExt

CONSTANTS
  Chunks,       \* ids of knowledge chunks, numbers
  Texts,        \* contents of a row, each standing for its source_hash
  None,         \* no row, no vector, no value
  Threshold,    \* the relevance the chat pipeline asks for
  Upper,        \* the workflow's upper threshold
  MaxSources,   \* the 10 of EvidenceSelector
  Words, Terms, \* wordings, and protected identifiers and numbers, of a query
  Scenes        \* bounds of a behaviour: see ScenesAssumption

(* What a query's text says as far as its protection is concerned: casefold *)
(* has been applied, and negations counts its negation markers.             *)
Question == [words |-> CHOOSE w \in Words : TRUE,
             terms |-> {CHOOSE t \in Terms : TRUE}, negations |-> 1]

Refusals == {"no_hits", "low_relevance", "insufficient_evidence",
             "ambiguous_question", "stale_evidence", "context_budget"}

ASSUME ChunksAssumption ==
  Chunks \subseteq Nat \ {0} /\ None \notin Texts \union Refusals
ASSUME BoundsAssumption ==
  Threshold \in Nat /\ Upper \in Nat /\ MaxSources \in Nat \ {0}

\* The chunks and contents there are, how often they change, how many hits a
\* search may give, with which scores before and after the reranker, what a
\* query may be made of, how many synonyms it may get (3 in the code), and
\* whether the question is long: of more characters than a text search takes.
ASSUME ScenesAssumption ==
  \A s \in Scenes :
    /\ s.chunks \subseteq Chunks /\ s.texts \subseteq Texts
    /\ s.changes \in Nat /\ s.hits \in Nat /\ s.synonyms \in Nat
    /\ s.scores \subseteq Nat /\ s.hitScores \subseteq s.scores
    /\ s.words \subseteq Words /\ Question.words \in s.words
    /\ s.terms \subseteq Terms /\ Question.terms \subseteq s.terms
    /\ s.long \in BOOLEAN

VARIABLES
  scene,     \* the bounds, chosen at the start
  row,       \* MySQL: content of each chunk
  done,      \* MySQL: chunks whose vectorize_status is 'done'
  vec,       \* Milvus: the content each vector was made from
  events,    \* how often the knowledge base has changed
  entry,     \* "chat" or "workflow"
  pc,        \* the stage that is next, or how the question ended
  plan,      \* the QueryPlan
  hits,      \* the hits of the search, until the rows are read
  matched,   \* the chunks and contents the search has found
  raw,       \* raw_count
  read,      \* the rows and the done chunks get_many has read
  ranked,    \* the fresh hits, best first once they are sorted
  stale,     \* stale_count
  sources,   \* citations in the order the model sees them
  dropped,   \* dropped_ids
  support,   \* supporting_chunk_ids of the assessment
  reason,    \* reason_code of a refusal
  cited,     \* used_citations
  opened     \* what the link last opened has shown

base == <<scene, row, done, vec, events>>
found == <<hits, matched, raw, read, ranked, stale>>
chosen == <<sources, dropped>>
verdict == <<support, reason>>
vars == <<scene, row, done, vec, events, entry, pc, plan, hits, matched, raw, read,
          ranked, stale, sources, dropped, support, reason, cited, opened>>

\* What a model may make of it.
Query == [words: scene.words, terms: SUBSET scene.terms, negations: 0..1]

Rows == [Chunks -> Texts \union {None}]
Hit == [id: Chunks, score: Nat, text: Texts]
Citation == [number: 1..MaxSources, id: Chunks, text: Texts, score: Nat]
Stages == {"prepare", "search", "read", "score", "sort", "save", "decide",
           "assess", "workflow_answer", "generate"}
Ends == {"answered", "refused", "error", "limited", "invalid_snapshot"}

TypeOK ==
  /\ scene \in Scenes
  /\ row \in Rows /\ vec \in Rows /\ done \subseteq Chunks
  /\ events \in 0..scene.changes
  /\ entry \in {"chat", "workflow"}
  /\ pc \in Stages \union Ends
  /\ plan \in [normalized: Query, synonyms: SUBSET Query, fallback: BOOLEAN]
  /\ hits \in Seq(Hit) /\ ranked \in Seq(Hit)
  /\ matched \subseteq Chunks \X Texts
  /\ read \in [row: Rows, done: SUBSET Chunks]
  /\ raw \in 0..scene.hits /\ stale \in 0..scene.hits
  /\ sources \in Seq(Citation) /\ dropped \in Seq(Chunks)
  /\ support \subseteq Chunks
  /\ reason \in Refusals \union {None}
  /\ cited \subseteq 1..MaxSources
  /\ opened \in [cited: Texts, shown: Texts \union {"CHUNK_CHANGED", "CHUNK_NOT_FOUND"}]
                \union {None}

Asked == [normalized |-> Question, synonyms |-> {}, fallback |-> TRUE]

\* A knowledge base that was indexed as a whole.
Init ==
  /\ scene \in Scenes
  /\ row \in {r \in Rows : \A c \in Chunks : IF c \in scene.chunks THEN r[c] \in scene.texts
                                            ELSE r[c] = None}
  /\ vec = row /\ done = scene.chunks /\ events = 0
  /\ entry \in {"chat", "workflow"}
  /\ pc = "prepare" /\ plan = Asked
  /\ hits = <<>> /\ matched = {} /\ ranked = <<>> /\ raw = 0 /\ stale = 0
  /\ read = [row |-> row, done |-> done]
  /\ sources = <<>> /\ dropped = <<>>
  /\ support = {} /\ reason = None /\ cited = {} /\ opened = None

Running == pc \in Stages

-----------------------------------------------------------------------------
(* The knowledge base changes.                                             *)

Changes ==
  /\ events < scene.changes
  /\ events' = events + 1
  /\ UNCHANGED <<entry, pc, plan, found, chosen, verdict, cited, opened>>

(* An editor, who may forget to reset vectorize_status. *)
Edit(c) ==
  /\ row[c] # None
  /\ \E t \in scene.texts \ {row[c]} : row' = [row EXCEPT ![c] = t]
  /\ done' \in {done, done \ {c}}
  /\ UNCHANGED <<scene, vec>>
  /\ Changes

Lose(c) ==
  /\ row[c] # None
  /\ row' = [row EXCEPT ![c] = None]
  /\ done' = done \ {c}
  /\ UNCHANGED <<scene, vec>>
  /\ Changes

(* The two stores the indexer writes one after the other. *)
Upsert(c) ==
  /\ row[c] # None /\ c \notin done /\ vec[c] # row[c]
  /\ vec' = [vec EXCEPT ![c] = row[c]]
  /\ UNCHANGED <<scene, row, done>>
  /\ Changes

Mark(c) ==
  /\ row[c] # None /\ c \notin done /\ vec[c] = row[c]
  /\ done' = done \union {c}
  /\ UNCHANGED <<scene, row, vec>>
  /\ Changes

-----------------------------------------------------------------------------
(* QueryNormalizer.                                                        *)

ProtectedTermsPreserved(q) ==
  q.terms = Question.terms /\ q.negations = Question.negations

IntroducesProtectedTerms(q) ==
  \/ ~(q.terms \subseteq Question.terms)
  \/ (q.negations > 0) # (Question.negations > 0)

(* The synonyms that say something new. *)
Kept(normalized, synonyms) == synonyms \ {Question, normalized}

SynonymSets == UNION {kSubset(n, Query) : n \in 0..scene.synonyms}

(* normalize fails, times out, answers something invalid or unsafe, or      *)
(* rewrites the question, a long one to at most 512 characters.             *)
Prepare ==
  /\ pc = "prepare"
  /\ \/ plan' = Asked
     \/ \E normalized \in Query, synonyms \in SynonymSets :
          /\ scene.long => normalized # Question
          /\ ProtectedTermsPreserved(normalized)
          /\ \A s \in synonyms : ~IntroducesProtectedTerms(s)
          /\ plan' = [normalized |-> normalized, fallback |-> FALSE,
                      synonyms |-> Kept(normalized, synonyms)]
  /\ pc' = "search"
  /\ UNCHANGED <<base, entry, found, chosen, verdict, cited, opened>>

(* Only the workflow's requests are counted. *)
OutOfBudget ==
  /\ entry = "workflow" /\ pc \in {"prepare", "assess", "generate"}
  /\ pc' = "limited"
  /\ UNCHANGED <<base, entry, plan, found, chosen, verdict, cited, opened>>

(* What _bm25_query searches for, embed being given the normalized text:    *)
(* of the question its first 1,024 characters, then the others, all cut     *)
(* after 2,048.  A rewriting (512) with its synonyms (32 each) fits behind  *)
(* the question's start; where there is none, the normalized text is the    *)
(* question, and of a long one the second cut leaves the same start again.  *)
Part(q) == [text |-> q, whole |-> q = Question => ~scene.long]
BM25Query == {Part(q) : q \in {Question, plan.normalized} \union plan.synonyms}

-----------------------------------------------------------------------------
(* KnowledgeRetriever.                                                     *)

(* The embedding, then the search: any of the vectors, as they are now. *)
Search ==
  /\ pc = "search"
  /\ \E ids \in BoundedSeq({c \in Chunks : vec[c] # None}, scene.hits) :
       \E score \in [DOMAIN ids -> scene.hitScores] :
         hits' = [i \in DOMAIN ids |->
                    [id |-> ids[i], score |-> score[i], text |-> vec[ids[i]]]]
  /\ matched' = {<<hits'[i].id, hits'[i].text>> : i \in DOMAIN hits'}
  /\ raw' = Len(hits')
  /\ pc' = "read"
  /\ UNCHANGED <<base, entry, plan, read, ranked, stale, chosen, verdict, cited, opened>>

(* Where the hits are that stay: of each chunk the best, the earliest of    *)
(* equals.                                                                  *)
DeduplicateHits(s) ==
  {i \in DOMAIN s : \A j \in DOMAIN s : s[j].id = s[i].id =>
     s[i].score > s[j].score \/ (s[i].score = s[j].score /\ i <= j)}

\* Mutant: the fingerprint is compared, the status is not.
SameIsFresh(hit) == row[hit.id] = hit.text

Fresh(hit) == row[hit.id] = hit.text /\ hit.id \in done

(* get_many reads the rows in one transaction. *)
ReadRows ==
  /\ pc = "read"
  /\ LET unique == DeduplicateHits(hits)
         fresh == {i \in unique : Fresh(hits[i])}
     IN /\ \E at \in Bijection(1..Cardinality(fresh), fresh) :
             /\ \A m, n \in DOMAIN at : m < n => at[m] < at[n]
             /\ ranked' = [n \in DOMAIN at |-> hits[at[n]]]
        /\ stale' = Cardinality(unique) - Cardinality(fresh)
  /\ hits' = <<>>
  /\ read' = [row |-> row, done |-> done]
  /\ pc' = IF ranked' = <<>> THEN "sort" ELSE "score"
  /\ UNCHANGED <<base, entry, plan, matched, raw, chosen, verdict, cited, opened>>

(* The reranker scores what is left. *)
Rerank ==
  /\ pc = "score"
  /\ \E score \in [DOMAIN ranked -> scene.scores] :
       ranked' = [i \in DOMAIN ranked |-> [ranked[i] EXCEPT !.score = score[i]]]
  /\ pc' = "sort"
  /\ UNCHANGED <<base, entry, plan, hits, matched, raw, read, stale, chosen, verdict,
                 cited, opened>>

RelevanceOrder(x, y) == x.score > y.score \/ (x.score = y.score /\ x.id < y.id)

Sort ==
  /\ pc = "sort"
  /\ \E at \in Bijection(DOMAIN ranked, DOMAIN ranked) :
       /\ \A m, n \in DOMAIN at : m < n => ~RelevanceOrder(ranked[at[n]], ranked[at[m]])
       /\ ranked' = [n \in DOMAIN ranked |-> ranked[at[n]]]
  /\ pc' = IF entry = "workflow" THEN "save" ELSE "decide"
  /\ UNCHANGED <<base, entry, plan, hits, matched, raw, read, stale, chosen, verdict,
                 cited, opened>>

(* The workflow keeps the retrieval in its checkpoint and checks what it    *)
(* reads back: no chunk twice, counts that fit the hits.                    *)
ValidSnapshot ==
  /\ \A i, j \in DOMAIN ranked : ranked[i].id = ranked[j].id => i = j
  /\ stale <= raw /\ Len(ranked) <= raw

Save ==
  /\ pc = "save"
  /\ pc' = IF ValidSnapshot THEN "decide" ELSE "invalid_snapshot"
  /\ UNCHANGED <<base, entry, plan, found, chosen, verdict, cited, opened>>

-----------------------------------------------------------------------------
(* decide_evidence.                                                        *)

(* Every other item, then the others backwards: the best at both ends. *)
EdgeOrder(s) ==
  [n \in DOMAIN s |-> IF 2*n - 1 <= Len(s) THEN s[2*n - 1] ELSE s[2*(Len(s) - n + 1)]]

\* Mutant: the numbers follow the order in which the model reads.
CitationsLater(candidates) ==
  LET shown == EdgeOrder(candidates)
  IN [n \in DOMAIN candidates |->
        [number |-> n, id |-> shown[n].id, text |-> shown[n].text,
         score |-> shown[n].score]]

(* The numbers follow the relevance. *)
Citations(candidates) ==
  EdgeOrder([n \in DOMAIN candidates |->
               [number |-> n, id |-> candidates[n].id, text |-> candidates[n].text,
                score |-> candidates[n].score]])

(* EvidenceSelector: the most relevant candidates, as many as fit. *)
Select(kept) ==
  /\ sources' = Citations(SubSeq(ranked, 1, kept))
  /\ dropped' = [i \in 1..(Len(ranked) - kept) |-> ranked[kept + i].id]

Refuse(code) ==
  /\ pc' = "refused"
  /\ reason' = code

(* The refusals that need no model; the workflow passes no threshold. *)
EarlyRefusal ==
  IF raw = 0 THEN "no_hits"
  ELSE IF ranked = <<>> THEN IF stale > 0 THEN "stale_evidence" ELSE "no_hits"
  ELSE IF entry = "chat" /\ ranked[1].score < Threshold THEN "low_relevance"
  ELSE None

(* room is how many of the ten best candidates the requests have space for. *)
Decide ==
  /\ pc = "decide"
  /\ IF EarlyRefusal # None
       THEN Refuse(EarlyRefusal) /\ UNCHANGED chosen
       ELSE \E room \in 0..MaxSources :
              /\ room <= Len(ranked) /\ Select(room)
              /\ IF sources' = <<>> THEN Refuse("context_budget")
                                    ELSE pc' = "assess" /\ UNCHANGED reason
  /\ UNCHANGED <<base, entry, plan, found, support, cited, opened>>

SourceIds == {sources[i].id : i \in DOMAIN sources}
Numbers == {sources[i].number : i \in DOMAIN sources}
NumbersOf(ids) == {sources[i].number : i \in {j \in DOMAIN sources : sources[j].id \in ids}}

\* Mutant: the ids the model names are taken as they are.
ValidAnyIds(sufficient, code, ids) ==
  IF sufficient THEN code = "supported" /\ ids # {} ELSE code # "supported" /\ ids = {}

(* validate_assessment, which decide_evidence repeats. *)
ValidAssessment(sufficient, code, ids) ==
  IF sufficient THEN code = "supported" /\ ids # {} /\ ids \subseteq SourceIds
                ELSE code # "supported" /\ ids = {}

Best == ranked[1].score

(* The target of knowledge_band and knowledge_target. *)
Target(business) ==
  IF entry = "workflow" /\ Best > Upper /\ ~business THEN "workflow_answer" ELSE "generate"

(* The model may assess anything. *)
Assess ==
  /\ pc = "assess"
  /\ \E sufficient, business \in BOOLEAN, ids \in SUBSET scene.chunks,
        code \in {"supported", "insufficient_evidence", "ambiguous_question"} :
       \/ /\ ~ValidAssessment(sufficient, code, ids)
          /\ pc' = "error"
          /\ UNCHANGED verdict
       \/ /\ ValidAssessment(sufficient, code, ids)
          /\ support' = ids
          /\ IF sufficient THEN pc' = Target(business) /\ UNCHANGED reason
                           ELSE Refuse(code)
  /\ UNCHANGED <<base, entry, plan, found, chosen, cited, opened>>

-----------------------------------------------------------------------------
(* The answer.                                                             *)

(* render_workflow_answer raises when a supporting source is missing. *)
Render ==
  /\ pc = "workflow_answer"
  /\ IF support # {} /\ support \subseteq SourceIds
       THEN pc' = "answered" /\ cited' = NumbersOf(support)
       ELSE pc' = "error" /\ UNCHANGED cited
  /\ UNCHANGED <<base, entry, plan, found, chosen, verdict, opened>>

(* validate_citation_numbers, with a citation required. *)
ValidCitations(numbers) == numbers # {} /\ numbers \subseteq Numbers

(* The model may cite anything, also no source. *)
Generate ==
  /\ pc = "generate"
  /\ \E numbers \in SUBSET (1..MaxSources) :
       IF ValidCitations(numbers) THEN pc' = "answered" /\ cited' = numbers
                                  ELSE pc' = "error" /\ UNCHANGED cited
  /\ UNCHANGED <<base, entry, plan, found, chosen, verdict, opened>>

(* A model or store fails, or the turn's deadline passes. *)
Fail ==
  /\ Running
  /\ pc' = "error"
  /\ UNCHANGED <<base, entry, plan, found, chosen, verdict, cited, opened>>

(* read_chunk, by the citation's url with its expected_hash. *)
Open(i) ==
  /\ i \in DOMAIN sources
  /\ LET now == row[sources[i].id]
     IN opened' = [cited |-> sources[i].text,
                   shown |-> IF now = None THEN "CHUNK_NOT_FOUND"
                             ELSE IF now # sources[i].text THEN "CHUNK_CHANGED" ELSE now]
  /\ UNCHANGED <<base, entry, pc, plan, found, chosen, verdict, cited>>

Pipeline == \/ Prepare \/ Search \/ ReadRows \/ Rerank \/ Sort \/ Save
            \/ Decide \/ Assess \/ Render \/ Generate

KnowledgeBase == \E c \in Chunks : Edit(c) \/ Lose(c) \/ Upsert(c) \/ Mark(c)

Next == \/ Pipeline \/ OutOfBudget \/ Fail \/ KnowledgeBase
        \/ \E i \in 1..MaxSources : Open(i)

Spec == Init /\ [][Next]_vars

-----------------------------------------------------------------------------
(* Properties *)

(* Whatever the model makes of the question, the full-text search is for    *)
(* texts that mention nothing new, and are of the question's polarity if    *)
(* they were not cut.  It is for the whole question unless that is long,    *)
(* and for every identifier, number and negation of it unless it is long    *)
(* and was not rewritten: then what lies behind the cut is not looked for.  *)
(* The text that is embedded and reranked keeps them all in every case.     *)
SearchKeepsTheQuestion ==
  /\ \A p \in BM25Query : /\ p.text.terms \subseteq Question.terms
                          /\ p.whole => (p.text.negations > 0) = (Question.negations > 0)
  /\ ~scene.long => \E p \in BM25Query : p.text = Question /\ p.whole
  /\ ~scene.long \/ ~plan.fallback =>
       \E p \in BM25Query : p.whole /\ ProtectedTermsPreserved(p.text)
  /\ ProtectedTermsPreserved(plan.normalized)

(* The text of every source is the one whose vector was found, was still    *)
(* the row's text and was marked done when the rows were read: an edit, a   *)
(* loss or a half-done indexing between search and read drops the chunk.    *)
EvidenceWasCurrent ==
  \A i \in DOMAIN sources :
    /\ read.row[sources[i].id] = sources[i].text
    /\ sources[i].id \in read.done
    /\ <<sources[i].id, sources[i].text>> \in matched

(* Citation numbers are the ranks of relevance, the most relevant source is *)
(* read first and the second last; what was dropped ranks below all that    *)
(* was kept, and no chunk is both or neither.                               *)
SourcesAreTheBest ==
  sources # <<>> =>
    /\ Numbers = 1..Len(sources)
    /\ Len(sources) <= MaxSources
    /\ \A i, j \in DOMAIN sources :
         sources[i].number < sources[j].number => sources[i].score >= sources[j].score
    /\ sources[1].number = 1
    /\ Len(sources) > 1 => sources[Len(sources)].number = 2
    /\ \A i \in DOMAIN ranked, j \in DOMAIN sources :
         ranked[i].id \in ToSet(dropped) => ranked[i].score <= sources[j].score
    /\ ToSet(dropped) \union SourceIds = {ranked[i].id : i \in DOMAIN ranked}
    /\ ToSet(dropped) \intersect SourceIds = {}

(* A refusal names its cause: nothing was found; all that was found had     *)
(* changed; no fresh hit reaches the threshold (chat only).                 *)
RefusalNamesItsCause ==
  pc = "refused" =>
    /\ reason = "no_hits" <=> matched = {}
    /\ reason = "stale_evidence" <=>
         /\ matched # {}
         /\ \A m \in matched : read.row[m[1]] # m[2] \/ m[1] \notin read.done
    /\ reason = "low_relevance" =>
         entry = "chat" /\ \A i \in DOMAIN ranked : ranked[i].score < Threshold
    /\ reason \in {"insufficient_evidence", "ambiguous_question"} <=> sources # <<>>

(* An answer stands on supporting sources that were all supplied, cites at  *)
(* least one source and no number that was not supplied; the template of    *)
(* the workflow, which only a best score above the upper threshold leads    *)
(* to, cites exactly the supporting sources and never fails for want of one.*)
AnswerIsGrounded ==
  /\ pc = "answered" =>
       support # {} /\ support \subseteq SourceIds /\ cited # {} /\ cited \subseteq Numbers
  /\ pc = "workflow_answer" =>
       /\ support # {} /\ support \subseteq SourceIds
       /\ \E i \in DOMAIN sources : sources[i].number = 1 /\ sources[i].score > Upper

(* What retrieve has put into a checkpoint can be read back: the checks of  *)
(* deserialize_retrieval never refuse a retriever's own result.             *)
OwnSnapshotIsValid == pc # "invalid_snapshot"

(* A citation's link shows the cited text or says that it is no longer the  *)
(* chunk's, never another text.                                             *)
LinkShowsTheCitedText ==
  opened # None => opened.shown \in {opened.cited, "CHUNK_CHANGED", "CHUNK_NOT_FOUND"}

(* From the question to its sources: nothing else is searched, and the best  *)
(* of what was found is supplied.                                           *)
SourcesFitTheQuestion == TypeOK /\ SearchKeepsTheQuestion /\ SourcesAreTheBest

(* No stale text is answered from or shown, whatever changes between two     *)
(* stages or before a click.                                                *)
NoStaleText == EvidenceWasCurrent /\ LinkShowsTheCitedText

(* An answer stands on its sources, a refusal on its cause, and neither is   *)
(* lost to a checkpoint that cannot be read.                                *)
OutcomeIsGrounded == RefusalNamesItsCause /\ AnswerIsGrounded /\ OwnSnapshotIsValid
=============================================================================
