---------------------------- MODULE KnowledgeIndex -----------------------------
(***************************************************************************)
(* The two copies of the knowledge base: rows of knowledge_chunks with     *)
(* their vectorize_status, and Milvus rows with the fingerprint of the     *)
(* text they were made from.  KnowledgeIndexer runs copy the one to the    *)
(* other while rows are seeded, edited and lost; a text stands for itself  *)
(* and for its source_hash.                                                *)
(***************************************************************************)
EXTENDS Naturals, FiniteSets

CONSTANTS
  Chunks,    \* primary keys
  Texts,     \* contents of a row
  None,      \* no row, no vector
  IndexScenes \* what may surround a behaviour: see IndexScenesAssumption

\* A scene names the runs of scripts/index_knowledge.py and of insert_seed,
\* whether the former share one lock file, the contents no model or VARCHAR
\* takes, how many edits, losses and late upserts there may be, and its
\* disorder: edits that do not reset the status, vectors lost by Milvus,
\* upserts the client gave up that Milvus applies later.
ASSUME IndexScenesAssumption ==
  \A s \in IndexScenes :
    /\ s.oneHost \in BOOLEAN /\ s.tooLong \subseteq Texts
    /\ s.maxEvents \in Nat /\ s.disorder \subseteq {"careless", "loss", "late"}
ASSUME TextsAssumption == None \notin Texts

Indexers == UNION {s.indexers : s \in IndexScenes}
Seeders == UNION {s.seeders : s \in IndexScenes}

VARIABLES
  scene,      \* the scene, chosen at the start
  text,       \* MySQL: content of each row
  done,       \* MySQL: rows whose vectorize_status is 'done'
  vec,        \* Milvus: the text each stored vector was made from
  late,       \* upserts Milvus may still apply
  events,     \* how many external events there were
  ipc,        \* indexer: where its run is, or how it ended
  repair,     \* indexers started with --repair
  snap,       \* indexer: the contents it listed
  stale,      \* indexer: listed as done, but with another vector
  todo,       \* indexer: its pending list
  failed,     \* indexers that counted a failure
  disturbed,  \* indexers during whose run somebody else changed a copy
  seedpc,     \* seeder: where its transaction is, or how it ended
  seed,       \* seeder: the rows it is to insert
  existing    \* seeder: rows it found and locked

stores == <<scene, text, done, vec, late, events>>
runs == <<ipc, repair, snap, stale, todo, failed>>
seeds == <<seedpc, seed, existing>>
indexVars == <<scene, text, done, vec, late, events, ipc, repair, snap, stale, todo,
          failed, disturbed, seedpc, seed, existing>>

Active == {"list", "compare", "reset", "embed", "upsert", "confirm", "mark"}
Rows == [Chunks -> Texts \union {None}]
Present(r) == {c \in Chunks : r[c] # None}

IndexTypeOK ==
  /\ scene \in IndexScenes
  /\ text \in Rows /\ vec \in Rows
  /\ done \subseteq Present(text)
  /\ late \subseteq Chunks \X Texts
  /\ events \in 0..scene.maxEvents
  /\ ipc \in [Indexers -> Active \union {"idle", "ended", "refused", "error"}]
  /\ repair \subseteq Indexers /\ failed \subseteq Indexers /\ disturbed \subseteq Indexers
  /\ snap \in [Indexers -> Rows]
  /\ todo \in [Indexers -> SUBSET Chunks] /\ stale \in [Indexers -> SUBSET Chunks]
  /\ \A i \in Indexers : todo[i] \union stale[i] \subseteq Present(snap[i])
  /\ seedpc \in [Seeders -> {"idle", "insert", "recover", "ok", "conflict", "error"}]
  /\ seed \in [Seeders -> Rows]
  /\ existing \in [Seeders -> SUBSET Chunks]

\* Any state earlier runs may have left: what is done has its vector.
IndexInit ==
  /\ scene \in IndexScenes
  /\ text \in Rows /\ vec \in Rows
  /\ done \in SUBSET {c \in Present(text) : vec[c] = text[c] /\ text[c] \notin scene.tooLong}
  /\ \A c \in Chunks : vec[c] \notin scene.tooLong
  /\ late = {} /\ events = 0
  /\ ipc = [i \in Indexers |-> "idle"]
  /\ repair = {} /\ failed = {} /\ disturbed = {}
  /\ snap = [i \in Indexers |-> [c \in Chunks |-> None]]
  /\ todo = [i \in Indexers |-> {}] /\ stale = [i \in Indexers |-> {}]
  /\ seedpc = [s \in Seeders |-> "idle"]
  /\ seed = [s \in Seeders |-> [c \in Chunks |-> None]]
  /\ existing = [s \in Seeders |-> {}]

GotoStep(i, p) == ipc' = [ipc EXCEPT ![i] = p]
Running == {i \in Indexers : ipc[i] \in Active}
Disturb(but) == disturbed' = disturbed \union (Running \ but)

\* Rows that a seeder's SELECT ... FOR UPDATE holds.
Locked == UNION {existing[s] : s \in {u \in Seeders : seedpc[u] = "insert"}}

-----------------------------------------------------------------------------
(* KnowledgeIndexer.run.                                                   *)

BeginRun(i) ==
  /\ i \in scene.indexers /\ ipc[i] = "idle"
  /\ IF scene.oneHost /\ Running # {} THEN GotoStep(i, "refused") ELSE GotoStep(i, "list")
  /\ repair' \in {repair, repair \union {i}}
  /\ UNCHANGED <<stores, snap, stale, todo, failed, disturbed, seeds>>

\* ensure_schema has validated the collection; list_all.
List(i) ==
  /\ ipc[i] = "list"
  /\ snap' = [snap EXCEPT ![i] = text]
  /\ todo' = [todo EXCEPT ![i] = Present(text) \ done]
  /\ GotoStep(i, IF i \in repair THEN "compare" ELSE "embed")
  /\ UNCHANGED <<stores, repair, stale, failed, disturbed, seeds>>

\* _reset_stale_done: listed rows that were done, with another or no vector.
Stale(i) == {c \in Present(snap[i]) \ todo[i] : vec[c] # snap[i][c]}

Compare(i) ==
  /\ ipc[i] = "compare"
  /\ stale' = [stale EXCEPT ![i] = Stale(i)]
  /\ GotoStep(i, "reset")
  /\ UNCHANGED <<stores, repair, snap, todo, failed, disturbed, seeds>>

\* mark_pending; the snapshot gets the same status.
Reset(i) ==
  /\ ipc[i] = "reset"
  /\ stale[i] \intersect Locked = {}
  /\ done' = done \ stale[i]
  /\ todo' = [todo EXCEPT ![i] = @ \union stale[i]]
  /\ GotoStep(i, "embed")
  /\ IF stale[i] = {} THEN UNCHANGED disturbed ELSE Disturb({i})
  /\ UNCHANGED <<scene, text, vec, late, events, repair, snap, stale, failed, seeds>>

\* A database or Milvus error before the rows are looked at ends the run.
Fail(i) ==
  /\ ipc[i] \in {"list", "compare", "reset"}
  /\ GotoStep(i, "error")
  /\ UNCHANGED <<stores, repair, snap, stale, todo, failed, disturbed, seeds>>

\* _validated_text, then embed again without each text it refuses; any other
\* error fails the whole list.
Embed(i) ==
  LET valid == {c \in todo[i] : snap[i][c] \notin scene.tooLong}
  IN  /\ ipc[i] = "embed"
      /\ \/ /\ todo' = [todo EXCEPT ![i] = valid]
            /\ failed' = IF valid = todo[i] THEN failed ELSE failed \union {i}
            /\ GotoStep(i, IF valid = {} THEN "ended" ELSE "upsert")
         \/ /\ valid # {}
            /\ failed' = failed \union {i}
            /\ GotoStep(i, "ended")
            /\ UNCHANGED todo
      /\ UNCHANGED <<stores, repair, snap, stale, disturbed, seeds>>

Upserted(i) == [c \in Chunks |-> IF c \in todo[i] THEN snap[i][c] ELSE vec[c]]

\* The upsert is applied, or fails without, with or with a later effect.
Upsert(i) ==
  /\ ipc[i] = "upsert"
  /\ \/ vec' = Upserted(i) /\ GotoStep(i, "confirm") /\ UNCHANGED <<late, failed>>
     \/ /\ \/ vec' = Upserted(i) /\ UNCHANGED late
           \/ UNCHANGED <<scene, vec, late>>
           \/ /\ "late" \in scene.disorder
              /\ late' = late \union {<<c, snap[i][c]>> : c \in todo[i]}
              /\ UNCHANGED vec
        /\ failed' = failed \union {i}
        /\ GotoStep(i, "ended")
  /\ Disturb({i})
  /\ UNCHANGED <<scene, text, done, events, repair, snap, stale, todo, seeds>>

\* flush, then the fingerprints of what was upserted.
Confirm(i) ==
  /\ ipc[i] = "confirm"
  /\ \/ /\ \A c \in todo[i] : vec[c] = snap[i][c]
        /\ GotoStep(i, "mark")
        /\ UNCHANGED failed
     \/ GotoStep(i, "ended") /\ failed' = failed \union {i}
  /\ UNCHANGED <<stores, repair, snap, stale, todo, disturbed, seeds>>

\* Mutant: the row is marked whatever its text has become.
MarkAnyway(i, c) ==
  /\ ipc[i] = "mark" /\ c \in todo[i] \ Locked
  /\ todo' = [todo EXCEPT ![i] = @ \ {c}]
  /\ done' = done \union ({c} \intersect Present(text))
  /\ Disturb({i})
  /\ UNCHANGED <<scene, text, vec, late, events, ipc, repair, snap, stale, failed, seeds>>

\* mark_done_if_current of the next row; it may fail.
Mark(i, c) ==
  /\ ipc[i] = "mark" /\ c \in todo[i] \ Locked
  /\ todo' = [todo EXCEPT ![i] = @ \ {c}]
  /\ \/ /\ text[c] = snap[i][c]
        /\ done' = done \union {c}
        /\ UNCHANGED failed
     \/ failed' = failed \union {i} /\ UNCHANGED done
  /\ Disturb({i})
  /\ UNCHANGED <<scene, text, vec, late, events, ipc, repair, snap, stale, seeds>>

End(i) ==
  /\ ipc[i] = "mark" /\ todo[i] = {}
  /\ GotoStep(i, "ended")
  /\ UNCHANGED <<stores, repair, snap, stale, todo, failed, disturbed, seeds>>

\* The process dies: the lock is the operating system's to release.
Crash(i) ==
  /\ ipc[i] \in Active
  /\ GotoStep(i, "error")
  /\ late' = IF ipc[i] = "upsert" /\ "late" \in scene.disorder
             THEN late \union {<<c, snap[i][c]>> : c \in todo[i]} ELSE late
  /\ UNCHANGED <<scene, text, done, vec, events, repair, snap, stale, todo, failed,
                 disturbed, seeds>>

-----------------------------------------------------------------------------
(* KnowledgeRepository.insert_seed.                                        *)

\* The rows that exist are locked and compared.
Seed(s) ==
  /\ s \in scene.seeders /\ seedpc[s] = "idle"
  /\ \E r \in Rows :
       /\ Present(r) # {} /\ Present(r) \intersect Locked = {}
       /\ seed' = [seed EXCEPT ![s] = r]
       /\ LET found == Present(r) \intersect Present(text)
          IN  IF \E c \in found : text[c] # r[c]
              THEN seedpc' = [seedpc EXCEPT ![s] = "conflict"] /\ UNCHANGED existing
              ELSE /\ seedpc' = [seedpc EXCEPT ![s] = "insert"]
                   /\ existing' = [existing EXCEPT ![s] = found]
  /\ UNCHANGED <<stores, runs, disturbed>>

Missing(s) == Present(seed[s]) \ existing[s]

\* The missing rows are inserted as pending, with their pointers, in one
\* transaction: a key that another seeder inserted meanwhile fails it.
Insert(s) ==
  /\ seedpc[s] = "insert"
  /\ \/ /\ Missing(s) \intersect Present(text) = {}
        /\ seedpc' = [seedpc EXCEPT ![s] = "ok"]
        /\ text' = [c \in Chunks |-> IF c \in Missing(s) THEN seed[s][c] ELSE text[c]]
        /\ IF Missing(s) = {} THEN UNCHANGED disturbed ELSE Disturb({})
     \/ /\ seedpc' = [seedpc EXCEPT ![s] = "recover"]
        /\ UNCHANGED <<scene, text, disturbed>>
  /\ UNCHANGED <<scene, done, vec, late, events, runs, seed, existing>>

\* Mutant: the recovery only counts the rows.
RecoverByCount(s) ==
  /\ seedpc[s] = "recover"
  /\ seedpc' = [seedpc EXCEPT ![s] =
       IF Present(seed[s]) \subseteq Present(text) THEN "ok" ELSE "error"]
  /\ UNCHANGED <<stores, runs, disturbed, seed, existing>>

\* _recover_seed_race.
Recover(s) ==
  /\ seedpc[s] = "recover"
  /\ seedpc' = [seedpc EXCEPT ![s] =
       IF ~(Present(seed[s]) \subseteq Present(text)) THEN "error"
       ELSE IF \A c \in Present(seed[s]) : text[c] = seed[s][c] THEN "ok"
       ELSE "conflict"]
  /\ UNCHANGED <<stores, runs, disturbed, seed, existing>>

-----------------------------------------------------------------------------
(* Everybody else.                                                         *)

\* A content entry changes a row, and resets its status unless careless.
Edit(c) ==
  /\ events < scene.maxEvents /\ events' = events + 1
  /\ c \in Present(text) \ Locked
  /\ \E t \in Texts \ {text[c]} : text' = [text EXCEPT ![c] = t]
  /\ \/ done' = done \ {c}
     \/ "careless" \in scene.disorder /\ UNCHANGED done
  /\ Disturb({})
  /\ UNCHANGED <<scene, vec, late, runs, seeds>>

Lose(c) ==
  /\ "loss" \in scene.disorder
  /\ events < scene.maxEvents /\ events' = events + 1
  /\ vec[c] # None
  /\ vec' = [vec EXCEPT ![c] = None]
  /\ Disturb({})
  /\ UNCHANGED <<scene, text, done, late, runs, seeds>>

ApplyLate ==
  /\ events < scene.maxEvents /\ events' = events + 1
  /\ \E u \in late : late' = late \ {u} /\ vec' = [vec EXCEPT ![u[1]] = u[2]]
  /\ Disturb({})
  /\ UNCHANGED <<scene, text, done, runs, seeds>>

IndexNext ==
  \/ \E i \in Indexers :
       \/ BeginRun(i) \/ List(i) \/ Compare(i) \/ Reset(i) \/ Fail(i) \/ Embed(i)
       \/ Upsert(i) \/ Confirm(i) \/ End(i) \/ Crash(i)
       \/ \E c \in Chunks : Mark(i, c)
  \/ \E s \in Seeders : Seed(s) \/ Insert(s) \/ Recover(s)
  \/ \E c \in Chunks : Edit(c) \/ Lose(c)
  \/ ApplyLate

IndexSpec == IndexInit /\ [][IndexNext]_indexVars

-----------------------------------------------------------------------------
(* Properties.                                                             *)

\* A row that is done has the vector of its own text.
DoneIsIndexed == \A c \in done : vec[c] = text[c]

\* With one indexer at a time, edits that reset the status and upserts that
\* end with their call, what is done is indexed, however runs crash, fail and
\* interleave with edits and seeds: the lock admits one run, whose list is
\* pending until it marks it, and is then in Milvus.
IndexOK ==
  scene.oneHost /\ scene.disorder = {} =>
  /\ DoneIsIndexed
  /\ \A i, j \in Running : i = j
  /\ late = {}
  /\ \A i \in Running : ipc[i] # "list" =>
       /\ ipc[i] # "mark" => todo[i] \intersect done = {}
       /\ ipc[i] = "mark" => \A c \in todo[i] : vec[c] = snap[i][c]

\* A run's lists are those of its own pass, and a seeder's locks keep the
\* rows it found as it found them.
PassOK ==
  /\ \A i \in Indexers : ipc[i] \in {"idle", "list"} => stale[i] = {}
  /\ \A s \in Seeders : seedpc[s] = "insert" =>
       \A c \in existing[s] : c \in Present(text) /\ text[c] = seed[s][c]

\* As long as a run counted no failure and nobody disturbed it, its list is
\* what MySQL holds, each row of it is done or still to do, and a repair has
\* looked at the vector of what it need not do.
CleanAt(i, c) ==
  /\ text[c] = snap[i][c]
  /\ c \in todo[i] \union done
  /\ ipc[i] = "mark" /\ c \in todo[i] => vec[c] = snap[i][c]
  /\ i \in repair /\ c \notin todo[i] =>
       \/ ipc[i] = "compare"
       \/ ipc[i] = "reset" /\ c \in stale[i]
       \/ vec[c] = snap[i][c]
CleanOK ==
  \A i \in Running \ (failed \union disturbed) : ipc[i] # "list" =>
    \A c \in Present(snap[i]) : CleanAt(i, c)

IndexInv == IndexTypeOK /\ IndexOK /\ PassOK /\ CleanOK

\* A run that counts no failure, and during which nobody else changed either
\* copy, leaves every row it listed done; with --repair also with the vector
\* of its text, whatever was lost or edited before: the exit status tells.
CleanRunIndexes ==
  [][\A i \in Indexers :
       ipc[i] \in Active /\ ipc'[i] = "ended" /\ i \notin failed' \union disturbed' =>
         \A c \in Present(snap[i]) :
           /\ c \in done'
           /\ i \in repair => vec'[c] = text'[c]]_indexVars

\* insert_seed succeeds only if every row of the seed is there with the
\* content of the seed, also when it lost a race.
SeedTruth ==
  [][\A s \in Seeders : seedpc[s] # "ok" /\ seedpc'[s] = "ok" =>
       \A c \in Present(seed[s]) : text'[c] = seed[s][c]]_indexVars

\* No seeder overwrites or removes a row; rows change by edits alone.
SeedsOnlyAdd ==
  [][seedpc # seedpc' => \A c \in Present(text) : text'[c] = text[c]]_indexVars

\* What a run or a seed reports as success is so, and no seed overwrites.
ReportsAreTrue == CleanRunIndexes /\ SeedTruth /\ SeedsOnlyAdd
=============================================================================
