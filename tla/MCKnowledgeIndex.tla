--------------------------- MODULE MCKnowledgeIndex ---------------------------
(* The scenes of KnowledgeIndex that the run goes through. *)
EXTENDS KnowledgeIndex

CONSTANTS i1, i2, s1, s2, t2

\* Runs on one host, one after another or refused, with edits that reset the
\* status and a text that is too long.
OneHost ==
  [indexers |-> {i1, i2}, seeders |-> {}, oneHost |-> TRUE, tooLong |-> {t2},
   disorder |-> {}, maxEvents |-> 2]

\* Two hosts, careless edits, lost vectors, upserts that are applied late.
TwoHosts ==
  [indexers |-> {i1, i2}, seeders |-> {}, oneHost |-> FALSE, tooLong |-> {},
   disorder |-> {"careless", "loss", "late"}, maxEvents |-> 1]

\* Two seeds of the same keys race, with an indexer.
Seeding ==
  [indexers |-> {i1}, seeders |-> {s1, s2}, oneHost |-> TRUE, tooLong |-> {},
   disorder |-> {}, maxEvents |-> 0]

AllScenes == {OneHost, TwoHosts, Seeding}
=============================================================================
