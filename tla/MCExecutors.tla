------------------------------ MODULE MCExecutors ------------------------------
(* The demands and scenes of Executors that the run goes through. *)
EXTENDS Executors

CONSTANT m1

Calls(a, b, c, who) == [batches |-> <<a, b, c>>, closers |-> who]
NoCalls == Calls(0, 0, 0, {})
LongAndShort == Calls(2, 1, 0, {1, 2})
ThreeShort == Calls(1, 1, 1, {})
AllCalls == {NoCalls, LongAndShort, ThreeShort}

\* Searches do not ask what the collection is: one is enough for them.
Rpc(a, b, c, who, left) ==
  [kind |-> <<a, b, c>>, closers |-> who, colls |-> left]
AnyLeft == {"absent", "good", "bad"}
NoRpc == Rpc("none", "none", "none", {}, {"good"})
Preparing == Rpc("ensure", "prepare", "none", {}, AnyLeft)
Writing == Rpc("upsert", "search", "none", {m1}, AnyLeft)
Searching == Rpc("search", "search", "search", {}, {"absent", "good"})
AllRpc == {NoRpc, Preparing, Writing, Searching}

AllScenes ==
  {<<LongAndShort, NoRpc>>, <<ThreeShort, NoRpc>>, <<NoCalls, Preparing>>,
   <<NoCalls, Writing>>, <<NoCalls, Searching>>}
=============================================================================
