------------------------------- MODULE Executors -------------------------------
(***************************************************************************)
(* The two single-thread executors of the knowledge base side by side: the *)
(* one of LocalModels (InferenceWorker), which leaves what its callers     *)
(* abandon, and the one of MilvusStore, whose callers drain it.  Nothing   *)
(* but the event loop is shared; a scene says how much either is asked.    *)
(***************************************************************************)
EXTENDS InferenceWorker

CONSTANTS
  Ops, StoreClosers, Places, StoreDemands,  \* MilvusStore's constants
  Scenes  \* bound: pairs of a demand on the models and one on the store

ASSUME SizesAssumption ==
  /\ MaxBatches \in Nat \ {0} /\ QueueSize \in Nat \ {0} /\ MaxTime \in Nat
  /\ Places \in Nat \ {0}
ASSUME SetsAssumption ==
  /\ IsFiniteSet(Callers) /\ IsFiniteSet(Ops)
  /\ Callers \subseteq Nat /\ Closers \subseteq Nat /\ Ops \subseteq Nat
ASSUME DemandsAssumption ==
  /\ \A d \in Demands : d.batches \in [Callers -> 0..MaxBatches] /\ d.closers \subseteq Closers
  /\ \A d \in StoreDemands :
       /\ d.kind \in [Ops -> {"ensure", "prepare", "upsert", "search", "none"}]
       /\ d.colls \subseteq {"absent", "good", "bad"}
       /\ d.closers \subseteq StoreClosers

VARIABLES sdemand, spc, rpc, expired, cancels, sstage, svalue, sabandoned,
          squeue, sinflight, client, sclosed, skpc, coll, sloaded, stored

S == INSTANCE MilvusStore WITH
  Closers <- StoreClosers, Capacity <- Places, Demands <- StoreDemands,
  demand <- sdemand, pc <- spc, stage <- sstage, value <- svalue,
  abandoned <- sabandoned, queue <- squeue, inflight <- sinflight,
  closed <- sclosed, kpc <- skpc, loaded <- sloaded

store == <<sdemand, spc, rpc, expired, cancels, sstage, svalue, sabandoned,
           squeue, sinflight, client, sclosed, skpc, coll, sloaded, stored>>
everything == <<vars, store>>

BothInit == Init /\ S!Init /\ <<demand, sdemand>> \in Scenes
BothNext == (Next /\ UNCHANGED store) \/ (S!Next /\ UNCHANGED vars)

\* Every call and operation has finitely many steps, so fairness of their
\* union is fairness of each.  A model need not return.
BothReady == (Ready /\ UNCHANGED store) \/ (S!Ready /\ UNCHANGED vars)
Spec == BothInit /\ [][BothNext]_everything /\ WF_everything(BothReady)

-----------------------------------------------------------------------------
(* Properties; those of the models' side are InferenceWorker's.            *)

\* See MilvusStore.
StoreSafety == S!StoreSafety

\* Calls, operations and closers come to an end and give back what they held,
\* although a model hangs or nobody waits any more; on the way nothing runs
\* for nobody, and nothing but ensure_schema creates a collection.
AllSettle ==
  /\ AbandonedIsSkipped /\ EveryCallEnds /\ EverythingSettles
  /\ S!OnlyEnsureCreates /\ S!EverythingEnds
=============================================================================
