-------------------------- MODULE CatalogWorkerMC --------------------------
(* Small instances of CatalogWorker for TLC.                               *)
EXTENDS CatalogWorker, TLC

CONSTANTS w1, w2, p1, j1, k1

OnePartition == [k \in Keys |-> p1]
OwnId == [w \in Workers |-> w]

AllKinds == {[job |-> j1, key |-> k1, kind |-> kd] :
                kd \in {"ok", "invalid", "poison"}}

AnyKind == {[job |-> j1, key |-> k1, kind |-> kd] : kd \in Kinds}

Symmetry == Permutations(Workers)
=============================================================================
