-------------------------- MODULE MCManagedProvider --------------------------
(* Values for the constants of ManagedProvider.tla: a small request bucket,  *)
(* and a token bucket that an estimate may exceed.                           *)
EXTENDS ManagedProvider, TLC

SmallCapacity == [b \in Buckets |-> IF b = "requests" THEN 2 ELSE 3]
SlowRate == [b \in Buckets |-> 1]
MixedRate == [b \in Buckets |-> IF b = "requests" THEN 1 ELSE 2]
AnyCaller == Permutations(Callers)
=============================================================================
