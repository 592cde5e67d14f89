-------------------------- MODULE CheckpointManager --------------------------
(***************************************************************************)
(* The checkpoint store of one agentic run: backend/core/                  *)
(* checkpoint_manager.py, CheckpointManager._store[run_id].                *)
(*                                                                         *)
(* The store is a function from step numbers to snapshots.  Snapshots are  *)
(* deep copies, so a value here never changes after it is saved.  The      *)
(* stores of different runs share nothing but the outer dict, so one run's *)
(* store is modelled; an empty store and an absent one behave alike.       *)
(***************************************************************************)
EXTENDS Integers, FiniteSets

CONSTANT MaxCheckpoints   \* max_checkpoints_per_run, 20 in the code

ASSUME CapAssumption == MaxCheckpoints \in Nat \ {0}

\* clear(run_id): the run has no entry in the outer dict.
NoCheckpoints == [n \in {} |-> {}]

\* run_store[step_num] = cp
Put(store, n, cp) ==
    [m \in DOMAIN store \cup {n} |-> IF m = n THEN cp ELSE store[m]]

\* A slip: max for min, so the snapshot just saved is evicted.
SlipOldest(store) == CHOOSE n \in DOMAIN store : \A m \in DOMAIN store : m <= n

Oldest(store) == CHOOSE n \in DOMAIN store : \A m \in DOMAIN store : n <= m
Newest(store) == CHOOSE n \in DOMAIN store : \A m \in DOMAIN store : m <= n

\* A slip: the cap is never enforced.
SlipEvict(store) == store

\* "Evict oldest checkpoint when over cap": min(run_store) goes.
Evict(store) ==
    IF Cardinality(DOMAIN store) > MaxCheckpoints
    THEN [m \in DOMAIN store \ {Oldest(store)} |-> store[m]]
    ELSE store

\* save: store the snapshot under its step number, then enforce the cap.
Save(store, n, cp) == Evict(Put(store, n, cp))

\* restore_last returns None exactly when this is false.
Restorable(store) == DOMAIN store # {}

\* restore_last: the snapshot with the greatest step number.
RestoreLast(store) == store[Newest(store)]
=============================================================================
