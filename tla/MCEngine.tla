------------------------------ MODULE MCEngine ------------------------------
(* Instance of the engine and the deployment manager for TLC.              *)
EXTENDS EngineCache, TLC
CONSTANTS v1, v2
ReleaseSeqOf == (v1 :> 1) @@ (v2 :> 2)
RequestSymmetry == Permutations(Request)

(* A device that runs v1 at generation 1, with its agents and its server   *)
(* up and no request yet: a reachable state of EngineSpec to start from.   *)
SettledInit ==
    /\ hasState = TRUE
    /\ state = CommitOf(EmptyState, "A", v1, 1)
    /\ slotDir = [s \in Slot |-> IF s = "A" THEN v1 ELSE Absent]
    /\ backupDir = [s \in Slot |-> Absent]
    /\ candDir = [s \in Slot |-> Absent]
    /\ pending = NoJournal
    /\ anchor = 1
    /\ lock = Free
    /\ pc = [p \in Proc |-> "idle"]
    /\ base = [p \in Proc |-> EmptyState]
    /\ ver = [p \in Proc |-> None]
    /\ tgt = [p \in Proc |-> None]
    /\ trusted = [p \in Proc |-> 1]
    /\ poisoned = [p \in Proc |-> FALSE]
    /\ cache = Nothing
    /\ engineLock = Free
    /\ rpc = [r \in Request |-> "new"]
    /\ phase = [r \in Request |-> "identity"]
    /\ seen = [r \in Request |-> EmptyState]
    /\ observed = [r \in Request |-> NoFloor]
    /\ snap = [r \in Request |-> Nothing]
    /\ answer = [r \in Request |-> Nothing]
    /\ since = [r \in Request |-> [generation |-> 0, anchor |-> NoFloor]]
    /\ met = [r \in Request |-> {}]
    /\ named = [g \in 0..MaxGeneration |-> IF g = 1 THEN v1 ELSE None]

SettledSpec == SettledInit /\ [][EngineNext]_allVars
=============================================================================
