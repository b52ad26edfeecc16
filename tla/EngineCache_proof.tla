-------------------------- MODULE EngineCache_proof --------------------------
(***************************************************************************)
(* What the inference engine promises while any number of requests and     *)
(* agents interleave, for every set of releases and faults.  The safety of *)
(* the deployment manager carries over (DeploymentSafe); on top of it the  *)
(* engine's lock orders the refreshes of the cache, and the anchor check   *)
(* is followed through the floor its threads share.                        *)
(***************************************************************************)
EXTENDS EngineCache, ABDeployer_proof

RPC == {"new", "identify", "pending", "floor", "refresh", "store", "compare",
        "lookup", "snapshot", "open", "install", "bound", "refused"}

Finished == {"new", "bound", "refused"}
Unread == {"new", "identify"}
Validating == {"pending", "floor", "refresh", "store", "compare"}

(* The requests that hold the engine's lock, and of these the ones that    *)
(* hold the deployment lock in shared mode.                                *)
Holds(r) ==
    \/ rpc[r] \in {"snapshot", "open", "install"}
    \/ phase[r] = "snapshot" /\ rpc[r] \in Validating

Shares(r) == Holds(r) /\ rpc[r] \notin {"snapshot", "install"}

EngineTypeOK ==
    /\ cache \in Material
    /\ engineLock \in Request \cup {Free}
    /\ rpc \in [Request -> RPC]
    /\ phase \in [Request -> {"identity", "snapshot"}]
    /\ seen \in [Request -> DeploymentState]
    /\ observed \in [Request -> Floor]
    /\ snap \in [Request -> Material]
    /\ answer \in [Request -> Material]
    /\ since \in [Request -> [generation : Nat, anchor : Floor]]
    /\ met \in [Request -> SUBSET Request]
    /\ named \in [0..MaxGeneration -> Version \cup {None}]

(* No writer, nor the recovery of one, goes past the last generation.      *)
BoundInv ==
    /\ state.generation <= MaxGeneration
    /\ JournalExists => pending.generation < MaxGeneration
    /\ \A p \in Proc : pc[p] \in Uncommitted => state.generation < MaxGeneration

HoldInv ==
    \A r \in Request :
        /\ Holds(r) => engineLock = r
        /\ Shares(r) => lock = Server
        /\ rpc[r] \in Unread => phase[r] = "identity"
        /\ rpc[r] # "new" => pc[Server] = "idle"

(* What a request read is no older than its arrival, no newer than now.    *)
ReadInv ==
    \A r \in Request :
        /\ rpc[r] # "new" => since[r].generation <= state.generation
        /\ rpc[r] \notin Unread =>
              /\ since[r].generation <= seen[r].generation
              /\ seen[r].generation <= state.generation
              /\ seen[r].floor <= state.floor
        /\ rpc[r] = "lookup" => ActiveVersion(seen[r]) # None

(* The bytes are those of the version that generation made active.         *)
Coherent(m) ==
    /\ m.generation <= state.generation
    /\ m.version = named[m.generation]
    /\ m.bytes = m.version

CoherenceInv ==
    /\ named[state.generation] = ActiveVersion(state)
    /\ cache.generation <= state.generation
    /\ cache.version # None => Coherent(cache)
    /\ \A r \in Request :
          /\ rpc[r] = "install" =>
                /\ Coherent(snap[r])
                /\ cache.generation <= snap[r].generation
                /\ since[r].generation <= snap[r].generation
          /\ rpc[r] = "bound" => Coherent(answer[r])

(* A floor some request of S has read back from the anchor: no lower than  *)
(* the floor of the state it read before.                                  *)
Explained(S) ==
    \E q \in S : rpc[q] \notin Unread /\ seen[q].floor <= trusted[Server]

(* The anchor is read only if there is one, and after state.json.          *)
ReadBackInv ==
    \A r \in Request :
        /\ rpc[r] \in Validating \ {"pending"} => UseAnchor
        /\ rpc[r] = "store" => seen[r].floor <= observed[r] /\ observed[r] <= anchor

(* Before its verdict a request finds the floor it compared with, or one   *)
(* that it or a request under way with it has read back.                   *)
VerdictInv ==
    \A r \in Request : rpc[r] = "compare" =>
        trusted[Server] = FloorRead(r) \/ Explained(met[r] \cup {r})

MetInv ==
    \A r \in Request : \A q \in Request \ {r} :
        rpc[r] \notin Finished /\ rpc[q] \notin Finished => q \in met[r]

EngineInv ==
    /\ IInv /\ BoundInv /\ EngineTypeOK
    /\ HoldInv /\ ReadInv /\ CoherenceInv
    /\ ReadBackInv /\ VerdictInv /\ MetInv

USE DEF dirVars, fileVars, jobVars, memVars, Fenced, Uncommitted, Locked,
        DeployPC, RecoverPC, PC, locals, history, engineVars

-----------------------------------------------------------------------------
(* The deployment manager below the engine                                 *)

LEMMA DeploymentIsNext ==
    ASSUME NEW p \in Proc, DeploymentStep(p)
    PROVE  Next
BY DEF DeploymentStep, Next

(* Files only move forward: one generation at a time, floors upwards.      *)
LEMMA Forward ==
    ASSUME IInv, [Next]_vars
    PROVE  /\ state' = state \/ state'.generation = state.generation + 1
           /\ state.generation <= state'.generation
           /\ state.floor <= state'.floor
           /\ anchor <= anchor'
           /\ state \in DeploymentState /\ state' \in DeploymentState
           /\ anchor \in Int /\ anchor' \in Int
<1>1. state \in DeploymentState /\ anchor \in Int
  BY FloorsAreIntegers DEF IInv, TypeOK, DiskTypeOK
<1>2. state' \in DeploymentState /\ anchor' \in Int
  BY NextIInv, FloorsAreIntegers DEF IInv, TypeOK, DiskTypeOK
<1>3. state.generation \in Int /\ state.floor \in Int /\ state'.floor \in Int
  BY <1>1, <1>2, FloorsAreIntegers DEF DeploymentState
<1>4. CASE state' = state
  BY <1>1, <1>2, <1>3, <1>4, StateSteps
<1>5. CASE Written(state, state')
  BY <1>1, <1>2, <1>3, <1>5, StateSteps, WrittenFacts
<1> QED BY <1>4, <1>5, StateSteps

(* No action but these six writes state.json or a journal, or begins a     *)
(* transaction.                                                            *)
LEMMA BoundStep ==
    ASSUME IInv, BoundInv, [Next]_vars
    PROVE  BoundInv'
<1>t. /\ state \in DeploymentState /\ state.generation \in Int
      /\ pc \in [Proc -> PC] /\ MaxGeneration \in Int
  BY ModeAssumption DEF IInv, TypeOK, DiskTypeOK, ControlTypeOK, DeploymentState
<1>f. \A p \in Proc : pc[p] \in Fenced => base[p] = state
  BY DEF IInv, TransactionInv, Transaction
<1>l. \A p \in Proc : pc[p] \in Locked => \A q \in Proc \ {p} : pc[q] \notin Locked
  BY DEF IInv, LockInv
<1>n. ~(NoJournal.version # None)
  BY DEF NoJournal
<1>1. ASSUME UNCHANGED state, pending' = pending \/ pending' = NoJournal,
             \A p \in Proc : pc'[p] \in Uncommitted => pc[p] \in Uncommitted
      PROVE  BoundInv'
  BY <1>1, <1>n DEF BoundInv, JournalExists
<1>2. ASSUME NEW p \in Proc, NEW to \in PC, pc[p] \in Locked,
             pc' = [pc EXCEPT ![p] = to], to \notin Uncommitted,
             pending' = pending, state'.generation <= MaxGeneration
      PROVE  BoundInv'
  BY <1>2, <1>l, <1>t DEF BoundInv, JournalExists
<1>3. ASSUME NEW p \in Proc, NEW v \in Version, NEW allow, DeployBegin(p, v, allow)
      PROVE  BoundInv'
  BY <1>3, <1>t DEF DeployBegin, BoundInv, JournalExists
<1>4. ASSUME NEW p \in Proc, GateFail(p) PROVE BoundInv'
  <2>1. base[p] = state /\ state.generation < MaxGeneration
    BY <1>4, <1>f DEF GateFail, BoundInv
  <2>2. state'.generation <= MaxGeneration
    BY <1>4, <2>1, <1>t DEF GateFail, FailedOf, BoundInv
  <2> QED BY <1>4, <2>2, <1>2 DEF GateFail, Leave
<1>5. ASSUME NEW p \in Proc, WriteJournal(p) PROVE BoundInv'
  <2>1. base[p] = state /\ state.generation < MaxGeneration
    BY <1>5, <1>f DEF WriteJournal, BoundInv
  <2>2. \A q \in Proc : pc'[q] \in Uncommitted => state.generation < MaxGeneration
    BY <2>1
  <2>3. CASE pending' = [generation |-> base[p].generation,
                         floor |-> base[p].floor, slot |-> tgt[p],
                         version |-> ver[p], sequence |-> ReleaseSeq[ver[p]]]
    BY <1>5, <2>1, <2>2, <2>3 DEF WriteJournal, BoundInv, JournalExists
  <2>4. CASE pending' = pending
    BY <1>5, <2>2, <2>4 DEF WriteJournal, BoundInv, JournalExists
  <2> QED BY <1>5, <2>3, <2>4 DEF WriteJournal
<1>6. ASSUME NEW p \in Proc, Commit(p) PROVE BoundInv'
  <2>1. base[p] = state /\ state.generation < MaxGeneration
    BY <1>6, <1>f DEF Commit, BoundInv
  <2>2. CASE UNCHANGED state
    BY <1>6, <2>1, <2>2 DEF Commit, BoundInv, JournalExists
  <2>3. CASE /\ state' = CommitOf(base[p], tgt[p], ver[p], NewFloor(base[p], ver[p]))
             /\ Goto(p, IF UseAnchor THEN "unjournal" ELSE "cleanup")
    <3>1. state'.generation <= MaxGeneration
      BY <2>1, <2>3, <1>t DEF CommitOf
    <3> QED BY <1>6, <2>3, <3>1, <1>2 DEF Commit, Goto
  <2> QED BY <1>6, <2>2, <2>3 DEF Commit
<1>7. ASSUME NEW p \in Proc, RecoverAnchorCommit(p) PROVE BoundInv'
  <2>1. CASE UNCHANGED state
    <3>1. \A q \in Proc : pc'[q] \in Uncommitted => pc[q] \in Uncommitted
      BY <1>7, <1>t DEF RecoverAnchorCommit, Goto, Leave
    <3> QED BY <1>7, <2>1, <3>1, <1>1 DEF RecoverAnchorCommit
  <2>2. CASE /\ AnchorAhead(p)
             /\ state' = CommitOf(base[p], pending.slot, pending.version, trusted[p])
             /\ pc' = [pc EXCEPT ![p] = "rec_unjournal"]
    <3>1. base[p] = state
      BY <1>7, <1>f DEF RecoverAnchorCommit
    <3>2. state.generation < MaxGeneration
      BY <2>2, <3>1 DEF AnchorAhead, JournalFollows, BoundInv
    <3>3. state'.generation <= MaxGeneration
      BY <2>2, <3>1, <3>2, <1>t DEF CommitOf
    <3> QED BY <1>7, <2>2, <3>3, <1>2 DEF RecoverAnchorCommit
  <2> QED BY <1>7, <2>1, <2>2 DEF RecoverAnchorCommit
<1>8. ASSUME NEW p \in Proc, Rollback(p) PROVE BoundInv'
  <2>1. \A q \in Proc : pc'[q] \notin Locked
    BY <1>8, ProcAssumption DEF Rollback, IInv, LockInv
  <2>2. state'.generation <= MaxGeneration
    BY <1>8, <1>t DEF Rollback, RolledBackOf
  <2> QED BY <1>8, <2>1, <2>2 DEF Rollback, BoundInv, JournalExists
<1>9. ASSUME NEW p \in Proc,
             \/ Boot(p) \/ RecoverBegin(p) \/ RecoverUnjournal(p)
             \/ (\E s \in Slot : RecoverBackup(p, s)) \/ RecoverBackupsDone(p)
             \/ RecoverCandidates(p) \/ RecoverSlots(p) \/ RecoverFinish(p)
             \/ ReadState(p) \/ Stage(p) \/ GatePass(p) \/ Backup(p)
             \/ Install(p) \/ AdvanceAnchor(p) \/ Unjournal(p) \/ Cleanup(p)
             \/ Undo(p) \/ Stop(p) \/ Ended(p)
      PROVE  BoundInv'
  <2>1. UNCHANGED state /\ (pending' = pending \/ pending' = NoJournal)
    BY <1>9 DEF Boot, RecoverBegin, RecoverUnjournal, RecoverBackup,
       RecoverBackupsDone, RecoverCandidates, RecoverSlots, RecoverFinish,
       ReadState, Stage, GatePass, Backup, Install, AdvanceAnchor, Unjournal,
       Cleanup, Undo, Stop, Ended
  <2>2. \A q \in Proc : pc'[q] \in Uncommitted => pc[q] \in Uncommitted
    <3>1. CASE \/ Boot(p) \/ RecoverBegin(p) \/ RecoverUnjournal(p)
               \/ (\E s \in Slot : RecoverBackup(p, s)) \/ RecoverBackupsDone(p)
               \/ RecoverCandidates(p) \/ RecoverSlots(p) \/ RecoverFinish(p)
               \/ ReadState(p) \/ Unjournal(p) \/ Cleanup(p) \/ Undo(p)
               \/ Stop(p) \/ Ended(p)
      BY <3>1, <1>t, ZenonT(60) DEF Boot, RecoverBegin, RecoverUnjournal, RecoverBackup,
         RecoverBackupsDone, RecoverCandidates, RecoverSlots, RecoverFinish,
         ReadState, Unjournal, Cleanup, Undo, Stop, Ended, Goto, Leave
    <3>2. CASE \/ Stage(p) \/ GatePass(p) \/ Backup(p) \/ Install(p)
               \/ AdvanceAnchor(p)
      BY <3>2, <1>t DEF Stage, GatePass, Backup, Install, AdvanceAnchor, Goto, Leave
    <3> QED BY <1>9, <3>1, <3>2
  <2> QED BY <2>1, <2>2, <1>1
<1>10. ASSUME UNCHANGED vars PROVE BoundInv'
  BY <1>10 DEF vars, BoundInv, JournalExists
<1> QED BY <1>3, <1>4, <1>5, <1>6, <1>7, <1>8, <1>9, <1>10
        DEF Next, Recover, RecoverRaises, DeployStep, Crash

(* Once the server is up, agents leave its cached floor alone, and state.json *)
(* too while it holds the deployment lock.                                 *)
LEMMA ServerFrame ==
    ASSUME IInv, NEW p \in Proc, DeploymentStep(p), pc[Server] = "idle"
    PROVE  /\ pc'[Server] = "idle"
           /\ trusted'[Server] = trusted[Server]
           /\ lock = Server => lock' = Server /\ state' = state
<1>t. /\ pc \in [Proc -> PC] /\ trusted \in [Proc -> Floor]
      /\ Server \in Proc /\ Free \notin Proc /\ Server # Free
  BY ServerAssumption, ProcAssumption DEF IInv, TypeOK, ControlTypeOK, CacheTypeOK
<1>1. ~Boot(Server) /\ ~Recover(Server) /\ ~RecoverRaises(Server)
  BY DEF Boot, Recover, RecoverRaises, RecoverBegin, RecoverAnchorCommit, RecoverUnjournal,
     RecoverBackup, RecoverBackupsDone, RecoverCandidates, RecoverSlots,
     RecoverFinish
<1>2. p # Server
  BY <1>1 DEF DeploymentStep
<1>3. lock = Server => pc[p] \notin Locked
  BY <1>2, <1>t DEF IInv, LockInv
<1>4. ASSUME Boot(p) \/ Stop(p) \/ Ended(p) \/ Rollback(p)
             \/ \E v \in Version, allow \in BOOLEAN : DeployBegin(p, v, allow)
      PROVE  /\ pc'[Server] = "idle" /\ trusted'[Server] = trusted[Server]
             /\ lock = Server => lock' = Server /\ state' = state
  BY <1>4, <1>2, <1>t DEF Boot, Stop, Ended, Rollback, DeployBegin, AcquireExclusive
<1>5. ASSUME Recover(p)
      PROVE  /\ pc'[Server] = "idle" /\ trusted'[Server] = trusted[Server]
             /\ lock = Server => lock' = Server /\ state' = state
  BY <1>5, <1>2, <1>3, <1>t DEF Recover, RecoverBegin, RecoverAnchorCommit,
     RecoverUnjournal, RecoverBackup, RecoverBackupsDone, RecoverCandidates,
     RecoverSlots, RecoverFinish, AcquireExclusive, Goto, Leave
<1>6. ASSUME DeployStep(p)
      PROVE  /\ pc'[Server] = "idle" /\ trusted'[Server] = trusted[Server]
             /\ pc[p] \in Locked
  <2>1. ASSUME NEW to, Goto(p, to) \/ Leave(p, to) PROVE pc'[Server] = "idle"
    BY <2>1, <1>2, <1>t DEF Goto, Leave
  <2>2. pc'[Server] = "idle"
    BY <1>6, <2>1 DEF DeployStep, Stage, GatePass, GateFail, Backup, Install,
       WriteJournal, AdvanceAnchor, Commit, Unjournal, Cleanup, Undo
  <2>3. trusted'[Server] = trusted[Server]
    BY <1>6, <1>2, <1>t DEF DeployStep, Stage, GatePass, GateFail, Backup,
       Install, WriteJournal, AdvanceAnchor, Commit, Unjournal, Cleanup, Undo
  <2>4. pc[p] \in Locked
    BY <1>6 DEF DeployStep, Stage, GatePass, GateFail, Backup, Install,
       WriteJournal, AdvanceAnchor, Commit, Unjournal, Cleanup, Undo
  <2> QED BY <2>2, <2>3, <2>4
<1> QED BY <1>1, <1>3, <1>4, <1>5, <1>6 DEF DeploymentStep, Crash, RecoverRaises

-----------------------------------------------------------------------------
(* One request's steps                                                     *)

LEMMA EngineTypes ==
    ASSUME EngineInv
    PROVE  /\ cache \in Material /\ engineLock \in Request \cup {Free}
           /\ rpc \in [Request -> RPC]
           /\ phase \in [Request -> {"identity", "snapshot"}]
           /\ seen \in [Request -> DeploymentState]
           /\ observed \in [Request -> Floor]
           /\ snap \in [Request -> Material] /\ answer \in [Request -> Material]
           /\ since \in [Request -> [generation : Nat, anchor : Floor]]
           /\ met \in [Request -> SUBSET Request]
           /\ named \in [0..MaxGeneration -> Version \cup {None}]
           /\ trusted \in [Proc -> Floor] /\ anchor \in Floor
           /\ state \in DeploymentState /\ slotDir \in [Slot -> Content]
           /\ Server \in Proc /\ Free \notin Request /\ Free # Server
BY ServerAssumption, RequestAssumption, ProcAssumption
   DEF EngineInv, EngineTypeOK, IInv, TypeOK, DiskTypeOK, ControlTypeOK, CacheTypeOK

LEMMA StateIntegers ==
    ASSUME NEW st \in DeploymentState
    PROVE  st.generation \in Int /\ st.floor \in Int
BY FloorsAreIntegers DEF DeploymentState

LEMMA MaterialTypes ==
    ASSUME NEW m \in Material
    PROVE  m.generation \in Nat /\ m.version \in Version \cup {None}
BY DEF Material

(* A lock that is free, or shared by the server's reader, fences nobody.   *)
LEMMA NobodyInside ==
    ASSUME IInv, lock = Free \/ (lock = Server /\ pc[Server] = "idle")
    PROVE  \A p \in Proc : pc[p] \notin Locked
BY ProcAssumption, ServerAssumption DEF IInv, LockInv

(* A request changes the lock and the server's cached floor at most.       *)
LEMMA DeployerFrame ==
    ASSUME IInv, BoundInv,
           UNCHANGED <<dirVars, fileVars, anchor, pc, jobVars, poisoned>>,
           \/ lock' = lock
           \/ lock' \in {Free, Server} /\ \A p \in Proc : pc[p] \notin Locked,
           \/ trusted' = trusted
           \/ \E fl \in Floor : /\ trusted' = [trusted EXCEPT ![Server] = fl]
                                /\ UseAnchor => fl <= anchor
    PROVE  IInv' /\ BoundInv'
<1>1. DiskTypeOK' /\ ControlTypeOK' /\ CacheTypeOK'
  BY ServerAssumption
     DEF IInv, TypeOK, DiskTypeOK, ControlTypeOK, CacheTypeOK
<1>2. LockInv'
  BY DEF IInv, LockInv
<1>3. TransactionInv'
  BY DEF IInv, TransactionInv, Transaction
<1>4. CacheInv'
  BY DEF IInv, TypeOK, CacheTypeOK, CacheInv
<1>5. Safe'
  BY SafeFrame DEF IInv
<1>6. BoundInv'
  BY DEF BoundInv, JournalExists
<1> QED BY <1>1, <1>2, <1>3, <1>4, <1>5, <1>6 DEF IInv, TypeOK

(* A step of r that leaves the shared floor alone disturbs no other        *)
(* request's verdict.                                                      *)
LEMMA VerdictFrame ==
    ASSUME EngineInv, NEW r \in Request,
           UNCHANGED <<state, trusted>>,
           \A q \in Request \ {r} :
               /\ rpc'[q] = rpc[q] /\ phase'[q] = phase[q] /\ seen'[q] = seen[q]
               /\ met[q] \subseteq met'[q],
           rpc[r] \notin Unread => rpc'[r] \notin Unread /\ seen'[r] = seen[r],
           rpc'[r] = "compare" =>
               trusted[Server] = FloorRead(r)' \/ Explained(met[r] \cup {r})'
    PROVE  VerdictInv'
<1> SUFFICES ASSUME NEW q \in Request, rpc'[q] = "compare", q # r
             PROVE  trusted'[Server] = FloorRead(q)' \/ Explained(met[q] \cup {q})'
  BY DEF VerdictInv
<1>m. met \in [Request -> SUBSET Request]
  BY EngineTypes
<1>1. CASE trusted[Server] = FloorRead(q)
  BY <1>1 DEF FloorRead
<1>2. CASE Explained(met[q] \cup {q})
  <2>1. PICK w \in met[q] \cup {q} :
             rpc[w] \notin Unread /\ seen[w].floor <= trusted[Server]
    BY <1>2 DEF Explained
  <2>2. w \in Request /\ w \in met'[q] \cup {q}
    BY <2>1, <1>m
  <2>3. rpc'[w] \notin Unread /\ seen'[w] = seen[w]
    BY <2>1, <2>2
  <2> QED BY <2>1, <2>2, <2>3 DEF Explained
<1> QED BY <1>1, <1>2 DEF EngineInv, VerdictInv

LEMMA ArriveStep ==
    ASSUME EngineInv, NEW r \in Request, Arrive(r)
    PROVE  EngineInv'
<1>t. /\ rpc \in [Request -> RPC] /\ state \in DeploymentState /\ anchor \in Floor
      /\ since \in [Request -> [generation : Nat, anchor : Floor]]
      /\ met \in [Request -> SUBSET Request]
  BY EngineTypes
<1>u. UnderWay \subseteq Request /\ \A q \in Request : q \in UnderWay <=> rpc[q] \notin Finished
  BY DEF UnderWay, Finished
<1>1. IInv' /\ BoundInv'
  BY DeployerFrame DEF EngineInv, Arrive, vars
<1>2. EngineTypeOK'
  <2>1. [generation |-> state.generation, anchor |-> anchor]
            \in [generation : Nat, anchor : Floor]
    BY <1>t DEF DeploymentState
  <2>2. met' \in [Request -> SUBSET Request]
    BY <1>t, <1>u DEF Arrive
  <2> QED BY <1>t, <2>1, <2>2 DEF EngineInv, EngineTypeOK, Arrive, Move, RPC
<1>3. HoldInv'
  BY <1>t DEF EngineInv, HoldInv, Holds, Shares, Unread, Validating, Arrive, Move, vars
<1>4. ReadInv'
  <2>1. since'[r].generation <= state.generation
    BY <1>t, StateIntegers DEF Arrive
  <2> QED BY <2>1, <1>t DEF EngineInv, ReadInv, Unread, Arrive, Move, vars
<1>5. CoherenceInv'
  BY <1>t DEF EngineInv, CoherenceInv, Coherent, Arrive, Move, vars
<1>6. ReadBackInv'
  BY <1>t DEF EngineInv, ReadBackInv, Validating, Arrive, Move, vars
<1>7. VerdictInv'
  <2>1. \A q \in Request \ {r} : met[q] \subseteq met'[q]
    BY <1>t, <1>u DEF Arrive
  <2>2. rpc[r] = "new" /\ rpc' = [rpc EXCEPT ![r] = "identify"]
    BY DEF Arrive, Move
  <2> QED BY <1>t, <2>1, <2>2, VerdictFrame DEF Arrive, Unread, vars
<1>8. MetInv'
  <2>1. ASSUME NEW q \in Request \ {r}, rpc[q] \notin Finished
        PROVE  r \in met'[q] /\ q \in met'[r]
    <3>1. q \in UnderWay
      BY <2>1, <1>u
    <3>2. r \notin UnderWay
      BY DEF UnderWay, Arrive
    <3>3. met'[r] = UnderWay
      BY <3>2 DEF Arrive
    <3>4. met'[q] = met[q] \cup {r}
      BY <3>1, <2>1 DEF Arrive
    <3> QED BY <3>1, <3>3, <3>4
  <2>2. \A q \in Request \ {r} : met[q] \subseteq met'[q]
    BY <1>t, <1>u DEF Arrive
  <2>3. rpc' = [rpc EXCEPT ![r] = "identify"]
    BY DEF Arrive, Move
  <2> QED BY <1>t, <2>1, <2>2, <2>3 DEF EngineInv, MetInv, Finished
<1> QED BY <1>1, <1>2, <1>3, <1>4, <1>5, <1>6, <1>7, <1>8 DEF EngineInv

LEMMA ReadIdentityStep ==
    ASSUME EngineInv, NEW r \in Request, ReadIdentity(r)
    PROVE  EngineInv'
<1>t. /\ rpc \in [Request -> RPC] /\ state \in DeploymentState
      /\ seen \in [Request -> DeploymentState]
  BY EngineTypes
<1>r. rpc[r] = "identify" /\ rpc' = [rpc EXCEPT ![r] = "pending"]
      /\ seen' = [seen EXCEPT ![r] = state]
      /\ UNCHANGED <<vars, cache, engineLock, phase, observed, snap, answer, since, met, named>>
  BY DEF ReadIdentity, Move
<1>1. IInv' /\ BoundInv'
  BY <1>r, DeployerFrame DEF EngineInv, vars
<1>2. EngineTypeOK'
  BY <1>t, <1>r DEF EngineInv, EngineTypeOK, RPC
<1>3. HoldInv'
  BY <1>t, <1>r DEF EngineInv, HoldInv, Holds, Shares, Unread, Validating, vars
<1>4. ReadInv'
  BY <1>t, <1>r, StateIntegers DEF EngineInv, ReadInv, Unread, vars
<1>5. CoherenceInv'
  BY <1>t, <1>r DEF EngineInv, CoherenceInv, Coherent, vars
<1>6. ReadBackInv'
  BY <1>t, <1>r DEF EngineInv, ReadBackInv, Validating, vars
<1>7. VerdictInv'
  BY <1>t, <1>r, VerdictFrame DEF Unread, vars
<1>8. MetInv'
  BY <1>t, <1>r DEF EngineInv, MetInv, Finished
<1> QED BY <1>1, <1>2, <1>3, <1>4, <1>5, <1>6, <1>7, <1>8 DEF EngineInv

(* The verdict of _validate_state_anchor, with or without an anchor.       *)
LEMMA VerdictStep ==
    ASSUME EngineInv, NEW r \in Request, rpc[r] \in {"pending", "compare"},
           Accept(r) \/ Reject(r),
           UNCHANGED <<dirVars, fileVars, anchor, pc, jobVars, memVars, cache,
                       locals, answer, history>>
    PROVE  EngineInv'
<1>t. /\ rpc \in [Request -> RPC] /\ state \in DeploymentState
      /\ phase \in [Request -> {"identity", "snapshot"}]
      /\ engineLock \in Request \cup {Free} /\ Free \notin Request /\ Free # Server
  BY EngineTypes
<1>h. /\ phase[r] = "snapshot" => engineLock = r /\ lock = Server
      /\ pc[Server] = "idle"
  BY DEF EngineInv, HoldInv, Holds, Shares, Validating
<1>a. PICK to \in {"open", "refused", "lookup"} :
          /\ rpc' = [rpc EXCEPT ![r] = to]
          /\ to = "open" => phase[r] = "snapshot"
          /\ to = "lookup" => phase[r] = "identity" /\ ActiveVersion(seen[r]) # None
          /\ to # "refused" => UNCHANGED <<lock, engineLock>>
          /\ phase[r] = "identity" => UNCHANGED <<lock, engineLock>>
          /\ \/ UNCHANGED <<lock, engineLock>>
             \/ phase[r] = "snapshot" /\ lock' = Free /\ engineLock' = Free
  <2>1. CASE Accept(r)
    <3>1. CASE phase[r] = "snapshot"
      BY <2>1, <3>1 DEF Accept, Move
    <3>2. CASE phase[r] = "identity" /\ ActiveVersion(seen[r]) = None
      BY <2>1, <3>2 DEF Accept, Move
    <3>3. CASE phase[r] = "identity" /\ ActiveVersion(seen[r]) # None
      BY <2>1, <3>3 DEF Accept, Move
    <3> QED BY <1>t, <3>1, <3>2, <3>3
  <2>2. CASE Reject(r)
    BY <2>2, <1>t DEF Reject, Move
  <2> QED BY <2>1, <2>2
<1>1. IInv' /\ BoundInv'
  <2>1. CASE lock' = lock
    BY <2>1, DeployerFrame DEF EngineInv
  <2>2. CASE lock' = Free /\ lock = Server
    <3>1. \A p \in Proc : pc[p] \notin Locked
      BY <2>2, <1>h, NobodyInside DEF EngineInv
    <3> QED BY <2>2, <3>1, DeployerFrame DEF EngineInv
  <2> QED BY <1>a, <1>h, <2>1, <2>2
<1>2. EngineTypeOK'
  BY <1>t, <1>a DEF EngineInv, EngineTypeOK, RPC
<1>3. HoldInv'
  BY <1>t, <1>a, <1>h DEF EngineInv, HoldInv, Holds, Shares, Unread, Validating
<1>4. ReadInv'
  BY <1>t, <1>a DEF EngineInv, ReadInv, Unread
<1>5. CoherenceInv'
  BY <1>t, <1>a DEF EngineInv, CoherenceInv, Coherent
<1>6. ReadBackInv'
  BY <1>t, <1>a DEF EngineInv, ReadBackInv, Validating
<1>7. VerdictInv'
  BY <1>t, <1>a, VerdictFrame DEF Unread
<1>8. MetInv'
  BY <1>t, <1>a DEF EngineInv, MetInv, Finished
<1> QED BY <1>1, <1>2, <1>3, <1>4, <1>5, <1>6, <1>7, <1>8 DEF EngineInv

(* A move within the validation keeps the locks.                           *)
LEMMA ValidatingMove ==
    ASSUME EngineInv, NEW r \in Request, NEW to \in {"floor", "refresh", "compare"},
           rpc[r] \in {"pending", "floor"}, Move(r, to), UseAnchor,
           to = "compare" => trusted[Server] = FloorRead(r),
           UNCHANGED <<vars, cache, engineLock, locals, answer, history>>
    PROVE  EngineInv'
<1>t. rpc \in [Request -> RPC]
  BY EngineTypes
<1>r. rpc' = [rpc EXCEPT ![r] = to]
  BY DEF Move
<1>1. IInv' /\ BoundInv'
  BY DeployerFrame DEF EngineInv, vars
<1>2. EngineTypeOK'
  BY <1>t, <1>r DEF EngineInv, EngineTypeOK, RPC
<1>3. HoldInv'
  BY <1>t, <1>r DEF EngineInv, HoldInv, Holds, Shares, Unread, Validating, vars
<1>4. ReadInv'
  BY <1>t, <1>r DEF EngineInv, ReadInv, Unread, vars
<1>5. CoherenceInv'
  BY <1>t, <1>r DEF EngineInv, CoherenceInv, Coherent, vars
<1>6. ReadBackInv'
  BY <1>t, <1>r DEF EngineInv, ReadBackInv, Validating, vars
<1>7. VerdictInv'
  <2>1. FloorRead(r)' = FloorRead(r)
    BY DEF FloorRead, vars
  <2> QED BY <1>t, <1>r, <2>1, VerdictFrame DEF Unread, vars
<1>8. MetInv'
  BY <1>t, <1>r DEF EngineInv, MetInv, Finished
<1> QED BY <1>1, <1>2, <1>3, <1>4, <1>5, <1>6, <1>7, <1>8 DEF EngineInv

LEMMA LookForJournalStep ==
    ASSUME EngineInv, NEW r \in Request, LookForJournal(r)
    PROVE  EngineInv'
<1>1. CASE ~UseAnchor
  BY <1>1, VerdictStep DEF LookForJournal
<1>2. CASE UseAnchor
  <2>1. /\ rpc[r] = "pending"
        /\ \E to \in {"floor", "refresh"} : Move(r, to)
        /\ UNCHANGED <<vars, cache, engineLock, locals, answer, history>>
    BY <1>2 DEF LookForJournal, vars
  <2> QED BY <1>2, <2>1, ValidatingMove
<1> QED BY <1>1, <1>2

LEMMA CompareCachedStep ==
    ASSUME EngineInv, NEW r \in Request, CompareCached(r)
    PROVE  EngineInv'
<1>1. UseAnchor
  BY DEF EngineInv, ReadBackInv, Validating, CompareCached
<1>2. CASE FloorRead(r) = trusted[Server]
  BY <1>1, <1>2, ValidatingMove DEF CompareCached
<1>3. CASE FloorRead(r) # trusted[Server]
  BY <1>1, <1>3, ValidatingMove DEF CompareCached
<1> QED BY <1>2, <1>3

(* The anchor is read after state.json, whose floor it never lies below.   *)
LEMMA ReadAnchorStep ==
    ASSUME EngineInv, NEW r \in Request, ReadAnchor(r)
    PROVE  EngineInv'
<1>t. /\ rpc \in [Request -> RPC] /\ observed \in [Request -> Floor]
      /\ anchor \in Floor /\ state \in DeploymentState
      /\ seen \in [Request -> DeploymentState]
  BY EngineTypes
<1>r. /\ rpc[r] = "refresh" /\ rpc' = [rpc EXCEPT ![r] = "store"]
      /\ observed' = [observed EXCEPT ![r] = anchor]
      /\ UNCHANGED <<vars, cache, engineLock, phase, seen, snap, answer, since, met, named>>
  BY DEF ReadAnchor, Move
<1>1. IInv' /\ BoundInv'
  BY <1>r, DeployerFrame DEF EngineInv, vars
<1>2. EngineTypeOK'
  BY <1>t, <1>r DEF EngineInv, EngineTypeOK, RPC
<1>3. HoldInv'
  BY <1>t, <1>r DEF EngineInv, HoldInv, Holds, Shares, Unread, Validating, vars
<1>4. ReadInv'
  BY <1>t, <1>r DEF EngineInv, ReadInv, Unread, vars
<1>5. CoherenceInv'
  BY <1>t, <1>r DEF EngineInv, CoherenceInv, Coherent, vars
<1>6. ReadBackInv'
  <2>1. UseAnchor /\ state.floor <= anchor
    BY <1>r DEF EngineInv, ReadBackInv, Validating, IInv, Safe, AnchorNeverBehind
  <2>2. seen[r].floor <= state.floor
    BY <1>r DEF EngineInv, ReadInv, Unread
  <2>3. seen[r].floor \in Int /\ state.floor \in Int /\ anchor \in Int
    BY <1>t, FloorsAreIntegers
  <2>4. seen[r].floor <= anchor /\ anchor <= anchor
    BY <2>1, <2>2, <2>3
  <2> QED BY <1>t, <1>r, <2>1, <2>4 DEF EngineInv, ReadBackInv, Validating, vars
<1>7. VerdictInv'
  BY <1>t, <1>r, VerdictFrame DEF Unread, vars
<1>8. MetInv'
  BY <1>t, <1>r DEF EngineInv, MetInv, Finished
<1> QED BY <1>1, <1>2, <1>3, <1>4, <1>5, <1>6, <1>7, <1>8 DEF EngineInv

(* The one step that changes the shared floor: whoever is about to compare *)
(* is under way together with r, so r's reading explains what it finds.    *)
LEMMA StoreFloorStep ==
    ASSUME EngineInv, NEW r \in Request, StoreFloor(r)
    PROVE  EngineInv'
<1>t. /\ rpc \in [Request -> RPC] /\ observed \in [Request -> Floor]
      /\ trusted \in [Proc -> Floor] /\ Server \in Proc
      /\ NoFloor \in Floor
  BY EngineTypes DEF Floor
<1>r. /\ rpc[r] = "store" /\ rpc' = [rpc EXCEPT ![r] = "compare"]
      /\ trusted' = [trusted EXCEPT ![Server] = observed[r]]
      /\ observed' = [observed EXCEPT ![r] = NoFloor]
      /\ UNCHANGED <<dirVars, fileVars, anchor, lock, pc, jobVars, poisoned, cache,
                     engineLock, phase, seen, snap, answer, since, met, named>>
  BY DEF StoreFloor, RefreshFloor, Move
<1>o. UseAnchor /\ seen[r].floor <= observed[r] /\ observed[r] <= anchor
  BY <1>r DEF EngineInv, ReadBackInv, Validating
<1>1. IInv' /\ BoundInv'
  BY <1>t, <1>r, <1>o, DeployerFrame DEF EngineInv
<1>2. EngineTypeOK'
  BY <1>t, <1>r DEF EngineInv, EngineTypeOK, RPC
<1>3. HoldInv'
  BY <1>t, <1>r DEF EngineInv, HoldInv, Holds, Shares, Unread, Validating
<1>4. ReadInv'
  BY <1>t, <1>r DEF EngineInv, ReadInv, Unread
<1>5. CoherenceInv'
  BY <1>t, <1>r DEF EngineInv, CoherenceInv, Coherent
<1>6. ReadBackInv'
  BY <1>t, <1>r, <1>o DEF EngineInv, ReadBackInv, Validating
<1>7. VerdictInv'
  <2> SUFFICES ASSUME NEW q \in Request, rpc'[q] = "compare"
               PROVE  Explained(met[q] \cup {q})'
    BY DEF VerdictInv
  <2>1. r \in met'[q] \cup {q}
    <3>1. q = r \/ rpc[q] = "compare"
      BY <1>t, <1>r
    <3> QED BY <3>1, <1>r DEF EngineInv, MetInv, Finished
  <2>2. rpc'[r] \notin Unread /\ seen'[r].floor <= trusted'[Server]
    BY <1>t, <1>r, <1>o DEF Unread
  <2> QED BY <2>1, <2>2 DEF Explained
<1>8. MetInv'
  BY <1>t, <1>r DEF EngineInv, MetInv, Finished
<1> QED BY <1>1, <1>2, <1>3, <1>4, <1>5, <1>6, <1>7, <1>8 DEF EngineInv

LEMMA CompareFloorStep ==
    ASSUME EngineInv, NEW r \in Request, CompareFloor(r)
    PROVE  EngineInv'
<1>1. rpc[r] = "compare" /\ (Accept(r) \/ Reject(r))
  BY DEF CompareFloor
<1> QED BY <1>1, VerdictStep DEF CompareFloor

(* A hit answers with what is coherent already, a miss takes the lock.     *)
LEMMA LookUpStep ==
    ASSUME EngineInv, NEW r \in Request, LookUp(r)
    PROVE  EngineInv'
<1>t. /\ rpc \in [Request -> RPC] /\ answer \in [Request -> Material]
      /\ cache \in Material /\ Free \notin Request
  BY EngineTypes
<1>r. /\ rpc[r] = "lookup" /\ engineLock = Free
      /\ UNCHANGED <<vars, cache, phase, seen, observed, snap, since, met, named>>
  BY DEF LookUp, EngineFree
<1>f. \A q \in Request : ~Holds(q)
  BY <1>t, <1>r DEF EngineInv, HoldInv
<1>a. PICK to \in {"bound", "snapshot"} :
          /\ rpc' = [rpc EXCEPT ![r] = to]
          /\ to = "bound" => /\ answer' = [answer EXCEPT ![r] = cache]
                             /\ engineLock' = engineLock /\ CacheHit(r)
          /\ to = "snapshot" => answer' = answer /\ engineLock' = r
  BY DEF LookUp, Move
<1>c. to = "bound" => Coherent(cache)
  BY <1>r, <1>a DEF EngineInv, CoherenceInv, ReadInv, CacheHit
<1>1. IInv' /\ BoundInv'
  BY <1>r, DeployerFrame DEF EngineInv, vars
<1>2. EngineTypeOK'
  <2>1. /\ rpc' \in [Request -> RPC] /\ answer' \in [Request -> Material]
        /\ engineLock' \in Request \cup {Free}
    BY <1>t, <1>r, <1>a DEF RPC
  <2> QED BY <1>r, <2>1 DEF EngineInv, EngineTypeOK
<1>3. HoldInv'
  BY <1>t, <1>r, <1>a, <1>f DEF EngineInv, HoldInv, Holds, Shares, Unread, Validating, vars
<1>4. ReadInv'
  BY <1>t, <1>r, <1>a DEF EngineInv, ReadInv, Unread, vars
<1>5. CoherenceInv'
  BY <1>t, <1>r, <1>a, <1>c DEF EngineInv, CoherenceInv, Coherent, vars
<1>6. ReadBackInv'
  BY <1>t, <1>r, <1>a DEF EngineInv, ReadBackInv, Validating, vars
<1>7. VerdictInv'
  BY <1>t, <1>r, <1>a, VerdictFrame DEF Unread, vars
<1>8. MetInv'
  BY <1>t, <1>r, <1>a DEF EngineInv, MetInv, Finished
<1> QED BY <1>1, <1>2, <1>3, <1>4, <1>5, <1>6, <1>7, <1>8 DEF EngineInv

LEMMA TakeSnapshotStep ==
    ASSUME EngineInv, NEW r \in Request, TakeSnapshot(r)
    PROVE  EngineInv'
<1>t. /\ rpc \in [Request -> RPC] /\ phase \in [Request -> {"identity", "snapshot"}]
      /\ Free # Server
  BY EngineTypes
<1>r. /\ rpc[r] = "snapshot" /\ rpc' = [rpc EXCEPT ![r] = "pending"]
      /\ lock = Free /\ lock' = Server
      /\ phase' = [phase EXCEPT ![r] = "snapshot"]
      /\ UNCHANGED <<dirVars, fileVars, anchor, pc, jobVars, memVars, cache,
                     engineLock, seen, observed, snap, answer, since, met, named>>
  BY DEF TakeSnapshot, Move
<1>1. IInv' /\ BoundInv'
  <2>1. \A p \in Proc : pc[p] \notin Locked
    BY <1>r, NobodyInside DEF EngineInv
  <2> QED BY <1>r, <2>1, DeployerFrame DEF EngineInv
<1>2. EngineTypeOK'
  BY <1>t, <1>r DEF EngineInv, EngineTypeOK, RPC
<1>3. HoldInv'
  BY <1>t, <1>r DEF EngineInv, HoldInv, Holds, Shares, Unread, Validating
<1>4. ReadInv'
  BY <1>t, <1>r DEF EngineInv, ReadInv, Unread
<1>5. CoherenceInv'
  BY <1>t, <1>r DEF EngineInv, CoherenceInv, Coherent
<1>6. ReadBackInv'
  BY <1>t, <1>r DEF EngineInv, ReadBackInv, Validating
<1>7. VerdictInv'
  BY <1>t, <1>r, VerdictFrame DEF Unread
<1>8. MetInv'
  BY <1>t, <1>r DEF EngineInv, MetInv, Finished
<1> QED BY <1>1, <1>2, <1>3, <1>4, <1>5, <1>6, <1>7, <1>8 DEF EngineInv

(* The directory of the active slot holds the version the state names, and *)
(* the current generation made that version active.                        *)
LEMMA OpenSlotStep ==
    ASSUME EngineInv, NEW r \in Request, OpenSlot(r)
    PROVE  EngineInv'
<1> DEFINE taken == [bytes |-> slotDir[state.active],
                     version |-> ActiveVersion(state),
                     generation |-> state.generation]
<1>t. /\ rpc \in [Request -> RPC] /\ snap \in [Request -> Material]
      /\ phase \in [Request -> {"identity", "snapshot"}]
      /\ state \in DeploymentState /\ slotDir \in [Slot -> Content]
      /\ Free # Server /\ Free \notin Request
  BY EngineTypes
<1>h. rpc[r] = "open" /\ engineLock = r /\ lock = Server /\ pc[Server] = "idle"
  BY DEF OpenSlot, EngineInv, HoldInv, Holds, Shares
<1>r. UNCHANGED <<dirVars, fileVars, anchor, pc, jobVars, memVars, cache,
                  phase, seen, observed, answer, since, met, named>>
  BY DEF OpenSlot
<1>a. PICK to \in {"install", "refused"} :
          /\ rpc' = [rpc EXCEPT ![r] = to]
          /\ to = "install" =>
                /\ snap' = [snap EXCEPT ![r] = taken]
                /\ state.active # None /\ slotDir[state.active] = ActiveVersion(state)
                /\ engineLock' = engineLock
          /\ to = "refused" => snap' = snap
          /\ lock' \in {lock, Free}
          /\ engineLock' \in {engineLock, Free}
  <2>1. CASE state.active # None /\ slotDir[state.active] = ActiveVersion(state)
    BY <2>1 DEF OpenSlot, Move
  <2>2. CASE ~(state.active # None /\ slotDir[state.active] = ActiveVersion(state))
    BY <2>2 DEF OpenSlot, Reject, Move
  <2> QED BY <2>1, <2>2
<1>m. to = "install" => /\ taken \in Material
                        /\ taken.generation = state.generation
                        /\ taken.version = ActiveVersion(state)
                        /\ taken.bytes = taken.version
  BY <1>a, <1>t DEF Material, ActiveVersion, DeploymentState
<1> HIDE DEF taken
<1>1. IInv' /\ BoundInv'
  <2>1. \A p \in Proc : pc[p] \notin Locked
    BY <1>h, NobodyInside DEF EngineInv
  <2> QED BY <1>r, <1>a, <2>1, DeployerFrame DEF EngineInv
<1>2. EngineTypeOK'
  <2>1. /\ rpc' \in [Request -> RPC] /\ snap' \in [Request -> Material]
        /\ engineLock' \in Request \cup {Free}
    BY <1>t, <1>h, <1>a, <1>m DEF RPC
  <2> QED BY <1>r, <2>1 DEF EngineInv, EngineTypeOK
<1>3. HoldInv'
  BY <1>t, <1>h, <1>r, <1>a DEF EngineInv, HoldInv, Holds, Shares, Unread, Validating
<1>4. ReadInv'
  BY <1>t, <1>h, <1>r, <1>a DEF EngineInv, ReadInv, Unread
<1>5. CoherenceInv'
  <2>1. to = "install" =>
           /\ Coherent(taken)
           /\ cache.generation <= taken.generation
           /\ since[r].generation <= taken.generation
    BY <1>t, <1>h, <1>m, StateIntegers DEF EngineInv, CoherenceInv, Coherent, ReadInv
  <2> QED BY <1>t, <1>r, <1>a, <2>1 DEF EngineInv, CoherenceInv, Coherent
<1>6. ReadBackInv'
  BY <1>t, <1>r, <1>a DEF EngineInv, ReadBackInv, Validating
<1>7. VerdictInv'
  BY <1>t, <1>r, <1>a, VerdictFrame DEF Unread
<1>8. MetInv'
  BY <1>t, <1>r, <1>a, <1>h DEF EngineInv, MetInv, Finished
<1> QED BY <1>1, <1>2, <1>3, <1>4, <1>5, <1>6, <1>7, <1>8 DEF EngineInv

(* Nobody else is between its snapshot and its installation.               *)
LEMMA InstallSnapshotStep ==
    ASSUME EngineInv, NEW r \in Request, InstallSnapshot(r)
    PROVE  EngineInv'
<1>t. /\ rpc \in [Request -> RPC] /\ snap \in [Request -> Material]
      /\ answer \in [Request -> Material] /\ Free \notin Request
  BY EngineTypes
<1>r. /\ rpc[r] = "install" /\ rpc' = [rpc EXCEPT ![r] = "bound"]
      /\ cache' = snap[r] /\ answer' = [answer EXCEPT ![r] = snap[r]]
      /\ engineLock' = Free /\ snap' = [snap EXCEPT ![r] = Nothing]
      /\ UNCHANGED <<vars, phase, seen, observed, since, met, named>>
  BY DEF InstallSnapshot, Installed, Move
<1>f. \A q \in Request \ {r} : ~Holds(q)
  BY <1>r DEF EngineInv, HoldInv, Holds
<1>n. Nothing \in Material
  BY DEF Nothing, Material, Content
<1>1. IInv' /\ BoundInv'
  BY <1>r, DeployerFrame DEF EngineInv, vars
<1>2. EngineTypeOK'
  BY <1>t, <1>r, <1>n DEF EngineInv, EngineTypeOK, RPC
<1>3. HoldInv'
  BY <1>t, <1>r, <1>f DEF EngineInv, HoldInv, Holds, Shares, Unread, Validating, vars
<1>4. ReadInv'
  BY <1>t, <1>r DEF EngineInv, ReadInv, Unread, vars
<1>5. CoherenceInv'
  <2>1. \A q \in Request : rpc'[q] # "install"
    BY <1>t, <1>r, <1>f DEF Holds
  <2>2. Coherent(snap[r])
    BY <1>r DEF EngineInv, CoherenceInv
  <2> QED BY <1>t, <1>r, <2>1, <2>2 DEF EngineInv, CoherenceInv, Coherent, vars
<1>6. ReadBackInv'
  BY <1>t, <1>r DEF EngineInv, ReadBackInv, Validating, vars
<1>7. VerdictInv'
  BY <1>t, <1>r, VerdictFrame DEF Unread, vars
<1>8. MetInv'
  BY <1>t, <1>r DEF EngineInv, MetInv, Finished
<1> QED BY <1>1, <1>2, <1>3, <1>4, <1>5, <1>6, <1>7, <1>8 DEF EngineInv

-----------------------------------------------------------------------------
(* Steps of the agents and of the server's start-up                        *)

LEMMA ActiveVersionType ==
    ASSUME NEW st \in DeploymentState
    PROVE  ActiveVersion(st) \in Version \cup {None}
BY DEF ActiveVersion, DeploymentState

(* A commit names a new generation and rewrites none.                      *)
LEMMA NamedFrame ==
    ASSUME EngineInv, Deployment, [Next]_vars
    PROVE  /\ named' \in [0..MaxGeneration -> Version \cup {None}]
           /\ named'[state'.generation] = ActiveVersion(state')
           /\ \A g \in Nat : g <= state.generation => named'[g] = named[g]
<1>1. /\ named \in [0..MaxGeneration -> Version \cup {None}]
      /\ state \in DeploymentState /\ state' \in DeploymentState
      /\ MaxGeneration \in Nat
  BY EngineTypes, Forward, ModeAssumption DEF EngineInv
<1>2. state.generation \in 0..MaxGeneration /\ state'.generation \in 0..MaxGeneration
  <2>1. BoundInv /\ BoundInv'
    BY BoundStep DEF EngineInv
  <2>2. state.generation \in Nat /\ state'.generation \in Nat
    BY <1>1 DEF DeploymentState
  <2> QED BY <1>1, <2>1, <2>2 DEF BoundInv
<1>3. ActiveVersion(state') \in Version \cup {None}
  BY <1>1, ActiveVersionType
<1>4. named' = [named EXCEPT ![state'.generation] = ActiveVersion(state')]
  BY DEF Deployment
<1>5. ASSUME NEW g \in Nat, g <= state.generation PROVE named'[g] = named[g]
  <2>1. g \in 0..MaxGeneration
    BY <1>1, <1>2, <1>5
  <2>2. CASE state' = state
    BY <1>1, <1>2, <1>4, <2>1, <2>2 DEF EngineInv, CoherenceInv
  <2>3. CASE state'.generation = state.generation + 1
    BY <1>1, <1>2, <1>4, <1>5, <2>1, <2>3
  <2> QED BY <2>2, <2>3, Forward DEF EngineInv
<1> QED BY <1>1, <1>2, <1>3, <1>4, <1>5

LEMMA DeploymentStepInv ==
    ASSUME EngineInv, Deployment
    PROVE  EngineInv'
<1>p. PICK p \in Proc : DeploymentStep(p)
  BY DEF Deployment
<1>n. [Next]_vars
  BY <1>p, DeploymentIsNext
<1>t. /\ rpc \in [Request -> RPC] /\ phase \in [Request -> {"identity", "snapshot"}]
      /\ seen \in [Request -> DeploymentState] /\ cache \in Material
      /\ observed \in [Request -> Floor]
      /\ snap \in [Request -> Material] /\ answer \in [Request -> Material]
      /\ since \in [Request -> [generation : Nat, anchor : Floor]]
  BY EngineTypes
<1>u. UNCHANGED <<cache, engineLock, rpc, phase, seen, observed, snap, answer, since, met>>
  BY DEF Deployment
<1>g. /\ state.generation \in Nat /\ state'.generation \in Nat
      /\ state.generation <= state'.generation
      /\ state.floor \in Int /\ state'.floor \in Int /\ state.floor <= state'.floor
      /\ anchor \in Int /\ anchor' \in Int /\ anchor <= anchor'
  BY <1>n, Forward, StateIntegers DEF EngineInv, DeploymentState
<1>s. pc[Server] = "idle" =>
          /\ pc'[Server] = "idle" /\ trusted'[Server] = trusted[Server]
          /\ lock = Server => lock' = Server /\ state' = state
  BY <1>p, ServerFrame DEF EngineInv
<1>c. \A m \in Material : Coherent(m) => Coherent(m)'
  <2> SUFFICES ASSUME NEW m \in Material, Coherent(m) PROVE Coherent(m)'
    OBVIOUS
  <2>1. m.generation \in Nat /\ m.generation <= state.generation
    BY MaterialTypes DEF Coherent
  <2>2. named'[m.generation] = named[m.generation]
    BY <1>n, <2>1, NamedFrame
  <2> QED BY <1>g, <2>1, <2>2 DEF Coherent
<1>1. IInv' /\ BoundInv'
  BY <1>n, NextIInv, BoundStep DEF EngineInv
<1>2. EngineTypeOK'
  BY <1>n, <1>u, NamedFrame DEF EngineInv, EngineTypeOK
<1>3. HoldInv'
  BY <1>u, <1>s DEF EngineInv, HoldInv, Holds, Shares, Unread, Validating
<1>4. ReadInv'
  <2> SUFFICES ASSUME NEW r \in Request
               PROVE  /\ rpc[r] # "new" => since[r].generation <= state'.generation
                      /\ rpc[r] \notin Unread =>
                            /\ since[r].generation <= seen[r].generation
                            /\ seen[r].generation <= state'.generation
                            /\ seen[r].floor <= state'.floor
                      /\ rpc[r] = "lookup" => ActiveVersion(seen[r]) # None
    BY <1>u DEF ReadInv, ActiveVersion
  <2>1. seen[r].generation \in Int /\ seen[r].floor \in Int /\ since[r].generation \in Int
    BY <1>t, StateIntegers
  <2> QED BY <1>g, <2>1 DEF EngineInv, ReadInv
<1>5. CoherenceInv'
  <2>1. cache.generation <= state'.generation
    BY <1>t, <1>g, MaterialTypes DEF EngineInv, CoherenceInv
  <2>2. cache.version # None => Coherent(cache)'
    BY <1>t, <1>u, <1>c DEF EngineInv, CoherenceInv, Coherent
  <2>3. ASSUME NEW r \in Request
        PROVE  /\ rpc[r] = "install" => Coherent(snap[r])'
               /\ rpc[r] = "bound" => Coherent(answer[r])'
    BY <1>t, <1>u, <1>c DEF EngineInv, CoherenceInv, Coherent
  <2>4. named'[state'.generation] = ActiveVersion(state')
    BY <1>n, NamedFrame
  <2> QED BY <1>u, <2>1, <2>2, <2>3, <2>4 DEF EngineInv, CoherenceInv, ActiveVersion
<1>6. ReadBackInv'
  <2> SUFFICES ASSUME NEW r \in Request, rpc[r] = "store"
               PROVE  seen[r].floor <= observed[r] /\ observed[r] <= anchor'
    BY <1>u DEF EngineInv, ReadBackInv
  <2>1. observed[r] \in Int
    BY <1>t, FloorsAreIntegers
  <2> QED BY <1>g, <2>1 DEF EngineInv, ReadBackInv
<1>7. VerdictInv'
  <2> SUFFICES ASSUME NEW r \in Request, rpc[r] = "compare"
               PROVE  trusted'[Server] = FloorRead(r)' \/ Explained(met[r] \cup {r})'
    BY <1>u DEF VerdictInv
  <2>1. trusted'[Server] = trusted[Server] /\ (phase[r] = "snapshot" => state' = state)
    BY <1>s DEF EngineInv, HoldInv, Holds, Shares, Validating
  <2>2. FloorRead(r)' = FloorRead(r)
    BY <1>t, <1>u, <2>1 DEF FloorRead
  <2>3. Explained(met[r] \cup {r}) => Explained(met[r] \cup {r})'
    BY <1>u, <2>1 DEF Explained
  <2> QED BY <2>1, <2>2, <2>3 DEF EngineInv, VerdictInv
<1>8. MetInv'
  BY <1>u DEF EngineInv, MetInv
<1> QED BY <1>1, <1>2, <1>3, <1>4, <1>5, <1>6, <1>7, <1>8 DEF EngineInv

-----------------------------------------------------------------------------
LEMMA EngineInitInv == ASSUME EngineInit PROVE EngineInv
<1>1. IInv
  BY InitIInv DEF EngineInit
<1>2. EngineTypeOK
  BY EmptyStateType, ModeAssumption
     DEF EngineInit, EngineTypeOK, Nothing, Material, Content, RPC, Floor, NoFloor
<1>3. BoundInv
  BY ModeAssumption DEF EngineInit, Init, BoundInv, JournalExists, NoJournal, EmptyState
<1>4. HoldInv /\ ReadInv /\ ReadBackInv /\ VerdictInv /\ MetInv
  BY DEF EngineInit, HoldInv, Holds, Shares, ReadInv, ReadBackInv, VerdictInv,
         MetInv, Unread, Validating, Finished
<1>5. CoherenceInv
  <2>1. state.generation = 0 /\ ActiveVersion(state) = None
    BY DEF EngineInit, Init, EmptyState, ActiveVersion
  <2>2. cache.generation = 0 /\ cache.version = None /\ named[0] = None
    BY ModeAssumption DEF EngineInit, Nothing
  <2> QED BY <2>1, <2>2 DEF EngineInit, CoherenceInv
<1> QED BY <1>1, <1>2, <1>3, <1>4, <1>5 DEF EngineInv

LEMMA EngineStutter == ASSUME EngineInv, UNCHANGED allVars PROVE EngineInv'
<1>1. UNCHANGED <<vars, cache, engineLock, rpc, phase, seen, observed, snap, answer,
                  since, met, named>>
  BY DEF allVars
<1>2. IInv' /\ BoundInv'
  BY <1>1, NextIInv, BoundStep DEF EngineInv
<1>3. UNCHANGED <<state, trusted, anchor, lock, pc>>
  BY <1>1 DEF vars
<1>4. EngineTypeOK' /\ HoldInv' /\ MetInv'
  BY <1>1, <1>3 DEF EngineInv, EngineTypeOK, HoldInv, Holds, Shares, MetInv
<1>5. ReadInv' /\ CoherenceInv' /\ ReadBackInv'
  BY <1>1, <1>3 DEF EngineInv, ReadInv, CoherenceInv, Coherent, ReadBackInv, ActiveVersion
<1>6. VerdictInv'
  BY <1>1, <1>3 DEF EngineInv, VerdictInv, Explained, FloorRead
<1> QED BY <1>2, <1>4, <1>5, <1>6 DEF EngineInv

LEMMA EngineNextInv == ASSUME EngineInv, [EngineNext]_allVars PROVE EngineInv'
BY EngineStutter, DeploymentStepInv, ArriveStep, ReadIdentityStep,
   LookForJournalStep, CompareCachedStep, ReadAnchorStep, StoreFloorStep,
   CompareFloorStep, LookUpStep, TakeSnapshotStep, OpenSlotStep,
   InstallSnapshotStep DEF EngineNext, RequestStep

(* The inductive invariant of the engine on top of the deployer.           *)
LEMMA EngineInductive == EngineSpec => []EngineInv
BY EngineInitInv, EngineNextInv, PTL DEF EngineSpec

-----------------------------------------------------------------------------
(* With requests that share the deployment lock, the deployer keeps its    *)
(* types, an intact active slot and floors that cover it.                  *)
THEOREM DeploymentSafe ==
    EngineSpec => [](TypeOK /\ ActiveSlotIntact /\ FloorCoversSlots /\ AnchorNeverBehind)
BY EngineInductive, PTL DEF EngineInv, IInv, Safe

(* The bytes a request is bound to are those of the version it reports,    *)
(* and the generation it reports made that version active: engine.py mixes *)
(* no two states, whatever is committed between its reads.                 *)
THEOREM AlwaysBoundCoherently == EngineSpec => []BoundCoherently
<1>1. EngineInv => BoundCoherently
  BY DEF EngineInv, CoherenceInv, Coherent, BoundCoherently
<1> QED BY <1>1, EngineInductive, PTL

(* Refreshes in any order never put an older runtime over a newer one.     *)
THEOREM CacheAlwaysAdvances == EngineSpec => CacheAdvances
<1>1. ASSUME EngineInv, [EngineNext]_allVars
      PROVE  [cache'.generation >= cache.generation]_allVars
  <2>1. cache.generation \in Nat
    BY <1>1, EngineTypes, MaterialTypes
  <2>2. ASSUME NEW r \in Request, InstallSnapshot(r)
        PROVE  cache'.generation >= cache.generation
    <3>1. cache' = snap[r] /\ rpc[r] = "install"
      BY <2>2 DEF InstallSnapshot, Installed
    <3>2. snap[r].generation \in Nat
      BY <1>1, EngineTypes, MaterialTypes
    <3> QED BY <1>1, <2>1, <3>1, <3>2 DEF EngineInv, CoherenceInv
  <2>3. CASE cache' = cache
    BY <2>1, <2>3
  <2>4. cache' = cache \/ \E r \in Request : InstallSnapshot(r)
    BY <1>1 DEF EngineNext, Deployment, RequestStep, Arrive, ReadIdentity,
       LookForJournal, CompareCached, ReadAnchor, StoreFloor, CompareFloor,
       LookUp, TakeSnapshot, OpenSlot, allVars
  <2> QED BY <2>2, <2>3, <2>4
<1> QED BY <1>1, EngineInductive, PTL DEF EngineSpec, CacheAdvances

(* A request is bound by a hit or by its own refresh.                      *)
LEMMA BindingSteps ==
    ASSUME EngineInv, [EngineNext]_allVars, NEW r \in Request,
           rpc[r] # "bound", rpc'[r] = "bound"
    PROVE  LookUp(r) \/ InstallSnapshot(r)
<1>t. rpc \in [Request -> RPC]
  BY EngineTypes
<1>1. rpc'[r] # rpc[r]
  OBVIOUS
<1>2. PICK q \in Request : RequestStep(q)
  BY <1>1 DEF EngineNext, Deployment, allVars
<1>3. q = r
  BY <1>t, <1>1, <1>2 DEF RequestStep, Arrive, ReadIdentity, LookForJournal,
     CompareCached, ReadAnchor, StoreFloor, CompareFloor, Accept, Reject,
     LookUp, TakeSnapshot, OpenSlot, InstallSnapshot, Move
<1>4. ~(Arrive(r) \/ ReadIdentity(r) \/ CompareCached(r) \/ ReadAnchor(r)
        \/ StoreFloor(r) \/ TakeSnapshot(r) \/ OpenSlot(r))
  BY <1>t DEF Arrive, ReadIdentity, CompareCached, ReadAnchor,
     StoreFloor, TakeSnapshot, OpenSlot, Reject, Move
<1>5. ~(LookForJournal(r) \/ CompareFloor(r))
  <2>1. ~Accept(r) /\ ~Reject(r)
    BY <1>t DEF Accept, Reject, Move
  <2> QED BY <1>t, <2>1 DEF LookForJournal, CompareFloor, Move
<1> QED BY <1>2, <1>3, <1>4, <1>5 DEF RequestStep

LEMMA BindingNotOlder ==
    ASSUME EngineInv, [EngineNext]_allVars, NEW r \in Request,
           rpc[r] # "bound", rpc'[r] = "bound"
    PROVE  answer'[r].generation >= since[r].generation
<1>t. /\ rpc \in [Request -> RPC] /\ answer \in [Request -> Material]
      /\ since[r].generation \in Nat
      /\ \A q \in Request : snap[q].generation \in Nat
      /\ cache.generation \in Nat
  BY EngineTypes, MaterialTypes
<1>1. CASE LookUp(r)
  <2>1. answer'[r] = cache /\ CacheHit(r) /\ rpc[r] = "lookup"
    BY <1>1, <1>t DEF LookUp, Move
  <2> QED BY <1>t, <2>1 DEF EngineInv, ReadInv, Unread, CacheHit
<1>2. CASE InstallSnapshot(r)
  <2>1. answer'[r] = snap[r] /\ rpc[r] = "install"
    BY <1>2, <1>t DEF InstallSnapshot, Installed
  <2> QED BY <1>t, <2>1 DEF EngineInv, CoherenceInv
<1>3. LookUp(r) \/ InstallSnapshot(r)
  BY BindingSteps
<1> QED BY <1>1, <1>2, <1>3

(* A request is never bound to a generation older than the one committed   *)
(* when it arrived.                                                        *)
THEOREM NeverOlderThanArrival ==
    EngineSpec => [][\A r \in Request :
                        rpc[r] # "bound" /\ rpc'[r] = "bound" =>
                            answer'[r].generation >= since[r].generation]_allVars
<1>1. ASSUME EngineInv, [EngineNext]_allVars
      PROVE  [\A r \in Request :
                 rpc[r] # "bound" /\ rpc'[r] = "bound" =>
                     answer'[r].generation >= since[r].generation]_allVars
  BY <1>1, BindingNotOlder
<1> QED BY <1>1, EngineInductive, PTL DEF EngineSpec

-----------------------------------------------------------------------------
(* How a request is turned away                                            *)

(* A floor that a request of S has read back cannot differ from a settled  *)
(* state's if those of S that have read found that state.                  *)
LEMMA SettledFloor ==
    ASSUME EngineInv, NEW S \in SUBSET Request, UseAnchor, Explained(S),
           state.floor = anchor, \A q \in S : rpc[q] \notin Unread => seen[q] = state
    PROVE  trusted[Server] = state.floor
<1>1. trusted[Server] <= anchor
  BY ServerAssumption DEF EngineInv, IInv, CacheInv
<1>2. state.floor <= trusted[Server]
  BY DEF Explained
<1>3. trusted[Server] \in Int /\ state.floor \in Int
  BY EngineTypes, FloorsAreIntegers
<1> QED BY <1>1, <1>2, <1>3

LEMMA RefusalStep ==
    ASSUME EngineInv, [EngineNext]_allVars, NEW r \in Request,
           rpc[r] # "refused", rpc'[r] = "refused"
    PROVE  \/ state.active = None
           \/ UseAnchor /\ state.floor # anchor
           \/ \E q \in met[r] \cup {r} : rpc[q] \notin Unread /\ seen[q] # state
<1> SUFFICES ASSUME state.active # None, UseAnchor => state.floor = anchor,
                    \A q \in met[r] \cup {r} : rpc[q] \notin Unread => seen[q] = state
             PROVE  FALSE
  OBVIOUS
<1>t. /\ rpc \in [Request -> RPC] /\ met \in [Request -> SUBSET Request]
      /\ phase \in [Request -> {"identity", "snapshot"}]
  BY EngineTypes
<1>a. ActiveVersion(state) # None /\ slotDir[state.active] = ActiveVersion(state)
  BY DEF EngineInv, IInv, Safe, ActiveSlotIntact, ActiveVersion
<1>1. \/ LookForJournal(r) \/ CompareFloor(r) \/ OpenSlot(r)
  <2>1. PICK q \in Request : RequestStep(q)
    BY DEF EngineNext, Deployment, allVars
  <2>2. q = r
    BY <1>t, <2>1 DEF RequestStep, Arrive, ReadIdentity, LookForJournal,
       CompareCached, ReadAnchor, StoreFloor, CompareFloor, Accept, Reject,
       LookUp, TakeSnapshot, OpenSlot, InstallSnapshot, Move
  <2>3. ~(Arrive(r) \/ ReadIdentity(r) \/ CompareCached(r) \/ ReadAnchor(r)
          \/ StoreFloor(r) \/ LookUp(r) \/ TakeSnapshot(r) \/ InstallSnapshot(r))
    BY <1>t DEF Arrive, ReadIdentity, CompareCached, ReadAnchor, StoreFloor,
       LookUp, TakeSnapshot, InstallSnapshot, Move
  <2> QED BY <2>1, <2>2, <2>3 DEF RequestStep
<1>s. seen[r] = state
  BY <1>1 DEF LookForJournal, CompareFloor, OpenSlot, Unread
<1>2. ~Accept(r)
  <2>1. ActiveVersion(seen[r]) # None
    BY <1>a, <1>s
  <2> QED BY <1>t, <2>1 DEF Accept, Move
<1>3. ~LookForJournal(r)
  BY <1>2, <1>t DEF LookForJournal, Move
<1>4. ~OpenSlot(r)
  BY <1>a, <1>t DEF OpenSlot, Move
<1>5. ~CompareFloor(r)
  <2> SUFFICES ASSUME CompareFloor(r) PROVE FALSE
    OBVIOUS
  <2>1. rpc[r] = "compare" /\ FloorRead(r) # trusted[Server]
    BY <1>2 DEF CompareFloor
  <2>2. UseAnchor /\ Explained(met[r] \cup {r})
    BY <2>1 DEF EngineInv, ReadBackInv, VerdictInv, Validating
  <2>3. trusted[Server] = state.floor
    BY <1>t, <2>2, SettledFloor
  <2>4. FloorRead(r) = state.floor
    BY <1>s DEF FloorRead
  <2> QED BY <2>1, <2>3, <2>4
<1> QED BY <1>1, <1>3, <1>4, <1>5

(* The anchor check refuses nobody on a settled device: the floor that     *)
(* threads cache, share and overwrite without a lock is wrong only while   *)
(* state.json and the anchor disagree, or after one of the requests under  *)
(* way has read a state that was replaced since.                           *)
THEOREM RefusalAlwaysExplained == EngineSpec => RefusalExplained
<1>1. ASSUME EngineInv, [EngineNext]_allVars
      PROVE  [\A r \in Request :
                 rpc[r] # "refused" /\ rpc'[r] = "refused" =>
                     \/ state.active = None
                     \/ UseAnchor /\ state.floor # anchor
                     \/ \E q \in met[r] \cup {r} :
                           rpc[q] \notin {"new", "identify"} /\ seen[q] # state]_allVars
  BY <1>1, RefusalStep DEF Unread
<1> QED BY <1>1, EngineInductive, PTL DEF EngineSpec, RefusalExplained

-----------------------------------------------------------------------------
(* A device with one agent: no request is answered below the anchor        *)

(* The server came up before the agent, and the agent is alone with the    *)
(* files from then on.                                                     *)
AgentInv(a) ==
    /\ AloneInv(a)
    /\ pc[Server] # "idle" => pc[a] = "down" /\ ~Stranded

(* state.json has caught up with the anchor of r's arrival, or a request   *)
(* older than that anchor was under way with r.                            *)
Caught(r) ==
    \/ since[r].anchor <= state.floor
    \/ \E q \in met[r] : since[q].anchor < since[r].anchor

AnchorInv ==
    \A r \in Request :
        /\ rpc[r] # "new" => since[r].anchor <= anchor
        /\ rpc[r] = "store" => since[r].anchor <= observed[r]
        /\ \A q \in met[r] : rpc[q] # "new"
        /\ rpc[r] \in {"floor", "lookup"} \/ Holds(r) => Caught(r)
        /\ rpc[r] = "compare" => Caught(r) \/ since[r].anchor <= trusted[Server]

(* A request touches nothing that the agent's invariant is about.          *)
LEMMA AgentFrame ==
    ASSUME EngineInv, NEW a \in Proc, a # Server, AgentInv(a),
           UNCHANGED <<dirVars, fileVars, anchor, pc, jobVars, poisoned>>,
           trusted' = trusted \/ \E f : trusted' = [trusted EXCEPT ![Server] = f]
    PROVE  AgentInv(a)'
<1>1. trusted'[a] = trusted[a]
  BY EngineTypes
<1> QED BY <1>1 DEF AgentInv, AloneInv, AnchorRecoverable, Stranded, StrandedAt,
        JournalOf, JournalExists, JournalFollows, JournalTargetVerified

LEMMA AgentStep ==
    ASSUME NEW a, Proc = {Server, a}, a # Server, UseAnchor,
           EngineInv, AgentInv(a), [EngineNext]_allVars
    PROVE  AgentInv(a)'
<1>t. a \in Proc /\ Server \in Proc /\ pc \in [Proc -> PC] /\ IInv
  BY ServerAssumption DEF EngineInv, IInv, TypeOK, ControlTypeOK
<1>1. ASSUME NEW r \in Request, RequestStep(r) PROVE AgentInv(a)'
  <2>1. UNCHANGED <<dirVars, fileVars, anchor, pc, jobVars, poisoned>>
    BY <1>1 DEF RequestStep, Arrive, ReadIdentity, LookForJournal, CompareCached,
       ReadAnchor, StoreFloor, CompareFloor, LookUp, TakeSnapshot, OpenSlot,
       InstallSnapshot, vars
  <2>2. trusted' = trusted \/ \E f : trusted' = [trusted EXCEPT ![Server] = f]
    BY <1>1 DEF RequestStep, Arrive, ReadIdentity, LookForJournal, CompareCached,
       ReadAnchor, StoreFloor, RefreshFloor, CompareFloor, LookUp, TakeSnapshot,
       OpenSlot, InstallSnapshot, vars
  <2> QED BY <1>t, <2>1, <2>2, AgentFrame
<1>2. ASSUME UNCHANGED allVars PROVE AgentInv(a)'
  BY <1>2, <1>t, AgentFrame DEF allVars, vars
<1>3. ASSUME NEW p \in Proc, DeploymentStep(p) PROVE AgentInv(a)'
  <2>n. [Next]_vars
    BY <1>3, DeploymentIsNext
  <2>1. CASE p = a
    <3>1. StepOf(a) /\ pc[Server] = "idle"
      BY <1>3, <2>1 DEF DeploymentStep, StepOf, Crash, RecoverRaises
    <3>2. AloneInv(a)'
      BY <1>t, <3>1, OwnStep DEF AgentInv
    <3>3. pc'[Server] = "idle"
      BY <1>t, <1>3, <3>1, ServerFrame
    <3> QED BY <3>2, <3>3 DEF AgentInv
  <2>2. CASE p = Server
    <3>1. Boot(Server) \/ Recover(Server) \/ RecoverRaises(Server)
      BY <1>3, <2>2 DEF DeploymentStep
    <3>2. pc[Server] # "idle"
      BY <3>1 DEF Boot, Recover, RecoverBegin, RecoverAnchorCommit,
         RecoverUnjournal, RecoverBackup, RecoverBackupsDone, RecoverCandidates,
         RecoverSlots, RecoverFinish, RecoverRaises
    <3>3. pc[a] = "down" /\ ~Stranded
      BY <3>2 DEF AgentInv
    <3>4. pc'[a] = pc[a] /\ anchor' = anchor
      BY <1>t, <3>1 DEF Boot, Recover, RecoverBegin, RecoverAnchorCommit,
         RecoverUnjournal, RecoverBackup, RecoverBackupsDone, RecoverCandidates,
         RecoverSlots, RecoverFinish, RecoverRaises, Ended, Goto, Leave
    <3>5. ~Stranded'
      <4>1. state.floor <= state'.floor /\ state.floor \in Int /\ state'.floor \in Int
            /\ anchor \in Int
        BY <1>t, <2>n, Forward, StateIntegers
      <4> QED BY <3>3, <3>4, <4>1 DEF Stranded
    <3> QED BY <3>3, <3>4, <3>5 DEF AgentInv, AloneInv, AnchorRecoverable, Stranded
  <2> QED BY <2>1, <2>2
<1> QED BY <1>1, <1>2, <1>3 DEF EngineNext, Deployment

(* What has caught up stays so.                                            *)
LEMMA CaughtStays ==
    ASSUME EngineInv, EngineInv', AnchorInv, NEW r \in Request, Caught(r),
           state.floor <= state'.floor,
           \A q \in met[r] \cup {r} : since'[q] = since[q],
           met[r] \subseteq met'[r]
    PROVE  Caught(r)'
<1>1. /\ state.floor \in Int /\ state'.floor \in Int /\ since[r].anchor \in Int
  BY EngineTypes, StateIntegers, FloorsAreIntegers DEF EngineInv, EngineTypeOK, IInv,
     TypeOK, DiskTypeOK
<1>2. CASE since[r].anchor <= state.floor
  BY <1>1, <1>2 DEF Caught
<1>3. CASE \E q \in met[r] : since[q].anchor < since[r].anchor
  BY <1>3 DEF Caught
<1> QED BY <1>2, <1>3 DEF Caught

LEMMA AnchorStep ==
    ASSUME NEW a, Proc = {Server, a}, a # Server, UseAnchor,
           EngineInv, EngineInv', AgentInv(a), AnchorInv, [EngineNext]_allVars
    PROVE  AnchorInv'
<1>t. /\ rpc \in [Request -> RPC] /\ phase \in [Request -> {"identity", "snapshot"}]
      /\ since \in [Request -> [generation : Nat, anchor : Floor]]
      /\ observed \in [Request -> Floor] /\ met \in [Request -> SUBSET Request]
      /\ trusted \in [Proc -> Floor] /\ Server \in Proc
  BY EngineTypes
<1>i. /\ state.floor \in Int /\ anchor \in Int
      /\ \A r \in Request : /\ since[r].anchor \in Int /\ observed[r] \in Int
                            /\ seen[r].floor \in Int
  BY EngineTypes, StateIntegers, FloorsAreIntegers
<1>h. \A r \in Request :
         /\ rpc[r] # "new" => since[r].anchor <= anchor
         /\ rpc[r] = "store" => since[r].anchor <= observed[r]
         /\ \A q \in met[r] : rpc[q] # "new"
         /\ rpc[r] \in {"floor", "lookup"} \/ Holds(r) => Caught(r)
         /\ rpc[r] = "compare" => Caught(r) \/ since[r].anchor <= trusted[Server]
  BY DEF AnchorInv
<1>j. ASSUME ~JournalExists PROVE \A r \in Request : rpc[r] # "new" => Caught(r)
  <2>1. ~(state.floor < anchor)
    BY <1>j DEF AgentInv, AloneInv, AnchorRecoverable
  <2> QED BY <1>h, <1>i, <2>1 DEF Caught
(* Only r moves, and neither arrives nor stores a floor.                   *)
<1>m. ASSUME NEW r \in Request, NEW to, rpc' = [rpc EXCEPT ![r] = to],
             rpc[r] # "new", to # "new",
             UNCHANGED <<state, anchor, trusted, since, met>>,
             \A q \in Request \ {r} : phase'[q] = phase[q] /\ observed'[q] = observed[q],
             to = "store" => observed'[r] = anchor,
             to \in {"floor", "lookup"} \/ Holds(r)' => Caught(r),
             to = "compare" => Caught(r)
      PROVE  AnchorInv'
  <2>1. ASSUME NEW q \in Request, Caught(q) PROVE Caught(q)'
    BY <1>m, <2>1 DEF Caught
  <2> SUFFICES ASSUME NEW q \in Request
               PROVE  /\ rpc'[q] # "new" => since[q].anchor <= anchor
                      /\ rpc'[q] = "store" => since[q].anchor <= observed'[q]
                      /\ \A x \in met[q] : rpc'[x] # "new"
                      /\ rpc'[q] \in {"floor", "lookup"} \/ Holds(q)' => Caught(q)'
                      /\ rpc'[q] = "compare" => Caught(q)' \/ since[q].anchor <= trusted[Server]
    BY <1>m DEF AnchorInv
  <2>2. \A x \in met[q] : rpc'[x] # "new"
    BY <1>m, <1>h, <1>t
  <2>3. CASE q = r
    BY <1>m, <1>h, <1>t, <2>1, <2>2, <2>3
  <2>4. CASE q # r
    <3>1. rpc'[q] = rpc[q] /\ phase'[q] = phase[q] /\ observed'[q] = observed[q]
      BY <1>m, <1>t, <2>4
    <3>2. Holds(q)' => Holds(q)
      BY <3>1 DEF Holds
    <3> QED BY <1>h, <2>1, <2>2, <3>1, <3>2
  <2> QED BY <2>3, <2>4
<1>1. ASSUME NEW r \in Request, Arrive(r) PROVE AnchorInv'
  <2>1. /\ rpc[r] = "new" /\ rpc' = [rpc EXCEPT ![r] = "identify"]
        /\ since' = [since EXCEPT ![r] = [generation |-> state.generation,
                                          anchor |-> anchor]]
        /\ met' = [q \in Request |-> CASE q = r -> UnderWay
                                       [] q \in UnderWay -> met[q] \cup {r}
                                       [] OTHER -> met[q]]
        /\ UNCHANGED <<state, anchor, trusted, phase, observed>>
    BY <1>1 DEF Arrive, Move, vars
  <2>2. \A q \in Request \ {r} :
           /\ since'[q] = since[q] /\ rpc'[q] = rpc[q]
           /\ met[q] \subseteq met'[q] /\ met'[q] \subseteq met[q] \cup {r}
    BY <2>1, <1>t
  <2>3. ASSUME NEW q \in Request \ {r}, Caught(q) PROVE Caught(q)'
    <3>1. \A x \in met[q] \cup {q} : since'[x] = since[x]
      BY <1>h, <1>t, <2>1, <2>2
    <3>2. state.floor <= state'.floor
      BY <2>1, <1>i
    <3> QED BY <2>2, <2>3, <3>1, <3>2, CaughtStays
  <2>4. ASSUME NEW q \in Request \ {r}
        PROVE  /\ rpc'[q] # "new" => since'[q].anchor <= anchor'
               /\ rpc'[q] = "store" => since'[q].anchor <= observed'[q]
               /\ \A x \in met'[q] : rpc'[x] # "new"
               /\ rpc'[q] \in {"floor", "lookup"} \/ Holds(q)' => Caught(q)'
               /\ rpc'[q] = "compare" => Caught(q)' \/ since'[q].anchor <= trusted'[Server]
    <3>1. Holds(q)' => Holds(q)
      BY <2>1, <2>2 DEF Holds
    <3>2. \A x \in met'[q] : rpc'[x] # "new"
      BY <1>h, <1>t, <2>1, <2>2
    <3> QED BY <1>h, <2>1, <2>2, <2>3, <3>1, <3>2
  <2>5. /\ since'[r].anchor = anchor /\ rpc'[r] = "identify"
        /\ \A x \in met'[r] : rpc'[x] # "new"
        /\ ~Holds(r)'
    <3>1. since'[r].anchor = anchor /\ rpc'[r] = "identify"
      BY <2>1, <1>t
    <3>2. met'[r] = UnderWay
      <4>1. r \notin UnderWay
        BY <2>1 DEF UnderWay
      <4> QED BY <2>1, <1>t, <4>1
    <3>3. \A x \in UnderWay : rpc'[x] # "new"
      BY <2>1, <1>t DEF UnderWay
    <3>4. ~Holds(r)'
      BY <3>1 DEF Holds, Validating
    <3> QED BY <3>1, <3>2, <3>3, <3>4
  <2>6. since'[r].anchor <= anchor'
    BY <2>1, <2>5, <1>i
  <2> QED BY <2>4, <2>5, <2>6 DEF AnchorInv
<1>2. ASSUME NEW r \in Request, StoreFloor(r) PROVE AnchorInv'
  <2>1. /\ rpc[r] = "store" /\ rpc' = [rpc EXCEPT ![r] = "compare"]
        /\ trusted' = [trusted EXCEPT ![Server] = observed[r]]
        /\ observed' = [observed EXCEPT ![r] = NoFloor]
        /\ UNCHANGED <<state, anchor, since, met, phase>>
    BY <1>2 DEF StoreFloor, RefreshFloor, Move
  <2>2. trusted'[Server] = observed[r] /\ since[r].anchor <= observed[r]
    BY <2>1, <1>h, <1>t
  <2>3. ASSUME NEW q \in Request, Caught(q) PROVE Caught(q)'
    BY <2>1, <2>3 DEF Caught
  <2>4. ASSUME NEW q \in Request, rpc'[q] = "compare"
        PROVE  Caught(q)' \/ since[q].anchor <= trusted'[Server]
    <3>1. CASE since[q].anchor <= since[r].anchor
      BY <2>2, <3>1, <1>i
    <3>2. CASE ~(since[q].anchor <= since[r].anchor)
      <4>1. q # r /\ rpc[q] = "compare" /\ since[r].anchor < since[q].anchor
        BY <1>i, <1>t, <2>1, <2>4, <3>2
      <4>2. r \in met[q]
        BY <2>1, <4>1 DEF EngineInv, MetInv, Finished
      <4>3. Caught(q)
        BY <4>1, <4>2 DEF Caught
      <4> QED BY <4>3, <2>3
    <3> QED BY <3>1, <3>2
  <2>5. ASSUME NEW q \in Request
        PROVE  /\ rpc'[q] # "new" => since[q].anchor <= anchor
               /\ rpc'[q] = "store" => since[q].anchor <= observed'[q]
               /\ \A x \in met[q] : rpc'[x] # "new"
               /\ rpc'[q] \in {"floor", "lookup"} \/ Holds(q)' => Caught(q)'
    <3>1. rpc'[q] = IF q = r THEN "compare" ELSE rpc[q]
      BY <2>1, <1>t
    <3>2. q # r => observed'[q] = observed[q]
      BY <2>1, <1>t
    <3>3. Holds(q)' => Holds(q)
      BY <2>1, <3>1 DEF Holds, Validating
    <3>4. \A x \in met[q] : rpc'[x] # "new"
      BY <1>h, <1>t, <2>1
    <3> QED BY <1>h, <2>1, <2>3, <3>1, <3>2, <3>3, <3>4
  <2> QED BY <2>1, <2>4, <2>5 DEF AnchorInv
<1>3. ASSUME NEW r \in Request, LookForJournal(r) PROVE AnchorInv'
  <2>1. PICK to \in {"floor", "refresh"} :
           /\ rpc[r] = "pending" /\ rpc' = [rpc EXCEPT ![r] = to]
           /\ to = "floor" => ~JournalExists
           /\ UNCHANGED <<state, anchor, trusted, since, met, phase, observed>>
    BY <1>3 DEF LookForJournal, JournalSeen, Move
  <2>2. Holds(r)' => Holds(r)
    BY <2>1, <1>t DEF Holds, Validating
  <2> QED BY <2>1, <2>2, <1>h, <1>j, <1>m
<1>4. ASSUME NEW r \in Request, CompareFloor(r) PROVE AnchorInv'
  <2>1. PICK to \in {"open", "refused", "lookup"} :
           /\ rpc[r] = "compare" /\ rpc' = [rpc EXCEPT ![r] = to]
           /\ to = "open" => phase[r] = "snapshot"
           /\ to = "lookup" => phase[r] = "identity" /\ FloorRead(r) = trusted[Server]
           /\ UNCHANGED <<state, anchor, trusted, since, met, phase, observed>>
    BY <1>4, <1>t DEF CompareFloor, Accept, Reject, Move
  <2>2. to = "open" => Caught(r)
    BY <2>1, <1>h DEF Holds, Validating
  <2>3. to = "lookup" => Caught(r)
    <3>1. seen[r].floor <= state.floor
      BY <2>1 DEF EngineInv, ReadInv, Unread
    <3>2. to = "lookup" => seen[r].floor = trusted[Server]
      BY <2>1 DEF FloorRead
    <3> QED BY <2>1, <3>1, <3>2, <1>h, <1>i DEF Caught
  <2>4. Holds(r)' => to = "open"
    BY <2>1, <1>t DEF Holds, Validating
  <2> QED BY <2>1, <2>2, <2>3, <2>4, <1>m
<1>5. ASSUME NEW r \in Request,
             \/ ReadIdentity(r) \/ CompareCached(r) \/ ReadAnchor(r) \/ LookUp(r)
             \/ TakeSnapshot(r) \/ OpenSlot(r) \/ InstallSnapshot(r)
      PROVE  AnchorInv'
  <2>1. PICK to \in RPC :
           /\ rpc' = [rpc EXCEPT ![r] = to]
           /\ rpc[r] # "new" /\ to # "new"
           /\ UNCHANGED <<state, anchor, trusted, since, met>>
           /\ \A q \in Request \ {r} : phase'[q] = phase[q] /\ observed'[q] = observed[q]
           /\ to = "store" => observed'[r] = anchor
           /\ to \in {"floor", "lookup"} \/ Holds(r)' => rpc[r] \in {"floor", "lookup"} \/ Holds(r)
           /\ to = "compare" => rpc[r] = "floor"
    <3>1. CASE ReadIdentity(r)
      <4>1. phase[r] = "identity"
        BY <3>1 DEF EngineInv, HoldInv, ReadIdentity, Unread
      <4> QED BY <3>1, <4>1, <1>t DEF ReadIdentity, Move, Holds, RPC, vars
    <3>2. CASE CompareCached(r)
      BY <3>2, <1>t DEF CompareCached, Move, Holds, Validating, RPC, vars
    <3>3. CASE ReadAnchor(r)
      BY <3>3, <1>t DEF ReadAnchor, Move, Holds, Validating, RPC, vars
    <3>4. CASE LookUp(r)
      BY <3>4, <1>t DEF LookUp, Move, Holds, RPC, vars
    <3>5. CASE TakeSnapshot(r)
      BY <3>5, <1>t DEF TakeSnapshot, Move, Holds, RPC
    <3>6. CASE OpenSlot(r)
      BY <3>6, <1>t DEF OpenSlot, Reject, Move, Holds, RPC
    <3>7. CASE InstallSnapshot(r)
      BY <3>7, <1>t DEF InstallSnapshot, Move, Holds, RPC, Validating, vars
    <3> QED BY <1>5, <3>1, <3>2, <3>3, <3>4, <3>5, <3>6, <3>7
  <2> QED BY <2>1, <1>h, <1>m
<1>6. ASSUME Deployment PROVE AnchorInv'
  <2>1. UNCHANGED <<rpc, phase, observed, since, met>>
    BY <1>6 DEF Deployment
  <2>2. PICK p \in Proc : DeploymentStep(p)
    BY <1>6 DEF Deployment
  <2>3. [Next]_vars
    BY <2>2, DeploymentIsNext
  <2>4. /\ state.floor <= state'.floor /\ anchor <= anchor'
        /\ anchor' \in Int
    BY <2>3, Forward DEF EngineInv
  <2>5. ASSUME NEW q \in Request, Caught(q) PROVE Caught(q)'
    BY <2>1, <2>4, <2>5, CaughtStays
  <2>6. ASSUME NEW q \in Request
        PROVE  /\ rpc[q] # "new" => since[q].anchor <= anchor'
               /\ rpc[q] = "store" => since[q].anchor <= observed[q]
               /\ \A x \in met[q] : rpc[x] # "new"
               /\ rpc[q] \in {"floor", "lookup"} \/ Holds(q) => Caught(q)'
               /\ rpc[q] = "compare" => Caught(q)' \/ since[q].anchor <= trusted'[Server]
    <3>1. rpc[q] # "new" => since[q].anchor <= anchor'
      BY <1>h, <1>i, <2>4
    <3>2. rpc[q] = "compare" => trusted'[Server] = trusted[Server]
      BY <2>2, ServerFrame DEF EngineInv, HoldInv
    <3> QED BY <1>h, <2>5, <3>1, <3>2
  <2>7. \A q \in Request : Holds(q)' = Holds(q)
    BY <2>1 DEF Holds
  <2> QED BY <2>1, <2>6, <2>7 DEF AnchorInv
<1>7. ASSUME UNCHANGED allVars PROVE AnchorInv'
  BY <1>7 DEF allVars, vars, AnchorInv, Caught, Holds
<1> QED BY <1>1, <1>2, <1>3, <1>4, <1>5, <1>6, <1>7 DEF EngineNext, RequestStep

(* With one agent next to the server: a request is bound to nothing older  *)
(* than what was committed when it arrived, and to nothing at all while    *)
(* state.json is behind the anchor of that moment, unless a request older  *)
(* than that anchor was under way with it.  Two agents break the second    *)
(* part, since one may delete the other's journal.                         *)
THEOREM NeverAnsweredStale ==
    ASSUME NEW a, Proc = {Server, a}, a # Server
    PROVE  EngineSpec => NeverStale
<1> DEFINE Current == UseAnchor => AgentInv(a) /\ AnchorInv
<1>1. EngineInit => Current
  <2> SUFFICES ASSUME EngineInit, UseAnchor PROVE AgentInv(a) /\ AnchorInv
    OBVIOUS
  <2>1. pc[a] = "down" /\ state.floor = anchor /\ anchor = NoFloor
    BY DEF EngineInit, Init, EmptyState
  <2>2. ~Stranded
    BY <2>1 DEF Stranded, NoFloor
  <2>3. AgentInv(a)
    BY <2>1, <2>2 DEF AgentInv, AloneInv, AnchorRecoverable, Stranded
  <2>4. AnchorInv
    BY DEF EngineInit, AnchorInv, Holds, Validating
  <2> QED BY <2>3, <2>4
<1>2. EngineInv /\ Current /\ [EngineNext]_allVars => Current'
  BY EngineNextInv, AgentStep, AnchorStep
<1>3. ASSUME EngineInv, Current, [EngineNext]_allVars
      PROVE  [\A r \in Request :
                 rpc[r] # "bound" /\ rpc'[r] = "bound" =>
                     /\ answer'[r].generation >= since[r].generation
                     /\ \/ ~UseAnchor
                        \/ state.floor >= since[r].anchor
                        \/ \E q \in met[r] : since[q].anchor < since[r].anchor]_allVars
  <2>1. ASSUME NEW r \in Request, rpc[r] # "bound", rpc'[r] = "bound", UseAnchor
        PROVE  \/ state.floor >= since[r].anchor
               \/ \E q \in met[r] : since[q].anchor < since[r].anchor
    <3>1. rpc[r] \in {"lookup", "install"}
      BY <1>3, <2>1, BindingSteps DEF LookUp, InstallSnapshot
    <3>2. Caught(r)
      BY <1>3, <2>1, <3>1 DEF AnchorInv, Holds
    <3>3. state.floor \in Int /\ since[r].anchor \in Int
      BY <1>3, EngineTypes, StateIntegers, FloorsAreIntegers
    <3> QED BY <3>2, <3>3 DEF Caught
  <2> QED BY <1>3, <2>1, BindingNotOlder
<1> HIDE DEF Current
<1> QED BY <1>1, <1>2, <1>3, EngineInductive, PTL DEF EngineSpec, NeverStale
=============================================================================
