-------------------------- MODULE ABDeployer_proof --------------------------
(***************************************************************************)
(* Safety of the deployment manager for any number of agents, releases and *)
(* generations, with crashes and every modelled fault.  The invariants are *)
(* not inductive alone: they need the file lock to fence the local copy of *)
(* state.json, and the history of the transaction that holds the lock.     *)
(* The last part shows that the manager implements ReleaseStore.           *)
(***************************************************************************)
EXTENDS ABDeployer, TLAPS

(* Until its commit a transaction works on a current copy of state.json.   *)
Uncommitted == DeployPC \ {"unjournal", "cleanup"}
Fenced == RecoverPC \cup Uncommitted

(* A process inside a critical section holds the lock.                     *)
LockInv == \A p \in Proc : pc[p] \in Locked => lock = p

(* What holds while p is inside a critical section: its copy of state.json *)
(* is current; the slot it replaces is not the active one; an anchored     *)
(* release lies above the floor; the verified release is in the candidate  *)
(* directory, then in the slot; the anchor is advanced before the commit.  *)
Transaction(p) ==
    /\ pc[p] \in Fenced => base[p] = state
    /\ pc[p] \in DeployPC => tgt[p] \in Slot /\ ver[p] \in Version
    /\ pc[p] \in Uncommitted =>
          /\ tgt[p] # state.active
          /\ UseAnchor => ReleaseSeq[ver[p]] > state.floor
    /\ pc[p] \in {"backup", "install"} => candDir[tgt[p]] = ver[p]
    /\ pc[p] \in {"journal", "advance", "commit"} => slotDir[tgt[p]] = ver[p]
    /\ pc[p] = "commit" /\ UseAnchor => ReleaseSeq[ver[p]] <= anchor

TransactionInv == \A p \in Proc : Transaction(p)

(* A cached floor never exceeds the anchor's.                              *)
CacheInv == UseAnchor => \A p \in Proc : trusted[p] <= anchor

Safe == ActiveSlotIntact /\ FloorCoversSlots /\ AnchorNeverBehind

IInv == TypeOK /\ LockInv /\ TransactionInv /\ CacheInv /\ Safe

USE DEF dirVars, fileVars, jobVars, memVars, Fenced, Uncommitted, Locked,
        DeployPC, RecoverPC, PC

-----------------------------------------------------------------------------
(* What the operators return                                               *)

LEMMA EmptyStateType == EmptyState \in DeploymentState
BY DEF EmptyState, DeploymentState, Floor, NoFloor

LEMMA CommitOfType ==
    ASSUME NEW st \in DeploymentState, NEW s \in Slot, NEW v \in Version,
           NEW fl \in Floor
    PROVE  CommitOf(st, s, v, fl) \in DeploymentState
BY DEF CommitOf, DeploymentState

LEMMA FailedOfType ==
    ASSUME NEW st \in DeploymentState
    PROVE  FailedOf(st) \in DeploymentState
BY DEF FailedOf, DeploymentState

LEMMA RolledBackOfType ==
    ASSUME NEW st \in DeploymentState
    PROVE  RolledBackOf(st) \in DeploymentState
BY DEF RolledBackOf, DeploymentState

LEMMA FloorsAreIntegers ==
    /\ \A f \in Floor : f \in Int
    /\ \A v \in Version : ReleaseSeq[v] \in Int /\ ReleaseSeq[v] \in Floor
    /\ \A st \in DeploymentState : st.floor \in Int
BY VersionAssumption DEF Floor, NoFloor, DeploymentState

(* An anchored floor is the release's own; otherwise it is the larger one. *)
LEMMA NewFloorFacts ==
    ASSUME NEW st \in DeploymentState, NEW v \in Version,
           UseAnchor => ReleaseSeq[v] > st.floor
    PROVE  /\ NewFloor(st, v) \in Floor
           /\ NewFloor(st, v) >= ReleaseSeq[v]
           /\ NewFloor(st, v) >= st.floor
           /\ UseAnchor => NewFloor(st, v) = ReleaseSeq[v]
BY VersionAssumption DEF NewFloor, Floor, NoFloor, DeploymentState

(* Committing a release no floor hides keeps every installed one covered.  *)
LEMMA CommitCovers ==
    ASSUME NEW st \in DeploymentState, NEW s \in Slot, NEW v \in Version,
           NEW fl \in Floor, fl >= ReleaseSeq[v], fl >= st.floor,
           \A t \in Slot : st.slots[t] # None => ReleaseSeq[st.slots[t]] <= st.floor
    PROVE  LET new == CommitOf(st, s, v, fl) IN
           \A t \in Slot : new.slots[t] # None => ReleaseSeq[new.slots[t]] <= new.floor
<1> DEFINE new == CommitOf(st, s, v, fl)
<1>1. new.slots = [st.slots EXCEPT ![s] = v] /\ new.floor = fl
  BY DEF CommitOf
<1>2. st.slots \in [Slot -> Version \cup {None}] /\ st.floor \in Int /\ fl \in Int
  BY FloorsAreIntegers DEF DeploymentState
<1>3. ASSUME NEW t \in Slot, new.slots[t] # None
      PROVE  ReleaseSeq[new.slots[t]] <= new.floor
  <2>1. CASE t = s
    BY <2>1, <1>1, <1>2
  <2>2. CASE t # s
    <3>1. new.slots[t] = st.slots[t] /\ st.slots[t] \in Version
      BY <2>2, <1>1, <1>2, <1>3
    <3>2. ReleaseSeq[st.slots[t]] <= st.floor
      BY <3>1, <1>3
    <3>3. ReleaseSeq[st.slots[t]] \in Int
      BY <3>1, FloorsAreIntegers
    <3> QED BY <3>1, <3>2, <3>3, <1>1, <1>2
  <2> QED BY <2>1, <2>2
<1> QED BY <1>3

(* A recursive delete touches one directory, and that one holds a whole    *)
(* release afterwards only if it did before.                               *)
LEMMA RmTreeFacts ==
    ASSUME NEW dir \in [Slot -> Content], NEW s \in Slot, NEW new \in RmTree(dir, s)
    PROVE  /\ new \in [Slot -> Content]
           /\ \A u \in Slot : u # s => new[u] = dir[u]
           /\ dir[s] = Absent => new = dir
BY DEF RmTree, Residue, Content

-----------------------------------------------------------------------------
(* Frames: what every action shares                                        *)

(* Nobody but the lock holder can be inside a critical section.            *)
LEMMA TransactionFrame ==
    ASSUME IInv, NEW p \in Proc,
           pc[p] \in Locked \/ lock = Free,
           \A q \in Proc \ {p} : pc'[q] = pc[q],
           Transaction(p)'
    PROVE  TransactionInv'
BY ProcAssumption DEF IInv, LockInv, TransactionInv, Transaction

LEMMA SafeFrame ==
    ASSUME Safe, UNCHANGED <<state, slotDir, anchor>>
    PROVE  Safe'
BY DEF Safe, ActiveSlotIntact, FloorCoversSlots, AnchorNeverBehind

LEMMA LeaveFrame ==
    ASSUME IInv, NEW p \in Proc, pc[p] \in Locked,
           NEW to \in {"idle", "refused"}, Leave(p, to)
    PROVE  ControlTypeOK' /\ LockInv' /\ TransactionInv'
<1>1. ControlTypeOK'
  BY EmptyStateType DEF IInv, TypeOK, ControlTypeOK, Leave
<1>2. \A q \in Proc : pc'[q] \notin Locked
  BY DEF IInv, TypeOK, ControlTypeOK, LockInv, Leave
<1>3. LockInv'
  BY <1>2, ProcAssumption DEF LockInv, Leave
<1>4. TransactionInv'
  BY <1>2 DEF TransactionInv, Transaction
<1> QED BY <1>1, <1>3, <1>4

LEMMA GotoFrame ==
    ASSUME IInv, NEW p \in Proc, pc[p] \in Locked,
           NEW to \in Locked, Goto(p, to)
    PROVE  /\ ControlTypeOK' /\ LockInv'
           /\ pc'[p] = to
           /\ \A q \in Proc \ {p} : pc'[q] = pc[q]
           /\ UNCHANGED <<base, ver, tgt>>
BY DEF IInv, TypeOK, ControlTypeOK, LockInv, Goto

(* Steps that leave the commit record, the slots and the anchor alone.     *)
LEMMA QuietGoto ==
    ASSUME IInv, NEW p \in Proc, pc[p] \in Locked,
           NEW to \in Locked, Goto(p, to),
           DiskTypeOK', CacheTypeOK', Transaction(p)',
           UNCHANGED <<state, slotDir, anchor, trusted>>
    PROVE  IInv'
BY GotoFrame, TransactionFrame, SafeFrame DEF IInv, TypeOK, CacheInv

LEMMA QuietLeave ==
    ASSUME IInv, NEW p \in Proc, pc[p] \in Locked,
           NEW to \in {"idle", "refused"}, Leave(p, to),
           DiskTypeOK', CacheTypeOK',
           UNCHANGED <<state, slotDir, anchor, trusted>>
    PROVE  IInv'
BY LeaveFrame, SafeFrame DEF IInv, TypeOK, CacheInv

-----------------------------------------------------------------------------
(* Start-up                                                                *)

LEMMA BootStep ==
    ASSUME IInv, NEW p \in Proc, Boot(p)
    PROVE  IInv'
<1>1. TypeOK'
  BY DEF IInv, TypeOK, DiskTypeOK, ControlTypeOK, CacheTypeOK, Boot, Floor, NoFloor
<1>2. LockInv' /\ TransactionInv'
  BY DEF IInv, TypeOK, ControlTypeOK, LockInv, TransactionInv, Transaction, Boot
<1>3. CacheInv'
  BY FloorsAreIntegers DEF IInv, TypeOK, CacheTypeOK, DiskTypeOK, CacheInv, Boot
<1>4. Safe'
  BY SafeFrame DEF IInv, Boot
<1> QED BY <1>1, <1>2, <1>3, <1>4 DEF IInv

LEMMA RecoverBeginStep ==
    ASSUME IInv, NEW p \in Proc, RecoverBegin(p)
    PROVE  IInv'
<1>1. TypeOK'
  BY DEF IInv, TypeOK, DiskTypeOK, ControlTypeOK, CacheTypeOK, RecoverBegin,
         AcquireExclusive
<1>2. LockInv'
  BY ProcAssumption DEF IInv, TypeOK, ControlTypeOK, LockInv, RecoverBegin,
         AcquireExclusive
<1>3. TransactionInv'
  <2>1. Transaction(p)'
    BY DEF IInv, TypeOK, ControlTypeOK, Transaction, RecoverBegin
  <2> QED BY <2>1, TransactionFrame
          DEF IInv, TypeOK, ControlTypeOK, RecoverBegin, AcquireExclusive
<1>4. CacheInv' /\ Safe'
  BY SafeFrame DEF IInv, CacheInv, RecoverBegin
<1> QED BY <1>1, <1>2, <1>3, <1>4 DEF IInv

LEMMA RecoverAnchorCommitStep ==
    ASSUME IInv, NEW p \in Proc, RecoverAnchorCommit(p)
    PROVE  IInv'
<1>1. pc[p] = "rec_anchor" /\ base[p] = state /\ state \in DeploymentState
  BY DEF IInv, TypeOK, DiskTypeOK, TransactionInv, Transaction, RecoverAnchorCommit
<1>2. ASSUME UNCHANGED state
      PROVE  DiskTypeOK' /\ CacheTypeOK' /\ UNCHANGED <<slotDir, anchor, trusted>>
  BY <1>2 DEF IInv, TypeOK, DiskTypeOK, CacheTypeOK, RecoverAnchorCommit
<1>3. ASSUME NEW to \in {"rec_backups", "rec_unjournal"}, Goto(p, to), UNCHANGED state
      PROVE  IInv'
  <2>1. Transaction(p)'
    BY <1>1, <1>3, GotoFrame DEF Transaction
  <2> QED BY <1>1, <1>2, <1>3, <2>1, QuietGoto
<1>4. CASE Leave(p, "refused") /\ UNCHANGED state
  BY <1>1, <1>2, <1>4, QuietLeave
<1>5. CASE /\ AnchorAhead(p)
           /\ state' = CommitOf(base[p], pending.slot, pending.version, trusted[p])
           /\ base' = [base EXCEPT ![p] = state']
           /\ pc' = [pc EXCEPT ![p] = "rec_unjournal"]
           /\ UNCHANGED <<lock, ver, tgt>>
  <2>1. /\ pending.slot \in Slot /\ pending.version \in Version
        /\ trusted[p] \in Floor /\ trusted[p] > state.floor
        /\ ReleaseSeq[pending.version] = trusted[p]
        /\ slotDir[pending.slot] = pending.version
        /\ UseAnchor
    BY <1>1, <1>5, FloorsAreIntegers
       DEF IInv, TypeOK, DiskTypeOK, CacheTypeOK, AnchorAhead,
           JournalTargetVerified, Journal
  <2>2. state' = CommitOf(state, pending.slot, pending.version, trusted[p])
    BY <1>1, <1>5
  <2>3. state' \in DeploymentState
    BY <2>1, <2>2, <1>1, CommitOfType
  <2>4. TypeOK'
    BY <1>5, <2>3
       DEF IInv, TypeOK, DiskTypeOK, ControlTypeOK, CacheTypeOK, RecoverAnchorCommit
  <2>5. LockInv'
    BY <1>1, <1>5 DEF IInv, TypeOK, ControlTypeOK, LockInv
  <2>6. TransactionInv'
    <3>1. Transaction(p)'
      BY <1>5 DEF IInv, TypeOK, ControlTypeOK, Transaction
    <3> QED BY <1>1, <1>5, <3>1, TransactionFrame DEF IInv, TypeOK, ControlTypeOK
  <2>7. ActiveSlotIntact'
    BY <2>1, <2>2, VersionAssumption, <1>1
       DEF ActiveSlotIntact, CommitOf, RecoverAnchorCommit, DeploymentState
  <2>8. FloorCoversSlots'
    <3>1. trusted[p] >= ReleaseSeq[pending.version] /\ trusted[p] >= state.floor
      BY <2>1, <1>1, FloorsAreIntegers
    <3> QED BY <1>1, <2>1, <2>2, <3>1, CommitCovers DEF IInv, Safe, FloorCoversSlots
  <2>9. AnchorNeverBehind' /\ CacheInv'
    BY <2>1, <2>2 DEF IInv, CacheInv, AnchorNeverBehind, CommitOf, RecoverAnchorCommit
  <2> QED BY <2>4, <2>5, <2>6, <2>7, <2>8, <2>9 DEF IInv, Safe
<1> QED BY <1>3, <1>4, <1>5 DEF RecoverAnchorCommit

LEMMA RecoverUnjournalStep ==
    ASSUME IInv, NEW p \in Proc, RecoverUnjournal(p)
    PROVE  IInv'
<1>1. DiskTypeOK' /\ CacheTypeOK'
  BY DEF IInv, TypeOK, DiskTypeOK, CacheTypeOK, RecoverUnjournal, NoJournal,
         Journal, Floor, NoFloor, Slot
<1>2. Transaction(p)'
  BY GotoFrame DEF IInv, TransactionInv, Transaction, RecoverUnjournal
<1> QED BY <1>1, <1>2, QuietGoto DEF RecoverUnjournal

(* Of the slots recovery rewrites, none is the active one.                 *)
LEMMA RecoverBackupStep ==
    ASSUME IInv, NEW p \in Proc, NEW s \in Slot, RecoverBackup(p, s)
    PROVE  IInv'
<1>1. pc[p] = "rec_backups" /\ base[p] = state
  BY DEF IInv, TransactionInv, Transaction, RecoverBackup
<1>2. DiskTypeOK' /\ CacheTypeOK'
  BY DEF IInv, TypeOK, DiskTypeOK, CacheTypeOK, RecoverBackup, Content
<1>3. CASE Leave(p, "refused") /\ UNCHANGED <<slotDir, backupDir>>
  BY <1>1, <1>2, <1>3, QuietLeave DEF RecoverBackup
<1>4. CASE /\ UNCHANGED <<lock, pc, jobVars>>
           /\ slotDir' = slotDir \/ (/\ slotDir[s] # state.slots[s]
                                     /\ slotDir' = [slotDir EXCEPT ![s] = backupDir[s]])
  <2>1. ControlTypeOK' /\ LockInv' /\ CacheInv'
    BY <1>4 DEF IInv, TypeOK, ControlTypeOK, LockInv, CacheInv, RecoverBackup
  <2>2. TransactionInv'
    BY <1>1, <1>4, TransactionFrame DEF IInv, TransactionInv, Transaction, RecoverBackup
  <2>3. Safe'
    <3>1. UNCHANGED <<state, anchor>>
      BY DEF RecoverBackup
    <3>2. slotDir \in [Slot -> Content] /\ state \in DeploymentState
      BY DEF IInv, TypeOK, DiskTypeOK
    <3>3. ActiveSlotIntact'
      BY <1>4, <3>1, <3>2 DEF IInv, Safe, ActiveSlotIntact, DeploymentState
    <3> QED BY <3>1, <3>3
            DEF IInv, Safe, FloorCoversSlots, AnchorNeverBehind
  <2> QED BY <1>2, <2>1, <2>2, <2>3 DEF IInv, TypeOK
<1> QED BY <1>1, <1>3, <1>4 DEF RecoverBackup

LEMMA RecoverBackupsDoneStep ==
    ASSUME IInv, NEW p \in Proc, RecoverBackupsDone(p)
    PROVE  IInv'
<1>1. DiskTypeOK' /\ CacheTypeOK'
  BY DEF IInv, TypeOK, DiskTypeOK, CacheTypeOK, RecoverBackupsDone
<1>2. Transaction(p)'
  BY GotoFrame DEF IInv, TransactionInv, Transaction, RecoverBackupsDone
<1> QED BY <1>1, <1>2, QuietGoto DEF RecoverBackupsDone

LEMMA RecoverCandidatesStep ==
    ASSUME IInv, NEW p \in Proc, RecoverCandidates(p)
    PROVE  IInv'
<1>1. DiskTypeOK' /\ CacheTypeOK'
  BY DEF IInv, TypeOK, DiskTypeOK, CacheTypeOK, RecoverCandidates, Content
<1>2. Transaction(p)'
  BY GotoFrame DEF IInv, TransactionInv, Transaction, RecoverCandidates
<1> QED BY <1>1, <1>2, QuietGoto DEF RecoverCandidates

LEMMA RecoverSlotsStep ==
    ASSUME IInv, NEW p \in Proc, RecoverSlots(p)
    PROVE  IInv'
<1>1. pc[p] = "rec_slots" /\ base[p] = state
  BY DEF IInv, TransactionInv, Transaction, RecoverSlots
<1>2. DiskTypeOK' /\ CacheTypeOK'
  BY DEF IInv, TypeOK, DiskTypeOK, CacheTypeOK, RecoverSlots, Content
<1>3. CASE Leave(p, "refused") /\ UNCHANGED slotDir
  BY <1>1, <1>2, <1>3, QuietLeave DEF RecoverSlots
<1>4. CASE /\ slotDir' = [s \in Slot |-> IF base[p].slots[s] = None
                                         THEN Absent ELSE slotDir[s]]
           /\ Goto(p, "rec_finish")
  <2>1. ControlTypeOK' /\ LockInv' /\ CacheInv'
    BY <1>1, <1>4, GotoFrame DEF IInv, CacheInv, RecoverSlots
  <2>2. TransactionInv'
    BY <1>1, <1>4, GotoFrame, TransactionFrame DEF Transaction, RecoverSlots
  <2>3. Safe'
    BY <1>1, <1>4 DEF IInv, TypeOK, DiskTypeOK, DeploymentState, Safe,
        ActiveSlotIntact, FloorCoversSlots, AnchorNeverBehind, RecoverSlots
  <2> QED BY <1>2, <2>1, <2>2, <2>3 DEF IInv, TypeOK
<1> QED BY <1>3, <1>4 DEF RecoverSlots

LEMMA RefreshedFacts ==
    ASSUME IInv, NEW p \in Proc, NEW st, NEW journal
    PROVE  /\ Refreshed(p, st, journal) \in Floor
           /\ UseAnchor => Refreshed(p, st, journal) <= anchor
BY FloorsAreIntegers
   DEF IInv, TypeOK, DiskTypeOK, CacheTypeOK, CacheInv, Refreshed

LEMMA RecoverFinishStep ==
    ASSUME IInv, NEW p \in Proc, RecoverFinish(p)
    PROVE  IInv'
<1>1. DiskTypeOK' /\ CacheTypeOK'
  BY RefreshedFacts DEF IInv, TypeOK, DiskTypeOK, CacheTypeOK, RecoverFinish,
     NoJournal, Journal, Floor, NoFloor, Slot
<1>2. CacheInv'
  BY RefreshedFacts DEF IInv, TypeOK, CacheTypeOK, CacheInv, RecoverFinish
<1>3. ControlTypeOK' /\ LockInv' /\ TransactionInv'
  BY LeaveFrame DEF RecoverFinish
<1>4. Safe'
  BY SafeFrame DEF IInv, RecoverFinish
<1> QED BY <1>1, <1>2, <1>3, <1>4 DEF IInv, TypeOK

-----------------------------------------------------------------------------
(* Reading and rolling back                                                *)

LEMMA ReadStateStep ==
    ASSUME IInv, NEW p \in Proc, ReadState(p)
    PROVE  IInv'
<1>1. TypeOK' /\ CacheInv'
  BY RefreshedFacts
     DEF IInv, TypeOK, DiskTypeOK, ControlTypeOK, CacheTypeOK, CacheInv, ReadState
<1>2. LockInv' /\ TransactionInv'
  BY DEF IInv, LockInv, TransactionInv, Transaction, ReadState
<1> QED BY <1>1, <1>2, SafeFrame DEF IInv, ReadState

LEMMA RollbackStep ==
    ASSUME IInv, NEW p \in Proc, Rollback(p)
    PROVE  IInv'
<1>1. /\ state.previous \in Slot
      /\ slotDir[state.previous] = state.slots[state.previous]
      /\ state.slots[state.previous] # None
  BY VersionAssumption, SentinelAssumption
     DEF IInv, TypeOK, DiskTypeOK, DeploymentState, Content, Rollback
<1>2. state' \in DeploymentState
  BY RolledBackOfType DEF IInv, TypeOK, DiskTypeOK, Rollback
<1>3. TypeOK' /\ CacheInv'
  BY <1>2, RefreshedFacts
     DEF IInv, TypeOK, DiskTypeOK, ControlTypeOK, CacheTypeOK, CacheInv, Rollback
<1>4. LockInv' /\ TransactionInv'
  BY ProcAssumption DEF IInv, LockInv, TransactionInv, Transaction, Rollback
<1>5. /\ state'.active = state.previous
      /\ state'.slots = state.slots /\ state'.floor = state.floor
  BY DEF RolledBackOf, Rollback
<1>6. Safe'
  BY <1>1, <1>5
     DEF IInv, Safe, ActiveSlotIntact, FloorCoversSlots, AnchorNeverBehind, Rollback
<1> QED BY <1>3, <1>4, <1>6 DEF IInv

-----------------------------------------------------------------------------
(* The deploy transaction                                                  *)

LEMMA DeployBeginStep ==
    ASSUME IInv, NEW p \in Proc, NEW v \in Version, NEW allow \in BOOLEAN,
           DeployBegin(p, v, allow)
    PROVE  IInv'
<1>1. Inactive(state) \in Slot /\ Inactive(state) # state.active
  BY DEF Inactive, Slot
<1>2. TypeOK' /\ CacheInv'
  BY <1>1, RefreshedFacts
     DEF IInv, TypeOK, DiskTypeOK, ControlTypeOK, CacheTypeOK, CacheInv,
         DeployBegin, AcquireExclusive
<1>3. LockInv'
  BY ProcAssumption
     DEF IInv, TypeOK, ControlTypeOK, LockInv, DeployBegin, AcquireExclusive
<1>4. TransactionInv'
  <2>1. Transaction(p)'
    BY <1>1 DEF IInv, TypeOK, ControlTypeOK, Transaction, DeployBegin, SequenceAccepted
  <2> QED BY <2>1, TransactionFrame
          DEF IInv, TypeOK, ControlTypeOK, DeployBegin, AcquireExclusive
<1>5. Safe'
  BY SafeFrame DEF IInv, DeployBegin
<1> QED BY <1>2, <1>3, <1>4, <1>5 DEF IInv

(* What the holder of the lock knows inside deploy.                        *)
LEMMA InDeploy ==
    ASSUME IInv, NEW p \in Proc, pc[p] \in DeployPC
    PROVE  /\ tgt[p] \in Slot /\ ver[p] \in Version
           /\ ver[p] \in Content /\ slotDir[tgt[p]] \in Content
           /\ candDir[tgt[p]] \in Content /\ backupDir[tgt[p]] \in Content
BY DEF IInv, TypeOK, DiskTypeOK, TransactionInv, Transaction, Content

LEMMA StageStep ==
    ASSUME IInv, NEW p \in Proc, Stage(p)
    PROVE  IInv'
<1>1. DiskTypeOK' /\ CacheTypeOK'
  BY InDeploy, RmTreeFacts DEF IInv, TypeOK, DiskTypeOK, CacheTypeOK, Stage, Content
<1>2. CASE Goto(p, "gate")
  <2>1. Transaction(p)'
    BY <1>2, GotoFrame DEF IInv, TransactionInv, Transaction, Stage
  <2> QED BY <1>1, <1>2, <2>1, QuietGoto DEF Stage
<1>3. CASE Leave(p, "idle")
  BY <1>1, <1>3, QuietLeave DEF Stage
<1> QED BY <1>2, <1>3 DEF Stage

LEMMA GatePassStep ==
    ASSUME IInv, NEW p \in Proc, GatePass(p)
    PROVE  IInv'
<1>1. DiskTypeOK' /\ CacheTypeOK'
  BY DEF IInv, TypeOK, DiskTypeOK, CacheTypeOK, GatePass
<1>2. Transaction(p)'
  BY GotoFrame DEF IInv, TransactionInv, Transaction, GatePass
<1> QED BY <1>1, <1>2, QuietGoto DEF GatePass

LEMMA GateFailStep ==
    ASSUME IInv, NEW p \in Proc, GateFail(p)
    PROVE  IInv'
<1>1. base[p] = state /\ state \in DeploymentState
  BY DEF IInv, TypeOK, DiskTypeOK, TransactionInv, Transaction, GateFail
<1>2. /\ state' \in DeploymentState /\ state'.active = state.active
      /\ state'.slots = state.slots /\ state'.floor = state.floor
  BY <1>1, FailedOfType DEF GateFail, FailedOf
<1>3. DiskTypeOK' /\ CacheTypeOK' /\ CacheInv'
  BY <1>2, InDeploy, RmTreeFacts
     DEF IInv, TypeOK, DiskTypeOK, CacheTypeOK, CacheInv, GateFail
<1>4. ControlTypeOK' /\ LockInv' /\ TransactionInv'
  BY LeaveFrame DEF GateFail
<1>5. Safe'
  BY <1>2 DEF IInv, Safe, ActiveSlotIntact, FloorCoversSlots, AnchorNeverBehind, GateFail
<1> QED BY <1>3, <1>4, <1>5 DEF IInv, TypeOK

(* Rewriting a slot that is not the active one keeps the state safe.       *)
LEMMA SafeElsewhere ==
    ASSUME IInv, NEW s \in Slot, s # state.active, NEW c,
           slotDir' = [slotDir EXCEPT ![s] = c],
           UNCHANGED <<state, anchor>>
    PROVE  Safe'
BY DEF IInv, TypeOK, DiskTypeOK, DeploymentState, Safe, ActiveSlotIntact,
       FloorCoversSlots, AnchorNeverBehind

LEMMA BackupStep ==
    ASSUME IInv, NEW p \in Proc, Backup(p)
    PROVE  IInv'
<1>1. DiskTypeOK' /\ CacheTypeOK' /\ CacheInv'
  BY InDeploy, RmTreeFacts
     DEF IInv, TypeOK, DiskTypeOK, CacheTypeOK, CacheInv, Backup, Content
<1>2. CASE slotDir' = [slotDir EXCEPT ![tgt[p]] = Absent] /\ Goto(p, "install")
  <2>1. Transaction(p)'
    BY <1>2, GotoFrame DEF IInv, TransactionInv, Transaction, Backup
  <2>2. TransactionInv' /\ ControlTypeOK' /\ LockInv'
    BY <1>2, <2>1, GotoFrame, TransactionFrame DEF Backup
  <2>3. Safe'
    BY <1>2, SafeElsewhere DEF IInv, TransactionInv, Transaction, Backup
  <2> QED BY <1>1, <2>2, <2>3 DEF IInv, TypeOK
<1>3. CASE Goto(p, "install") /\ UNCHANGED slotDir
  <2>1. Transaction(p)'
    BY <1>3, GotoFrame DEF IInv, TransactionInv, Transaction, Backup
  <2> QED BY <1>1, <1>3, <2>1, QuietGoto DEF Backup
<1>4. CASE Leave(p, "idle") /\ UNCHANGED slotDir
  BY <1>1, <1>4, QuietLeave DEF Backup
<1> QED BY <1>2, <1>3, <1>4 DEF Backup

LEMMA InstallStep ==
    ASSUME IInv, NEW p \in Proc, Install(p)
    PROVE  IInv'
<1>1. DiskTypeOK' /\ CacheTypeOK' /\ CacheInv'
  BY InDeploy DEF IInv, TypeOK, DiskTypeOK, CacheTypeOK, CacheInv, Install, Content
<1>2. CASE /\ slotDir' = [slotDir EXCEPT ![tgt[p]] = candDir[tgt[p]]]
           /\ Goto(p, AfterInstall(p))
  <2>1. /\ AfterInstall(p) \in {"journal", "commit"}
        /\ UseAnchor => AfterInstall(p) = "journal"
    BY DEF IInv, TransactionInv, Transaction, Install, AfterInstall
  <2>2. Transaction(p)'
    BY <1>2, <2>1, GotoFrame
       DEF IInv, TypeOK, DiskTypeOK, TransactionInv, Transaction, Install
  <2>3. TransactionInv' /\ ControlTypeOK' /\ LockInv'
    BY <1>2, <2>1, <2>2, GotoFrame, TransactionFrame DEF Install
  <2>4. Safe'
    BY <1>2, SafeElsewhere DEF IInv, TransactionInv, Transaction, Install
  <2> QED BY <1>1, <2>3, <2>4 DEF IInv, TypeOK
<1>3. CASE Goto(p, "undo") /\ UNCHANGED <<slotDir, candDir>>
  <2>1. Transaction(p)'
    BY <1>3, GotoFrame DEF IInv, TransactionInv, Transaction, Install
  <2> QED BY <1>1, <1>3, <2>1, QuietGoto DEF Install
<1> QED BY <1>2, <1>3 DEF Install

LEMMA WriteJournalStep ==
    ASSUME IInv, NEW p \in Proc, WriteJournal(p)
    PROVE  IInv'
<1>1. DiskTypeOK'
  BY InDeploy, VersionAssumption
     DEF IInv, TypeOK, DiskTypeOK, ControlTypeOK, WriteJournal, Journal, DeploymentState
<1>2. CacheTypeOK'
  BY DEF IInv, TypeOK, CacheTypeOK, WriteJournal
<1>3. ASSUME NEW to \in {"advance", "undo"}, Goto(p, to)
      PROVE  IInv'
  <2>1. Transaction(p)'
    BY <1>3, GotoFrame DEF IInv, TransactionInv, Transaction, WriteJournal
  <2> QED BY <1>1, <1>2, <1>3, <2>1, QuietGoto DEF WriteJournal
<1> QED BY <1>3 DEF WriteJournal

LEMMA AdvanceAnchorStep ==
    ASSUME IInv, NEW p \in Proc, AdvanceAnchor(p)
    PROVE  IInv'
<1>1. /\ pc[p] = "advance" /\ ver[p] \in Version
      /\ anchor' \in Floor /\ anchor \in Floor /\ anchor' >= anchor
      /\ UNCHANGED <<state, slotDir, candDir>>
  BY InDeploy, FloorsAreIntegers
     DEF IInv, TypeOK, DiskTypeOK, AdvanceAnchor, AdvanceTo
<1>2. \/ UNCHANGED trusted
      \/ /\ anchor' = ReleaseSeq[ver[p]]
         /\ trusted' = [trusted EXCEPT ![p] = ReleaseSeq[ver[p]]]
  BY DEF AdvanceAnchor, AdvanceTo
<1>3. DiskTypeOK'
  BY <1>1 DEF IInv, TypeOK, DiskTypeOK, AdvanceAnchor
<1>4. CacheTypeOK'
  BY <1>1, <1>2, FloorsAreIntegers DEF IInv, TypeOK, CacheTypeOK, AdvanceAnchor
<1>5. CacheInv'
  BY <1>1, <1>2, FloorsAreIntegers DEF IInv, TypeOK, CacheTypeOK, CacheInv
<1>6. Safe'
  BY <1>1, FloorsAreIntegers
     DEF IInv, TypeOK, DiskTypeOK, Safe, ActiveSlotIntact, FloorCoversSlots,
         AnchorNeverBehind
<1>7. ControlTypeOK' /\ LockInv' /\ TransactionInv'
  <2>1. CASE Leave(p, "idle")
    BY <1>1, <2>1, LeaveFrame
  <2>2. CASE Goto(p, "commit") /\ AdvanceTo(ReleaseSeq[ver[p]])
    <3>1. ReleaseSeq[ver[p]] <= anchor'
      BY <1>1, <2>2, FloorsAreIntegers DEF AdvanceTo
    <3>2. Transaction(p)'
      BY <1>1, <2>2, <3>1, GotoFrame DEF IInv, TransactionInv, Transaction
    <3> QED BY <1>1, <2>2, <3>2, GotoFrame, TransactionFrame
  <2> QED BY <2>1, <2>2 DEF AdvanceAnchor
<1> QED BY <1>3, <1>4, <1>5, <1>6, <1>7 DEF IInv, TypeOK

LEMMA CommitStep ==
    ASSUME IInv, NEW p \in Proc, Commit(p)
    PROVE  IInv'
<1> DEFINE new == CommitOf(state, tgt[p], ver[p], NewFloor(state, ver[p]))
<1>1. /\ pc[p] = "commit" /\ base[p] = state /\ state \in DeploymentState
      /\ tgt[p] \in Slot /\ ver[p] \in Version
      /\ UseAnchor => ReleaseSeq[ver[p]] > state.floor
      /\ slotDir[tgt[p]] = ver[p]
      /\ UseAnchor => ReleaseSeq[ver[p]] <= anchor
  BY DEF IInv, TypeOK, DiskTypeOK, TransactionInv, Transaction, Commit
<1>2. CASE /\ state' = new
           /\ Goto(p, IF UseAnchor THEN "unjournal" ELSE "cleanup")
  <2>1. new \in DeploymentState
    BY <1>1, NewFloorFacts, CommitOfType
  <2>2. DiskTypeOK'
    BY <1>2, <2>1 DEF IInv, TypeOK, DiskTypeOK, Commit
  <2>3. CacheTypeOK' /\ CacheInv'
    BY DEF IInv, TypeOK, CacheTypeOK, CacheInv, Commit
  <2>4. Transaction(p)'
    BY <1>1, <1>2, GotoFrame DEF Transaction
  <2>5. TransactionInv' /\ ControlTypeOK' /\ LockInv'
    BY <1>1, <1>2, <2>4, GotoFrame, TransactionFrame
  <2>6. ActiveSlotIntact'
    <3>1. state'.active = tgt[p] /\ state'.slots = [state.slots EXCEPT ![tgt[p]] = ver[p]]
      BY <1>2 DEF CommitOf
    <3>2. state'.slots[tgt[p]] = ver[p] /\ ver[p] # None
      BY <1>1, <3>1, VersionAssumption DEF DeploymentState
    <3> QED BY <1>1, <3>1, <3>2 DEF ActiveSlotIntact, Commit
  <2>7. FloorCoversSlots'
    BY <1>1, <1>2, NewFloorFacts, CommitCovers DEF IInv, Safe, FloorCoversSlots
  <2>8. AnchorNeverBehind'
    BY <1>1, <1>2, NewFloorFacts DEF AnchorNeverBehind, CommitOf, Commit
  <2> QED BY <2>2, <2>3, <2>5, <2>6, <2>7, <2>8 DEF IInv, TypeOK, Safe
<1>3. CASE UNCHANGED <<state, poisoned>>
  <2>1. DiskTypeOK' /\ CacheTypeOK' /\ UNCHANGED <<slotDir, anchor, trusted>>
    BY <1>3 DEF IInv, TypeOK, DiskTypeOK, CacheTypeOK, Commit
  <2>2. CASE Leave(p, "idle")
    BY <1>1, <1>3, <2>1, <2>2, QuietLeave
  <2>3. CASE Goto(p, "undo")
    <3>1. Transaction(p)'
      BY <1>1, <1>3, <2>3, GotoFrame DEF IInv, TransactionInv, Transaction, Commit
    <3> QED BY <1>1, <1>3, <2>1, <2>3, <3>1, QuietGoto
  <2>4. CASE ~(Leave(p, "idle") \/ Goto(p, "undo"))
    BY <1>1, <1>2, <2>4 DEF Commit
  <2> QED BY <2>2, <2>3, <2>4
<1> QED BY <1>1, <1>2, <1>3 DEF Commit

LEMMA UnjournalStep ==
    ASSUME IInv, NEW p \in Proc, Unjournal(p)
    PROVE  IInv'
<1>1. DiskTypeOK' /\ CacheTypeOK'
  BY DEF IInv, TypeOK, DiskTypeOK, CacheTypeOK, Unjournal, NoJournal, Journal,
         Floor, NoFloor, Slot
<1>2. CASE Goto(p, "cleanup")
  <2>1. Transaction(p)'
    BY <1>2, GotoFrame DEF IInv, TransactionInv, Transaction, Unjournal
  <2> QED BY <1>1, <1>2, <2>1, QuietGoto DEF Unjournal
<1>3. CASE Leave(p, "idle")
  BY <1>1, <1>3, QuietLeave DEF Unjournal
<1> QED BY <1>2, <1>3 DEF Unjournal

LEMMA CleanupStep ==
    ASSUME IInv, NEW p \in Proc, Cleanup(p)
    PROVE  IInv'
<1>1. DiskTypeOK' /\ CacheTypeOK'
  BY InDeploy, RmTreeFacts DEF IInv, TypeOK, DiskTypeOK, CacheTypeOK, Cleanup
<1> QED BY <1>1, QuietLeave DEF Cleanup

LEMMA UndoStep ==
    ASSUME IInv, NEW p \in Proc, Undo(p)
    PROVE  IInv'
<1>1. DiskTypeOK' /\ CacheTypeOK' /\ CacheInv'
  BY InDeploy
     DEF IInv, TypeOK, DiskTypeOK, CacheTypeOK, CacheInv, Undo, Residue, Content
<1>2. ControlTypeOK' /\ LockInv' /\ TransactionInv'
  BY LeaveFrame DEF Undo
<1>3. Safe'
  BY SafeElsewhere DEF IInv, TransactionInv, Transaction, Undo
<1> QED BY <1>1, <1>2, <1>3 DEF IInv, TypeOK

-----------------------------------------------------------------------------
(* Stops and crashes                                                       *)

LEMMA StopStep ==
    ASSUME IInv, NEW p \in Proc, Stop(p)
    PROVE  IInv'
<1>1. TypeOK'
  BY DEF IInv, TypeOK, DiskTypeOK, ControlTypeOK, CacheTypeOK, Stop, Floor, NoFloor
<1>2. LockInv' /\ TransactionInv'
  BY DEF IInv, TypeOK, ControlTypeOK, LockInv, TransactionInv, Transaction, Stop
<1>3. CacheInv'
  BY DEF IInv, TypeOK, CacheTypeOK, DiskTypeOK, CacheInv, Stop, Floor, NoFloor
<1> QED BY <1>1, <1>2, <1>3, SafeFrame DEF IInv, Stop

LEMMA DamagedType ==
    ASSUME NEW dir \in [Slot -> Content], NEW S \in SUBSET Slot,
           NEW new \in Damaged(dir, S)
    PROVE  /\ new \in [Slot -> Content]
           /\ \A s \in Slot \ S : new[s] = dir[s]
BY DEF Damaged, Content

(* A directory that is being deleted belongs to a slot other than the      *)
(* active one: this is where the copy of state.json must be current.       *)
LEMMA DeletionSpares ==
    ASSUME IInv, NEW p \in Proc
    PROVE  /\ SlotsInDeletion(p) \in SUBSET Slot
           /\ state.active \notin SlotsInDeletion(p)
           /\ BackupsInDeletion(p) \in SUBSET Slot
           /\ CandidatesInFlux(p) \in SUBSET Slot
<1>1. pc[p] \in {"undo", "rec_backups", "rec_slots"} => base[p] = state
  BY DEF IInv, TransactionInv, Transaction
<1>2. pc[p] \in DeployPC => tgt[p] \in Slot
  BY DEF IInv, TransactionInv, Transaction
<1>3. SlotsInDeletion(p) \in SUBSET Slot
  BY DEF SlotsInDeletion, Existing
<1>4. state.active \notin SlotsInDeletion(p)
  <2>1. CASE pc[p] = "undo"
    BY <2>1 DEF IInv, TransactionInv, Transaction, SlotsInDeletion
  <2>2. CASE pc[p] = "rec_backups"
    BY <1>1, <2>2, SentinelAssumption
       DEF IInv, Safe, ActiveSlotIntact, SlotsInDeletion, Existing, Slot
  <2>3. CASE pc[p] = "rec_slots"
    BY <1>1, <2>3, SentinelAssumption
       DEF IInv, Safe, ActiveSlotIntact, SlotsInDeletion, Existing, Slot
  <2>4. CASE pc[p] \notin {"undo", "rec_backups", "rec_slots"}
    BY <2>4 DEF SlotsInDeletion
  <2> QED BY <2>1, <2>2, <2>3, <2>4
<1>5. BackupsInDeletion(p) \in SUBSET Slot /\ CandidatesInFlux(p) \in SUBSET Slot
  BY <1>2 DEF BackupsInDeletion, CandidatesInFlux, Existing
<1> QED BY <1>3, <1>4, <1>5

LEMMA EndedStep ==
    ASSUME IInv, NEW p \in Proc, Ended(p)
    PROVE  IInv'
<1>1. /\ slotDir' \in [Slot -> Content] /\ backupDir' \in [Slot -> Content]
      /\ candDir' \in [Slot -> Content]
      /\ \A s \in Slot : s = state.active => slotDir'[s] = slotDir[s]
  BY DamagedType, DeletionSpares DEF IInv, TypeOK, DiskTypeOK, Ended
<1>2. DiskTypeOK' /\ CacheTypeOK'
  BY <1>1 DEF IInv, TypeOK, DiskTypeOK, CacheTypeOK, Ended, Floor, NoFloor
<1>3. ControlTypeOK'
  BY EmptyStateType DEF IInv, TypeOK, ControlTypeOK, Ended
<1>4. LockInv'
  BY ProcAssumption DEF IInv, TypeOK, ControlTypeOK, LockInv, Ended
<1>5. TransactionInv'
  <2>1. ASSUME NEW q \in Proc PROVE Transaction(q)'
    <3>1. CASE pc[p] \in Locked \/ q = p
      BY <3>1 DEF IInv, TypeOK, ControlTypeOK, LockInv, Transaction, Ended
    <3>2. CASE pc[p] \notin Locked /\ q # p
      <4>1. UNCHANGED <<slotDir, candDir, state, anchor>>
        BY <3>2 DEF Ended, Damaged, SlotsInDeletion, CandidatesInFlux
      <4>2. pc'[q] = pc[q] /\ base'[q] = base[q] /\ ver'[q] = ver[q] /\ tgt'[q] = tgt[q]
        BY <3>2 DEF IInv, TypeOK, ControlTypeOK, Ended
      <4> QED BY <4>1, <4>2 DEF IInv, TransactionInv, Transaction
    <3> QED BY <3>1, <3>2
  <2> QED BY <2>1 DEF TransactionInv
<1>6. CacheInv'
  BY DEF IInv, TypeOK, CacheTypeOK, DiskTypeOK, CacheInv, Ended, Floor, NoFloor
<1>7. Safe'
  BY <1>1 DEF IInv, TypeOK, DiskTypeOK, DeploymentState, Safe, ActiveSlotIntact,
              FloorCoversSlots, AnchorNeverBehind, Ended
<1> QED BY <1>2, <1>3, <1>4, <1>5, <1>6, <1>7 DEF IInv, TypeOK

-----------------------------------------------------------------------------
LEMMA InitIInv == Init => IInv
<1> SUFFICES ASSUME Init PROVE IInv
  OBVIOUS
<1>1. TypeOK
  BY EmptyStateType DEF Init, TypeOK, DiskTypeOK, ControlTypeOK, CacheTypeOK, Content,
     Floor, NoFloor, NoJournal, Journal, Slot
<1>2. LockInv /\ TransactionInv /\ CacheInv
  BY ProcAssumption DEF Init, LockInv, TransactionInv, Transaction, CacheInv,
                        NoFloor
<1>3. Safe
  BY DEF Init, EmptyState, NoFloor, Safe, ActiveSlotIntact, FloorCoversSlots,
         AnchorNeverBehind
<1> QED BY <1>1, <1>2, <1>3 DEF IInv

LEMMA StutterIInv == ASSUME IInv, UNCHANGED vars PROVE IInv'
BY DEF IInv, TypeOK, DiskTypeOK, ControlTypeOK, CacheTypeOK, LockInv, TransactionInv,
   Transaction, CacheInv, Safe, ActiveSlotIntact, FloorCoversSlots,
   AnchorNeverBehind, vars

LEMMA NextIInv == ASSUME IInv, [Next]_vars PROVE IInv'
<1>1. ASSUME NEW p \in Proc, Recover(p) PROVE IInv'
  BY <1>1, RecoverBeginStep, RecoverAnchorCommitStep, RecoverUnjournalStep,
     RecoverBackupStep, RecoverBackupsDoneStep, RecoverCandidatesStep,
     RecoverSlotsStep, RecoverFinishStep DEF Recover
<1>2. ASSUME NEW p \in Proc, DeployStep(p) PROVE IInv'
  BY <1>2, StageStep, GatePassStep, GateFailStep, BackupStep, InstallStep,
     WriteJournalStep, AdvanceAnchorStep, CommitStep, UnjournalStep, CleanupStep,
     UndoStep DEF DeployStep
<1> QED BY <1>1, <1>2, StutterIInv, BootStep, ReadStateStep, DeployBeginStep,
           RollbackStep, StopStep, EndedStep DEF Next, Crash, RecoverRaises

(* The inductive invariant holds in every reachable state.                 *)
LEMMA Inductive == Spec => []IInv
BY InitIInv, NextIInv, PTL DEF Spec

-----------------------------------------------------------------------------
(* Every file, directory and local variable keeps its type.                *)
THEOREM TypeCorrect == Spec => []TypeOK
BY Inductive, PTL DEF IInv

(* Through any interleaving of agents, crashes and failed calls, the       *)
(* active slot holds the complete release state.json names.                *)
THEOREM ActiveSlotAlwaysIntact == Spec => []ActiveSlotIntact
BY Inductive, PTL DEF IInv, Safe

(* No installed release lies above the anti-rollback floor of state.json,  *)
(* and the local floor never passes the external anchor.                   *)
THEOREM FloorsAlwaysOrdered == Spec => []FloorsOrdered
BY Inductive, PTL DEF IInv, Safe, FloorsOrdered

-----------------------------------------------------------------------------
(* How one step changes state.json and the anchor                          *)

(* The four ways a state.json is replaced, each from the current one.      *)
Written(old, new) ==
    \/ new = FailedOf(old)
    \/ new = RolledBackOf(old) /\ old.previous # None
    \/ \E s \in Slot, v \in Version, fl \in Floor :
          /\ new = CommitOf(old, s, v, fl)
          /\ fl >= old.floor

LEMMA StateSteps ==
    ASSUME IInv, [Next]_vars
    PROVE  /\ state' = state \/ Written(state, state')
           /\ anchor' >= anchor
<1>1. state \in DeploymentState /\ anchor \in Int
  BY FloorsAreIntegers DEF IInv, TypeOK, DiskTypeOK
<1>2. ASSUME NEW p \in Proc, GateFail(p)
      PROVE  (state' = state \/ Written(state, state')) /\ anchor' = anchor
  BY <1>2 DEF IInv, TransactionInv, Transaction, GateFail, Written
<1>3. ASSUME NEW p \in Proc, Commit(p)
      PROVE  (state' = state \/ Written(state, state')) /\ anchor' = anchor
  <2>1. /\ base[p] = state /\ tgt[p] \in Slot /\ ver[p] \in Version
        /\ UseAnchor => ReleaseSeq[ver[p]] > state.floor
    BY <1>3 DEF IInv, TransactionInv, Transaction, Commit
  <2> QED BY <1>1, <1>3, <2>1, NewFloorFacts DEF Commit, Written
<1>4. ASSUME NEW p \in Proc, RecoverAnchorCommit(p)
      PROVE  (state' = state \/ Written(state, state')) /\ anchor' = anchor
  <2>1. base[p] = state /\ trusted[p] \in Floor /\ pending.slot \in Slot
    BY <1>4 DEF IInv, TypeOK, DiskTypeOK, CacheTypeOK, Journal, TransactionInv,
                Transaction, RecoverAnchorCommit
  <2>2. AnchorAhead(p) => pending.version \in Version /\ trusted[p] >= state.floor
    BY <1>1, <2>1, FloorsAreIntegers DEF AnchorAhead, JournalTargetVerified
  <2> QED BY <1>4, <2>1, <2>2 DEF RecoverAnchorCommit, Written
<1>5. ASSUME NEW p \in Proc, Rollback(p)
      PROVE  Written(state, state') /\ anchor' = anchor
  BY <1>5 DEF Rollback, Written
<1>6. ASSUME NEW p \in Proc, AdvanceAnchor(p)
      PROVE  state' = state /\ anchor' >= anchor
  BY <1>1, <1>6 DEF AdvanceAnchor, AdvanceTo
<1>7. ASSUME NEW p \in Proc,
             \/ Boot(p) \/ RecoverBegin(p) \/ RecoverUnjournal(p)
             \/ (\E s \in Slot : RecoverBackup(p, s)) \/ RecoverBackupsDone(p)
             \/ RecoverCandidates(p) \/ RecoverSlots(p) \/ RecoverFinish(p)
             \/ ReadState(p)
             \/ (\E v \in Version, allow \in BOOLEAN : DeployBegin(p, v, allow))
             \/ Stage(p) \/ GatePass(p) \/ Backup(p) \/ Install(p)
             \/ WriteJournal(p) \/ Unjournal(p) \/ Cleanup(p) \/ Undo(p)
             \/ Stop(p) \/ Ended(p)
      PROVE  UNCHANGED <<state, anchor>>
  BY <1>7 DEF Boot, RecoverBegin, RecoverUnjournal, RecoverBackup,
     RecoverBackupsDone, RecoverCandidates, RecoverSlots, RecoverFinish,
     ReadState, DeployBegin, Stage, GatePass, Backup, Install, WriteJournal,
     Unjournal, Cleanup, Undo, Stop, Ended
<1>8. ASSUME UNCHANGED vars PROVE UNCHANGED <<state, anchor>>
  BY <1>8 DEF vars
<1> QED BY <1>1, <1>2, <1>3, <1>4, <1>5, <1>6, <1>7, <1>8
        DEF Next, Recover, DeployStep, Crash, RecoverRaises

LEMMA WrittenFacts ==
    ASSUME NEW old \in DeploymentState, NEW new, Written(old, new)
    PROVE  new.generation = old.generation + 1 /\ new.floor >= old.floor
BY FloorsAreIntegers DEF Written, FailedOf, RolledBackOf, CommitOf

(* Neither the floor of state.json nor that of the anchor ever decreases.  *)
THEOREM FloorMonotone == Spec => FloorNeverDecreases
<1>1. ASSUME IInv, [Next]_vars
      PROVE  [state'.floor >= state.floor /\ anchor' >= anchor]_vars
  <2>1. state \in DeploymentState /\ state.floor \in Int
    BY <1>1, FloorsAreIntegers DEF IInv, TypeOK, DiskTypeOK
  <2> QED BY <1>1, <2>1, StateSteps, WrittenFacts
<1> QED BY <1>1, Inductive, PTL DEF Spec, FloorNeverDecreases

(* Every change of state.json moves on by exactly one generation: no       *)
(* writer overwrites a commit it has not seen.                             *)
THEOREM GenerationsIdentifyStates == Spec => GenerationIdentifiesState
<1>1. ASSUME IInv, [Next]_vars
      PROVE  [state' # state => state'.generation = state.generation + 1]_vars
  BY <1>1, StateSteps, WrittenFacts DEF IInv, TypeOK, DiskTypeOK
<1> QED BY <1>1, Inductive, PTL DEF Spec, GenerationIdentifiesState

-----------------------------------------------------------------------------
(* An agent alone on its root.  The anchor it read at start-up stays       *)
(* current, so whatever interrupts an anchor-first commit is completed.    *)
(* With a second agent this is false: see the run deployer_stale_floor.    *)

Stranded == state.floor < anchor

JournalOf(p) ==
    [generation |-> base[p].generation, floor |-> base[p].floor,
     slot |-> tgt[p], version |-> ver[p], sequence |-> ReleaseSeq[ver[p]]]

(* Where agent a can be while the anchor is ahead, what it knows then, and *)
(* the journal it wrote before it advanced the anchor.                     *)
StrandedAt(p) ==
    \/ pc[p] \in {"down", "refused", "boot", "rec_anchor", "commit"}
    \/ pc[p] = "idle" /\ poisoned[p]

AloneInv(a) ==
    /\ AnchorRecoverable
    /\ Stranded => StrandedAt(a)
    /\ pc[a] \in {"boot", "rec_anchor"} => trusted[a] = anchor
    /\ pc[a] \in {"advance", "commit"} => poisoned[a] /\ pending = JournalOf(a)
    /\ pc[a] = "commit" => anchor = ReleaseSeq[ver[a]]

(* A read accepts no state that the anchor has left behind.                *)
LEMMA StrandedRefused ==
    ASSUME UseAnchor, NEW p \in Proc, IInv, AnchorRecoverable, Stranded
    PROVE  ~ReadAccepted(p)
<1>1. JournalExists
  BY DEF AnchorRecoverable, Stranded
<1>2. state.floor \in Int /\ anchor \in Int
  BY FloorsAreIntegers DEF IInv, TypeOK, DiskTypeOK
<1> QED BY <1>1, <1>2 DEF ReadAccepted, AnchorAgrees, Refreshed, Stranded

(* What agent p may do.                                                    *)
StepOf(p) ==
    \/ Boot(p) \/ Recover(p) \/ ReadState(p)
    \/ \E v \in Version, allow \in BOOLEAN : DeployBegin(p, v, allow)
    \/ DeployStep(p) \/ Rollback(p) \/ Stop(p) \/ Ended(p)

LEMMA OwnStep ==
    ASSUME NEW a \in Proc, UseAnchor, IInv, AloneInv(a), StepOf(a) \/ UNCHANGED vars
    PROVE  AloneInv(a)'
<1>t. /\ a \in Proc /\ pc \in [Proc -> PC] /\ trusted \in [Proc -> Floor]
      /\ poisoned \in [Proc -> BOOLEAN]
      /\ state \in DeploymentState /\ state.floor \in Int /\ anchor \in Int
  BY FloorsAreIntegers DEF IInv, TypeOK, DiskTypeOK, ControlTypeOK, CacheTypeOK
<1>f. pc[a] \in Fenced => base[a] = state
  BY <1>t DEF IInv, TransactionInv, Transaction
<1>1. ASSUME ~Stranded, ~Stranded',
             pc'[a] \notin {"boot", "rec_anchor", "advance", "commit"}
      PROVE  AloneInv(a)'
  BY <1>1 DEF AloneInv, AnchorRecoverable, Stranded
<1>2. ASSUME UNCHANGED <<fileVars, anchor, slotDir>>, StrandedAt(a) => StrandedAt(a)',
             pc'[a] \notin {"advance", "commit"},
             pc'[a] \in {"boot", "rec_anchor"} => trusted'[a] = anchor
      PROVE  AloneInv(a)'
  BY <1>2 DEF AloneInv, AnchorRecoverable, Stranded, JournalExists,
              JournalFollows, JournalTargetVerified
<1>3. CASE Boot(a)
  BY <1>2, <1>3, <1>t DEF Boot, StrandedAt
<1>4. CASE RecoverBegin(a)
  <2>1. trusted[a] = anchor
    BY <1>4 DEF AloneInv, RecoverBegin
  <2>2. UNCHANGED <<state, pending, anchor, slotDir, trusted>>
    BY <1>4 DEF RecoverBegin
  <2>3. pc'[a] \in {"refused", "rec_anchor"}
    BY <1>4, <1>t DEF RecoverBegin
  <2> QED BY <2>1, <2>2, <2>3 DEF AloneInv, AnchorRecoverable, Stranded,
          StrandedAt, JournalExists, JournalFollows, JournalTargetVerified
<1>5. CASE RecoverAnchorCommit(a)
  <2>1. pc[a] = "rec_anchor" /\ trusted[a] = anchor /\ base[a] = state
    BY <1>5, <1>f DEF RecoverAnchorCommit, AloneInv
  <2>2. UNCHANGED <<pending, anchor, slotDir>>
    BY <1>5 DEF RecoverAnchorCommit
  <2>3. CASE AnchorAhead(a) /\ pc' = [pc EXCEPT ![a] = "rec_unjournal"]
             /\ state' = CommitOf(base[a], pending.slot, pending.version, trusted[a])
    <3>1. state'.floor = anchor'
      BY <2>1, <2>2, <2>3 DEF CommitOf
    <3>2. ~Stranded'
      BY <3>1, <2>2, <1>t DEF Stranded
    <3>3. pc'[a] = "rec_unjournal"
      BY <2>3, <1>t
    <3> QED BY <3>2, <3>3, <2>2 DEF AloneInv, AnchorRecoverable, Stranded
  <2>4. CASE (AnchorSettled(a) \/ AnchorCommitted(a)) /\ UNCHANGED state
             /\ \E to \in {"rec_backups", "rec_unjournal"} : Goto(a, to)
    <3>1. ~Stranded /\ ~Stranded'
      BY <2>1, <2>2, <2>4, <1>t DEF AnchorSettled, AnchorCommitted, Stranded
    <3>2. pc'[a] \in {"rec_backups", "rec_unjournal"}
      BY <2>4, <1>t DEF Goto
    <3> QED BY <3>1, <3>2, <1>1
  <2>5. CASE Leave(a, "refused") /\ UNCHANGED state
    <3>1. pc'[a] = "refused"
      BY <2>5, <1>t DEF Leave
    <3> QED BY <3>1, <2>2, <2>5 DEF AloneInv, AnchorRecoverable, Stranded,
            StrandedAt, JournalExists, JournalFollows, JournalTargetVerified
  <2> QED BY <1>5, <2>3, <2>4, <2>5 DEF RecoverAnchorCommit
<1>6. ASSUME \/ RecoverUnjournal(a) \/ (\E s \in Slot : RecoverBackup(a, s))
             \/ RecoverBackupsDone(a) \/ RecoverCandidates(a)
             \/ RecoverSlots(a) \/ RecoverFinish(a)
      PROVE  AloneInv(a)'
  <2>1. /\ pc[a] \in {"rec_unjournal", "rec_backups", "rec_candidates",
                      "rec_slots", "rec_finish"}
        /\ UNCHANGED <<state, anchor>>
    BY <1>6 DEF RecoverUnjournal, RecoverBackup, RecoverBackupsDone,
       RecoverCandidates, RecoverSlots, RecoverFinish
  <2>2. ~Stranded /\ ~Stranded'
    BY <2>1 DEF AloneInv, StrandedAt, Stranded
  <2>3. pc'[a] \in {"rec_backups", "rec_candidates", "rec_slots", "rec_finish",
                    "idle", "refused"}
    BY <1>6, <1>t DEF RecoverUnjournal, RecoverBackup, RecoverBackupsDone,
       RecoverCandidates, RecoverSlots, RecoverFinish, Goto, Leave
  <2> QED BY <2>2, <2>3, <1>1
<1>7. CASE ReadState(a)
  BY <1>2, <1>7, <1>t DEF ReadState, StrandedAt
<1>8. ASSUME NEW v \in Version, NEW allow, DeployBegin(a, v, allow)
      PROVE  AloneInv(a)'
  <2>1. ~Stranded /\ ~Stranded'
    BY <1>8, <1>t, StrandedRefused DEF AloneInv, DeployBegin, Stranded
  <2>2. pc'[a] = "stage"
    BY <1>8, <1>t DEF DeployBegin
  <2> QED BY <2>1, <2>2, <1>1
<1>9. CASE Rollback(a)
  <2>1. ~Stranded
    BY <1>9, <1>t, StrandedRefused DEF AloneInv, Rollback
  <2>2. state'.floor = state.floor /\ UNCHANGED <<anchor, pc>> /\ pc[a] = "idle"
    BY <1>9 DEF Rollback, RolledBackOf
  <2>3. ~Stranded'
    BY <2>1, <2>2 DEF Stranded
  <2> QED BY <2>1, <2>2, <2>3, <1>1
<1>10. ASSUME \/ Stage(a) \/ GatePass(a) \/ GateFail(a) \/ Backup(a)
              \/ Install(a) \/ Unjournal(a) \/ Cleanup(a) \/ Undo(a)
       PROVE  AloneInv(a)'
  <2>1. pc[a] \in {"stage", "gate", "backup", "install", "unjournal", "cleanup", "undo"}
    BY <1>10 DEF Stage, GatePass, GateFail, Backup, Install, Unjournal, Cleanup, Undo
  <2>2. UNCHANGED anchor /\ state'.floor = state.floor
    <3>1. CASE GateFail(a)
      <4>1. base[a] = state
        BY <3>1, <1>f DEF GateFail
      <4> QED BY <3>1, <4>1 DEF GateFail, FailedOf
    <3>2. CASE ~GateFail(a)
      BY <1>10, <3>2 DEF Stage, GatePass, Backup, Install, Unjournal, Cleanup, Undo
    <3> QED BY <3>1, <3>2
  <2>3. ~Stranded /\ ~Stranded'
    BY <2>1, <2>2 DEF AloneInv, StrandedAt, Stranded
  <2>4. AfterInstall(a) \in {"undo", "journal"}
    BY DEF AfterInstall
  <2>5. pc'[a] \in {"gate", "backup", "install", "undo", "journal", "cleanup", "idle"}
    BY <1>10, <1>t, <2>4 DEF Stage, GatePass, GateFail, Backup, Install, Unjournal,
       Cleanup, Undo, Goto, Leave
  <2> QED BY <2>3, <2>5, <1>1
<1>11. CASE WriteJournal(a)
  <2>1. pc[a] = "journal" /\ UNCHANGED <<state, anchor>>
    BY <1>11 DEF WriteJournal
  <2>2. ~Stranded /\ ~Stranded'
    BY <2>1 DEF AloneInv, StrandedAt, Stranded
  <2>3. CASE /\ pending' = JournalOf(a)
             /\ poisoned' = [poisoned EXCEPT ![a] = TRUE]
             /\ Goto(a, "advance")
    <3>1. pc'[a] = "advance" /\ poisoned'[a] /\ pending' = JournalOf(a)'
      BY <2>3, <1>t DEF Goto, JournalOf
    <3> QED BY <2>2, <3>1 DEF AloneInv, AnchorRecoverable, Stranded
  <2>4. CASE Goto(a, "undo")
    <3>1. pc'[a] = "undo"
      BY <2>4, <1>t DEF Goto
    <3> QED BY <2>2, <3>1, <1>1
  <2> QED BY <1>11, <2>3, <2>4 DEF WriteJournal, JournalOf
<1>12. CASE AdvanceAnchor(a)
  <2>1. /\ pc[a] = "advance" /\ base[a] = state /\ poisoned[a]
        /\ pending = JournalOf(a)
        /\ tgt[a] \in Slot /\ ver[a] \in Version /\ slotDir[tgt[a]] = ver[a]
        /\ ~Stranded
    BY <1>12, <1>t, <1>f DEF AdvanceAnchor, AloneInv, StrandedAt, IInv,
       TransactionInv, Transaction
  <2>2. UNCHANGED <<state, pending, slotDir, poisoned>>
    BY <1>12 DEF AdvanceAnchor
  <2>3. anchor' = anchor \/ anchor' = ReleaseSeq[ver[a]]
    BY <1>12 DEF AdvanceAnchor, AdvanceTo
  <2>4. AnchorRecoverable'
    <3>1. CASE anchor' = anchor
      BY <2>1, <2>2, <3>1 DEF AnchorRecoverable, Stranded
    <3>2. CASE anchor' = ReleaseSeq[ver[a]]
      BY <2>1, <2>2, <3>2, VersionAssumption
         DEF AnchorRecoverable, JournalOf, JournalExists, JournalFollows,
             JournalTargetVerified
    <3> QED BY <2>3, <3>1, <3>2
  <2>5. CASE Leave(a, "idle")
    <3>1. pc'[a] = "idle"
      BY <2>5, <1>t DEF Leave
    <3> QED BY <2>1, <2>2, <2>4, <3>1 DEF AloneInv, StrandedAt
  <2>6. CASE Goto(a, "commit") /\ AdvanceTo(ReleaseSeq[ver[a]])
    <3>1. pc'[a] = "commit" /\ UNCHANGED <<base, ver, tgt>>
      BY <2>6, <1>t DEF Goto
    <3>2. anchor' = ReleaseSeq[ver'[a]]
      BY <2>6, <3>1 DEF AdvanceTo
    <3>3. pending' = JournalOf(a)'
      BY <2>1, <2>2, <3>1 DEF JournalOf
    <3> QED BY <2>1, <2>2, <2>4, <3>1, <3>2, <3>3 DEF AloneInv, StrandedAt
  <2> QED BY <1>12, <2>5, <2>6 DEF AdvanceAnchor
<1>13. CASE Commit(a)
  <2>1. /\ pc[a] = "commit" /\ base[a] = state /\ poisoned[a]
        /\ anchor = ReleaseSeq[ver[a]]
    BY <1>13, <1>f DEF Commit, AloneInv
  <2>2. UNCHANGED <<slotDir, pending, anchor>>
    BY <1>13 DEF Commit
  <2>3. CASE /\ state' = CommitOf(base[a], tgt[a], ver[a], NewFloor(base[a], ver[a]))
             /\ Goto(a, "unjournal")
    <3>1. state'.floor = anchor'
      BY <2>1, <2>2, <2>3 DEF CommitOf, NewFloor
    <3>2. ~Stranded'
      BY <3>1, <2>2, <1>t DEF Stranded
    <3>3. pc'[a] = "unjournal"
      BY <2>3, <1>t DEF Goto
    <3> QED BY <3>2, <3>3 DEF AloneInv, AnchorRecoverable, Stranded
  <2>4. CASE Leave(a, "idle") /\ UNCHANGED <<state, poisoned>>
    <3>1. pc'[a] = "idle"
      BY <2>4, <1>t DEF Leave
    <3> QED BY <2>1, <2>2, <2>4, <3>1 DEF AloneInv, AnchorRecoverable, Stranded,
            StrandedAt, JournalExists, JournalFollows, JournalTargetVerified
  <2> QED BY <1>13, <2>3, <2>4 DEF Commit
<1>14. CASE Stop(a)
  BY <1>2, <1>14, <1>t DEF Stop, StrandedAt
<1>15. CASE Ended(a)
  <2>1. pc'[a] = "down" /\ UNCHANGED <<fileVars, anchor>>
    BY <1>15, <1>t DEF Ended
  <2>2. CASE Stranded
    <3>1. StrandedAt(a)
      BY <2>2 DEF AloneInv
    <3>2. SlotsInDeletion(a) = {}
      BY <3>1 DEF StrandedAt, SlotsInDeletion
    <3>3. UNCHANGED slotDir
      BY <1>15, <3>2 DEF Ended, Damaged
    <3> QED BY <2>1, <3>3, <1>2 DEF StrandedAt
  <2>3. CASE ~Stranded
    BY <2>1, <2>3, <1>1 DEF Stranded
  <2> QED BY <2>2, <2>3
<1>16. CASE UNCHANGED vars
  BY <1>16 DEF vars, AloneInv, AnchorRecoverable, Stranded, StrandedAt, JournalOf,
     JournalExists, JournalFollows, JournalTargetVerified
<1> QED BY <1>3, <1>4, <1>5, <1>6, <1>7, <1>8, <1>9, <1>10, <1>11, <1>12,
           <1>13, <1>14, <1>15, <1>16 DEF StepOf, Recover, DeployStep

LEMMA AloneStep ==
    ASSUME NEW a, Proc = {a}, UseAnchor, IInv, AloneInv(a), [Next]_vars
    PROVE  AloneInv(a)'
BY OwnStep DEF Next, StepOf, Crash, RecoverRaises

(* REQ-026 for an agent alone on its root, whatever fails or kills it:     *)
(* while the anchor is ahead of state.json, the journal names the          *)
(* transition that advanced it and the target slot holds that release.     *)
THEOREM AnchorAlwaysRecoverable ==
    ASSUME NEW a, Proc = {a}
    PROVE  Spec => []AnchorRecoverable
<1>1. CASE UseAnchor
  <2>1. Init => AloneInv(a)
    BY DEF Init, AloneInv, AnchorRecoverable, Stranded, StrandedAt, EmptyState, NoFloor
  <2>2. IInv /\ AloneInv(a) /\ [Next]_vars => AloneInv(a)'
    BY <1>1, AloneStep
  <2>3. AloneInv(a) => AnchorRecoverable
    BY DEF AloneInv
  <2> QED BY <2>1, <2>2, <2>3, Inductive, PTL DEF Spec
<1>2. CASE ~UseAnchor
  <2>1. AnchorRecoverable
    BY <1>2 DEF AnchorRecoverable
  <2> QED BY <2>1, PTL
<1> QED BY <1>1, <1>2

-----------------------------------------------------------------------------
(* What is on disk at each point of an agent that is alone on its root     *)

(* A release state.json names is complete in its slot or in its backup.    *)
Restorable(s) ==
    IF state.slots[s] = None THEN backupDir[s] = Absent
    ELSE state.slots[s] \in {slotDir[s], backupDir[s]}

(* A slot holds what state.json names, and nothing if it names nothing.    *)
Clean(s) ==
    IF state.slots[s] = None THEN slotDir[s] = Absent /\ backupDir[s] = Absent
    ELSE slotDir[s] = state.slots[s]

(* What a slot held has been moved to its backup.                          *)
Backed(s) ==
    backupDir[s] = IF state.slots[s] = None THEN Absent ELSE state.slots[s]

PoisonInv(a) ==
    /\ ~UseAnchor => ~poisoned[a]
    /\ pc[a] \in {"journal", "advance", "unjournal"} => UseAnchor
    /\ pc[a] \in {"advance", "commit"} /\ UseAnchor => poisoned[a]
    /\ pc[a] \in RecoverPC \cup {"boot"} => ~poisoned[a]

DiskInv(a) ==
    /\ pc[a] \in {"down", "refused", "boot", "rec_anchor", "rec_unjournal",
                  "rec_backups", "idle"} => \A s \in Slot : Restorable(s)
    /\ pc[a] \in {"rec_candidates", "rec_slots"} =>
          \A s \in Slot : Restorable(s) /\ backupDir[s] = Absent
    /\ \/ pc[a] \in {"rec_finish", "stage", "gate", "backup", "unjournal", "cleanup"}
       \/ pc[a] = "idle" /\ ~poisoned[a]
       => \A s \in Slot : Clean(s)
    /\ pc[a] \in {"install", "undo", "journal", "advance", "commit"} =>
          \A s \in Slot : IF s = tgt[a] THEN Backed(s) ELSE Clean(s)

(* The way back leads to a slot state.json names.                          *)
PreviousInv == state.previous # None => state.slots[state.previous] # None

LEMMA SlotFrame ==
    ASSUME NEW s, slotDir'[s] = slotDir[s], backupDir'[s] = backupDir[s],
           state'.slots[s] = state.slots[s]
    PROVE  /\ Restorable(s)' <=> Restorable(s)
           /\ Clean(s)' <=> Clean(s)
           /\ Backed(s)' <=> Backed(s)
BY DEF Restorable, Clean, Backed

LEMMA CleanRestorable ==
    ASSUME NEW s, Clean(s) \/ Backed(s)
    PROVE  Restorable(s)
BY DEF Clean, Backed, Restorable

LEMMA PoisonStep ==
    ASSUME NEW a, Proc = {a}, IInv, PoisonInv(a), [Next]_vars
    PROVE  PoisonInv(a)'
<1>t. a \in Proc /\ pc \in [Proc -> PC] /\ poisoned \in [Proc -> BOOLEAN]
  BY DEF IInv, TypeOK, ControlTypeOK, CacheTypeOK
<1>1. ASSUME Boot(a) \/ Stop(a) \/ Ended(a) \/ ReadState(a) \/ Rollback(a)
             \/ \E v \in Version, allow \in BOOLEAN : DeployBegin(a, v, allow)
      PROVE  PoisonInv(a)'
  BY <1>1, <1>t DEF PoisonInv, Boot, Stop, Ended, ReadState, Rollback, DeployBegin
<1>2. ASSUME Recover(a) PROVE PoisonInv(a)'
  <2>1. poisoned' = poisoned
    BY <1>2 DEF Recover, RecoverBegin, RecoverAnchorCommit, RecoverUnjournal,
       RecoverBackup, RecoverBackupsDone, RecoverCandidates, RecoverSlots, RecoverFinish
  <2>2. pc[a] \in RecoverPC \cup {"boot"}
    BY <1>2 DEF Recover, RecoverBegin, RecoverAnchorCommit, RecoverUnjournal,
       RecoverBackup, RecoverBackupsDone, RecoverCandidates, RecoverSlots, RecoverFinish
  <2>3. pc'[a] \in RecoverPC \cup {"idle", "refused"}
    BY <1>2, <1>t DEF Recover, RecoverBegin, RecoverAnchorCommit, RecoverUnjournal,
       RecoverBackup, RecoverBackupsDone, RecoverCandidates, RecoverSlots,
       RecoverFinish, Goto, Leave
  <2> QED BY <2>1, <2>2, <2>3 DEF PoisonInv
<1>3. ASSUME Stage(a) \/ GatePass(a) \/ GateFail(a) \/ Backup(a) \/ Unjournal(a)
             \/ Cleanup(a) \/ Undo(a)
      PROVE  PoisonInv(a)'
  <2>1. poisoned' = poisoned /\ pc'[a] \in {"gate", "backup", "install", "cleanup", "idle"}
    BY <1>3, <1>t DEF Stage, GatePass, GateFail, Backup, Unjournal, Cleanup, Undo,
       Goto, Leave
  <2> QED BY <2>1 DEF PoisonInv
<1>4. CASE Install(a)
  <2>1. candDir[tgt[a]] = ver[a] /\ poisoned' = poisoned
    BY <1>4, <1>t DEF IInv, TransactionInv, Transaction, Install
  <2>2. AfterInstall(a) = IF UseAnchor THEN "journal" ELSE "commit"
    BY <2>1 DEF AfterInstall
  <2>3. pc'[a] \in {"undo", IF UseAnchor THEN "journal" ELSE "commit"}
    BY <1>4, <1>t, <2>2 DEF Install, Goto
  <2> QED BY <2>1, <2>3 DEF PoisonInv
<1>5. CASE WriteJournal(a) \/ AdvanceAnchor(a) \/ Commit(a)
  BY <1>5, <1>t DEF PoisonInv, WriteJournal, AdvanceAnchor, Commit, Goto, Leave
<1>6. CASE UNCHANGED vars
  BY <1>6 DEF vars, PoisonInv
<1> QED BY <1>1, <1>2, <1>3, <1>4, <1>5, <1>6
        DEF Next, DeployStep, Crash, RecoverRaises

(* Which slots a write of state.json names: the others stay as they were.  *)
LEMMA PreviousStep ==
    ASSUME IInv, PreviousInv, [Next]_vars
    PROVE  PreviousInv'
<1>1. state \in DeploymentState /\ ActiveSlotIntact
  BY DEF IInv, TypeOK, DiskTypeOK, Safe
<1>2. CASE state' = state
  BY <1>2 DEF PreviousInv
<1>3. CASE state' = FailedOf(state) \/ state' = RolledBackOf(state)
  BY <1>1, <1>3 DEF PreviousInv, FailedOf, RolledBackOf, ActiveSlotIntact
<1>4. ASSUME NEW s \in Slot, NEW v \in Version, NEW fl, state' = CommitOf(state, s, v, fl)
      PROVE  PreviousInv'
  <2>1. state'.previous = state.active /\ state'.slots = [state.slots EXCEPT ![s] = v]
    BY <1>4 DEF CommitOf
  <2>2. state.active # None => state.active \in Slot /\ state.slots[state.active] # None
    BY <1>1 DEF ActiveSlotIntact, DeploymentState
  <2>3. state.slots \in [Slot -> Version \cup {None}] /\ v # None
    BY <1>1, VersionAssumption DEF DeploymentState
  <2> QED BY <2>1, <2>2, <2>3 DEF PreviousInv
<1> QED BY <1>2, <1>3, <1>4, StateSteps DEF Written

(* A kill tears only directories that recovery does not need.              *)
LEMMA EndedRestorable ==
    ASSUME NEW a \in Proc, IInv, DiskInv(a), Ended(a), NEW s \in Slot
    PROVE  Restorable(s)'
<1>t. /\ pc[a] \in PC /\ state.slots \in [Slot -> Version \cup {None}]
      /\ slotDir \in [Slot -> Content] /\ backupDir \in [Slot -> Content]
  BY DEF IInv, TypeOK, DiskTypeOK, ControlTypeOK, DeploymentState
<1>s. Absent \notin Version /\ None \notin Content /\ Absent # None
  BY VersionAssumption, SentinelAssumption DEF Content
<1>f. pc[a] \in {"rec_backups", "rec_slots"} => base[a] = state
  BY DEF IInv, TransactionInv, Transaction
<1>1. /\ s \notin SlotsInDeletion(a) => slotDir'[s] = slotDir[s]
      /\ s \notin BackupsInDeletion(a) => backupDir'[s] = backupDir[s]
      /\ UNCHANGED state
  BY <1>t, DamagedType, DeletionSpares DEF Ended
<1>2. Restorable(s)
  BY <1>t, CleanRestorable DEF DiskInv
<1>3. CASE s \in SlotsInDeletion(a)
  <2>1. s \notin BackupsInDeletion(a) /\ Backed(s)
    BY <1>3, <1>t, <1>s, <1>f, <1>2
       DEF DiskInv, SlotsInDeletion, BackupsInDeletion, Backed, Restorable
  <2>2. Backed(s)'
    BY <2>1, <1>1 DEF Backed
  <2> QED BY <2>2 DEF Backed, Restorable
<1>4. CASE s \in BackupsInDeletion(a)
  <2>1. s \notin SlotsInDeletion(a) /\ slotDir[s] = state.slots[s] /\ state.slots[s] # None
    BY <1>4, <1>t, <1>s, <1>f
       DEF DiskInv, SlotsInDeletion, BackupsInDeletion, Existing, Clean
  <2> QED BY <2>1, <1>1 DEF Restorable
<1>5. CASE s \notin SlotsInDeletion(a) /\ s \notin BackupsInDeletion(a)
  BY <1>1, <1>2, <1>5 DEF Restorable
<1> QED BY <1>3, <1>4, <1>5

LEMMA DiskStep ==
    ASSUME NEW a, Proc = {a}, "restore" \notin Faults,
           IInv, PoisonInv(a), DiskInv(a), [Next]_vars
    PROVE  DiskInv(a)'
<1>t. /\ a \in Proc /\ pc \in [Proc -> PC] /\ poisoned \in [Proc -> BOOLEAN]
      /\ state \in DeploymentState /\ state.slots \in [Slot -> Version \cup {None}]
      /\ slotDir \in [Slot -> Content] /\ backupDir \in [Slot -> Content]
      /\ tgt \in [Proc -> Slot \cup {None}]
  BY DEF IInv, TypeOK, DiskTypeOK, ControlTypeOK, CacheTypeOK, DeploymentState
<1>s. Absent \notin Version /\ None \notin Content /\ Absent # None
  BY VersionAssumption, SentinelAssumption DEF Content
<1>f. pc[a] \in Fenced => base[a] = state
  BY <1>t DEF IInv, TransactionInv, Transaction
<1>d. pc[a] \in DeployPC => tgt[a] \in Slot /\ ver[a] \in Version
  BY <1>t DEF IInv, TransactionInv, Transaction
<1>r. \A s \in Slot : Clean(s) \/ Backed(s) => Restorable(s)
  BY CleanRestorable
<1>1. ASSUME UNCHANGED <<slotDir, backupDir>>, state'.slots = state.slots
      PROVE  \A s \in Slot : /\ Restorable(s)' <=> Restorable(s)
                             /\ Clean(s)' <=> Clean(s)
                             /\ Backed(s)' <=> Backed(s)
  BY <1>1, SlotFrame
<1>2. ASSUME \A s \in Slot : Clean(s)',
             pc'[a] \in {"idle", "stage", "gate", "backup", "unjournal", "cleanup",
                         "rec_finish"}
      PROVE  DiskInv(a)'
  <2>1. \A s \in Slot : Restorable(s)'
    BY <1>2 DEF Clean, Restorable
  <2> QED BY <1>2, <2>1 DEF DiskInv
<1>3. ASSUME \A s \in Slot : Restorable(s)',
             \/ pc'[a] \in {"down", "refused", "boot", "rec_anchor",
                            "rec_unjournal", "rec_backups"}
             \/ pc'[a] = "idle" /\ poisoned'[a]
      PROVE  DiskInv(a)'
  BY <1>3 DEF DiskInv
<1>4. ASSUME \A s \in Slot : IF s = tgt'[a] THEN Backed(s)' ELSE Clean(s)',
             pc'[a] \in {"install", "undo", "journal", "advance", "commit"}
      PROVE  DiskInv(a)'
  BY <1>4 DEF DiskInv
<1>5. CASE Boot(a) \/ RecoverBegin(a)
  <2>1. UNCHANGED <<slotDir, backupDir, state>> /\ \A s \in Slot : Restorable(s)
    BY <1>5 DEF Boot, RecoverBegin, DiskInv
  <2>2. pc'[a] \in {"boot", "refused", "rec_anchor"}
    BY <1>5, <1>t DEF Boot, RecoverBegin
  <2> QED BY <2>1, <2>2, <1>1, <1>3
<1>6. CASE RecoverAnchorCommit(a)
  <2>1. UNCHANGED <<slotDir, backupDir>> /\ base[a] = state /\ \A s \in Slot : Restorable(s)
    BY <1>6, <1>f DEF RecoverAnchorCommit, DiskInv
  <2>2. pc'[a] \in {"rec_backups", "rec_unjournal", "refused"}
    BY <1>6, <1>t DEF RecoverAnchorCommit, Goto, Leave
  <2>3. CASE UNCHANGED state
    BY <2>1, <2>2, <2>3, <1>1, <1>3
  <2>4. CASE /\ AnchorAhead(a)
             /\ state' = CommitOf(base[a], pending.slot, pending.version, trusted[a])
    <3>1. /\ pending.slot \in Slot /\ pending.version # None
          /\ slotDir[pending.slot] = pending.version
      BY <2>4, VersionAssumption
         DEF AnchorAhead, JournalTargetVerified, IInv, TypeOK, DiskTypeOK, Journal
    <3>2. state'.slots = [state.slots EXCEPT ![pending.slot] = pending.version]
      BY <2>1, <2>4 DEF CommitOf
    <3>3. ASSUME NEW s \in Slot PROVE Restorable(s)'
      <4>1. CASE s = pending.slot
        BY <4>1, <3>1, <3>2, <2>1, <1>t DEF Restorable
      <4>2. CASE s # pending.slot
        BY <4>2, <3>2, <2>1, <1>t, SlotFrame
      <4> QED BY <4>1, <4>2
    <3> QED BY <2>2, <3>3, <1>3
  <2> QED BY <1>6, <2>3, <2>4 DEF RecoverAnchorCommit
<1>7. CASE RecoverUnjournal(a)
  <2>1. UNCHANGED <<slotDir, backupDir, state>> /\ \A s \in Slot : Restorable(s)
    BY <1>7 DEF RecoverUnjournal, DiskInv
  <2>2. pc'[a] = "rec_backups"
    BY <1>7, <1>t DEF RecoverUnjournal, Goto
  <2> QED BY <2>1, <2>2, <1>1, <1>3
<1>8. ASSUME NEW s \in Slot, RecoverBackup(a, s) PROVE DiskInv(a)'
  <2>1. base[a] = state /\ UNCHANGED state /\ \A u \in Slot : Restorable(u)
    BY <1>8, <1>f DEF RecoverBackup, DiskInv
  <2>2. pc'[a] \in {"rec_backups", "refused"}
    BY <1>8, <1>t DEF RecoverBackup, Leave
  <2>3. ASSUME NEW u \in Slot, u # s PROVE Restorable(u)'
    <3>1. slotDir'[u] = slotDir[u] /\ backupDir'[u] = backupDir[u]
      BY <1>8, <2>3, <1>t DEF RecoverBackup
    <3> QED BY <2>1, <3>1, SlotFrame
  <2>4. Restorable(s)'
    BY <1>8, <2>1, <1>t, <1>s DEF RecoverBackup, Restorable
  <2> QED BY <2>2, <2>3, <2>4, <1>3
<1>9. CASE RecoverBackupsDone(a) \/ RecoverCandidates(a)
  <2>1. /\ UNCHANGED <<slotDir, backupDir, state>>
        /\ \A s \in Slot : Restorable(s) /\ backupDir[s] = Absent
    BY <1>9 DEF RecoverBackupsDone, RecoverCandidates, DiskInv
  <2>2. pc'[a] \in {"rec_candidates", "rec_slots"}
    BY <1>9, <1>t DEF RecoverBackupsDone, RecoverCandidates, Goto
  <2> QED BY <2>1, <2>2, <1>1 DEF DiskInv
<1>10. CASE RecoverSlots(a)
  <2>1. /\ base[a] = state /\ UNCHANGED <<state, backupDir>>
        /\ \A s \in Slot : Restorable(s) /\ backupDir[s] = Absent
    BY <1>10, <1>f DEF RecoverSlots, DiskInv
  <2>2. CASE Leave(a, "refused") /\ UNCHANGED slotDir
    <3>1. pc'[a] = "refused"
      BY <2>2, <1>t DEF Leave
    <3> QED BY <2>1, <2>2, <3>1, <1>1, <1>3
  <2>3. CASE /\ slotDir' = [s \in Slot |-> IF base[a].slots[s] = None
                                           THEN Absent ELSE slotDir[s]]
             /\ Goto(a, "rec_finish")
    <3>1. pc'[a] = "rec_finish"
      BY <2>3, <1>t DEF Goto
    <3>2. ASSUME NEW s \in Slot PROVE Clean(s)'
      BY <2>1, <2>3, <1>t, <1>s DEF Clean, Restorable
    <3> QED BY <3>1, <3>2, <1>2
  <2> QED BY <1>10, <2>2, <2>3 DEF RecoverSlots
<1>11. CASE RecoverFinish(a)
  <2>1. UNCHANGED <<slotDir, backupDir, state>> /\ \A s \in Slot : Clean(s)
    BY <1>11 DEF RecoverFinish, DiskInv
  <2>2. pc'[a] \in {"idle", "refused"}
    BY <1>11, <1>t DEF RecoverFinish, Leave
  <2>3. \A s \in Slot : Clean(s)' /\ Restorable(s)'
    BY <2>1, <1>1, <1>r
  <2> QED BY <2>2, <2>3, <1>2, <1>3
<1>12. CASE ReadState(a)
  BY <1>12, <1>1 DEF ReadState, DiskInv
<1>13. CASE Rollback(a)
  <2>1. UNCHANGED <<slotDir, backupDir, pc, poisoned>> /\ state'.slots = state.slots
    BY <1>13 DEF Rollback, RolledBackOf
  <2>2. pc[a] = "idle"
    BY <1>13 DEF Rollback
  <2> QED BY <2>1, <2>2, <1>1 DEF DiskInv
<1>14. ASSUME NEW v \in Version, NEW allow, DeployBegin(a, v, allow)
       PROVE  DiskInv(a)'
  <2>1. ~poisoned[a]
    BY <1>14 DEF DeployBegin, ReadAccepted, AnchorAgrees, PoisonInv
  <2>2. UNCHANGED <<slotDir, backupDir, state>> /\ pc[a] = "idle"
    BY <1>14 DEF DeployBegin
  <2>3. \A s \in Slot : Clean(s)
    BY <2>1, <2>2 DEF DiskInv
  <2>4. pc'[a] = "stage"
    BY <1>14, <1>t DEF DeployBegin
  <2> QED BY <2>2, <2>3, <2>4, <1>1, <1>2
<1>15. CASE Stage(a) \/ GatePass(a) \/ GateFail(a) \/ Unjournal(a)
  <2>1. UNCHANGED <<slotDir, backupDir>> /\ \A s \in Slot : Clean(s)
    BY <1>15 DEF Stage, GatePass, GateFail, Unjournal, DiskInv
  <2>2. state'.slots = state.slots
    <3>1. CASE GateFail(a)
      <4>1. base[a] = state
        BY <3>1, <1>f DEF GateFail
      <4> QED BY <3>1, <4>1 DEF GateFail, FailedOf
    <3>2. CASE Stage(a) \/ GatePass(a) \/ Unjournal(a)
      BY <3>2 DEF Stage, GatePass, Unjournal
    <3> QED BY <1>15, <3>1, <3>2
  <2>3. pc'[a] \in {"gate", "backup", "cleanup", "idle"}
    BY <1>15, <1>t DEF Stage, GatePass, GateFail, Unjournal, Goto, Leave
  <2> QED BY <2>1, <2>2, <2>3, <1>1, <1>2
<1>16. CASE Backup(a)
  <2>1. tgt[a] \in Slot /\ UNCHANGED state /\ \A s \in Slot : Clean(s)
    BY <1>16, <1>d DEF Backup, DiskInv
  <2>2. CASE /\ backupDir' = [backupDir EXCEPT ![tgt[a]] = slotDir[tgt[a]]]
             /\ slotDir' = [slotDir EXCEPT ![tgt[a]] = Absent]
             /\ Goto(a, "install")
    <3>1. pc'[a] = "install" /\ tgt'[a] = tgt[a]
      BY <2>2, <1>t DEF Goto
    <3>2. Backed(tgt[a])'
      <4>1. backupDir'[tgt[a]] = slotDir[tgt[a]] /\ UNCHANGED tgt
        BY <2>1, <2>2, <1>t DEF Goto
      <4> QED BY <2>1, <4>1 DEF Backed, Clean
    <3>3. ASSUME NEW s \in Slot, s # tgt[a] PROVE Clean(s)'
      <4>1. slotDir'[s] = slotDir[s] /\ backupDir'[s] = backupDir[s]
        BY <2>2, <3>3, <1>t
      <4> QED BY <2>1, <4>1, SlotFrame
    <3>4. \A s \in Slot : IF s = tgt'[a] THEN Backed(s)' ELSE Clean(s)'
      <4>1. UNCHANGED tgt
        BY <2>2 DEF Goto
      <4> QED BY <3>1, <3>2, <3>3, <4>1 DEF Backed
    <3> QED BY <3>1, <3>4, <1>4
  <2>3. CASE /\ slotDir[tgt[a]] # Absent /\ backupDir' \in RmTree(backupDir, tgt[a])
             /\ UNCHANGED slotDir /\ Leave(a, "idle")
    <3>1. pc'[a] = "idle"
      BY <2>3, <1>t DEF Leave
    <3>2. ASSUME NEW s \in Slot PROVE Clean(s)'
      BY <2>1, <2>3, <1>t, RmTreeFacts DEF Clean
    <3> QED BY <3>1, <3>2, <1>2
  <2>4. CASE /\ slotDir[tgt[a]] = Absent /\ backupDir' \in RmTree(backupDir, tgt[a])
             /\ UNCHANGED slotDir /\ Goto(a, "install")
    <3>1. pc'[a] = "install" /\ UNCHANGED tgt
      BY <2>4, <1>t DEF Goto
    <3>2. state.slots[tgt[a]] = None /\ backupDir[tgt[a]] = Absent
      BY <2>1, <2>4, <1>t, <1>s DEF Clean
    <3>3. UNCHANGED backupDir
      BY <2>1, <2>4, <3>2, <1>t, RmTreeFacts
    <3>4. \A s \in Slot : IF s = tgt'[a] THEN Backed(s)' ELSE Clean(s)'
      BY <2>1, <2>4, <3>1, <3>2, <3>3, <1>1 DEF Backed
    <3> QED BY <3>1, <3>4, <1>4
  <2> QED BY <1>16, <2>2, <2>3, <2>4 DEF Backup
<1>17. CASE Install(a) \/ WriteJournal(a)
  <2>1. /\ tgt[a] \in Slot /\ UNCHANGED <<state, backupDir, tgt>>
        /\ \A s \in Slot : IF s = tgt[a] THEN Backed(s) ELSE Clean(s)
    BY <1>17, <1>d DEF Install, WriteJournal, Goto, DiskInv
  <2>2. \A s \in Slot : s # tgt[a] => slotDir'[s] = slotDir[s]
    BY <1>17, <1>t DEF Install, WriteJournal
  <2>3. pc'[a] \in {"undo", "journal", "advance", "commit"}
    BY <1>17, <1>t DEF Install, WriteJournal, AfterInstall, Goto
  <2>4. \A s \in Slot : IF s = tgt'[a] THEN Backed(s)' ELSE Clean(s)'
    BY <2>1, <2>2, SlotFrame DEF Backed
  <2> QED BY <2>3, <2>4, <1>4
<1>18. CASE AdvanceAnchor(a)
  <2>1. /\ UNCHANGED <<state, slotDir, backupDir, poisoned>> /\ poisoned[a]
        /\ \A s \in Slot : IF s = tgt[a] THEN Backed(s) ELSE Clean(s)
    BY <1>18 DEF AdvanceAnchor, PoisonInv, DiskInv
  <2>2. CASE Goto(a, "commit")
    <3>1. pc'[a] = "commit" /\ UNCHANGED tgt
      BY <2>2, <1>t DEF Goto
    <3>2. \A s \in Slot : IF s = tgt'[a] THEN Backed(s)' ELSE Clean(s)'
      BY <2>1, <3>1, <1>1
    <3> QED BY <3>1, <3>2, <1>4
  <2>3. CASE Leave(a, "idle")
    <3>1. pc'[a] = "idle" /\ poisoned'[a]
      BY <2>1, <2>3, <1>t DEF Leave
    <3>2. \A s \in Slot : Restorable(s)'
      BY <2>1, <1>1, <1>r
    <3> QED BY <3>1, <3>2, <1>3
  <2> QED BY <1>18, <2>2, <2>3 DEF AdvanceAnchor
<1>19. CASE Commit(a)
  <2>1. /\ UNCHANGED <<slotDir, backupDir>> /\ base[a] = state
        /\ tgt[a] \in Slot /\ ver[a] \in Version /\ slotDir[tgt[a]] = ver[a]
        /\ UseAnchor => poisoned[a]
        /\ \A s \in Slot : IF s = tgt[a] THEN Backed(s) ELSE Clean(s)
    BY <1>19, <1>t, <1>d, <1>f
       DEF Commit, PoisonInv, DiskInv, IInv, TransactionInv, Transaction
  <2>2. CASE /\ state' = CommitOf(base[a], tgt[a], ver[a], NewFloor(base[a], ver[a]))
             /\ Goto(a, IF UseAnchor THEN "unjournal" ELSE "cleanup")
    <3>1. pc'[a] \in {"unjournal", "cleanup"}
      BY <2>2, <1>t DEF Goto
    <3>2. state'.slots = [state.slots EXCEPT ![tgt[a]] = ver[a]]
      BY <2>1, <2>2 DEF CommitOf
    <3>3. ASSUME NEW s \in Slot PROVE Clean(s)'
      <4>1. CASE s = tgt[a]
        <5>1. state'.slots[s] = ver[a] /\ slotDir'[s] = ver[a] /\ ver[a] # None
          BY <4>1, <2>1, <3>2, <1>t, VersionAssumption
        <5> QED BY <5>1 DEF Clean
      <4>2. CASE s # tgt[a]
        BY <4>2, <2>1, <3>2, <1>t, SlotFrame
      <4> QED BY <4>1, <4>2
    <3> QED BY <3>1, <3>3, <1>2
  <2>3. CASE UNCHANGED <<state, poisoned>> /\ UseAnchor /\ Leave(a, "idle")
    <3>1. pc'[a] = "idle" /\ poisoned'[a]
      BY <2>1, <2>3, <1>t DEF Leave
    <3>2. \A s \in Slot : Restorable(s)'
      BY <2>1, <2>3, <1>1, <1>r
    <3> QED BY <3>1, <3>2, <1>3
  <2>4. CASE UNCHANGED <<state, poisoned>> /\ Goto(a, "undo")
    <3>1. pc'[a] = "undo" /\ UNCHANGED tgt
      BY <2>4, <1>t DEF Goto
    <3>2. \A s \in Slot : IF s = tgt'[a] THEN Backed(s)' ELSE Clean(s)'
      BY <2>1, <2>4, <3>1, <1>1
    <3> QED BY <3>1, <3>2, <1>4
  <2> QED BY <1>19, <2>2, <2>3, <2>4 DEF Commit
<1>20. CASE Cleanup(a)
  <2>1. /\ tgt[a] \in Slot /\ UNCHANGED <<state, slotDir>>
        /\ backupDir' \in RmTree(backupDir, tgt[a])
        /\ \A s \in Slot : Clean(s)
    BY <1>20, <1>d DEF Cleanup, DiskInv
  <2>2. pc'[a] = "idle"
    BY <1>20, <1>t DEF Cleanup, Leave
  <2>3. ASSUME NEW s \in Slot PROVE Clean(s)'
    BY <2>1, <1>t, RmTreeFacts DEF Clean
  <2> QED BY <2>2, <2>3, <1>2
<1>21. CASE Undo(a)
  <2>1. /\ tgt[a] \in Slot /\ UNCHANGED state
        /\ slotDir' = [slotDir EXCEPT ![tgt[a]] = backupDir[tgt[a]]]
        /\ backupDir' = [backupDir EXCEPT ![tgt[a]] = Absent]
        /\ \A s \in Slot : IF s = tgt[a] THEN Backed(s) ELSE Clean(s)
    BY <1>21, <1>d DEF Undo, DiskInv
  <2>2. pc'[a] = "idle"
    BY <1>21, <1>t DEF Undo, Leave
  <2>3. ASSUME NEW s \in Slot PROVE Clean(s)'
    BY <2>1, <1>t DEF Clean, Backed
  <2> QED BY <2>2, <2>3, <1>2
<1>22. CASE Stop(a)
  <2>1. UNCHANGED <<slotDir, backupDir, state>> /\ \A s \in Slot : Restorable(s)
    BY <1>22 DEF Stop, DiskInv
  <2>2. pc'[a] = "down"
    BY <1>22, <1>t DEF Stop
  <2> QED BY <2>1, <2>2, <1>1, <1>3
<1>23. CASE Ended(a)
  <2>1. pc'[a] = "down" /\ UNCHANGED state
    BY <1>23, <1>t DEF Ended
  <2>2. ASSUME NEW s \in Slot PROVE Restorable(s)'
    BY <1>23, <2>2, <1>t, <1>d, <1>s, <1>f, EndedRestorable
  <2> QED BY <2>1, <2>2, <1>3
<1>24. CASE UNCHANGED vars
  BY <1>24, <1>1 DEF vars, DiskInv
<1> QED BY <1>5, <1>6, <1>7, <1>8, <1>9, <1>10, <1>11, <1>12, <1>13, <1>14, <1>15,
           <1>16, <1>17, <1>18, <1>19, <1>20, <1>21, <1>22, <1>23, <1>24
        DEF Next, Recover, DeployStep, Crash, RecoverRaises

-----------------------------------------------------------------------------
(* Start-up of an agent alone on its root                                  *)

JournalDone ==
    JournalCommitted(state, anchor) /\ JournalTargetVerified(pending.sequence)

(* Where a journal can be on disk, and that it always describes the next   *)
(* or the last transition of state.json.                                   *)
PendingInv(a) ==
    JournalExists =>
        /\ UseAnchor
        /\ \/ pc[a] \in RecoverPC \cup {"advance", "commit", "unjournal", "down", "boot"}
           \/ pc[a] = "idle" /\ poisoned[a]
        /\ pc[a] \in {"rec_backups", "rec_candidates", "rec_slots", "rec_finish",
                      "advance", "commit"} => JournalFollows(state)
        /\ JournalFollows(state) \/ JournalDone

StartInv(a) ==
    /\ pc[a] # "refused"
    /\ ~hasState => pc[a] \in {"down", "boot"} /\ \A s \in Slot : slotDir[s] = Absent
    /\ PendingInv(a)

LEMMA NoJournalIsNone == ~(NoJournal.version # None)
BY DEF NoJournal

(* _recover_anchor_commit finds a case for whatever a crash left.          *)
LEMMA AnchorCaseFound ==
    ASSUME NEW a \in Proc, IInv, PendingInv(a), pc[a] = "rec_anchor",
           UseAnchor => AloneInv(a)
    PROVE  AnchorSettled(a) \/ AnchorCommitted(a) \/ AnchorAhead(a)
<1>1. base[a] = state
  BY DEF IInv, TransactionInv, Transaction
<1>2. CASE ~UseAnchor
  BY <1>2 DEF PendingInv, AnchorSettled
<1>3. CASE UseAnchor
  <2>1. trusted[a] = anchor /\ state.floor \in Int /\ anchor \in Int
    BY <1>3, FloorsAreIntegers DEF AloneInv, IInv, TypeOK, DiskTypeOK
  <2>g. state.generation \in Nat
    BY DEF IInv, TypeOK, DiskTypeOK, DeploymentState
  <2>2. CASE Stranded
    BY <1>1, <1>3, <2>1, <2>2 DEF AloneInv, AnchorRecoverable, Stranded, AnchorAhead
  <2>3. CASE ~Stranded
    <3>1. state.floor = anchor
      BY <1>3, <2>1, <2>3 DEF IInv, Safe, AnchorNeverBehind, Stranded
    <3>2. JournalExists => JournalFollows(state) \/ JournalDone
      BY DEF PendingInv
    <3>3. CASE JournalExists /\ JournalFollows(state)
      <4>1. ~JournalCommitted(state, anchor)
        BY <3>3, <2>g DEF JournalFollows, JournalCommitted
      <4> QED BY <1>1, <1>3, <2>1, <3>1, <3>3, <4>1 DEF AnchorSettled
    <3>4. CASE JournalExists /\ JournalDone
      BY <1>1, <1>3, <2>1, <3>1, <3>4 DEF JournalDone, AnchorCommitted
    <3>5. CASE ~JournalExists
      BY <1>1, <1>3, <2>1, <3>1, <3>5 DEF AnchorSettled
    <3> QED BY <3>2, <3>3, <3>4, <3>5
  <2> QED BY <2>2, <2>3
<1> QED BY <1>2, <1>3

LEMMA StartStep ==
    ASSUME NEW a, Proc = {a}, "unlink" \notin Faults,
           IInv, PoisonInv(a), DiskInv(a),
           StartInv(a), UseAnchor => AloneInv(a), [Next]_vars
    PROVE  StartInv(a)'
<1>t. /\ a \in Proc /\ pc \in [Proc -> PC] /\ poisoned \in [Proc -> BOOLEAN]
      /\ state \in DeploymentState /\ slotDir \in [Slot -> Content]
      /\ state.slots \in [Slot -> Version \cup {None}]
      /\ state.generation \in Nat /\ state.floor \in Int /\ anchor \in Int
  BY FloorsAreIntegers
     DEF IInv, TypeOK, DiskTypeOK, ControlTypeOK, CacheTypeOK, DeploymentState
<1>f. pc[a] \in Fenced => base[a] = state
  BY <1>t DEF IInv, TransactionInv, Transaction
<1>h. hasState => hasState'
  <2>1. \A p \in Proc : Boot(p) => hasState' = hasState
    BY Zenon DEF Boot, fileVars
  <2>2. \A p \in Proc : Recover(p) => (hasState => hasState')
    BY Zenon DEF Recover, RecoverBegin, RecoverAnchorCommit, RecoverUnjournal,
       RecoverBackup, RecoverBackupsDone, RecoverCandidates, RecoverSlots,
       RecoverFinish, fileVars
  <2>3. \A p \in Proc : DeployStep(p) => hasState' = hasState
    BY Zenon DEF DeployStep, Stage, GatePass, GateFail, Backup, Install, WriteJournal,
       AdvanceAnchor, Commit, Unjournal, Cleanup, Undo, fileVars
  <2>4. \A p \in Proc : ReadState(p) \/ Rollback(p) \/ Stop(p) \/ Ended(p)
                            => hasState' = hasState
    BY Zenon DEF ReadState, Rollback, Stop, Ended, fileVars
  <2>5. \A p \in Proc, v \in Version, allow \in BOOLEAN :
            DeployBegin(p, v, allow) => hasState' = hasState
    BY Zenon DEF DeployBegin, fileVars
  <2>6. UNCHANGED vars => hasState' = hasState
    BY Zenon DEF vars, fileVars
  <2> QED BY <2>1, <2>2, <2>3, <2>4, <2>5, <2>6, Zenon
          DEF Next, Crash, RecoverRaises
<1>n. pc[a] \in Locked \cup {"idle"} => hasState /\ hasState'
  BY <1>h DEF StartInv
<1>1. ASSUME pending' = NoJournal \/ (~JournalExists /\ pending' = pending),
             pc'[a] # "refused", hasState'
      PROVE  StartInv(a)'
  BY <1>1, NoJournalIsNone DEF StartInv, PendingInv, JournalExists
<1>2. ASSUME JournalExists => UNCHANGED <<pending, state>>,
             JournalExists <=> JournalExists',
             JournalExists /\ ~JournalFollows(state) => JournalDone',
             JournalExists /\ pc'[a] \in {"rec_backups", "rec_candidates", "rec_slots",
                         "rec_finish", "advance", "commit"} => JournalFollows(state),
             pc'[a] # "refused",
             JournalExists => \/ pc'[a] \in RecoverPC \cup {"advance", "commit",
                                               "unjournal", "down", "boot"}
                              \/ pc'[a] = "idle" /\ poisoned'[a],
             ~hasState' => /\ pc'[a] \in {"down", "boot"}
                           /\ \A s \in Slot : slotDir'[s] = Absent
      PROVE  StartInv(a)'
  <2>1. JournalExists' => UseAnchor /\ (JournalFollows(state) => JournalFollows(state)')
    BY <1>2 DEF StartInv, PendingInv, JournalFollows
  <2> QED BY <1>2, <2>1 DEF StartInv, PendingInv
<1>3. ASSUME UNCHANGED <<pending, state, anchor, slotDir>>
      PROVE  /\ JournalExists <=> JournalExists'
             /\ JournalExists /\ ~JournalFollows(state) => JournalDone'
  BY <1>3 DEF StartInv, PendingInv, JournalExists, JournalFollows, JournalDone,
     JournalCommitted, JournalTargetVerified
<1>4. CASE Boot(a)
  <2>1. UNCHANGED <<pending, state, anchor, slotDir, hasState>> /\ pc'[a] = "boot"
    BY <1>4, <1>t DEF Boot
  <2>2. pc[a] = "down"
    BY <1>4 DEF Boot, StartInv
  <2> QED BY <2>1, <2>2, <1>2, <1>3 DEF StartInv
<1>5. CASE RecoverBegin(a)
  <2>1. ~(~hasState /\ SlotDataExists)
    BY <1>5 DEF StartInv, SlotDataExists, RecoverBegin
  <2>2. /\ UNCHANGED <<pending, state, anchor, slotDir>> /\ hasState'
        /\ pc'[a] = "rec_anchor"
    BY <1>5, <2>1, <1>t DEF RecoverBegin
  <2> QED BY <2>2, <1>2, <1>3 DEF StartInv
<1>6. CASE RecoverAnchorCommit(a)
  <2>1. pc[a] = "rec_anchor" /\ base[a] = state /\ UNCHANGED <<pending, anchor, slotDir>>
    BY <1>6, <1>f DEF RecoverAnchorCommit
  <2>2. AnchorSettled(a) \/ AnchorCommitted(a) \/ AnchorAhead(a)
    BY <2>1, <1>t, AnchorCaseFound DEF StartInv
  <2>3. CASE AnchorSettled(a) /\ Goto(a, "rec_backups") /\ UNCHANGED state
    <3>1. pc'[a] = "rec_backups"
      BY <2>3, <1>t DEF Goto
    <3>2. JournalExists => JournalFollows(state)
      BY <2>1, <2>3 DEF AnchorSettled
    <3> QED BY <2>1, <2>3, <3>1, <3>2, <1>2, <1>3, <1>n
  <2>4. CASE AnchorCommitted(a) /\ Goto(a, "rec_unjournal") /\ UNCHANGED state
    <3>1. pc'[a] = "rec_unjournal"
      BY <2>4, <1>t DEF Goto
    <3> QED BY <2>1, <2>4, <3>1, <1>2, <1>3, <1>n
  <2>5. CASE /\ AnchorAhead(a) /\ pc' = [pc EXCEPT ![a] = "rec_unjournal"]
             /\ state' = CommitOf(base[a], pending.slot, pending.version, trusted[a])
    <3>1. pc'[a] = "rec_unjournal" /\ UseAnchor /\ trusted[a] = anchor
      BY <2>1, <2>5, <1>t DEF AnchorAhead, AloneInv
    <3>2. /\ pending.slot \in Slot /\ pending.generation = state.generation
          /\ pending.sequence = anchor /\ JournalTargetVerified(pending.sequence)
      BY <2>1, <2>5, <3>1
         DEF AnchorAhead, JournalFollows, IInv, TypeOK, DiskTypeOK, Journal
    <3>3. /\ state'.generation = state.generation + 1 /\ state'.active = pending.slot
          /\ state'.slots = [state.slots EXCEPT ![pending.slot] = pending.version]
      BY <2>1, <2>5 DEF CommitOf
    <3>4. JournalCommitted(state, anchor)'
      BY <2>1, <3>2, <3>3, <1>t DEF JournalCommitted
    <3>5. JournalDone'
      BY <2>1, <3>2, <3>4 DEF JournalDone, JournalTargetVerified
    <3> QED BY <3>1, <3>5, <2>1, <1>n DEF StartInv, PendingInv
  <2> QED BY <1>6, <2>2, <2>3, <2>4, <2>5 DEF RecoverAnchorCommit
<1>7. CASE RecoverUnjournal(a)
  <2>1. pc'[a] = "rec_backups" /\ pending' = NoJournal /\ pc[a] = "rec_unjournal"
    BY <1>7, <1>t DEF RecoverUnjournal, Goto
  <2> QED BY <2>1, <1>1, <1>n
<1>8. ASSUME NEW s \in Slot, RecoverBackup(a, s) PROVE StartInv(a)'
  <2>1. /\ pc[a] = "rec_backups" /\ base[a] = state /\ UNCHANGED <<state, pending, anchor>>
    BY <1>8, <1>f DEF RecoverBackup
  <2>2. Restorable(s) /\ backupDir[s] # Absent
    BY <1>8, <2>1 DEF DiskInv, RecoverBackup
  <2>3. pc'[a] = "rec_backups"
    BY <1>8, <2>1, <2>2, <1>t DEF RecoverBackup, Restorable
  <2>4. JournalExists => JournalFollows(state)
    BY <2>1 DEF StartInv, PendingInv
  <2> QED BY <2>1, <2>3, <2>4, <1>2, <1>n DEF JournalExists
<1>9. CASE RecoverBackupsDone(a) \/ RecoverCandidates(a)
  <2>1. /\ pc[a] \in {"rec_backups", "rec_candidates"}
        /\ UNCHANGED <<state, pending, anchor, slotDir>>
    BY <1>9 DEF RecoverBackupsDone, RecoverCandidates
  <2>2. pc'[a] \in {"rec_candidates", "rec_slots"}
    BY <1>9, <1>t DEF RecoverBackupsDone, RecoverCandidates, Goto
  <2>3. JournalExists => JournalFollows(state)
    BY <2>1 DEF StartInv, PendingInv
  <2> QED BY <2>1, <2>2, <2>3, <1>2, <1>3, <1>n
<1>10. CASE RecoverSlots(a)
  <2>1. /\ pc[a] = "rec_slots" /\ base[a] = state /\ UNCHANGED <<state, pending, anchor>>
    BY <1>10, <1>f DEF RecoverSlots
  <2>2. ASSUME NEW s \in Slot PROVE SlotAcceptable(base[a], s)
    <3>1. Restorable(s) /\ backupDir[s] = Absent
      BY <2>1 DEF DiskInv
    <3>2. state.slots[s] # None => slotDir[s] = state.slots[s]
      BY <3>1, <1>t, VersionAssumption DEF Restorable
    <3> QED BY <2>1, <3>2 DEF SlotAcceptable, IInv, Safe, FloorCoversSlots
  <2>3. pc'[a] = "rec_finish"
    BY <1>10, <2>2, <1>t DEF RecoverSlots, Goto
  <2>4. JournalExists => JournalFollows(state)
    BY <2>1 DEF StartInv, PendingInv
  <2> QED BY <2>1, <2>3, <2>4, <1>2, <1>n DEF JournalExists
<1>11. CASE RecoverFinish(a)
  <2>1. pc[a] = "rec_finish" /\ base[a] = state /\ pending' = NoJournal
    BY <1>11, <1>f DEF RecoverFinish
  <2>2. AnchorAgrees(a, base[a], FALSE)
    <3>1. CASE ~UseAnchor
      BY <3>1 DEF AnchorAgrees
    <3>2. CASE UseAnchor
      <4>1. ~poisoned[a]
        BY <2>1 DEF PoisonInv
      <4>2. state.floor = anchor
        BY <2>1, <3>2, <1>t DEF AloneInv, StrandedAt, Stranded, IInv, Safe, AnchorNeverBehind
      <4> QED BY <2>1, <4>1, <4>2 DEF AnchorAgrees, Refreshed
    <3> QED BY <3>1, <3>2
  <2>3. pc'[a] = "idle"
    BY <1>11, <2>2, <1>t DEF RecoverFinish, Leave
  <2> QED BY <2>1, <2>3, <1>1, <1>n
<1>12. CASE ReadState(a)
  <2>1. UNCHANGED <<pending, state, anchor, slotDir, pc, poisoned>> /\ pc[a] = "idle"
    BY <1>12 DEF ReadState
  <2> QED BY <2>1, <1>2, <1>3, <1>n DEF StartInv, PendingInv
<1>j. ASSUME ReadAccepted(a), pc[a] = "idle" PROVE ~JournalExists
  BY <1>j DEF ReadAccepted, AnchorAgrees, StartInv, PendingInv
<1>13. CASE Rollback(a)
  BY <1>13, <1>j, <1>1, <1>n DEF Rollback
<1>14. ASSUME NEW v \in Version, NEW allow, DeployBegin(a, v, allow)
       PROVE  StartInv(a)'
  BY <1>14, <1>j, <1>1, <1>n, <1>t DEF DeployBegin
<1>15. CASE Stage(a) \/ GatePass(a) \/ GateFail(a) \/ Backup(a) \/ Install(a)
            \/ Cleanup(a) \/ Undo(a)
  <2>1. /\ pc[a] \in {"stage", "gate", "backup", "install", "cleanup", "undo"}
        /\ UNCHANGED pending
    BY <1>15 DEF Stage, GatePass, GateFail, Backup, Install, Cleanup, Undo
  <2>2. ~JournalExists
    BY <2>1 DEF StartInv, PendingInv
  <2>3. pc'[a] \in {"gate", "backup", "install", "undo", "journal", "commit", "idle"}
    BY <1>15, <1>t DEF Stage, GatePass, GateFail, Backup, Install, AfterInstall,
       Cleanup, Undo, Goto, Leave
  <2> QED BY <2>1, <2>2, <2>3, <1>1, <1>n
<1>16. CASE WriteJournal(a)
  <2>1. pc[a] = "journal" /\ base[a] = state /\ UseAnchor /\ UNCHANGED state
    BY <1>16, <1>f DEF WriteJournal, PoisonInv
  <2>2. ~JournalExists
    BY <2>1 DEF StartInv, PendingInv
  <2>3. CASE pending' = pending /\ Goto(a, "undo")
    <3>1. pc'[a] = "undo"
      BY <2>3, <1>t DEF Goto
    <3> QED BY <2>1, <2>2, <2>3, <3>1, <1>1, <1>n
  <2>4. CASE pending' = JournalOf(a) /\ Goto(a, "advance")
    <3>1. pc'[a] = "advance"
      BY <2>4, <1>t DEF Goto
    <3>2. JournalFollows(state)'
      BY <2>1, <2>4 DEF JournalOf, JournalFollows
    <3> QED BY <2>1, <3>1, <3>2, <1>n DEF StartInv, PendingInv
  <2> QED BY <1>16, <2>3, <2>4 DEF WriteJournal, JournalOf
<1>17. CASE AdvanceAnchor(a)
  <2>1. /\ pc[a] = "advance" /\ UseAnchor /\ poisoned[a]
        /\ UNCHANGED <<pending, state, slotDir, poisoned>>
    BY <1>17 DEF AdvanceAnchor, PoisonInv
  <2>2. pc'[a] \in {"commit", "idle"}
    BY <1>17, <1>t DEF AdvanceAnchor, Goto, Leave
  <2>3. JournalExists => JournalFollows(state)
    BY <2>1 DEF StartInv, PendingInv
  <2> QED BY <2>1, <2>2, <2>3, <1>2, <1>n DEF JournalExists
<1>18. CASE Commit(a)
  <2>1. /\ pc[a] = "commit" /\ base[a] = state /\ UNCHANGED <<pending, anchor, slotDir>>
        /\ tgt[a] \in Slot /\ ver[a] \in Version /\ slotDir[tgt[a]] = ver[a]
    BY <1>18, <1>t, <1>f DEF Commit, IInv, TransactionInv, Transaction
  <2>2. CASE ~UseAnchor
    <3>1. ~JournalExists
      BY <2>2 DEF StartInv, PendingInv
    <3>2. pc'[a] \in {"cleanup", "undo"}
      BY <1>18, <2>2, <1>t DEF Commit, Goto
    <3> QED BY <2>1, <3>1, <3>2, <1>1, <1>n
  <2>3. CASE UseAnchor /\ UNCHANGED <<state, poisoned>> /\ Leave(a, "idle")
    <3>1. pc'[a] = "idle" /\ poisoned'[a]
      BY <2>1, <2>3, <1>t DEF Leave, PoisonInv
    <3> QED BY <2>1, <2>3, <3>1, <1>2, <1>3, <1>n
  <2>4. CASE /\ UseAnchor /\ Goto(a, "unjournal")
             /\ state' = CommitOf(base[a], tgt[a], ver[a], NewFloor(base[a], ver[a]))
    <3>1. pc'[a] = "unjournal"
      BY <2>4, <1>t DEF Goto
    <3>2. /\ pending.generation = state.generation /\ pending.slot = tgt[a]
          /\ pending.version = ver[a] /\ pending.sequence = ReleaseSeq[ver[a]]
          /\ anchor = ReleaseSeq[ver[a]]
      BY <2>1, <2>4 DEF AloneInv, JournalOf
    <3>3. /\ state'.generation = state.generation + 1 /\ state'.active = tgt[a]
          /\ state'.slots = [state.slots EXCEPT ![tgt[a]] = ver[a]]
      BY <2>1, <2>4 DEF CommitOf
    <3>4. JournalCommitted(state, anchor)'
      BY <2>1, <3>2, <3>3, <1>t DEF JournalCommitted
    <3>5. JournalTargetVerified(pending.sequence)'
      BY <2>1, <3>2 DEF JournalTargetVerified
    <3> QED BY <2>1, <2>4, <3>1, <3>4, <3>5, <1>n DEF StartInv, PendingInv, JournalDone
  <2> QED BY <1>18, <2>2, <2>3, <2>4 DEF Commit
<1>19. CASE Unjournal(a)
  <2>1. pc[a] = "unjournal" /\ pending' = NoJournal /\ pc'[a] = "cleanup"
    BY <1>19, <1>t DEF Unjournal, Goto
  <2> QED BY <2>1, <1>1, <1>n
<1>20. CASE Stop(a)
  <2>1. /\ UNCHANGED <<pending, state, anchor, slotDir>>
        /\ pc[a] = "idle" /\ pc'[a] = "down"
    BY <1>20, <1>t DEF Stop
  <2> QED BY <2>1, <1>2, <1>3, <1>n
<1>21. CASE Ended(a)
  <2>1. pc'[a] = "down" /\ UNCHANGED <<pending, state, anchor, hasState>>
    BY <1>21, <1>t DEF Ended
  <2>2. pc[a] \notin {"undo", "rec_backups", "rec_slots"} => UNCHANGED slotDir
    BY <1>21 DEF Ended, Damaged, SlotsInDeletion
  <2>3. JournalExists /\ pc[a] \in {"undo", "rec_backups", "rec_slots"}
            => JournalFollows(state)
    BY DEF StartInv, PendingInv
  <2>4. JournalExists /\ ~JournalFollows(state) => JournalDone'
    BY <2>1, <2>2, <2>3, <1>3
  <2>5. ~hasState => \A s \in Slot : slotDir'[s] = Absent
    BY <2>2 DEF StartInv
  <2> QED BY <2>1, <2>4, <2>5, <1>2 DEF JournalExists
<1>22. CASE UNCHANGED vars
  BY <1>22 DEF vars, StartInv, PendingInv, JournalExists, JournalFollows, JournalDone,
     JournalCommitted, JournalTargetVerified
<1> QED BY <1>4, <1>5, <1>6, <1>7, <1>8, <1>9, <1>10, <1>11, <1>12, <1>13, <1>14,
           <1>15, <1>16, <1>17, <1>18, <1>19, <1>20, <1>21, <1>22
        DEF Next, Recover, DeployStep, Crash, RecoverRaises

-----------------------------------------------------------------------------
LEMMA InitDisk ==
    ASSUME NEW a, Proc = {a}, Init
    PROVE  PoisonInv(a) /\ DiskInv(a) /\ PreviousInv /\ StartInv(a) /\ AloneInv(a)
<1>1. pc[a] = "down" /\ ~poisoned[a] /\ state = EmptyState /\ pending = NoJournal
  BY DEF Init
<1>2. \A s \in Slot : Restorable(s) /\ slotDir[s] = Absent
  BY <1>1 DEF Init, Restorable, EmptyState
<1>3. ~JournalExists /\ ~Stranded /\ state.previous = None
  BY <1>1, NoJournalIsNone DEF Init, JournalExists, Stranded, EmptyState, NoFloor
<1> QED BY <1>1, <1>2, <1>3 DEF PoisonInv, DiskInv, PreviousInv, StartInv,
        PendingInv, AloneInv, AnchorRecoverable, Stranded

(* What DiskInv means for a process that is not in a critical section.     *)
LEMMA DiskMeans ==
    ASSUME NEW a, Proc = {a}, IInv, DiskInv(a), PreviousInv
    PROVE  SlotsRecoverable /\ RollbackReady
<1>1. ASSUME lock = Free PROVE \A s \in Slot : Restorable(s)
  <2>1. pc[a] \in {"down", "refused", "boot", "idle"}
    BY <1>1, ProcAssumption DEF IInv, TypeOK, ControlTypeOK, LockInv
  <2> QED BY <2>1 DEF DiskInv
<1>2. SlotsRecoverable
  BY <1>1 DEF SlotsRecoverable, ReleasesKept, Restorable
<1>3. RollbackReady
  <2> SUFFICES ASSUME pc[a] = "idle", ~poisoned[a], state.previous # None
               PROVE  slotDir[state.previous] = state.slots[state.previous]
    BY DEF RollbackReady
  <2>1. state.previous \in Slot /\ state.slots[state.previous] # None
    BY DEF PreviousInv, IInv, TypeOK, DiskTypeOK, DeploymentState
  <2> QED BY <2>1 DEF DiskInv, Clean
<1> QED BY <1>2, <1>3

(* One agent alone, wherever it is killed and whatever fails but the       *)
(* exception handler of deploy: what is on disk can be restored, and the   *)
(* previous release stays within reach.  Where the handler's own delete or *)
(* rename fails this is false: see deployer_undo.cfg.                      *)
THEOREM SlotsAlwaysRecoverable ==
    ASSUME NEW a, Proc = {a}, "restore" \notin Faults
    PROVE  Spec => [](SlotsRecoverable /\ RollbackReady)
<1>1. Init => PoisonInv(a) /\ DiskInv(a) /\ PreviousInv
  BY InitDisk
<1>2. IInv /\ PoisonInv(a) /\ DiskInv(a) /\ PreviousInv /\ [Next]_vars
        => (PoisonInv(a) /\ DiskInv(a) /\ PreviousInv)'
  BY PoisonStep, DiskStep, PreviousStep
<1>3. IInv /\ DiskInv(a) /\ PreviousInv => SlotsRecoverable /\ RollbackReady
  BY DiskMeans
<1> QED BY <1>1, <1>2, <1>3, Inductive, PTL DEF Spec

(* If moreover the journal of a finished commit can be removed, start-up   *)
(* never fails closed on what the agent itself left behind: the agent can  *)
(* always be brought back.  An agent that could not remove it is refused   *)
(* after a failed gate has moved the generation on: deployer_unlink.cfg.   *)
THEOREM AlwaysRecoverable ==
    ASSUME NEW a, Proc = {a}, Faults \cap {"restore", "unlink"} = {}
    PROVE  Spec => []Recoverable
<1> DEFINE Alone == UseAnchor => AloneInv(a)
           All == PoisonInv(a) /\ DiskInv(a) /\ PreviousInv /\ StartInv(a) /\ Alone
<1>1. Init => All
  BY InitDisk
<1>2. IInv /\ All /\ [Next]_vars => All'
  <2> SUFFICES ASSUME IInv, All, [Next]_vars PROVE All'
    OBVIOUS
  <2>1. Alone'
    BY AloneStep
  <2> QED BY <2>1, PoisonStep, DiskStep, PreviousStep, StartStep
<1>3. IInv /\ All => Recoverable
  BY DiskMeans DEF Recoverable, StartupNeverRefused, StartInv
<1> HIDE DEF All
<1> QED BY <1>1, <1>2, <1>3, Inductive, PTL DEF Spec

-----------------------------------------------------------------------------
(* The deployment manager implements the atomic release store, for any     *)
(* number of agents.  Given IInv, what the store shows is a function of    *)
(* state.json alone, so only the four ways a state.json is replaced have   *)
(* to be simulated.  Completing another agent's journalled commit needs    *)
(* one more fact: a journal written on the present generation never        *)
(* targets the active slot.                                                *)

JournalInv ==
    JournalExists =>
        /\ pending.generation <= state.generation
        /\ pending.generation = state.generation => pending.slot # state.active

LEMMA PendingSteps ==
    ASSUME IInv, [Next]_vars
    PROVE  \/ pending' = pending
           \/ pending' = NoJournal
           \/ /\ UNCHANGED state
              /\ pending'.generation = state.generation
              /\ pending'.slot # state.active
<1>1. ASSUME NEW p \in Proc, WriteJournal(p)
      PROVE  \/ pending' = pending
             \/ /\ UNCHANGED state
                /\ pending'.generation = state.generation
                /\ pending'.slot # state.active
  BY <1>1 DEF IInv, TransactionInv, Transaction, WriteJournal
<1>2. ASSUME NEW p \in Proc,
             RecoverUnjournal(p) \/ RecoverFinish(p) \/ Unjournal(p)
      PROVE  pending' = NoJournal \/ pending' = pending
  BY <1>2 DEF RecoverUnjournal, RecoverFinish, Unjournal
<1>3. ASSUME NEW p \in Proc,
             \/ Boot(p) \/ RecoverBegin(p) \/ RecoverAnchorCommit(p)
             \/ (\E s \in Slot : RecoverBackup(p, s)) \/ RecoverBackupsDone(p)
             \/ RecoverCandidates(p) \/ RecoverSlots(p) \/ ReadState(p)
             \/ (\E v \in Version, allow \in BOOLEAN : DeployBegin(p, v, allow))
             \/ Stage(p) \/ GatePass(p) \/ GateFail(p) \/ Backup(p) \/ Install(p)
             \/ AdvanceAnchor(p) \/ Commit(p) \/ Cleanup(p) \/ Undo(p)
             \/ Rollback(p) \/ Stop(p) \/ Ended(p)
      PROVE  pending' = pending
  BY <1>3 DEF Boot, RecoverBegin, RecoverAnchorCommit, RecoverBackup,
     RecoverBackupsDone, RecoverCandidates, RecoverSlots, ReadState,
     DeployBegin, Stage, GatePass, GateFail, Backup, Install, AdvanceAnchor,
     Commit, Cleanup, Undo, Rollback, Stop, Ended
<1> QED BY <1>1, <1>2, <1>3
        DEF Next, Recover, DeployStep, Crash, RecoverRaises, vars

LEMMA JournalInvInductive == Spec => []JournalInv
<1>1. Init => JournalInv
  BY DEF Init, JournalInv, JournalExists, NoJournal
<1>2. ASSUME IInv, JournalInv, [Next]_vars
      PROVE  JournalInv'
  <2>1. /\ state.generation \in Nat /\ pending.generation \in Nat
        /\ state \in DeploymentState
    BY <1>2 DEF IInv, TypeOK, DiskTypeOK, DeploymentState, Journal
  <2>2. state' = state \/ state'.generation = state.generation + 1
    BY <1>2, <2>1, StateSteps, WrittenFacts
  <2>3. CASE pending' = pending
    BY <1>2, <2>1, <2>2, <2>3 DEF JournalInv, JournalExists
  <2>4. CASE pending' = NoJournal
    BY <2>4 DEF JournalInv, JournalExists, NoJournal
  <2>5. CASE /\ UNCHANGED state
             /\ pending'.generation = state.generation
             /\ pending'.slot # state.active
    BY <2>1, <2>5 DEF JournalInv
  <2> QED BY <1>2, <2>3, <2>4, <2>5, PendingSteps
<1> QED BY <1>1, <1>2, Inductive, PTL DEF Spec

-----------------------------------------------------------------------------
(* A commit, seen from the store: the target was not active, the policy    *)
(* admits the release, and the floor is the larger of the two.             *)
Activates(old, new) ==
    \E s \in Slot, v \in Version :
        /\ s # old.active
        /\ ReleaseSeq[v] > old.floor \/ ~UseAnchor
        /\ new = CommitOf(old, s, v, IF ReleaseSeq[v] > old.floor
                                     THEN ReleaseSeq[v] ELSE old.floor)

LEMMA CommitSteps ==
    ASSUME IInv, JournalInv, [Next]_vars
    PROVE  \/ state' = state
           \/ state' = FailedOf(state)
           \/ state' = RolledBackOf(state) /\ state.previous # None
           \/ Activates(state, state')
<1>1. ASSUME NEW p \in Proc, GateFail(p)
      PROVE  state' = state \/ state' = FailedOf(state)
  BY <1>1 DEF IInv, TransactionInv, Transaction, GateFail
<1>2. ASSUME NEW p \in Proc, Commit(p)
      PROVE  state' = state \/ Activates(state, state')
  <2>1. /\ base[p] = state /\ tgt[p] \in Slot /\ ver[p] \in Version
        /\ tgt[p] # state.active
        /\ UseAnchor => ReleaseSeq[ver[p]] > state.floor
    BY <1>2 DEF IInv, TransactionInv, Transaction, Commit
  <2>2. NewFloor(state, ver[p]) =
          IF ReleaseSeq[ver[p]] > state.floor THEN ReleaseSeq[ver[p]] ELSE state.floor
    BY <2>1 DEF NewFloor
  <2> QED BY <1>2, <2>1, <2>2 DEF Commit, Activates
<1>3. ASSUME NEW p \in Proc, RecoverAnchorCommit(p)
      PROVE  state' = state \/ Activates(state, state')
  <2>1. base[p] = state /\ trusted[p] \in Int /\ pending.slot \in Slot
    BY <1>3, FloorsAreIntegers DEF IInv, TypeOK, DiskTypeOK, CacheTypeOK, Journal,
             TransactionInv, Transaction, RecoverAnchorCommit
  <2>2. ASSUME AnchorAhead(p)
        PROVE  /\ pending.version \in Version /\ pending.slot # state.active
               /\ ReleaseSeq[pending.version] = trusted[p]
               /\ ReleaseSeq[pending.version] > state.floor
    <3>1. state.floor \in Int
      BY FloorsAreIntegers DEF IInv, TypeOK, DiskTypeOK
    <3> QED BY <2>1, <2>2, <3>1
            DEF JournalInv, AnchorAhead, JournalFollows, JournalTargetVerified
  <2> QED BY <1>3, <2>1, <2>2 DEF RecoverAnchorCommit, Activates
<1>4. ASSUME NEW p \in Proc, Rollback(p)
      PROVE  state' = RolledBackOf(state) /\ state.previous # None
  BY <1>4 DEF Rollback
<1>5. ASSUME NEW p \in Proc,
             \/ Boot(p) \/ RecoverBegin(p) \/ RecoverUnjournal(p)
             \/ (\E s \in Slot : RecoverBackup(p, s)) \/ RecoverBackupsDone(p)
             \/ RecoverCandidates(p) \/ RecoverSlots(p) \/ RecoverFinish(p)
             \/ ReadState(p)
             \/ (\E v \in Version, allow \in BOOLEAN : DeployBegin(p, v, allow))
             \/ Stage(p) \/ GatePass(p) \/ Backup(p) \/ Install(p)
             \/ WriteJournal(p) \/ AdvanceAnchor(p) \/ Unjournal(p) \/ Cleanup(p)
             \/ Undo(p) \/ Stop(p) \/ Ended(p)
      PROVE  state' = state
  BY <1>5 DEF Boot, RecoverBegin, RecoverUnjournal, RecoverBackup,
     RecoverBackupsDone, RecoverCandidates, RecoverSlots, RecoverFinish,
     ReadState, DeployBegin, Stage, GatePass, Backup, Install, WriteJournal,
     AdvanceAnchor, Unjournal, Cleanup, Undo, Stop, Ended
<1> QED BY <1>1, <1>2, <1>3, <1>4, <1>5
        DEF Next, Recover, DeployStep, Crash, RecoverRaises, vars

-----------------------------------------------------------------------------
(* The refinement mapping, read off state.json.                            *)
Served == IF state.active = None THEN None ELSE slotDir[state.active]
Fallback == IF state.previous = None THEN None ELSE state.slots[state.previous]
VersionIn(st, s) == IF s = None THEN None ELSE st.slots[s]

LEMMA ServedIsNamed ==
    ASSUME Safe PROVE Served = VersionIn(state, state.active)
BY DEF Safe, ActiveSlotIntact, Served, VersionIn

LEMMA StoreStep ==
    ASSUME IInv, IInv', JournalInv, [Next]_vars
    PROVE  [Store!StoreNext]_(Store!storeVars)
<1>1. /\ Served = VersionIn(state, state.active)
      /\ Served' = VersionIn(state', state'.active)
      /\ Fallback = VersionIn(state, state.previous)
      /\ Fallback' = VersionIn(state', state'.previous)
  BY DEF IInv, Safe, ActiveSlotIntact, Served, Fallback, VersionIn
<1>2. /\ state \in DeploymentState /\ state' \in DeploymentState
      /\ state.slots \in [Slot -> Version \cup {None}]
      /\ state.active \in Slot \cup {None}
  BY DEF IInv, TypeOK, DiskTypeOK, DeploymentState
<1>3. CASE \/ Served' = Served /\ Fallback' = Fallback /\ state'.floor = state.floor
           \/ /\ Fallback # None
              /\ Served' = Fallback /\ Fallback' = Served
              /\ state'.floor = state.floor
           \/ \E v \in Version :
                /\ ReleaseSeq[v] > state.floor \/ ~UseAnchor
                /\ Served' = v /\ Fallback' = Served
                /\ state'.floor = IF ReleaseSeq[v] > state.floor
                                  THEN ReleaseSeq[v] ELSE state.floor
  BY <1>3 DEF Store!StoreNext, Store!SwapBack, Store!Activate, Store!storeVars,
              Served, Fallback
<1>4. CASE state' = state \/ state' = FailedOf(state)
  BY <1>1, <1>3, <1>4 DEF FailedOf, VersionIn
<1>5. CASE state' = RolledBackOf(state) /\ state.previous # None
  <2>1. Fallback # None
    BY <1>1, <1>5 DEF IInv, Safe, ActiveSlotIntact, RolledBackOf, VersionIn
  <2> QED BY <1>1, <1>3, <1>5, <2>1 DEF RolledBackOf, VersionIn
<1>6. CASE Activates(state, state')
  <2>1. PICK s \in Slot, v \in Version :
          /\ s # state.active
          /\ ReleaseSeq[v] > state.floor \/ ~UseAnchor
          /\ state' = CommitOf(state, s, v, IF ReleaseSeq[v] > state.floor
                                            THEN ReleaseSeq[v] ELSE state.floor)
    BY <1>6 DEF Activates
  <2>2. /\ state'.active = s /\ state'.previous = state.active
        /\ state'.slots = [state.slots EXCEPT ![s] = v]
        /\ state'.floor = IF ReleaseSeq[v] > state.floor
                          THEN ReleaseSeq[v] ELSE state.floor
    BY <2>1 DEF CommitOf
  <2>3. Served' = v /\ Fallback' = Served
    BY <1>1, <1>2, <2>1, <2>2, SentinelAssumption DEF VersionIn, Slot
  <2> QED BY <1>3, <2>1, <2>2, <2>3
<1> QED BY <1>4, <1>5, <1>6, CommitSteps

(* The bytes served, the release an operator can return to and the floor   *)
(* change only as the atomic release store allows.                         *)
THEOREM Implementation == Spec => ImplementsStore
<1>1. Init => Store!StoreInit
  BY DEF Init, EmptyState, NoFloor, Store!StoreInit
<1> QED BY <1>1, StoreStep, Inductive, JournalInvInductive, PTL
        DEF Spec, ImplementsStore, Store!StoreSpec
=============================================================================
