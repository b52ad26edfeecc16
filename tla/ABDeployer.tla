----------------------------- MODULE ABDeployer -----------------------------
(***************************************************************************)
(* The crash-consistent A/B deployment manager, edgeai/deploy.py.          *)
(*                                                                         *)
(* Several agent processes share one deployment root.  The durable part is *)
(* state.json, the slot, backup and candidate directories, the pending     *)
(* journal of an anchor-first commit and the external rollback anchor.     *)
(* Every mutation runs under one exclusive file lock; a process may crash  *)
(* between any two of its durable steps and the next constructor recovers. *)
(*                                                                         *)
(* A directory holds the complete signed release of a version, is Absent,  *)
(* or is Torn: partly copied or partly deleted, so it no longer verifies.  *)
(* A release is identified by its version; ReleaseSeq gives its release    *)
(* sequence, which the registry keeps unique.                              *)
(***************************************************************************)
EXTENDS Integers, FiniteSets

CONSTANTS
    Proc,           \* agent processes that share the deployment root
    CrashProc,      \* the processes that may be killed at any point
    Version,        \* signed releases the registry holds
    ReleaseSeq,     \* release_sequence of each of them
    UseAnchor,      \* is an external RollbackAnchor configured?
    Faults,         \* which calls may fail, see below
    MaxGeneration,  \* bound: no deploy or rollback starts at this generation
    None, Absent, Torn, Free

ASSUME ProcAssumption ==
    /\ CrashProc \subseteq Proc
    /\ None \notin Proc /\ Free \notin Proc

ASSUME VersionAssumption ==
    /\ Version \cap {None, Absent, Torn} = {}
    /\ ReleaseSeq \in [Version -> Nat]
    /\ \A v, w \in Version : ReleaseSeq[v] = ReleaseSeq[w] => v = w

(* "io": a write, a rename, or a recursive copy or delete of a directory;  *)
(* "restore": the delete or the rename with which deploy's own exception   *)
(* handler puts the old slot back; "anchor": the call of the anchor, before*)
(* or after it took effect; "unlink": the removal of the journal.          *)
ASSUME ModeAssumption ==
    /\ UseAnchor \in BOOLEAN
    /\ Faults \subseteq {"io", "restore", "anchor", "unlink"}
    /\ MaxGeneration \in Nat

ASSUME SentinelAssumption ==
    /\ None \notin {"A", "B"}
    /\ Absent # None /\ Torn # None /\ Absent # Torn

VARIABLES
    hasState,   \* does state.json exist?
    state,      \* the DeploymentState it holds
    slotDir,    \* content of slots/A and slots/B
    backupDir,  \* content of .backup-A and .backup-B
    candDir,    \* content of .candidate-A and .candidate-B
    pending,    \* .pending-anchor-commit.json, or NoJournal
    anchor,     \* floor of the external monotonic anchor
    lock,       \* holder of .deployment.lock in exclusive mode
    pc,         \* where each process is
    base,       \* local variable state of deploy and _recover
    ver,        \* version being deployed
    tgt,        \* local variable inactive of deploy
    trusted,    \* _trusted_floor
    poisoned    \* _anchor_recovery_required

dirVars == <<slotDir, backupDir, candDir>>
fileVars == <<hasState, state, pending>>
jobVars == <<base, ver, tgt>>
memVars == <<trusted, poisoned>>
vars == <<dirVars, fileVars, anchor, lock, pc, jobVars, memVars>>

-----------------------------------------------------------------------------
Slot == {"A", "B"}
NoFloor == -1
Content == Version \cup {Absent, Torn}
Floor == Nat \cup {NoFloor}

DeploymentState ==
    [generation : Nat,
     active     : Slot \cup {None},
     previous   : Slot \cup {None},
     slots      : [Slot -> Version \cup {None}],
     floor      : Floor,
     status     : {"empty", "active", "failed", "rolled_back"}]

EmptyState ==
    [generation |-> 0, active |-> None, previous |-> None,
     slots |-> [s \in Slot |-> None], floor |-> NoFloor, status |-> "empty"]

Journal ==
    [generation : Nat, floor : Floor, slot : Slot,
     version : Version \cup {None}, sequence : Nat]

NoJournal ==
    [generation |-> 0, floor |-> NoFloor, slot |-> "A", version |-> None,
     sequence |-> 0]

RecoverPC == {"rec_anchor", "rec_unjournal", "rec_backups", "rec_candidates",
              "rec_slots", "rec_finish"}
DeployPC == {"stage", "gate", "backup", "install", "journal", "advance",
             "commit", "unjournal", "cleanup", "undo"}
Locked == RecoverPC \cup DeployPC
PC == {"down", "boot", "refused", "idle"} \cup Locked

(* Mutant of Inactive: the active slot is replaced in place.               *)
Inactive_InPlace(st) == IF st.active = "A" THEN "A" ELSE "B"

(* The slot a deployment replaces.                                         *)
Inactive(st) == IF st.active = "A" THEN "B" ELSE "A"

(* What a recursive delete that meets an error leaves of a directory.      *)
Residue(d) == IF d = Absent THEN {Absent} ELSE {d, Torn, Absent}

(* shutil.rmtree(..., ignore_errors=True): the caller goes on regardless.  *)
RmTree(dir, s) ==
    {[dir EXCEPT ![s] = d] :
        d \in IF "io" \in Faults THEN Residue(dir[s]) ELSE {Absent}}

-----------------------------------------------------------------------------
(* Mutant of AcquireExclusive: the lock is not exclusive.                  *)
AcquireExclusive_Shared(p) == lock' = p

(* .deployment.lock in exclusive mode, which excludes snapshots too.       *)
AcquireExclusive(p) == lock = Free /\ lock' = p

(* Leaving a critical section: the file lock is released and the local     *)
(* variables of the method are gone.                                       *)
Leave(p, to) ==
    /\ lock' = Free
    /\ pc' = [pc EXCEPT ![p] = to]
    /\ base' = [base EXCEPT ![p] = EmptyState]
    /\ ver' = [ver EXCEPT ![p] = None]
    /\ tgt' = [tgt EXCEPT ![p] = None]

Goto(p, to) ==
    /\ pc' = [pc EXCEPT ![p] = to]
    /\ UNCHANGED <<lock, jobVars>>

-----------------------------------------------------------------------------
(* Start-up: __init__ and _recover                                         *)

(* The constructor caches the anchor's floor before it takes the lock.     *)
Boot(p) ==
    /\ pc[p] \in {"down", "refused"}
    /\ pc' = [pc EXCEPT ![p] = "boot"]
    /\ trusted' = [trusted EXCEPT ![p] = IF UseAnchor THEN anchor ELSE NoFloor]
    /\ poisoned' = [poisoned EXCEPT ![p] = FALSE]
    /\ UNCHANGED <<dirVars, fileVars, anchor, lock, jobVars>>

SlotDataExists == \E s \in Slot : slotDir[s] # Absent

(* _recover takes the lock, writes the default state on a fresh root and   *)
(* refuses a root whose state is gone while slots remain.                  *)
RecoverBegin(p) ==
    /\ pc[p] = "boot"
    /\ UNCHANGED <<dirVars, state, pending, anchor, memVars>>
    /\ IF ~hasState /\ SlotDataExists
       THEN /\ lock = Free
            /\ pc' = [pc EXCEPT ![p] = "refused"]
            /\ UNCHANGED <<hasState, lock, jobVars>>
       ELSE /\ hasState' = TRUE
            /\ AcquireExclusive(p)
            /\ base' = [base EXCEPT ![p] = state]
            /\ pc' = [pc EXCEPT ![p] = "rec_anchor"]
            /\ UNCHANGED <<ver, tgt>>

JournalExists == pending.version # None

(* Mutant of JournalCommitted: off by one in the generation.               *)
JournalCommitted_SameGeneration(st, fl) ==
    /\ pending.sequence = fl
    /\ pending.generation = st.generation
    /\ st.active = pending.slot
    /\ st.slots[pending.slot] = pending.version

(* The journal describes the transition state.json already shows.          *)
JournalCommitted(st, fl) ==
    /\ pending.sequence = fl
    /\ pending.generation + 1 = st.generation
    /\ st.active = pending.slot
    /\ st.slots[pending.slot] = pending.version

(* The journal was written on top of st.                                   *)
JournalFollows(st) ==
    /\ pending.floor = st.floor
    /\ pending.generation = st.generation

(* Registry identity and signature checks of the journalled target slot.   *)
JournalTargetVerified(fl) ==
    /\ slotDir[pending.slot] = pending.version
    /\ pending.version \in Version
    /\ ReleaseSeq[pending.version] = fl

(* Mutant of CommitOf: the new state is written as merely staged.          *)
CommitOf_Staged(st, slot, v, fl) ==
    [generation |-> st.generation + 1, active |-> slot, previous |-> st.active,
     slots |-> [st.slots EXCEPT ![slot] = v], floor |-> fl, status |-> "staged"]

(* The state that makes v in slot the active release.                      *)
CommitOf(st, slot, v, fl) ==
    [generation |-> st.generation + 1, active |-> slot, previous |-> st.active,
     slots |-> [st.slots EXCEPT ![slot] = v], floor |-> fl, status |-> "active"]

(* _recover_anchor_commit, the cases in which startup goes on unchanged.   *)
AnchorSettled(p) ==
    \/ ~UseAnchor /\ ~JournalExists
    \/ /\ UseAnchor /\ base[p].floor = trusted[p]
       /\ \/ ~JournalExists
          \/ ~JournalCommitted(base[p], trusted[p]) /\ JournalFollows(base[p])

(* The state commit landed: authenticate the target and drop the journal.  *)
AnchorCommitted(p) ==
    /\ UseAnchor /\ base[p].floor = trusted[p] /\ JournalExists
    /\ JournalCommitted(base[p], trusted[p])
    /\ JournalTargetVerified(pending.sequence)

(* Mutant of AnchorAhead: an anchor that is ahead is never reconciled.     *)
AnchorAhead_Never(p) == base[p].floor > trusted[p] /\ AnchorCommitted(p)

(* The anchor advanced first: the exact journalled transition completes.   *)
AnchorAhead(p) ==
    /\ UseAnchor /\ base[p].floor < trusted[p] /\ JournalExists
    /\ JournalFollows(base[p])
    /\ pending.sequence = trusted[p]
    /\ JournalTargetVerified(trusted[p])

RecoverAnchorCommit(p) ==
    /\ pc[p] = "rec_anchor"
    /\ UNCHANGED <<dirVars, hasState, pending, anchor, memVars>>
    /\ \/ /\ AnchorSettled(p)
          /\ Goto(p, "rec_backups")
          /\ UNCHANGED state
       \/ /\ AnchorCommitted(p)
          /\ Goto(p, "rec_unjournal")
          /\ UNCHANGED state
       \/ /\ AnchorAhead(p)
          /\ state' = CommitOf(base[p], pending.slot, pending.version, trusted[p])
          /\ base' = [base EXCEPT ![p] = state']
          /\ pc' = [pc EXCEPT ![p] = "rec_unjournal"]
          /\ UNCHANGED <<lock, ver, tgt>>
       \/ /\ ~AnchorSettled(p) /\ ~AnchorCommitted(p) /\ ~AnchorAhead(p)
          /\ Leave(p, "refused")
          /\ UNCHANGED state

RecoverUnjournal(p) ==
    /\ pc[p] = "rec_unjournal"
    /\ pending' = NoJournal
    /\ Goto(p, "rec_backups")
    /\ UNCHANGED <<dirVars, hasState, state, anchor, memVars>>

(* _recover_backups visits the slots in the order of a Python set.         *)
RecoverBackup(p, s) ==
    LET expected == base[p].slots[s] IN
    /\ pc[p] = "rec_backups" /\ backupDir[s] # Absent
    /\ UNCHANGED <<candDir, fileVars, anchor, memVars>>
    /\ \/ /\ expected # None /\ slotDir[s] = expected
          /\ backupDir' = [backupDir EXCEPT ![s] = Absent]
          /\ UNCHANGED <<slotDir, lock, pc, jobVars>>
       \/ /\ expected # None /\ slotDir[s] # expected /\ backupDir[s] = expected
          /\ slotDir' = [slotDir EXCEPT ![s] = backupDir[s]]
          /\ backupDir' = [backupDir EXCEPT ![s] = Absent]
          /\ UNCHANGED <<lock, pc, jobVars>>
       \/ /\ expected = None \/ (slotDir[s] # expected /\ backupDir[s] # expected)
          /\ Leave(p, "refused")
          /\ UNCHANGED <<slotDir, backupDir>>

RecoverBackupsDone(p) ==
    /\ pc[p] = "rec_backups"
    /\ \A s \in Slot : backupDir[s] = Absent
    /\ Goto(p, "rec_candidates")
    /\ UNCHANGED <<dirVars, fileVars, anchor, memVars>>

RecoverCandidates(p) ==
    /\ pc[p] = "rec_candidates"
    /\ candDir' = [s \in Slot |-> Absent]
    /\ Goto(p, "rec_slots")
    /\ UNCHANGED <<slotDir, backupDir, fileVars, anchor, memVars>>

SlotAcceptable(st, s) ==
    st.slots[s] # None =>
        /\ slotDir[s] = st.slots[s]
        /\ ReleaseSeq[st.slots[s]] <= st.floor

RecoverSlots(p) ==
    /\ pc[p] = "rec_slots"
    /\ UNCHANGED <<backupDir, candDir, fileVars, anchor, memVars>>
    /\ IF \A s \in Slot : SlotAcceptable(base[p], s)
       THEN /\ slotDir' = [s \in Slot |-> IF base[p].slots[s] = None
                                          THEN Absent ELSE slotDir[s]]
            /\ Goto(p, "rec_finish")
       ELSE /\ Leave(p, "refused")
            /\ UNCHANGED slotDir

(* _validate_state_anchor: the cached floor is refreshed only when it      *)
(* disagrees with the state or a journal is on disk.                       *)
Refreshed(p, st, journal) ==
    IF UseAnchor /\ ~poisoned[p] /\ (st.floor # trusted[p] \/ journal)
    THEN anchor ELSE trusted[p]

AnchorAgrees(p, st, journal) ==
    UseAnchor => ~poisoned[p] /\ st.floor = Refreshed(p, st, journal)

(* The abandoned journal of a pre-anchor crash is dropped, then the        *)
(* recovered state is compared with the anchor.                            *)
RecoverFinish(p) ==
    /\ pc[p] = "rec_finish"
    /\ pending' = NoJournal
    /\ trusted' = [trusted EXCEPT ![p] = Refreshed(p, base[p], FALSE)]
    /\ Leave(p, IF AnchorAgrees(p, base[p], FALSE) THEN "idle" ELSE "refused")
    /\ UNCHANGED <<dirVars, hasState, state, anchor, poisoned>>

-----------------------------------------------------------------------------
(* Reading the state: active_snapshot and active_artifact_snapshot under   *)
(* the shared lock.  A read that deploy or rollback refuses has the same   *)
(* effect, a refreshed cache.                                              *)
ReadAccepted(p) == AnchorAgrees(p, state, JournalExists)

CanServe(p) ==
    /\ pc[p] = "idle" /\ lock = Free
    /\ ReadAccepted(p)
    /\ state.active # None
    /\ slotDir[state.active] = state.slots[state.active]

ReadState(p) ==
    /\ pc[p] = "idle" /\ lock = Free
    /\ trusted' = [trusted EXCEPT ![p] = Refreshed(p, state, JournalExists)]
    /\ UNCHANGED <<dirVars, fileVars, anchor, lock, pc, jobVars, poisoned>>

-----------------------------------------------------------------------------
(* deploy                                                                  *)

(* Mutant of SequenceAccepted: the floor itself may be deployed again.     *)
SequenceAccepted_AtFloor(st, v, allowDowngrade) ==
    ReleaseSeq[v] >= st.floor \/ (~UseAnchor /\ allowDowngrade)

SequenceAccepted(st, v, allowDowngrade) ==
    ReleaseSeq[v] > st.floor \/ (~UseAnchor /\ allowDowngrade)

DeployBegin(p, v, allowDowngrade) ==
    /\ pc[p] = "idle"
    /\ AcquireExclusive(p)
    /\ state.generation < MaxGeneration
    /\ ReadAccepted(p)
    /\ SequenceAccepted(state, v, allowDowngrade)
    /\ trusted' = [trusted EXCEPT ![p] = Refreshed(p, state, JournalExists)]
    /\ base' = [base EXCEPT ![p] = state]
    /\ ver' = [ver EXCEPT ![p] = v]
    /\ tgt' = [tgt EXCEPT ![p] = Inactive(state)]
    /\ pc' = [pc EXCEPT ![p] = "stage"]
    /\ UNCHANGED <<dirVars, fileVars, anchor, poisoned>>

(* Copy the registry entry into .candidate-X.  The copy raises, before the *)
(* state is touched, on a full disk or over what the delete left.          *)
Stage(p) ==
    /\ pc[p] = "stage"
    /\ UNCHANGED <<slotDir, backupDir, fileVars, anchor, memVars>>
    /\ \/ /\ candDir' = [candDir EXCEPT ![tgt[p]] = ver[p]]
          /\ Goto(p, "gate")
       \/ /\ "io" \in Faults
          /\ candDir' \in RmTree(candDir, tgt[p])
                         \cup {[candDir EXCEPT ![tgt[p]] = Torn]}
          /\ Leave(p, "idle")

BaselineVerified(st) ==
    st.active # None => slotDir[st.active] = st.slots[st.active]

GatePass(p) ==
    /\ pc[p] = "gate"
    /\ candDir[tgt[p]] = ver[p]
    /\ BaselineVerified(base[p])
    /\ Goto(p, "backup")
    /\ UNCHANGED <<dirVars, fileVars, anchor, memVars>>

(* The state after a failed gate: only generation and status change.       *)
FailedOf(st) ==
    [generation |-> st.generation + 1, active |-> st.active,
     previous |-> st.previous, slots |-> st.slots, floor |-> st.floor,
     status |-> "failed"]

(* Any failure of verification, benchmark or policy drops the candidate    *)
(* and records a failed generation; that write may fail as well.           *)
GateFail(p) ==
    /\ pc[p] = "gate"
    /\ candDir' \in RmTree(candDir, tgt[p])
    /\ \/ state' = FailedOf(base[p])
       \/ "io" \in Faults /\ UNCHANGED state
    /\ Leave(p, "idle")
    /\ UNCHANGED <<slotDir, backupDir, hasState, pending, anchor,
                   memVars>>

(* rmtree of an old backup, then rename of the inactive slot, if there is  *)
(* one, to it.  The rename is outside deploy's try block: its failure, over*)
(* what the rmtree left or otherwise, undoes nothing.                      *)
Backup(p) ==
    /\ pc[p] = "backup"
    /\ UNCHANGED <<candDir, fileVars, anchor, memVars>>
    /\ \/ /\ slotDir[tgt[p]] # Absent
          /\ backupDir' = [backupDir EXCEPT ![tgt[p]] = slotDir[tgt[p]]]
          /\ slotDir' = [slotDir EXCEPT ![tgt[p]] = Absent]
          /\ Goto(p, "install")
       \/ /\ slotDir[tgt[p]] = Absent
          /\ backupDir' \in RmTree(backupDir, tgt[p])
          /\ Goto(p, "install")
          /\ UNCHANGED slotDir
       \/ /\ "io" \in Faults /\ slotDir[tgt[p]] # Absent
          /\ backupDir' \in RmTree(backupDir, tgt[p])
          /\ Leave(p, "idle")
          /\ UNCHANGED slotDir

(* Mutant of AfterInstall: the anchor is advanced without a journal.       *)
AfterInstall_NoJournal(p) == IF UseAnchor THEN "advance" ELSE "commit"

(* Mutant of AfterInstall: the state commits before the anchor.            *)
AfterInstall_StateFirst(p) == "commit"

(* What follows the rename, once the new slot has been verified again.     *)
AfterInstall(p) ==
    CASE candDir[tgt[p]] # ver[p] -> "undo"
      [] candDir[tgt[p]] = ver[p] /\ UseAnchor -> "journal"
      [] OTHER -> "commit"

(* Rename of the candidate to the slot and re-verification of the result.  *)
Install(p) ==
    /\ pc[p] = "install"
    /\ UNCHANGED <<backupDir, fileVars, anchor, memVars>>
    /\ \/ /\ slotDir' = [slotDir EXCEPT ![tgt[p]] = candDir[tgt[p]]]
          /\ candDir' = [candDir EXCEPT ![tgt[p]] = Absent]
          /\ Goto(p, AfterInstall(p))
       \/ /\ "io" \in Faults
          /\ Goto(p, "undo")
          /\ UNCHANGED <<slotDir, candDir>>

(* _write_pending_anchor; only after it does the process poison itself.    *)
WriteJournal(p) ==
    /\ pc[p] = "journal"
    /\ UNCHANGED <<dirVars, hasState, state, anchor, trusted>>
    /\ \/ /\ pending' = [generation |-> base[p].generation,
                         floor |-> base[p].floor, slot |-> tgt[p],
                         version |-> ver[p], sequence |-> ReleaseSeq[ver[p]]]
          /\ poisoned' = [poisoned EXCEPT ![p] = TRUE]
          /\ Goto(p, "advance")
       \/ /\ "io" \in Faults
          /\ Goto(p, "undo")
          /\ UNCHANGED <<pending, poisoned>>

(* advance_to of the anchor adapter refuses to go back.                    *)
AdvanceTo(n) == n >= anchor /\ anchor' = n

(* _advance_anchor.  The adapter raises where it refuses, or before or     *)
(* after the update became durable; the caller cannot tell and leaves      *)
(* everything in place.                                                    *)
AdvanceAnchor(p) ==
    /\ pc[p] = "advance"
    /\ UNCHANGED <<dirVars, fileVars, poisoned>>
    /\ \/ /\ AdvanceTo(ReleaseSeq[ver[p]])
          /\ trusted' = [trusted EXCEPT ![p] = ReleaseSeq[ver[p]]]
          /\ Goto(p, "commit")
       \/ /\ \/ /\ "anchor" \in Faults \/ ReleaseSeq[ver[p]] < anchor
                /\ UNCHANGED anchor
             \/ "anchor" \in Faults /\ AdvanceTo(ReleaseSeq[ver[p]])
          /\ Leave(p, "idle")
          /\ UNCHANGED trusted

(* Mutant of NewFloor: a downgrade takes the floor down with it.           *)
NewFloor_OfRelease(st, v) == ReleaseSeq[v]

NewFloor(st, v) ==
    IF UseAnchor \/ ReleaseSeq[v] > st.floor THEN ReleaseSeq[v] ELSE st.floor

(* The atomic rename of state.json is the commit point.  If it fails, an   *)
(* anchored transaction is left for recovery, another one is undone.       *)
Commit(p) ==
    /\ pc[p] = "commit"
    /\ UNCHANGED <<dirVars, hasState, pending, anchor, trusted>>
    /\ \/ /\ state' = CommitOf(base[p], tgt[p], ver[p], NewFloor(base[p], ver[p]))
          /\ poisoned' = [poisoned EXCEPT ![p] = FALSE]
          /\ Goto(p, IF UseAnchor THEN "unjournal" ELSE "cleanup")
       \/ /\ "io" \in Faults
          /\ IF UseAnchor THEN Leave(p, "idle") ELSE Goto(p, "undo")
          /\ UNCHANGED <<state, poisoned>>

Unjournal(p) ==
    /\ pc[p] = "unjournal"
    /\ UNCHANGED <<dirVars, hasState, state, anchor, memVars>>
    /\ \/ /\ pending' = NoJournal
          /\ Goto(p, "cleanup")
       \/ /\ "unlink" \in Faults
          /\ Leave(p, "idle")
          /\ UNCHANGED pending

Cleanup(p) ==
    /\ pc[p] = "cleanup"
    /\ backupDir' \in RmTree(backupDir, tgt[p])
    /\ Leave(p, "idle")
    /\ UNCHANGED <<slotDir, candDir, fileVars, anchor, memVars>>

(* Mutant of Undo: the old slot is not moved back from its backup.         *)
Undo_NoRestore(p) ==
    /\ pc[p] = "undo"
    /\ slotDir' = [slotDir EXCEPT ![tgt[p]] = Absent]
    /\ Leave(p, "idle")
    /\ UNCHANGED <<backupDir, candDir, fileVars, anchor, memVars>>

(* deploy's exception handler before any anchor transaction started: the   *)
(* slot is deleted and its backup moved back.  The errors of the delete    *)
(* are ignored, and the rename may raise, over what is left or otherwise.  *)
Undo(p) ==
    /\ pc[p] = "undo"
    /\ \/ /\ slotDir' = [slotDir EXCEPT ![tgt[p]] = backupDir[tgt[p]]]
          /\ backupDir' = [backupDir EXCEPT ![tgt[p]] = Absent]
       \/ /\ "restore" \in Faults
          /\ \E d \in Residue(slotDir[tgt[p]]) :
                slotDir' = [slotDir EXCEPT ![tgt[p]] = d]
          /\ UNCHANGED backupDir
    /\ Leave(p, "idle")
    /\ UNCHANGED <<candDir, fileVars, anchor, memVars>>

-----------------------------------------------------------------------------
RolledBackOf(st) ==
    [generation |-> st.generation + 1, active |-> st.previous,
     previous |-> st.active, slots |-> st.slots, floor |-> st.floor,
     status |-> "rolled_back"]

(* rollback holds the lock for one durable write, so it is one step.       *)
Rollback(p) ==
    /\ pc[p] = "idle" /\ lock = Free
    /\ state.generation < MaxGeneration
    /\ ReadAccepted(p)
    /\ state.previous # None
    /\ slotDir[state.previous] = state.slots[state.previous]
    /\ state' = RolledBackOf(state)
    /\ trusted' = [trusted EXCEPT ![p] = Refreshed(p, state, JournalExists)]
    /\ UNCHANGED <<dirVars, hasState, pending, anchor, lock, pc,
                   jobVars, poisoned>>

-----------------------------------------------------------------------------
(* A process ends normally between calls, or is killed anywhere.  A kill   *)
(* in the middle of a recursive copy or delete leaves that directory Torn, *)
(* or already gone with the rest of the step still to come.                *)
Stop(p) ==
    /\ pc[p] = "idle"
    /\ pc' = [pc EXCEPT ![p] = "down"]
    /\ trusted' = [trusted EXCEPT ![p] = NoFloor]
    /\ poisoned' = [poisoned EXCEPT ![p] = FALSE]
    /\ UNCHANGED <<dirVars, fileVars, anchor, lock, jobVars>>

Existing(dir) == {s \in Slot : dir[s] # Absent}

Damaged(dir, S) ==
    {dir} \cup {[dir EXCEPT ![s] = d] : s \in S, d \in {Torn, Absent}}

SlotsInDeletion(p) ==
    CASE pc[p] = "undo" -> {tgt[p]} \cap Existing(slotDir)
      [] pc[p] = "rec_backups" ->
            {s \in Existing(slotDir) : /\ backupDir[s] = base[p].slots[s]
                                       /\ slotDir[s] # base[p].slots[s]}
      [] pc[p] = "rec_slots" ->
            {s \in Existing(slotDir) : base[p].slots[s] = None}
      [] OTHER -> {}

BackupsInDeletion(p) ==
    CASE pc[p] \in {"backup", "cleanup"} -> {tgt[p]} \cap Existing(backupDir)
      [] pc[p] = "rec_backups" ->
            {s \in Existing(backupDir) : slotDir[s] = base[p].slots[s]}
      [] OTHER -> {}

CandidatesInFlux(p) ==
    CASE pc[p] \in {"stage", "gate"} -> {tgt[p]}
      [] pc[p] = "rec_candidates" -> Existing(candDir)
      [] OTHER -> {}

(* The process is gone at this point of its step.                          *)
Ended(p) ==
    /\ slotDir' \in Damaged(slotDir, SlotsInDeletion(p))
    /\ backupDir' \in Damaged(backupDir, BackupsInDeletion(p))
    /\ candDir' \in Damaged(candDir, CandidatesInFlux(p))
    /\ lock' = IF lock = p THEN Free ELSE lock
    /\ pc' = [pc EXCEPT ![p] = "down"]
    /\ base' = [base EXCEPT ![p] = EmptyState]
    /\ ver' = [ver EXCEPT ![p] = None]
    /\ tgt' = [tgt EXCEPT ![p] = None]
    /\ trusted' = [trusted EXCEPT ![p] = NoFloor]
    /\ poisoned' = [poisoned EXCEPT ![p] = FALSE]
    /\ UNCHANGED <<fileVars, anchor>>

Crash(p) ==
    /\ p \in CrashProc /\ pc[p] \notin {"down", "refused"}
    /\ Ended(p)

(* A file operation of _recover raises out of the constructor: no object   *)
(* comes to be, the lock is released and what was done stays done, as in a *)
(* kill.  This is not the refusal of a root that fails a check.            *)
RecoverRaises(p) ==
    /\ \/ /\ "io" \in Faults
          /\ pc[p] \in {"boot", "rec_anchor", "rec_backups",
                        "rec_candidates", "rec_slots"}
       \/ /\ "unlink" \in Faults
          /\ pc[p] \in {"rec_unjournal", "rec_finish"} /\ JournalExists
    /\ Ended(p)

-----------------------------------------------------------------------------
Init ==
    /\ hasState = FALSE
    /\ state = EmptyState
    /\ slotDir = [s \in Slot |-> Absent]
    /\ backupDir = [s \in Slot |-> Absent]
    /\ candDir = [s \in Slot |-> Absent]
    /\ pending = NoJournal
    /\ anchor = NoFloor
    /\ lock = Free
    /\ pc = [p \in Proc |-> "down"]
    /\ base = [p \in Proc |-> EmptyState]
    /\ ver = [p \in Proc |-> None]
    /\ tgt = [p \in Proc |-> None]
    /\ trusted = [p \in Proc |-> NoFloor]
    /\ poisoned = [p \in Proc |-> FALSE]

Recover(p) ==
    \/ RecoverBegin(p)
    \/ RecoverAnchorCommit(p)
    \/ RecoverUnjournal(p)
    \/ \E s \in Slot : RecoverBackup(p, s)
    \/ RecoverBackupsDone(p)
    \/ RecoverCandidates(p)
    \/ RecoverSlots(p)
    \/ RecoverFinish(p)

DeployStep(p) ==
    \/ Stage(p)
    \/ GatePass(p)
    \/ GateFail(p)
    \/ Backup(p)
    \/ Install(p)
    \/ WriteJournal(p)
    \/ AdvanceAnchor(p)
    \/ Commit(p)
    \/ Unjournal(p)
    \/ Cleanup(p)
    \/ Undo(p)

Next ==
    \E p \in Proc :
        \/ Boot(p)
        \/ Recover(p)
        \/ ReadState(p)
        \/ \E v \in Version, allow \in BOOLEAN : DeployBegin(p, v, allow)
        \/ DeployStep(p)
        \/ Rollback(p)
        \/ Stop(p)
        \/ Crash(p)
        \/ RecoverRaises(p)

Spec == Init /\ [][Next]_vars

(* A running process finishes its call; an agent that is down or whose     *)
(* start-up was refused is started again, and one that poisoned itself is  *)
(* restarted, which is how the anchor protocol expects it to be resolved.  *)
Fairness ==
    \A p \in Proc :
        /\ WF_vars(Boot(p))
        /\ WF_vars(Recover(p))
        /\ WF_vars(DeployStep(p))
        /\ WF_vars(poisoned[p] /\ Stop(p))

FairSpec == Spec /\ Fairness

-----------------------------------------------------------------------------
(* Properties                                                              *)

DiskTypeOK ==
    /\ hasState \in BOOLEAN
    /\ state \in DeploymentState
    /\ slotDir \in [Slot -> Content]
    /\ backupDir \in [Slot -> Content]
    /\ candDir \in [Slot -> Content]
    /\ pending \in Journal
    /\ anchor \in Floor

ControlTypeOK ==
    /\ lock \in Proc \cup {Free}
    /\ pc \in [Proc -> PC]
    /\ base \in [Proc -> DeploymentState]
    /\ ver \in [Proc -> Version \cup {None}]
    /\ tgt \in [Proc -> Slot \cup {None}]

CacheTypeOK ==
    /\ trusted \in [Proc -> Floor]
    /\ poisoned \in [Proc -> BOOLEAN]

(* Every file, directory and local variable holds a value of its kind.     *)
TypeOK == DiskTypeOK /\ ControlTypeOK /\ CacheTypeOK

(* Whatever is interrupted, the directory of the slot state.json calls     *)
(* active always holds the complete release state.json names there, so     *)
(* active_snapshot never fails verification after a crash.                 *)
ActiveSlotIntact ==
    state.active # None =>
        /\ state.slots[state.active] # None
        /\ slotDir[state.active] = state.slots[state.active]

(* No installed release lies above the anti-rollback floor of state.json:  *)
(* the check at the end of _recover can only fail on a tampered root.      *)
FloorCoversSlots ==
    \A s \in Slot : state.slots[s] # None => ReleaseSeq[state.slots[s]] <= state.floor

(* The anchor is advanced before the state commits, so the local floor is  *)
(* never above the external one, with however many cooperating agents.     *)
AnchorNeverBehind == UseAnchor => state.floor <= anchor

(* Release, local floor, anchor: each is bounded by the next, so neither a *)
(* slot nor a restored older state.json passes for newer than it is.       *)
FloorsOrdered == FloorCoversSlots /\ AnchorNeverBehind

(* deploy, rollback, a failed gate and recovery never lower the floor of   *)
(* state.json nor that of the anchor (REQ-004, REQ-008).                   *)
FloorNeverDecreases ==
    [][state'.floor >= state.floor /\ anchor' >= anchor]_vars

(* Every change of state.json is exactly one generation on: no writer      *)
(* overwrites another's commit from a stale copy, so a reader may use the  *)
(* generation as the identity of the state (runtime cache, journal).       *)
GenerationIdentifiesState ==
    [][state' # state => state'.generation = state.generation + 1]_vars

(* REQ-026: while the anchor is ahead of state.json, the journal names the *)
(* transition that advanced it and the target slot holds that release, so  *)
(* a restart can complete the commit.                                      *)
AnchorRecoverable ==
    UseAnchor /\ state.floor < anchor =>
        /\ JournalExists
        /\ JournalFollows(state)
        /\ pending.sequence = anchor
        /\ JournalTargetVerified(anchor)

(* While nobody holds the lock, every release state.json names is complete *)
(* in its slot or in its backup: a failed deployment puts the old slot     *)
(* back, and start-up restores what it cannot find in place.               *)
ReleasesKept ==
    lock = Free =>
        \A s \in Slot :
            state.slots[s] # None => state.slots[s] \in {slotDir[s], backupDir[s]}

(* What _recover_backups needs to restore the durable state: nothing that  *)
(* state.json names is lost, and an empty slot has no backup.              *)
SlotsRecoverable ==
    /\ ReleasesKept
    /\ lock = Free =>
          \A s \in Slot : state.slots[s] = None => backupDir[s] = Absent

(* Start-up recovery never fails closed on the residue of a crash or of a  *)
(* failed call of the agent itself.                                        *)
StartupNeverRefused == \A p \in Proc : pc[p] # "refused"

(* An agent that is up and not poisoned can always go back: the previous   *)
(* release is complete in its slot whenever no deployment is running.      *)
RollbackReady ==
    \A p \in Proc :
        pc[p] = "idle" /\ ~poisoned[p] /\ lock = Free /\ state.previous # None
            => slotDir[state.previous] = state.slots[state.previous]

(* One agent, killed or failing anywhere but in its exception handler, can *)
(* always be brought back: what is on disk can be restored, start-up does  *)
(* restore it, and the way back to the previous release stays open.        *)
Recoverable == SlotsRecoverable /\ StartupNeverRefused /\ RollbackReady

(* If kills and failing start-ups stop, an anchor that got ahead of the    *)
(* state is followed by the state's commit: the device does not stay       *)
(* stranded between the two.                                               *)
AnchorEventuallyCommitted ==
    <>[][\A p \in Proc : ~Crash(p) /\ ~RecoverRaises(p)]_vars
        => []((UseAnchor /\ state.floor < anchor) => <>(state.floor = anchor))

(* The engine sees an atomic store: what is served is the content of the   *)
(* directory of the active slot.                                           *)
Store == INSTANCE ReleaseStore WITH
    served <- IF state.active = None THEN None ELSE slotDir[state.active],
    fallback <- IF state.previous = None THEN None
                ELSE state.slots[state.previous],
    floor <- state.floor,
    DowngradeAllowed <- ~UseAnchor

(* deploy.py implements the release store: through crashes, failed gates,  *)
(* undo and recovery, the bytes served change only in one committed step.  *)
ImplementsStore == Store!StoreSpec
=============================================================================
