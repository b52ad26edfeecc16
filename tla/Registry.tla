------------------------------ MODULE Registry ------------------------------
(***************************************************************************)
(* The immutable model registry, src/src/edgeai/registry.py: processes     *)
(* that share one root publish signed packages (add) and check releases    *)
(* before they deploy them (inspect, assert_release_sequence_identity).    *)
(*                                                                         *)
(* A package is what a call of add is given: a manifest with its version   *)
(* and release sequence, a signature by a key, and the path of a model     *)
(* file that somebody may rewrite at any time.  A directory holds the copy *)
(* of a package; it is intact if the copied model is the one the manifest  *)
(* describes.  Cryptography and parsing are reduced to their verdict.      *)
(***************************************************************************)
EXTENDS Naturals

CONSTANTS
    Proc,       \* processes that share the registry root
    CrashProc,  \* those that may be killed
    Package,    \* signed packages
    Version,    \* semantic versions, the names of the published directories
    Key,        \* signing keys
    VersionOf,  \* the version in the manifest of each package
    SeqOf,      \* the release_sequence in it
    KeyOf,      \* the key that signed it
    Faults,     \* {"io"} if copying and renaming may fail
    None, Absent, Free

ASSUME ProcAssumption ==
    CrashProc \subseteq Proc /\ Free \notin Proc /\ Faults \subseteq {"io"}

ASSUME PackageAssumption ==
    /\ VersionOf \in [Package -> Version]
    /\ SeqOf \in [Package -> Nat]
    /\ KeyOf \in [Package -> Key]

ASSUME NameAssumption ==
    None \notin Package \cup Version /\ None # "unverifiable"

VARIABLES
    entry,    \* the published directory of each version
    litter,   \* are there .stage-* directories left by killed processes?
    source,   \* packages whose model file still matches the manifest
    revoked,  \* keys the operator has revoked
    keyring,  \* keys a process trusts, as loaded when it started
    lock,     \* holder of .registry.lock in exclusive mode
    pc,       \* where each process is
    job,      \* the package it adds, or the version it checks
    stage,    \* its own .stage-* directory
    outcome,  \* how its last add ended
    accepted  \* packages that passed a deployment's identity check

diskVars == <<entry, litter, source>>
vars == <<diskVars, revoked, keyring, lock, pc, job, stage, outcome, accepted>>

Directory == [pkg : Package, intact : BOOLEAN]
Dir(k, ok) == [pkg |-> k, intact |-> ok]

Published == {v \in Version : entry[v] # Absent}

-----------------------------------------------------------------------------
(* Mutant of Verifies: the model file is not hashed again.                 *)
Verifies_NoHash(p, d, v) ==
    /\ d # Absent
    /\ VersionOf[d.pkg] = v
    /\ KeyOf[d.pkg] \in keyring[p]

(* open_verified_model: the manifest is that of the expected version, its  *)
(* key is trusted by this process, size and hash of the model agree.       *)
Verifies(p, d, v) ==
    /\ d # Absent
    /\ VersionOf[d.pkg] = v
    /\ KeyOf[d.pkg] \in keyring[p]
    /\ d.intact

(* Mutant of Unverifiable: hidden staging directories are looked at too.   *)
Unverifiable_Hidden(p) == litter \/ \E v \in Published : ~Verifies(p, entry[v], v)

(* _assert_release_sequence_available meets an entry that does not verify. *)
Unverifiable(p) == \E v \in Published : ~Verifies(p, entry[v], v)

(* ... or one of another version that has the sequence already.            *)
SequenceTaken(p, n, version) ==
    \E v \in Published : SeqOf[entry[v].pkg] = n /\ v # version

Leave(p, why) ==
    /\ pc' = [pc EXCEPT ![p] = "idle"]
    /\ job' = [job EXCEPT ![p] = None]
    /\ outcome' = [outcome EXCEPT ![p] = why]

(* Mutant of LockFree: publishers do not exclude one another.              *)
LockFree_Always == TRUE

(* flock grants .registry.lock: nobody holds it exclusively.               *)
LockFree == lock = Free

-----------------------------------------------------------------------------
(* add                                                                     *)

(* Signature and source file are verified before the lock is taken.        *)
AddBegin(p, k) ==
    /\ pc[p] = "idle"
    /\ IF KeyOf[k] \in keyring[p] /\ k \in source
       THEN /\ pc' = [pc EXCEPT ![p] = "waiting"]
            /\ job' = [job EXCEPT ![p] = k]
            /\ outcome' = [outcome EXCEPT ![p] = None]
       ELSE Leave(p, "rejected")
    /\ UNCHANGED <<diskVars, revoked, keyring, lock, stage, accepted>>

(* Mutant of VersionExists: a version may be published again.              *)
VersionExists_Never(v) == FALSE

VersionExists(v) == entry[v] # Absent

(* With the lock: the version must be new and its sequence unused among    *)
(* entries all of which verify.  iterdir has no order, so of two reasons   *)
(* to refuse either may be met first.                                      *)
AddCheck(p) ==
    LET k == job[p]
        v == VersionOf[k]
    IN
    /\ pc[p] = "waiting" /\ LockFree
    /\ \/ /\ VersionExists(v)
          /\ Leave(p, "exists")
          /\ UNCHANGED lock
       \/ /\ ~VersionExists(v) /\ Unverifiable(p)
          /\ Leave(p, "unverifiable")
          /\ UNCHANGED lock
       \/ /\ ~VersionExists(v) /\ SequenceTaken(p, SeqOf[k], v)
          /\ Leave(p, "taken")
          /\ UNCHANGED lock
       \/ /\ ~VersionExists(v) /\ ~Unverifiable(p) /\ ~SequenceTaken(p, SeqOf[k], v)
          /\ lock' = p
          /\ pc' = [pc EXCEPT ![p] = "copy"]
          /\ UNCHANGED <<job, outcome>>
    /\ UNCHANGED <<diskVars, revoked, keyring, stage, accepted>>

(* mkdtemp, and the copy of the model as it is now, with its metadata.     *)
CopyToStage(p) ==
    /\ pc[p] = "copy"
    /\ stage' = [stage EXCEPT ![p] = Dir(job[p], job[p] \in source)]
    /\ pc' = [pc EXCEPT ![p] = "publish"]
    /\ UNCHANGED <<diskVars, revoked, keyring, lock, job, outcome, accepted>>

(* The staged copy is verified and renamed to its version.                 *)
Publish(p) ==
    LET v == VersionOf[job[p]] IN
    /\ pc[p] = "publish"
    /\ Verifies(p, stage[p], v)
    /\ entry' = [entry EXCEPT ![v] = stage[p]]
    /\ stage' = [stage EXCEPT ![p] = Absent]
    /\ lock' = Free
    /\ Leave(p, "added")
    /\ UNCHANGED <<litter, source, revoked, keyring, accepted>>

(* Any exception between mkdtemp and the rename removes the stage.         *)
Abort(p) ==
    /\ \/ pc[p] \in {"copy", "publish"} /\ "io" \in Faults
       \/ pc[p] = "publish" /\ ~Verifies(p, stage[p], VersionOf[job[p]])
    /\ stage' = [stage EXCEPT ![p] = Absent]
    /\ lock' = Free
    /\ Leave(p, "failed")
    /\ UNCHANGED <<diskVars, revoked, keyring, accepted>>

-----------------------------------------------------------------------------
(* What ABDeployer.deploy asks of the registry.                            *)

(* inspect, without the lock.                                              *)
Inspect(p, v) ==
    /\ pc[p] = "idle"
    /\ Verifies(p, entry[v], v)
    /\ pc' = [pc EXCEPT ![p] = "inspected"]
    /\ job' = [job EXCEPT ![p] = entry[v].pkg]
    /\ UNCHANGED <<diskVars, revoked, keyring, lock, stage, outcome, accepted>>

(* assert_release_sequence_identity of the manifest that was inspected,    *)
(* under the shared lock: nobody publishes meanwhile.                      *)
AssertIdentity(p) ==
    LET k == job[p]
        v == VersionOf[k]
    IN
    /\ pc[p] = "inspected" /\ LockFree
    /\ accepted' = IF /\ Verifies(p, entry[v], v)
                      /\ SeqOf[entry[v].pkg] = SeqOf[k]
                      /\ ~Unverifiable(p) /\ ~SequenceTaken(p, SeqOf[k], v)
                   THEN accepted \cup {k} ELSE accepted
    /\ pc' = [pc EXCEPT ![p] = "idle"]
    /\ job' = [job EXCEPT ![p] = None]
    /\ UNCHANGED <<diskVars, revoked, keyring, lock, stage, outcome>>

-----------------------------------------------------------------------------
(* The environment.                                                        *)

(* A process starts with the keyring of the moment.                        *)
Start(p) ==
    /\ pc[p] = "down"
    /\ pc' = [pc EXCEPT ![p] = "idle"]
    /\ keyring' = [keyring EXCEPT ![p] = Key \ revoked]
    /\ UNCHANGED <<diskVars, revoked, lock, job, stage, outcome, accepted>>

(* It ends between calls, or is killed anywhere: its locks are released    *)
(* and a stage it had stays on disk for ever.                              *)
Stop(p) ==
    /\ pc[p] = "idle" \/ (p \in CrashProc /\ pc[p] # "down")
    /\ pc' = [pc EXCEPT ![p] = "down"]
    /\ job' = [job EXCEPT ![p] = None]
    /\ outcome' = [outcome EXCEPT ![p] = None]
    /\ keyring' = [keyring EXCEPT ![p] = {}]
    /\ stage' = [stage EXCEPT ![p] = Absent]
    /\ litter' = (litter \/ pc[p] \in {"copy", "publish"})
    /\ lock' = IF lock = p THEN Free ELSE lock
    /\ UNCHANGED <<entry, source, revoked, accepted>>

Revoke(x) ==
    /\ x \in Key \ revoked
    /\ revoked' = revoked \cup {x}
    /\ UNCHANGED <<diskVars, keyring, lock, pc, job, stage, outcome, accepted>>

(* The model file a package names is rewritten by a later build.           *)
SourceChanges(k) ==
    /\ k \in source
    /\ source' = source \ {k}
    /\ UNCHANGED <<entry, litter, revoked, keyring, lock, pc, job, stage,
                   outcome, accepted>>

-----------------------------------------------------------------------------
Init ==
    /\ entry = [v \in Version |-> Absent]
    /\ litter = FALSE
    /\ source = Package
    /\ revoked = {}
    /\ keyring = [p \in Proc |-> {}]
    /\ lock = Free
    /\ pc = [p \in Proc |-> "down"]
    /\ job = [p \in Proc |-> None]
    /\ stage = [p \in Proc |-> Absent]
    /\ outcome = [p \in Proc |-> None]
    /\ accepted = {}

Next ==
    \/ \E p \in Proc :
        \/ \E k \in Package : AddBegin(p, k)
        \/ AddCheck(p) \/ CopyToStage(p) \/ Publish(p) \/ Abort(p)
        \/ \E v \in Version : Inspect(p, v)
        \/ AssertIdentity(p)
        \/ Start(p) \/ Stop(p)
    \/ \E x \in Key : Revoke(x)
    \/ \E k \in Package : SourceChanges(k)

Spec == Init /\ [][Next]_vars

-----------------------------------------------------------------------------
(* Properties                                                              *)

(* REQ-027: no two published versions have the same release sequence,      *)
(* whichever processes publish at once, are killed or trust which keys.    *)
SequencesUnique ==
    \A v, w \in Published :
        SeqOf[entry[v].pkg] = SeqOf[entry[w].pkg] => v = w

(* REQ-001, REQ-003: what is published is a whole package under its own    *)
(* version, although add verified the model before it copied it and the    *)
(* file may have been rewritten in between.                                *)
PublishedIntact ==
    \A v \in Published : entry[v].intact /\ VersionOf[entry[v].pkg] = v

(* A package a deployment has accepted is, from then on and for every      *)
(* process, the one published under its version, and no other package with *)
(* its version or its sequence is ever accepted.  This is what ABDeployer  *)
(* and its journal assume of a release sequence (ADR 0005).                *)
AcceptedForever ==
    /\ \A k \in accepted : entry[VersionOf[k]] = Dir(k, TRUE)
    /\ \A j, k \in accepted : SeqOf[j] = SeqOf[k] => j = k

(* add fails closed on an unverifiable registry only if this process really *)
(* does not trust the signer of a published entry: staging directories and *)
(* interrupted publications of others never block it.                      *)
BlockedOnlyByTrust ==
    \A p \in Proc :
        outcome[p] = "unverifiable" =>
            \E v \in Published : KeyOf[entry[v].pkg] \notin keyring[p]
=============================================================================
