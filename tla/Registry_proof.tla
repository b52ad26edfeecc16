--------------------------- MODULE Registry_proof ---------------------------
(***************************************************************************)
(* Proofs about the model registry, for any number of processes, packages, *)
(* versions and keys.                                                      *)
(*                                                                         *)
(* The properties of the published directories hold because what AddCheck  *)
(* found with the lock still holds when Publish renames the stage: between *)
(* the two the lock is never given away, and nothing but Publish changes   *)
(* the published directories.  CheckedInv states that.                     *)
(***************************************************************************)
EXTENDS Registry, TLAPS

Holding(p) == pc[p] \in {"copy", "publish"}

TypeOK ==
    /\ entry \in [Version -> Directory \cup {Absent}]
    /\ litter \in BOOLEAN
    /\ source \subseteq Package
    /\ revoked \subseteq Key
    /\ keyring \in [Proc -> SUBSET Key]
    /\ lock \in Proc \cup {Free}
    /\ pc \in [Proc -> {"down", "idle", "waiting", "copy", "publish", "inspected"}]
    /\ job \in [Proc -> Package \cup {None}]
    /\ stage \in [Proc -> Directory \cup {Absent}]
    /\ outcome \in [Proc -> {None, "rejected", "exists", "unverifiable",
                             "taken", "added", "failed"}]
    /\ accepted \subseteq Package

(* The exclusive lock is held from the checks of add to its rename.        *)
LockInv == \A p \in Proc : Holding(p) <=> lock = p

(* A process in the middle of a call has a package, and its stage a copy   *)
(* of that package; one that is not running has no outcome.                *)
JobInv ==
    \A p \in Proc :
        /\ pc[p] = "down" => outcome[p] = None
        /\ pc[p] \in {"waiting", "copy", "publish", "inspected"} => job[p] \in Package
        /\ pc[p] = "publish" => stage[p] \in Directory /\ stage[p].pkg = job[p]

(* What add checked with the lock holds until it renames the stage.        *)
CheckedInv ==
    \A p \in Proc : Holding(p) =>
        /\ entry[VersionOf[job[p]]] = Absent
        /\ \A v \in Published : SeqOf[entry[v].pkg] # SeqOf[job[p]]

(* A package that was inspected is, and stays, the published one.          *)
IsPublished(k) ==
    /\ VersionOf[k] \in Published
    /\ entry[VersionOf[k]] = Dir(k, TRUE)

InspectedInv ==
    /\ \A p \in Proc : pc[p] = "inspected" => IsPublished(job[p])
    /\ \A k \in accepted : IsPublished(k)

IInv ==
    /\ TypeOK /\ LockInv /\ JobInv /\ CheckedInv /\ InspectedInv
    /\ SequencesUnique /\ PublishedIntact /\ BlockedOnlyByTrust

USE ProcAssumption, PackageAssumption, NameAssumption
USE DEF diskVars, Holding, Leave, LockFree, VersionExists

-----------------------------------------------------------------------------
(* Steps that leave the published directories and the keyrings alone       *)
(* preserve what is said of them.                                          *)

LEMMA StoreFrame ==
    ASSUME IInv, UNCHANGED entry
    PROVE  /\ Published' = Published
           /\ SequencesUnique' /\ PublishedIntact'
           /\ \A k \in Package : IsPublished(k) => IsPublished(k)'
BY DEF IInv, SequencesUnique, PublishedIntact, Published, IsPublished, Dir

LEMMA TrustFrame ==
    ASSUME IInv, UNCHANGED <<entry, keyring>>,
           NEW p \in Proc,
           \A q \in Proc : q # p => outcome'[q] = outcome[q],
           \/ outcome'[p] = outcome[p]
           \/ outcome'[p] # "unverifiable"
           \/ Unverifiable(p)
    PROVE  BlockedOnlyByTrust'
<1>1. Published' = Published
  BY StoreFrame
<1>2. Unverifiable(p) => \E v \in Published : KeyOf[entry[v].pkg] \notin keyring[p]
  BY DEF IInv, Unverifiable, Verifies, PublishedIntact, Published
<1> QED BY <1>1, <1>2 DEF IInv, BlockedOnlyByTrust

LEMMA AddBeginStep ==
    ASSUME IInv, NEW p \in Proc, NEW k \in Package, AddBegin(p, k)
    PROVE  IInv'
<1> USE DEF AddBegin
<1>1. TypeOK'
  BY DEF IInv, TypeOK
<1>2. LockInv' /\ JobInv'
  BY DEF IInv, TypeOK, LockInv, JobInv
<1>3. CheckedInv' /\ InspectedInv'
  BY StoreFrame DEF IInv, TypeOK, CheckedInv, InspectedInv, JobInv
<1>4. BlockedOnlyByTrust'
  BY TrustFrame DEF IInv, TypeOK
<1> QED BY <1>1, <1>2, <1>3, <1>4, StoreFrame DEF IInv

LEMMA AddCheckStep ==
    ASSUME IInv, NEW p \in Proc, AddCheck(p)
    PROVE  IInv'
<1> USE DEF AddCheck
<1>1. TypeOK'
  BY DEF IInv, TypeOK
<1>2. LockInv' /\ JobInv'
  BY DEF IInv, TypeOK, LockInv, JobInv
<1>3. CheckedInv'
  <2>1. job[p] \in Package
    BY DEF IInv, JobInv
  <2>2. ASSUME Holding(p)'
        PROVE  /\ entry[VersionOf[job[p]]] = Absent
               /\ \A v \in Published : SeqOf[entry[v].pkg] # SeqOf[job[p]]
               /\ UNCHANGED job
    BY <2>1, <2>2 DEF IInv, TypeOK, SequenceTaken, Published
  <2> QED BY <2>2, StoreFrame DEF IInv, TypeOK, LockInv, CheckedInv
<1>4. InspectedInv'
  BY StoreFrame DEF IInv, TypeOK, InspectedInv, JobInv
<1>5. BlockedOnlyByTrust'
  BY TrustFrame DEF IInv, TypeOK
<1> QED BY <1>1, <1>2, <1>3, <1>4, <1>5, StoreFrame DEF IInv

LEMMA CopyToStageStep ==
    ASSUME IInv, NEW p \in Proc, CopyToStage(p)
    PROVE  IInv'
<1> USE DEF CopyToStage
<1>1. TypeOK' /\ LockInv' /\ JobInv'
  BY DEF IInv, TypeOK, LockInv, JobInv, Dir, Directory
<1>2. CheckedInv' /\ InspectedInv'
  BY StoreFrame DEF IInv, TypeOK, CheckedInv, InspectedInv, JobInv
<1>3. BlockedOnlyByTrust'
  BY TrustFrame DEF IInv, TypeOK
<1> QED BY <1>1, <1>2, <1>3, StoreFrame DEF IInv

LEMMA PublishStep ==
    ASSUME IInv, NEW p \in Proc, Publish(p)
    PROVE  IInv'
<1> DEFINE v == VersionOf[job[p]]
<1> USE DEF Publish
<1>1. /\ job[p] \in Package /\ v \in Version
      /\ stage[p] = Dir(job[p], TRUE) /\ stage[p] # Absent
      /\ entry[v] = Absent
      /\ \A w \in Published : SeqOf[entry[w].pkg] # SeqOf[job[p]]
  <2>1. /\ job[p] \in Package /\ stage[p] \in Directory
        /\ stage[p].pkg = job[p]
    BY DEF IInv, JobInv
  <2>2. stage[p].intact /\ stage[p] # Absent
    BY DEF Verifies
  <2>3. stage[p] = Dir(job[p], TRUE)
    BY <2>1, <2>2 DEF Dir, Directory
  <2> QED BY <2>1, <2>2, <2>3 DEF IInv, CheckedInv
<1>2. /\ entry' = [entry EXCEPT ![v] = stage[p]]
      /\ entry \in [Version -> Directory \cup {Absent}]
  BY DEF IInv, TypeOK
<1>3. TypeOK'
  BY <1>1 DEF IInv, TypeOK, Dir, Directory
<1>4. LockInv' /\ JobInv' /\ CheckedInv'
  BY DEF IInv, TypeOK, LockInv, JobInv, CheckedInv
<1> HIDE DEF v, Publish
<1>5. /\ Published' = Published \cup {v} /\ v \notin Published
      /\ \A w \in Published : entry'[w] = entry[w]
      /\ entry'[v] = Dir(job[p], TRUE)
  <2>1. \A w \in Version : entry'[w] = IF w = v THEN stage[p] ELSE entry[w]
    BY <1>2
  <2> QED BY <1>1, <2>1 DEF Published
<1>6. \A k \in Package : IsPublished(k) => IsPublished(k)'
  BY <1>5 DEF IsPublished, Dir
<1>7. InspectedInv'
  BY <1>6 DEF Publish, IInv, TypeOK, InspectedInv, JobInv
<1>8. SequencesUnique'
  BY <1>1, <1>5 DEF IInv, SequencesUnique, Dir
<1>9. PublishedIntact'
  BY <1>1, <1>5 DEF v, IInv, PublishedIntact, Dir
<1>10. BlockedOnlyByTrust'
  <2>1. \A q \in Proc : /\ keyring'[q] = keyring[q]
                        /\ outcome'[q] = outcome[q] \/ outcome'[q] = "added"
    BY DEF Publish, IInv, TypeOK
  <2> QED BY <1>5, <2>1 DEF IInv, BlockedOnlyByTrust
<1> QED BY <1>3, <1>4, <1>7, <1>8, <1>9, <1>10 DEF IInv

LEMMA AbortStep ==
    ASSUME IInv, NEW p \in Proc, Abort(p)
    PROVE  IInv'
<1> USE DEF Abort
<1>1. TypeOK' /\ LockInv' /\ JobInv'
  BY DEF IInv, TypeOK, LockInv, JobInv
<1>2. CheckedInv' /\ InspectedInv'
  BY StoreFrame DEF IInv, TypeOK, CheckedInv, InspectedInv, JobInv
<1>3. BlockedOnlyByTrust'
  BY TrustFrame DEF IInv, TypeOK
<1> QED BY <1>1, <1>2, <1>3, StoreFrame DEF IInv

LEMMA InspectStep ==
    ASSUME IInv, NEW p \in Proc, NEW v \in Version, Inspect(p, v)
    PROVE  IInv'
<1> USE DEF Inspect
<1>1. entry[v] \in Directory /\ entry[v].pkg \in Package
  BY DEF IInv, TypeOK, Verifies, Directory
<1>2. IsPublished(entry[v].pkg)
  BY <1>1 DEF IInv, Verifies, IsPublished, Published, Dir, Directory
<1>3. TypeOK' /\ LockInv' /\ JobInv'
  BY <1>1 DEF IInv, TypeOK, LockInv, JobInv
<1>4. CheckedInv' /\ InspectedInv'
  BY <1>1, <1>2, StoreFrame DEF IInv, TypeOK, CheckedInv, InspectedInv, JobInv
<1>5. BlockedOnlyByTrust'
  BY TrustFrame DEF IInv, TypeOK
<1> QED BY <1>3, <1>4, <1>5, StoreFrame DEF IInv

LEMMA AssertIdentityStep ==
    ASSUME IInv, NEW p \in Proc, AssertIdentity(p)
    PROVE  IInv'
<1> USE DEF AssertIdentity
<1>1. job[p] \in Package /\ IsPublished(job[p])
  BY DEF IInv, JobInv, InspectedInv
<1>2. TypeOK' /\ LockInv' /\ JobInv'
  BY <1>1 DEF IInv, TypeOK, LockInv, JobInv
<1>3. CheckedInv'
  BY StoreFrame DEF IInv, TypeOK, CheckedInv
<1>4. InspectedInv'
  BY <1>1, StoreFrame DEF IInv, TypeOK, InspectedInv, JobInv
<1>5. BlockedOnlyByTrust'
  BY TrustFrame DEF IInv, TypeOK
<1> QED BY <1>2, <1>3, <1>4, <1>5, StoreFrame DEF IInv

LEMMA StartStep ==
    ASSUME IInv, NEW p \in Proc, Start(p)
    PROVE  IInv'
<1> USE DEF Start
<1>1. TypeOK' /\ LockInv' /\ JobInv'
  BY DEF IInv, TypeOK, LockInv, JobInv
<1>2. CheckedInv' /\ InspectedInv'
  BY StoreFrame DEF IInv, TypeOK, CheckedInv, InspectedInv, JobInv
<1>3. BlockedOnlyByTrust'
  BY StoreFrame DEF IInv, TypeOK, JobInv, BlockedOnlyByTrust
<1> QED BY <1>1, <1>2, <1>3, StoreFrame DEF IInv

LEMMA StopStep ==
    ASSUME IInv, NEW p \in Proc, Stop(p)
    PROVE  IInv'
<1> USE DEF Stop
<1>0. TypeOK'
  BY DEF IInv, TypeOK
<1>1. LockInv' /\ JobInv'
  BY DEF IInv, TypeOK, LockInv, JobInv
<1>2. CheckedInv' /\ InspectedInv'
  BY StoreFrame DEF IInv, TypeOK, CheckedInv, InspectedInv, JobInv
<1>3. BlockedOnlyByTrust'
  BY StoreFrame DEF IInv, TypeOK, BlockedOnlyByTrust
<1> QED BY <1>0, <1>1, <1>2, <1>3, StoreFrame DEF IInv

LEMMA EnvironmentStep ==
    ASSUME IInv,
           \/ \E x \in Key : Revoke(x)
           \/ \E k \in Package : SourceChanges(k)
           \/ UNCHANGED vars
    PROVE  IInv'
<1>1. UNCHANGED <<entry, keyring, lock, pc, job, stage, outcome, accepted>>
  BY DEF Revoke, SourceChanges, vars
<1>2. TypeOK'
  BY DEF Revoke, SourceChanges, vars, IInv, TypeOK
<1>3. LockInv' /\ JobInv'
  BY <1>1 DEF IInv, LockInv, JobInv
<1>4. CheckedInv' /\ InspectedInv'
  BY <1>1, StoreFrame DEF IInv, TypeOK, CheckedInv, InspectedInv, JobInv
<1>5. BlockedOnlyByTrust'
  BY <1>1, StoreFrame DEF IInv, BlockedOnlyByTrust
<1> QED BY <1>1, <1>2, <1>3, <1>4, <1>5, StoreFrame DEF IInv

-----------------------------------------------------------------------------
LEMMA Invariance == Spec => []IInv
<1>1. Init => IInv
  BY DEF Init, IInv, TypeOK, LockInv, JobInv, CheckedInv, InspectedInv,
         Published, SequencesUnique, PublishedIntact, BlockedOnlyByTrust
<1>2. ASSUME IInv, [Next]_vars
      PROVE  IInv'
  BY <1>2, AddBeginStep, AddCheckStep, CopyToStageStep, PublishStep, AbortStep,
     InspectStep, AssertIdentityStep, StartStep, StopStep, EnvironmentStep
     DEF Next
<1> QED BY <1>1, <1>2, PTL DEF Spec

(* Whichever processes publish at once, are killed or trust which keys, no *)
(* two published versions share a release sequence: the check of add and   *)
(* its rename are one step for everyone who takes the lock (REQ-027).      *)
THEOREM SequencesAlwaysUnique == Spec => []SequencesUnique
BY Invariance, PTL DEF IInv

(* Only whole packages are published, each under its own version, although *)
(* the source file may be rewritten after add has verified it.             *)
THEOREM PublishedAlwaysIntact == Spec => []PublishedIntact
BY Invariance, PTL DEF IInv

(* What a deployment accepted stays what is published under that version,  *)
(* and a release sequence identifies one accepted package: the assumption  *)
(* ABDeployer makes of the sequence of a version (ADR 0005).               *)
THEOREM AcceptedStaysForever == Spec => []AcceptedForever
<1>1. IInv => AcceptedForever
  <2> SUFFICES ASSUME IInv PROVE AcceptedForever
    OBVIOUS
  <2>1. \A k \in accepted : IsPublished(k)
    BY DEF IInv, InspectedInv
  <2>2. ASSUME NEW j \in accepted, NEW k \in accepted, SeqOf[j] = SeqOf[k]
        PROVE  j = k
    <3>1. /\ entry[VersionOf[j]].pkg = j /\ entry[VersionOf[k]].pkg = k
          /\ VersionOf[j] \in Published /\ VersionOf[k] \in Published
      <4>1. Dir(j, TRUE).pkg = j /\ Dir(k, TRUE).pkg = k
        BY DEF Dir
      <4> QED BY <2>1, <4>1 DEF IsPublished
    <3>2. VersionOf[j] = VersionOf[k]
      BY <2>2, <3>1 DEF IInv, SequencesUnique
    <3> QED BY <3>1, <3>2
  <2> QED BY <2>1, <2>2 DEF AcceptedForever, IsPublished
<1> QED BY <1>1, Invariance, PTL

(* add refuses with an unverifiable registry only where a published entry  *)
(* is signed by a key this process does not trust; killed publications and *)
(* staging directories never make it refuse.                               *)
THEOREM AlwaysBlockedOnlyByTrust == Spec => []BlockedOnlyByTrust
BY Invariance, PTL DEF IInv

(* The registry is immutable: no step of any process replaces, changes or  *)
(* removes a directory that is published.                                  *)
THEOREM PublishedImmutable ==
    Spec => [][\A v \in Published : entry'[v] = entry[v]]_vars
<1>1. ASSUME IInv, Next
      PROVE  \A v \in Published : entry'[v] = entry[v]
  <2>1. ASSUME NEW p \in Proc, Publish(p)
        PROVE  \A v \in Published : entry'[v] = entry[v]
    BY <1>1, <2>1 DEF Publish, IInv, TypeOK, CheckedInv, Published
  <2>2. (\E p \in Proc : Publish(p)) \/ UNCHANGED entry
    BY <1>1 DEF Next, AddBegin, AddCheck, CopyToStage, Abort, Inspect,
                AssertIdentity, Start, Stop, Revoke, SourceChanges
  <2> QED BY <2>1, <2>2
<1> QED BY <1>1, Invariance, PTL DEF Spec
=============================================================================
