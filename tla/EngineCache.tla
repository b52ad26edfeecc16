---------------------------- MODULE EngineCache ----------------------------
(***************************************************************************)
(* The inference engine, src/src/edgeai/engine.py, on top of the           *)
(* deployment manager: requests of one server process bind themselves to   *)
(* the runtime of the active generation while other processes deploy, roll *)
(* back, are killed and recover.                                           *)
(*                                                                         *)
(* A request reads state.json without a lock and checks it against the     *)
(* anchor in further steps (active_identity), then compares it with the    *)
(* cache under the engine's lock and, on a miss, reads and checks it again *)
(* under the shared deployment lock.  _active and                          *)
(* isolated_runtime_snapshot do this for the two kinds of cached material; *)
(* a server uses one of them.                                              *)
(***************************************************************************)
EXTENDS ABDeployer

CONSTANTS
    Server,   \* the process that answers requests; it never deploys
    Request   \* calls of prepare, prepare_isolated or the readiness probe

ASSUME ServerAssumption == Server \in Proc \ CrashProc
ASSUME RequestAssumption == None \notin Request /\ Free \notin Request

VARIABLES
    cache,      \* _runtime, _version and _generation
    engineLock, \* holder of the engine's _lock
    rpc,        \* where each request is
    phase,      \* which _read it is in: of active_identity or of the snapshot
    seen,       \* the state.json it read without the lock
    observed,   \* the anchor's floor as it read it
    snap,       \* the snapshot it took
    answer,     \* what it was bound to
    since,      \* history: generation and anchor when it arrived
    met,        \* history: the requests under way at the same time as it
    named       \* history: the version each generation made active

locals == <<phase, seen, observed, snap>>
history == <<since, met, named>>
engineVars == <<cache, engineLock, rpc, locals, answer, history>>
allVars == <<vars, engineVars>>

-----------------------------------------------------------------------------
Material == [bytes : Content, version : Version \cup {None}, generation : Nat]
Nothing == [bytes |-> Absent, version |-> None, generation |-> 0]

ActiveVersion(st) == IF st.active = None THEN None ELSE st.slots[st.active]

Move(r, to) == rpc' = [rpc EXCEPT ![r] = to]

UnderWay == {q \in Request : rpc[q] \notin {"new", "bound", "refused"}}

(* A request arrives and is validated; nothing is read yet.                *)
Arrive(r) ==
    /\ pc[Server] = "idle" /\ rpc[r] = "new"
    /\ since' = [since EXCEPT ![r] = [generation |-> state.generation,
                                      anchor |-> anchor]]
    /\ met' = [q \in Request |->
                 CASE q = r -> UnderWay
                   [] q \in UnderWay -> met[q] \cup {r}
                   [] OTHER -> met[q]]
    /\ Move(r, "identify")
    /\ UNCHANGED <<vars, cache, engineLock, locals, answer, named>>

(* active_identity opens state.json: one complete state, old or new.       *)
ReadIdentity(r) ==
    /\ rpc[r] = "identify"
    /\ seen' = [seen EXCEPT ![r] = state]
    /\ Move(r, "pending")
    /\ UNCHANGED <<vars, cache, engineLock, phase, observed, snap, answer, history>>

-----------------------------------------------------------------------------
(* _validate_state_anchor.  Its threads share _trusted_floor without a     *)
(* lock: each access of it is a step.                                      *)

FloorRead(r) == IF phase[r] = "identity" THEN seen[r].floor ELSE state.floor

(* A _read that was accepted goes on, one that was refused ends the        *)
(* request and leaves the locks it holds.                                  *)
Accept(r) ==
    /\ Move(r, CASE phase[r] = "snapshot" -> "open"
                 [] phase[r] = "identity" /\ ActiveVersion(seen[r]) = None
                      -> "refused"
                 [] OTHER -> "lookup")
    /\ UNCHANGED <<lock, engineLock>>

Reject(r) ==
    /\ Move(r, "refused")
    /\ IF phase[r] = "snapshot" THEN lock' = Free /\ engineLock' = Free
       ELSE UNCHANGED <<lock, engineLock>>

(* Mutant of JournalSeen: a journal on disk is not looked for.             *)
JournalSeen_Never == FALSE

JournalSeen == JournalExists

(* Is a transaction in flight?  Then the anchor has to be read.            *)
LookForJournal(r) ==
    /\ rpc[r] = "pending"
    /\ IF ~UseAnchor THEN Accept(r)
       ELSE /\ Move(r, IF JournalSeen THEN "refresh" ELSE "floor")
            /\ UNCHANGED <<lock, engineLock>>
    /\ UNCHANGED <<dirVars, fileVars, anchor, pc, jobVars, memVars, cache,
                   locals, answer, history>>

(* The cached floor is trusted if it is that of the state.                 *)
CompareCached(r) ==
    /\ rpc[r] = "floor"
    /\ Move(r, IF FloorRead(r) = trusted[Server] THEN "compare" ELSE "refresh")
    /\ UNCHANGED <<vars, cache, engineLock, locals, answer, history>>

ReadAnchor(r) ==
    /\ rpc[r] = "refresh"
    /\ observed' = [observed EXCEPT ![r] = anchor]
    /\ Move(r, "store")
    /\ UNCHANGED <<vars, cache, engineLock, phase, seen, snap, answer, history>>

(* Mutant of RefreshFloor: the anchor is read but not remembered.          *)
RefreshFloor_Stale(r) == trusted' = trusted

RefreshFloor(r) == trusted' = [trusted EXCEPT ![Server] = observed[r]]

StoreFloor(r) ==
    /\ rpc[r] = "store"
    /\ RefreshFloor(r)
    /\ observed' = [observed EXCEPT ![r] = NoFloor]
    /\ Move(r, "compare")
    /\ UNCHANGED <<dirVars, fileVars, anchor, lock, pc, jobVars, poisoned,
                   cache, engineLock, phase, seen, snap, answer, history>>

(* The shared attribute is read once more for the verdict.                 *)
CompareFloor(r) ==
    /\ rpc[r] = "compare"
    /\ IF FloorRead(r) = trusted[Server] THEN Accept(r) ELSE Reject(r)
    /\ UNCHANGED <<dirVars, fileVars, anchor, pc, jobVars, memVars, cache,
                   locals, answer, history>>

-----------------------------------------------------------------------------
CacheHit(r) ==
    /\ seen[r].generation = cache.generation
    /\ ActiveVersion(seen[r]) = cache.version

(* Mutant of EngineFree: the cache is refreshed without the lock.          *)
EngineFree_Always == TRUE

EngineFree == engineLock = Free

(* Under _lock: a hit is answered from the cache, a miss keeps the lock.   *)
LookUp(r) ==
    /\ rpc[r] = "lookup" /\ EngineFree
    /\ IF CacheHit(r)
       THEN /\ answer' = [answer EXCEPT ![r] = cache]
            /\ Move(r, "bound")
            /\ UNCHANGED engineLock
       ELSE /\ engineLock' = r
            /\ Move(r, "snapshot")
            /\ UNCHANGED answer
    /\ UNCHANGED <<vars, cache, locals, history>>

(* active_snapshot or active_artifact_snapshot takes the shared lock,      *)
(* which no writer gets until it is released.  The engine's lock admits    *)
(* one reader at a time, so lock = Server stands for the shared mode.      *)
TakeSnapshot(r) ==
    /\ rpc[r] = "snapshot" /\ lock = Free
    /\ lock' = Server
    /\ phase' = [phase EXCEPT ![r] = "snapshot"]
    /\ Move(r, "pending")
    /\ UNCHANGED <<dirVars, fileVars, anchor, pc, jobVars, memVars, cache,
                   engineLock, seen, observed, snap, answer, history>>

(* The bytes of the active slot are authenticated and read.  A refusal     *)
(* leaves the cache as it was.                                             *)
OpenSlot(r) ==
    /\ rpc[r] = "open"
    /\ IF state.active # None /\ slotDir[state.active] = ActiveVersion(state)
       THEN /\ snap' = [snap EXCEPT ![r] =
                          [bytes |-> slotDir[state.active],
                           version |-> ActiveVersion(state),
                           generation |-> state.generation]]
            /\ Move(r, "install")
            /\ lock' = Free
            /\ UNCHANGED engineLock
       ELSE Reject(r) /\ UNCHANGED snap
    /\ UNCHANGED <<dirVars, fileVars, anchor, pc, jobVars, memVars, cache,
                   phase, seen, observed, answer, history>>

(* Mutant of Installed: the snapshot is filed under the identity that was  *)
(* read before it.                                                         *)
Installed_AsSeen(r) ==
    [snap[r] EXCEPT !.version = ActiveVersion(seen[r]),
                    !.generation = seen[r].generation]

Installed(r) == snap[r]

(* The three attributes are assigned and returned, still under _lock.      *)
InstallSnapshot(r) ==
    /\ rpc[r] = "install"
    /\ cache' = Installed(r)
    /\ answer' = [answer EXCEPT ![r] = cache']
    /\ engineLock' = Free
    /\ snap' = [snap EXCEPT ![r] = Nothing]
    /\ Move(r, "bound")
    /\ UNCHANGED <<vars, phase, seen, observed, history>>

-----------------------------------------------------------------------------
(* Steps of the deployment manager.  The server starts first and only      *)
(* reads from then on; start-up during a deployment is ABDeployer's matter. *)
DeploymentStep(p) ==
    \/ p = Server /\ (Boot(p) \/ Recover(p) \/ RecoverRaises(p))
    \/ /\ p # Server /\ pc[Server] = "idle"
       /\ \/ Boot(p)
          \/ Recover(p)
          \/ RecoverRaises(p)
          \/ \E v \in Version, allow \in BOOLEAN : DeployBegin(p, v, allow)
          \/ DeployStep(p)
          \/ Rollback(p)
          \/ Stop(p)
          \/ Crash(p)

Deployment ==
    /\ \E p \in Proc : DeploymentStep(p)
    /\ named' = [named EXCEPT ![state'.generation] = ActiveVersion(state')]
    /\ UNCHANGED <<cache, engineLock, rpc, locals, answer, since, met>>

RequestStep(r) ==
    \/ Arrive(r) \/ ReadIdentity(r) \/ LookForJournal(r) \/ CompareCached(r)
    \/ ReadAnchor(r) \/ StoreFloor(r) \/ CompareFloor(r) \/ LookUp(r)
    \/ TakeSnapshot(r) \/ OpenSlot(r) \/ InstallSnapshot(r)

EngineInit ==
    /\ Init
    /\ cache = Nothing
    /\ engineLock = Free
    /\ rpc = [r \in Request |-> "new"]
    /\ phase = [r \in Request |-> "identity"]
    /\ seen = [r \in Request |-> EmptyState]
    /\ observed = [r \in Request |-> NoFloor]
    /\ snap = [r \in Request |-> Nothing]
    /\ answer = [r \in Request |-> Nothing]
    /\ since = [r \in Request |-> [generation |-> 0, anchor |-> NoFloor]]
    /\ met = [r \in Request |-> {}]
    /\ named = [g \in 0..MaxGeneration |-> None]

EngineNext == Deployment \/ \E r \in Request : RequestStep(r)

EngineSpec == EngineInit /\ [][EngineNext]_allVars

-----------------------------------------------------------------------------
(* Properties                                                              *)

(* ARCHITECTURE.md, "preventing a state/runtime mismatch": the bytes a     *)
(* request runs are those of the version it reports, and that version was  *)
(* the active one of the generation it reports, whatever was committed     *)
(* between its reads.                                                      *)
BoundCoherently ==
    \A r \in Request : rpc[r] = "bound" =>
        /\ answer[r].bytes = answer[r].version
        /\ answer[r].version = named[answer[r].generation]

(* A request is bound to nothing older than what was committed when it     *)
(* arrived, and not before state.json has caught up with the anchor of     *)
(* that moment: a device stranded by an agent that was killed after it     *)
(* advanced the anchor answers no request (REQ-025).  The anchor's part is *)
(* promised only if no request older than that anchor is still under way:  *)
(* such a thread may store the old floor it read between this request's    *)
(* store and its comparison.                                               *)
NeverStale ==
    [][\A r \in Request :
          rpc[r] # "bound" /\ rpc'[r] = "bound" =>
              /\ answer'[r].generation >= since[r].generation
              /\ \/ ~UseAnchor
                 \/ state.floor >= since[r].anchor
                 \/ \E q \in met[r] : since[q].anchor < since[r].anchor]_allVars

(* The anchor's part for every request: REQ-025 wants the read to fail     *)
(* closed, whichever threads share the floor.                              *)
AnchorRespected ==
    [][\A r \in Request :
          rpc[r] # "bound" /\ rpc'[r] = "bound" /\ UseAnchor =>
              state.floor >= since[r].anchor]_allVars

(* Requests that refresh the cache in any order never put an older         *)
(* generation over a newer one.                                            *)
CacheAdvances == [][cache'.generation >= cache.generation]_allVars

(* The anchor check turns a request away only if state.json and the anchor *)
(* really disagree, or state.json changed after this request, or one under *)
(* way at the same time that has read it too, did so: the floor that       *)
(* threads share and cache never makes a settled device refuse.            *)
RefusalExplained ==
    [][\A r \in Request :
          rpc[r] # "refused" /\ rpc'[r] = "refused" =>
              \/ state.active = None
              \/ UseAnchor /\ state.floor # anchor
              \/ \E q \in met[r] \cup {r} :
                    rpc[q] \notin {"new", "identify"} /\ seen[q] # state]_allVars

(* deploy.py, state(): "Avoiding the writer lock keeps inference available *)
(* during the candidate benchmark phase."  No request waits for the        *)
(* deployment lock while its holder runs the health gate.                  *)
GateKeepsServing ==
    \A p \in Proc : pc[p] = "gate" => \A r \in Request : rpc[r] # "snapshot"
=============================================================================
