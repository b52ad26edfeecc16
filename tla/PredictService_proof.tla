------------------------ MODULE PredictService_proof ------------------------
(***************************************************************************)
(* Proofs about the HTTP service in front of the executor, for any number  *)
(* of requests and workers and every capacity: the limiter counts its      *)
(* requests exactly, and the service uses the executor as its              *)
(* specification allows, so that what is proved of the executor holds of   *)
(* the service.                                                            *)
(***************************************************************************)
EXTENDS PredictService, InferenceExecutor_proof

(* The requests that have a slot of the limiter.                           *)
Slots == {t \in Task : http[t] \in {"body", "inside", "leaving"}}

HttpTypeOK ==
    http \in [Task -> {"client", "shedding", "shed", "body", "inside",
                       "leaving", "done"}]

(* Inductive once the executor keeps its types: the slots are counted, and *)
(* a caller is in the executor only through its handler.                   *)
SlotInv == HttpTypeOK /\ SlotsExact

-----------------------------------------------------------------------------
(* The service implements the executor                                     *)

(* A step of the service is a step of the executor or does not touch it.   *)
LEMMA ServiceStep == ASSUME [ServiceNext]_allVars PROVE [Next]_vars
<1>1. ASSUME NEW t \in Task, Admit(t) \/ Proceed(t) PROVE [Next]_vars
  <2>1. CASE Handle(t)
    BY <2>1 DEF Handle, Next
  <2>2. CASE ~Handle(t)
    BY <1>1, <2>2 DEF Proceed, Admit, Shed, ReadBody, RefuseBody, Respond, Release
  <2> QED BY <2>1, <2>2
<1>2. CASE Lifespan
  BY <1>2 DEF Lifespan, Joined, Next
<1> QED BY <1>1, <1>2 DEF ServiceNext, Next, allVars

(* create_app uses the executor as its specification allows: every         *)
(* behaviour of the service is a behaviour of the executor, with the       *)
(* handlers as its callers and lifespan as the caller of close().          *)
THEOREM ServiceRefinesExecutor == ServiceSpec => Spec
<1>1. ServiceInit => Init
  BY DEF ServiceInit
<1>2. [ServiceNext]_allVars => [Next]_vars
  BY ServiceStep
<1> QED BY <1>1, <1>2, PTL DEF ServiceSpec, Spec

(* So behind the HTTP service no request is lost, none that was refused    *)
(* runs, none is counted twice, and a close() that returned True is final. *)
THEOREM ServiceKeepsPromises ==
    ServiceSpec => [](NoRequestLost /\ RefusedNeverRun /\ CountedOnce /\ CloseIsFinal)
BY ServiceRefinesExecutor, NoRequestEverLost, RefusedNeverRuns, CountedAtMostOnce,
   CloseAlwaysFinal, PTL

-----------------------------------------------------------------------------
(* The limiter                                                             *)

(* The set of slots is finite, so a slot taken or given back counts as one. *)
LEMMA SlotCount ==
    /\ IsFiniteSet(Slots) /\ Cardinality(Slots) \in Nat
    /\ \A t \in Task \ Slots :
          Cardinality(Slots \cup {t}) = Cardinality(Slots) + 1
    /\ \A t \in Slots :
          Cardinality(Slots \ {t}) = Cardinality(Slots) - 1
<1>1. IsFiniteSet(Slots)
  <2>1. Slots \subseteq Task
    BY DEF Slots
  <2> QED BY <2>1, TaskAssumption, FS_Subset
<1>2. Cardinality(Slots) \in Nat
  BY <1>1, FS_CardinalityType
<1>3. ASSUME NEW t \in Task \ Slots
      PROVE  Cardinality(Slots \cup {t}) = Cardinality(Slots) + 1
  BY <1>1, FS_AddElement
<1>4. ASSUME NEW t \in Slots
      PROVE  Cardinality(Slots \ {t}) = Cardinality(Slots) - 1
  BY <1>1, FS_RemoveElement
<1> QED BY <1>1, <1>2, <1>3, <1>4

LEMMA MaxInflightType == MaxInflight \in Nat
<1>1. Cardinality(Worker) \in Nat
  BY WorkerAssumption, FS_CardinalityType
<1> QED BY <1>1, CapacityAssumption DEF MaxInflight

LEMMA InitSlots == ServiceInit => SlotInv
<1> SUFFICES ASSUME ServiceInit PROVE SlotInv
  OBVIOUS
<1>1. HttpTypeOK
  BY DEF ServiceInit, HttpTypeOK
<1>2. Slots = {}
  BY DEF ServiceInit, Slots
<1>3. Cardinality({}) = 0
  BY FS_EmptySet
<1>4. SlotsExact
  <2>1. inflight = Cardinality(Slots) /\ inflight <= MaxInflight
    BY <1>2, <1>3, MaxInflightType DEF ServiceInit
  <2>2. \A t \in Task : pc[t] = "new"
    BY DEF ServiceInit, Init
  <2> QED BY <2>1, <2>2 DEF SlotsExact, Slots
<1> QED BY <1>1, <1>4 DEF SlotInv

(* Only a handler moves its caller.                                        *)
LEMMA CallersStay ==
    ASSUME ServiceNext, TypeOK
    PROVE  \/ UNCHANGED pc
           \/ \E t \in Task : /\ http[t] = "inside"
                              /\ UNCHANGED serviceVars
                              /\ \A q \in Task : q # t => pc'[q] = pc[q]
<1>1. ASSUME NEW t \in Task, Admit(t) \/ Proceed(t), ~Handle(t) PROVE UNCHANGED pc
  BY <1>1 DEF Admit, Proceed, Shed, ReadBody, RefuseBody, Respond, Release, vars
<1>2. ASSUME NEW t \in Task, Handle(t)
      PROVE  \A q \in Task : q # t => pc'[q] = pc[q]
  BY <1>2
    DEF Handle, TypeOK, Submit, CallerStep, Enqueue, EnqueueClosed, EnqueueRejected,
        EnqueueAccepted, EnqueueEvicting, Refuse, CompleteEvicted, TimeOut, Withdraw, Return
<1>3. ASSUME NEW t \in Task, DeadlinePasses(t) PROVE UNCHANGED pc
  BY <1>3 DEF DeadlinePasses
<1>4. ASSUME NEW w \in Worker, WorkerStep(w) PROVE UNCHANGED pc
  BY <1>4
  DEF WorkerStep, Pop, PopWait, PopTimeout, Flush, CheckClosed, Begin, Finish, CountResult,
      callers
<1>5. CASE Lifespan
  BY <1>5
  DEF Lifespan, Joined, EnsureReady, Close, CloserStep, CompleteDrained, EndDrain, Join,
      JoinTimeout, callers
<1> QED BY <1>1, <1>2, <1>3, <1>4, <1>5 DEF ServiceNext, Handle

(* A request's own step in the service, with its slot.                     *)
LEMMA RequestStep ==
    ASSUME SlotInv, NEW t \in Task, Admit(t) \/ Proceed(t), ~Handle(t)
    PROVE  SlotInv'
<1> DEFINE S == Slots
<1>1. /\ HttpTypeOK /\ inflight = Cardinality(S) /\ inflight <= MaxInflight
      /\ \A q \in Task : pc[q] \notin {"new", "returned"} => http[q] = "inside"
  BY DEF SlotInv, SlotsExact, Slots
<1>2. UNCHANGED pc
  BY DEF Admit, Proceed, Shed, ReadBody, RefuseBody, Respond, Release, vars
<1>3. PICK l \in {"shedding", "shed", "body", "inside", "leaving", "done"} :
          http' = [http EXCEPT ![t] = l]
  BY DEF Admit, Proceed, Shed, ReadBody, RefuseBody, Respond, Release
<1>4. HttpTypeOK'
  BY <1>1, <1>3 DEF HttpTypeOK
<1>5. http[t] = "inside" => pc[t] = "returned"
  BY DEF Admit, Proceed, Shed, ReadBody, RefuseBody, Respond, Release
<1>6. \A q \in Task : pc'[q] \notin {"new", "returned"} => http'[q] = "inside"
  BY <1>1, <1>2, <1>3, <1>5 DEF HttpTypeOK
<1>7. inflight' = Cardinality(Slots') /\ inflight' <= MaxInflight
  <2>1. CASE Admit(t) /\ ~LimitReached
    <3>1. Slots' = S \cup {t} /\ t \in Task \ S
      BY <2>1, <1>1 DEF Admit, Slots, HttpTypeOK
    <3>2. Cardinality(S \cup {t}) = Cardinality(S) + 1 /\ Cardinality(S) \in Nat
      BY <3>1, SlotCount
    <3>3. inflight' = inflight + 1 /\ inflight < MaxInflight
      BY <2>1, <1>1, <3>2, MaxInflightType DEF Admit, LimitReached
    <3> HIDE DEF S
    <3> QED BY <3>1, <3>2, <3>3, <1>1, MaxInflightType
  <2>2. CASE Release(t)
    <3>1. Slots' = S \ {t} /\ t \in S
      BY <2>2, <1>1 DEF Release, Slots, HttpTypeOK
    <3>2. Cardinality(S \ {t}) = Cardinality(S) - 1 /\ Cardinality(S) \in Nat
      BY <3>1, SlotCount
    <3>3. inflight' = inflight - 1
      BY <2>2 DEF Release
    <3> HIDE DEF S
    <3> QED BY <3>1, <3>2, <3>3, <1>1, MaxInflightType
  <2>3. CASE ~(Admit(t) /\ ~LimitReached) /\ ~Release(t)
    <3>1. UNCHANGED inflight
      BY <2>3 DEF Admit, Proceed, Shed, ReadBody, RefuseBody, Respond
    <3>2. (http[t] \in {"body", "inside", "leaving"}) <=> (http'[t] \in {"body", "inside", "leaving"})
      BY <2>3, <1>1 DEF Admit, Proceed, Shed, ReadBody, RefuseBody, Respond, HttpTypeOK
    <3>3. Slots' = S
      BY <3>2, <1>1, <1>3 DEF Slots, HttpTypeOK
    <3> HIDE DEF S
    <3> QED BY <3>1, <3>3, <1>1
  <2> QED BY <2>1, <2>2, <2>3
<1> QED BY <1>4, <1>6, <1>7 DEF SlotInv, SlotsExact, Slots

LEMMA SlotNext ==
    ASSUME TypeOK, SlotInv, [ServiceNext]_allVars
    PROVE  SlotInv'
<1>1. ASSUME NEW t \in Task, Admit(t) \/ Proceed(t), ~Handle(t) PROVE SlotInv'
  BY <1>1, RequestStep
<1>2. CASE UNCHANGED serviceVars
  <2>1. \A q \in Task : pc'[q] # pc[q] => http[q] = "inside"
    BY <1>2, CallersStay DEF allVars, vars
  <2>2. UNCHANGED <<http, inflight>>
    BY <1>2 DEF serviceVars
  <2> QED BY <2>1, <2>2 DEF SlotInv, HttpTypeOK, SlotsExact
<1> QED BY <1>1, <1>2 DEF ServiceNext, Handle, allVars

(* ConcurrencyLimiter never leaks a slot and never gives one twice, for    *)
(* any number of requests that are admitted, shed, refused or answered in  *)
(* any order, and every caller in the executor has one.                    *)
THEOREM SlotsAlwaysExact == ServiceSpec => []SlotsExact
<1>1. ServiceSpec => []TypeOK
  BY ServiceRefinesExecutor, TypeCorrect, PTL
<1>2. TypeOK /\ SlotInv /\ [ServiceNext]_allVars => SlotInv'
  BY SlotNext
<1>3. SlotInv => SlotsExact
  BY DEF SlotInv
<1> QED BY <1>1, <1>2, <1>3, InitSlots, PTL DEF ServiceSpec
=============================================================================
