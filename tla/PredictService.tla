--------------------------- MODULE PredictService ---------------------------
(***************************************************************************)
(* The HTTP service, src/src/edgeai/service.py, in front of the executor:  *)
(* a request to /v1/predict passes the concurrency limiter, has its body   *)
(* read, is submitted to the executor, is answered, and gives its slot     *)
(* back.  The limiter's guard is an asyncio lock that is held over an      *)
(* await in one place: while the refusal is sent.                          *)
(*                                                                         *)
(* A request is a Task of the executor; its caller is the handler.  Which  *)
(* status an error becomes is left out, except for the limiter's own 429.  *)
(***************************************************************************)
EXTENDS InferenceExecutor

VARIABLES
    http,      \* where each request is in the service
    inflight,  \* _inflight
    guard      \* the request that holds _guard over an await

serviceVars == <<http, inflight, guard>>
allVars == <<vars, serviceVars>>

(* max_inflight as create_app computes it.                                 *)
MaxInflight == Capacity + Cardinality(Worker)

-----------------------------------------------------------------------------
LimitReached == inflight >= MaxInflight

(* A request takes a slot, or starts to be refused with the guard held.    *)
Admit(t) ==
    /\ http[t] = "client" /\ up
    /\ guard = Free
    /\ IF LimitReached
       THEN /\ http' = [http EXCEPT ![t] = "shedding"]
            /\ guard' = t
            /\ UNCHANGED inflight
       ELSE /\ http' = [http EXCEPT ![t] = "body"]
            /\ inflight' = inflight + 1
            /\ UNCHANGED guard
    /\ UNCHANGED vars

(* Mutant of Shed: the guard stays with the refused request.               *)
Shed_Held(t) ==
    /\ http[t] = "shedding"
    /\ http' = [http EXCEPT ![t] = "shed"]
    /\ UNCHANGED <<vars, inflight, guard>>

(* The client has taken the 429.                                           *)
Shed(t) ==
    /\ http[t] = "shedding"
    /\ http' = [http EXCEPT ![t] = "shed"]
    /\ guard' = Free
    /\ UNCHANGED <<vars, inflight>>

(* The body arrives and is accepted; the handler calls submit_async.       *)
ReadBody(t) ==
    /\ http[t] = "body"
    /\ http' = [http EXCEPT ![t] = "inside"]
    /\ UNCHANGED <<vars, inflight, guard>>

(* It is too large, badly framed or not valid, or the client goes away.    *)
RefuseBody(t) ==
    /\ http[t] = "body"
    /\ http' = [http EXCEPT ![t] = "leaving"]
    /\ UNCHANGED <<vars, inflight, guard>>

(* submit_async has returned or raised and the client took the response.   *)
Respond(t) ==
    /\ http[t] = "inside" /\ pc[t] = "returned"
    /\ http' = [http EXCEPT ![t] = "leaving"]
    /\ UNCHANGED <<vars, inflight, guard>>

(* Mutant of Release: a request that never got to the executor keeps its   *)
(* slot.                                                                   *)
Release_AfterSubmit(t) ==
    /\ http[t] = "leaving" /\ guard = Free
    /\ inflight' = IF pc[t] = "returned" THEN inflight - 1 ELSE inflight
    /\ http' = [http EXCEPT ![t] = "done"]
    /\ UNCHANGED <<vars, guard>>

(* The finally block needs the guard to give the slot back.                *)
Release(t) ==
    /\ http[t] = "leaving" /\ guard = Free
    /\ inflight' = inflight - 1
    /\ http' = [http EXCEPT ![t] = "done"]
    /\ UNCHANGED <<vars, guard>>

-----------------------------------------------------------------------------
(* The handler's part in the executor: submit_async.                       *)
Handle(t) ==
    /\ http[t] = "inside"
    /\ Submit(t) \/ CallerStep(t)
    /\ UNCHANGED serviceVars

(* What the coroutine of an admitted or refused request does next.         *)
Proceed(t) ==
    \/ Shed(t) \/ ReadBody(t) \/ RefuseBody(t) \/ Handle(t) \/ Respond(t)
    \/ Release(t)

(* lifespan calls close() from the event loop's own thread: until it       *)
(* returns, no coroutine runs.                                             *)
LoopRuns == closer \notin {"draining", "joining"}

(* close() waits for the threads at most shutdown_timeout_s.               *)
Joined == Join \/ JoinTimeout

(* lifespan starts the executor before the first request and closes it     *)
(* once, whenever the server says so.                                      *)
Lifespan == EnsureReady \/ (up /\ Close) \/ CloserStep \/ Joined

ServiceInit ==
    /\ Init
    /\ http = [t \in Task |-> "client"]
    /\ inflight = 0
    /\ guard = Free

ServiceNext ==
    \/ LoopRuns /\ \E t \in Task : Admit(t) \/ Proceed(t)
    \/ (\E t \in Task : DeadlinePasses(t)) /\ UNCHANGED serviceVars
    \/ (\E w \in Worker : WorkerStep(w)) /\ UNCHANGED serviceVars
    \/ Lifespan /\ UNCHANGED serviceVars

ServiceSpec == ServiceInit /\ [][ServiceNext]_allVars

(* Coroutines and threads are scheduled, predict returns, and clients send *)
(* their bodies and take their responses, also those that are refused.     *)
ServiceFairness ==
    /\ \A t \in Task : WF_allVars(LoopRuns /\ Proceed(t))
    /\ \A w \in Worker : WF_allVars(WorkerStep(w) /\ UNCHANGED serviceVars)
    /\ WF_allVars((CloserStep \/ Joined) /\ UNCHANGED serviceVars)

FairService == ServiceSpec /\ ServiceFairness

-----------------------------------------------------------------------------
(* Properties                                                              *)

(* The limiter neither leaks a slot nor gives one twice: the counter is    *)
(* the number of requests between their admission and the end of their     *)
(* finally block, never more than max_inflight, and no request is in the   *)
(* executor without one.                                                   *)
SlotsExact ==
    /\ inflight = Cardinality({t \in Task : http[t] \in {"body", "inside", "leaving"}})
    /\ inflight <= MaxInflight
    /\ \A t \in Task : pc[t] \notin {"new", "returned"} => http[t] = "inside"

(* Every request that is admitted is answered and gives its slot back,     *)
(* whatever the limiter, the queue's policy and close() do meanwhile.      *)
SlotsReturned == \A t \in Task : http[t] = "body" ~> http[t] = "done"
=============================================================================
