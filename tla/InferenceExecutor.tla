------------------------- MODULE InferenceExecutor -------------------------
(***************************************************************************)
(* The bounded inference executor of src/src/edgeai/runtime.py in thread   *)
(* mode: callers of submit and submit_async, the bounded queue between     *)
(* them and the worker threads, queue deadlines, cancellation, close().    *)
(*                                                                         *)
(* A step is a critical section of one of the code's locks.  The queue's   *)
(* condition lock, the lock of a task and the counter lock are each held   *)
(* for one section, so they need no variable; _state_lock is held across   *)
(* sections of the other locks and is the variable stateLock.              *)
(***************************************************************************)
EXTENDS Naturals, Sequences, FiniteSets, SequencesExt

CONSTANTS
    Task,       \* one _InferenceTask per call of submit or submit_async
    Async,      \* those made by submit_async: they can be cancelled
    Timed,      \* those with a deadline_s
    Worker,     \* the worker threads
    Capacity,   \* BoundedInferenceQueue.capacity
    Policy,     \* its OverflowPolicy
    LoopCloses, \* may a caller's event loop be closed while its task runs?
    None,       \* Python's None
    Free,       \* _state_lock is not held
    Closer      \* the thread that calls close()

ASSUME TaskAssumption ==
    Async \subseteq Task /\ Timed \subseteq Task /\ IsFiniteSet(Task)
ASSUME WorkerAssumption == IsFiniteSet(Worker)
ASSUME CapacityAssumption == Capacity \in Nat \ {0}
ASSUME PolicyAssumption == Policy \in {"reject", "drop_newest", "drop_oldest"}
ASSUME LoopAssumption == LoopCloses \in BOOLEAN
ASSUME NameAssumption ==
    /\ None \notin Task \cup Worker
    /\ None \notin {"expired", "dropped", "closed", "cancelled", "full", "ok", "failed"}
    /\ Free \notin Task \cup {Closer}
    /\ Closer \notin Task

VARIABLES
    up,         \* _started: the worker threads exist
    closed,     \* _closed
    stateLock,  \* the holder of _state_lock
    queue,      \* BoundedInferenceQueue._q
    due,        \* the tasks whose deadline has passed
    pc,         \* where each caller is
    reply,      \* what each call returned or raised
    outcome,    \* a task's result or error; None until done is set
    started,    \* the tasks whose started flag is set
    loopClosed, \* the tasks whose notify callback now raises
    evicted,    \* the local `evicted` of the caller that holds _state_lock
    drained,    \* the local `queued` of close(), still to be completed
    closer,     \* where close() is
    wpc,        \* where each worker is
    item,       \* the task a worker popped
    stale,      \* the expired tasks it popped on the way
    stats       \* the counters of the queue and of the executor

callers == <<pc, reply, due, loopClosed>>
tasks   == <<outcome, started>>
workers == <<wpc, item, stale>>
closing == <<closer, drained>>
vars == <<up, closed, stateLock, queue, due, pc, reply, outcome, started,
          loopClosed, evicted, drained, closer, wpc, item, stale, stats>>

Counters == {"accepted", "dropped", "expired", "completed", "failed"}
Unserved == {"expired", "dropped", "closed", "cancelled"}
Outcomes == Unserved \cup {"ok", "failed"}

Count(c, n) == stats' = [stats EXCEPT ![c] = @ + n]

(***************************************************************************)
(* _InferenceTask: each method is one section of the task's lock.          *)
(***************************************************************************)
Done(t) == outcome[t] # None

\* Mutant of Complete: the last caller wins.
Complete_Always(t, o) == outcome' = [outcome EXCEPT ![t] = o]

\* complete: only the first caller sets the outcome.
Complete(t, o) ==
    outcome' = IF Done(t) THEN outcome ELSE [outcome EXCEPT ![t] = o]

\* The test of expire_if_not_started and cancel_if_not_started.
Idle(t) == ~Done(t) /\ t \notin started

(***************************************************************************)
(* start(): the first caller creates the worker threads, each of which     *)
(* goes to pop_with_expired.  ensure_ready() in thread mode is start() too. *)
(***************************************************************************)
StartWorkers ==
    /\ stateLock = Free
    /\ up' = TRUE
    /\ wpc' = IF up THEN wpc ELSE [w \in Worker |-> "pop"]

EnsureReady ==
    /\ ~closed /\ ~up
    /\ StartWorkers
    /\ UNCHANGED <<callers, tasks, closed, stateLock, queue, evicted,
                   closing, item, stale, stats>>

\* submit / submit_async up to the end of start().
Submit(t) ==
    /\ pc[t] = "new"
    /\ stateLock = Free
    /\ IF closed
         THEN /\ pc' = [pc EXCEPT ![t] = "returned"]
              /\ reply' = [reply EXCEPT ![t] = "closed"]
              /\ UNCHANGED <<up, wpc>>
         ELSE /\ pc' = [pc EXCEPT ![t] = "enqueue"]
              /\ StartWorkers
              /\ UNCHANGED reply
    /\ UNCHANGED <<due, loopClosed, tasks, closed, stateLock, queue, evicted,
                   closing, item, stale, stats>>

(***************************************************************************)
(* _enqueue under _state_lock: push_with_evicted decides by the policy.    *)
(***************************************************************************)
\* Mutant of Full: one item too many.
Full_OffByOne == Len(queue) > Capacity

Full == Len(queue) >= Capacity

Refuse(t, why) ==
    /\ pc' = [pc EXCEPT ![t] = "returned"]
    /\ reply' = [reply EXCEPT ![t] = why]
    /\ UNCHANGED <<stateLock, queue, evicted>>

EnqueueClosed(t) ==
    /\ closed
    /\ Refuse(t, "closed")
    /\ UNCHANGED stats

EnqueueRejected(t) ==
    /\ ~closed /\ Full /\ Policy # "drop_oldest"
    /\ Refuse(t, "full")
    /\ IF Policy = "drop_newest" THEN Count("dropped", 1) ELSE UNCHANGED stats

EnqueueAccepted(t) ==
    /\ ~closed /\ ~Full
    /\ queue' = Append(queue, t)
    /\ pc' = [pc EXCEPT ![t] = "waiting"]
    /\ Count("accepted", 1)
    /\ UNCHANGED <<stateLock, evicted, reply>>

\* Mutant of EnqueueEvicting: the evicted task is never completed.
EnqueueEvicting_Forget(t) ==
    /\ ~closed /\ Full /\ Policy = "drop_oldest"
    /\ queue' = Append(Tail(queue), t)
    /\ pc' = [pc EXCEPT ![t] = "waiting"]
    /\ stats' = [stats EXCEPT !.accepted = @ + 1, !.dropped = @ + 1]
    /\ UNCHANGED <<stateLock, evicted, reply>>

\* The oldest item leaves the queue; it is completed by CompleteEvicted, with
\* _state_lock still held.
EnqueueEvicting(t) ==
    /\ ~closed /\ Full /\ Policy = "drop_oldest"
    /\ queue' = Append(Tail(queue), t)
    /\ evicted' = Head(queue)
    /\ stateLock' = t
    /\ pc' = [pc EXCEPT ![t] = "evicting"]
    /\ stats' = [stats EXCEPT !.accepted = @ + 1, !.dropped = @ + 1]
    /\ UNCHANGED reply

Enqueue(t) ==
    /\ pc[t] = "enqueue"
    /\ stateLock = Free
    /\ \/ EnqueueClosed(t)
       \/ EnqueueRejected(t)
       \/ EnqueueAccepted(t)
       \/ EnqueueEvicting(t)
    /\ UNCHANGED <<due, loopClosed, tasks, up, closed, closing, workers>>

CompleteEvicted(t) ==
    /\ pc[t] = "evicting"
    /\ Complete(evicted, "dropped")
    /\ evicted' = None
    /\ stateLock' = Free
    /\ pc' = [pc EXCEPT ![t] = "waiting"]
    /\ UNCHANGED <<due, reply, loopClosed, started, up, closed, queue,
                   closing, workers, stats>>

(***************************************************************************)
(* The wait of submit and submit_async.                                    *)
(***************************************************************************)
\* Time passes: the deadline computed by push_with_evicted is reached.
DeadlinePasses(t) ==
    /\ t \in Timed \ due
    /\ pc[t] \in {"evicting", "waiting"}
    /\ due' = due \cup {t}
    /\ UNCHANGED <<pc, reply, loopClosed, tasks, up, closed, stateLock, queue,
                   evicted, closing, workers, stats>>

\* The wait times out: expire_if_not_started, then expire_payload (Withdraw);
\* or, if the worker met the deadline, the second, unbounded wait.
TimeOut(t) ==
    /\ pc[t] = "waiting" /\ t \in due
    /\ IF Idle(t)
         THEN /\ outcome' = [outcome EXCEPT ![t] = "expired"]
              /\ pc' = [pc EXCEPT ![t] = "withdraw"]
         ELSE /\ pc' = [pc EXCEPT ![t] = "awaiting"]
              /\ UNCHANGED outcome
    /\ UNCHANGED <<due, reply, loopClosed, started, up, closed, stateLock,
                   queue, evicted, closing, workers, stats>>

\* Mutant of Withdraw: counted even if a worker already popped it.
Withdraw_Recount(t) ==
    /\ pc[t] = "withdraw"
    /\ queue' = RemoveFirst(queue, t)
    /\ Count("expired", 1)
    /\ pc' = [pc EXCEPT ![t] = "returned"]
    /\ reply' = [reply EXCEPT ![t] = outcome[t]]
    /\ UNCHANGED <<due, loopClosed, tasks, up, closed, stateLock, evicted,
                   closing, workers>>

\* expire_payload removes and counts the task only if it is still queued.
Withdraw(t) ==
    /\ pc[t] = "withdraw"
    /\ queue' = RemoveFirst(queue, t)
    /\ Count("expired", IF Contains(queue, t) THEN 1 ELSE 0)
    /\ pc' = [pc EXCEPT ![t] = "returned"]
    /\ reply' = [reply EXCEPT ![t] = outcome[t]]
    /\ UNCHANGED <<due, loopClosed, tasks, up, closed, stateLock, evicted,
                   closing, workers>>

Return(t) ==
    /\ pc[t] \in {"waiting", "awaiting"}
    /\ Done(t)
    /\ pc' = [pc EXCEPT ![t] = "returned"]
    /\ reply' = [reply EXCEPT ![t] = outcome[t]]
    /\ UNCHANGED <<due, loopClosed, tasks, up, closed, stateLock, queue,
                   evicted, closing, workers, stats>>

\* CancelledError at an await of submit_async: cancel_if_not_started, then
\* expire_payload; a task that started is abandoned and runs to its end.
Cancel(t) ==
    /\ t \in Async
    /\ pc[t] \in {"waiting", "awaiting"}
    /\ IF Idle(t)
         THEN /\ outcome' = [outcome EXCEPT ![t] = "cancelled"]
              /\ pc' = [pc EXCEPT ![t] = "withdraw"]
              /\ UNCHANGED reply
         ELSE /\ pc' = [pc EXCEPT ![t] = "returned"]
              /\ reply' = [reply EXCEPT ![t] = "cancelled"]
              /\ UNCHANGED outcome
    /\ UNCHANGED <<due, loopClosed, started, up, closed, stateLock, queue,
                   evicted, closing, workers, stats>>

\* The loop the cancelled call ran in is closed, as asyncio.run does:
\* from then on call_soon_threadsafe raises in the task's notify callback.
CloseLoop(t) ==
    /\ LoopCloses
    /\ pc[t] = "returned" /\ reply[t] = "cancelled"
    /\ t \notin loopClosed
    /\ loopClosed' = loopClosed \cup {t}
    /\ UNCHANGED <<due, pc, reply, tasks, up, closed, stateLock, queue,
                   evicted, closing, workers, stats>>

(***************************************************************************)
(* The worker threads.                                                     *)
(***************************************************************************)
\* The number of queued tasks in front of the first one that is not yet due.
StalePrefix ==
    LET live == {i \in 1..Len(queue) : queue[i] \notin due}
    IN  IF live = {} THEN Len(queue)
        ELSE (CHOOSE i \in live : \A j \in live : i <= j) - 1

\* One pass of the inner loop of pop_with_expired over the queue.
Scan(w) ==
    /\ queue' = SubSeq(queue, StalePrefix + 2, Len(queue))
    /\ stale' = [stale EXCEPT ![w] = @ \o SubSeq(queue, 1, StalePrefix)]
    /\ Count("expired", StalePrefix)

Pop(w) ==
    /\ wpc[w] = "pop"
    /\ StalePrefix < Len(queue)
    /\ Scan(w)
    /\ item' = [item EXCEPT ![w] = queue[StalePrefix + 1]]
    /\ wpc' = [wpc EXCEPT ![w] = "flush"]
    /\ UNCHANGED <<callers, tasks, up, closed, stateLock, evicted, closing>>

\* Only expired tasks were queued: the worker keeps them and waits on.
PopWait(w) ==
    /\ wpc[w] = "pop"
    /\ queue # <<>> /\ StalePrefix = Len(queue)
    /\ Scan(w)
    /\ UNCHANGED <<callers, tasks, up, closed, stateLock, evicted, closing,
                   item, wpc>>

\* wait_s is over and nothing to run was found.
PopTimeout(w) ==
    /\ wpc[w] = "pop"
    /\ StalePrefix = Len(queue)
    /\ Scan(w)
    /\ wpc' = [wpc EXCEPT ![w] = "flush"]
    /\ UNCHANGED <<callers, tasks, up, closed, stateLock, evicted, closing,
                   item>>

\* Each expired task is completed with DeadlineExceeded.
Flush(w) ==
    /\ wpc[w] = "flush" /\ stale[w] # <<>>
    /\ Complete(Head(stale[w]), "expired")
    /\ stale' = [stale EXCEPT ![w] = Tail(@)]
    /\ UNCHANGED <<callers, started, up, closed, stateLock, queue, evicted,
                   closing, wpc, item, stats>>

\* No item: look at _closed under _state_lock, and exit or poll again.
CheckClosed(w) ==
    /\ wpc[w] = "flush" /\ stale[w] = <<>> /\ item[w] = None
    /\ stateLock = Free
    /\ wpc' = [wpc EXCEPT ![w] = IF closed THEN "exited" ELSE "pop"]
    /\ UNCHANGED <<callers, tasks, up, closed, stateLock, queue, evicted,
                   closing, item, stale, stats>>

\* Mutant of Begin: the task is not looked at again after the pop.
Begin_Blind(w) ==
    /\ wpc[w] = "flush" /\ stale[w] = <<>> /\ item[w] # None
    /\ started' = started \cup {item[w]}
    /\ wpc' = [wpc EXCEPT ![w] = "run"]
    /\ UNCHANGED <<callers, outcome, up, closed, stateLock, queue, evicted,
                   closing, item, stale, stats>>

\* begin(): a task that was completed after it was popped is skipped.
Begin(w) ==
    /\ wpc[w] = "flush" /\ stale[w] = <<>> /\ item[w] # None
    /\ IF Done(item[w])
         THEN /\ wpc' = [wpc EXCEPT ![w] = "pop"]
              /\ item' = [item EXCEPT ![w] = None]
              /\ UNCHANGED started
         ELSE /\ started' = started \cup {item[w]}
              /\ wpc' = [wpc EXCEPT ![w] = "run"]
              /\ UNCHANGED item
    /\ UNCHANGED <<callers, outcome, up, closed, stateLock, queue, evicted,
                   closing, stale, stats>>

\* engine.predict returns (o = "ok") or raises (o = "failed") and the task is
\* completed.  A notify callback that raises is not caught by the loop of
\* _worker: the thread ends before it has counted the request.
Finish(w, o) ==
    /\ wpc[w] = "run"
    /\ Complete(item[w], o)
    /\ wpc' = [wpc EXCEPT ![w] = CASE item[w] \in loopClosed -> "dead"
                                   [] o = "ok" -> "completed"
                                   [] OTHER -> "failed"]
    /\ UNCHANGED <<callers, started, up, closed, stateLock, queue, evicted,
                   closing, item, stale, stats>>

\* The counter is incremented in a section of its own.
CountResult(w) ==
    /\ wpc[w] \in {"completed", "failed"}
    /\ Count(wpc[w], 1)
    /\ item' = [item EXCEPT ![w] = None]
    /\ wpc' = [wpc EXCEPT ![w] = "pop"]
    /\ UNCHANGED <<callers, tasks, up, closed, stateLock, queue, evicted,
                   closing, stale>>

(***************************************************************************)
(* close()                                                                 *)
(***************************************************************************)
Close ==
    /\ closer = "idle"
    /\ stateLock = Free
    /\ closed' = TRUE
    /\ drained' = queue
    /\ queue' = <<>>
    /\ stateLock' = Closer
    /\ closer' = "draining"
    /\ UNCHANGED <<callers, tasks, up, evicted, workers, stats>>

\* Every drained task is completed with ExecutorClosed before the lock is
\* released.
CompleteDrained ==
    /\ closer = "draining" /\ drained # <<>>
    /\ Complete(Head(drained), "closed")
    /\ drained' = Tail(drained)
    /\ UNCHANGED <<callers, started, up, closed, stateLock, queue, evicted,
                   workers, closer, stats>>

\* Mutant of EndDrain: _state_lock is not released.
EndDrain_Held ==
    /\ closer = "draining" /\ drained = <<>>
    /\ closer' = "joining"
    /\ UNCHANGED <<callers, tasks, up, closed, stateLock, queue, evicted,
                   drained, workers, stats>>

EndDrain ==
    /\ closer = "draining" /\ drained = <<>>
    /\ stateLock' = Free
    /\ closer' = "joining"
    /\ UNCHANGED <<callers, tasks, up, closed, queue, evicted, drained,
                   workers, stats>>

Alive(w) == wpc[w] \notin {"unborn", "exited", "dead"}

\* Mutant of Join: True is returned although a thread is alive.
Join_Timeout ==
    /\ closer = "joining"
    /\ closer' = "quiet"
    /\ UNCHANGED <<callers, tasks, up, closed, stateLock, queue, evicted,
                   drained, workers, stats>>

\* close() returns True: no thread is alive.
Join ==
    /\ closer = "joining"
    /\ \A w \in Worker : ~Alive(w)
    /\ closer' = "quiet"
    /\ UNCHANGED <<callers, tasks, up, closed, stateLock, queue, evicted,
                   drained, workers, stats>>

\* close() returns False: the join timed out.
JoinTimeout ==
    /\ closer = "joining"
    /\ \E w \in Worker : Alive(w)
    /\ closer' = "gaveup"
    /\ UNCHANGED <<callers, tasks, up, closed, stateLock, queue, evicted,
                   drained, workers, stats>>

\* close() again: nothing is left to drain, the threads are joined once more.
CloseAgain ==
    /\ closer = "gaveup"
    /\ stateLock = Free
    /\ closer' = "joining"
    /\ UNCHANGED <<callers, tasks, up, closed, stateLock, queue, evicted,
                   drained, workers, stats>>

-----------------------------------------------------------------------------
Init ==
    /\ up = FALSE
    /\ closed = FALSE
    /\ stateLock = Free
    /\ queue = <<>>
    /\ due = {}
    /\ pc = [t \in Task |-> "new"]
    /\ reply = [t \in Task |-> None]
    /\ outcome = [t \in Task |-> None]
    /\ started = {}
    /\ loopClosed = {}
    /\ evicted = None
    /\ drained = <<>>
    /\ closer = "idle"
    /\ wpc = [w \in Worker |-> "unborn"]
    /\ item = [w \in Worker |-> None]
    /\ stale = [w \in Worker |-> <<>>]
    /\ stats = [c \in Counters |-> 0]

CallerStep(t) ==
    \/ Enqueue(t) \/ CompleteEvicted(t) \/ TimeOut(t)
    \/ Withdraw(t) \/ Return(t)

WorkerStep(w) ==
    \/ Pop(w) \/ PopWait(w) \/ PopTimeout(w) \/ Flush(w) \/ CheckClosed(w)
    \/ Begin(w) \/ (\E o \in {"ok", "failed"} : Finish(w, o)) \/ CountResult(w)

CloserStep == CompleteDrained \/ EndDrain

Next ==
    \/ \E t \in Task : Submit(t) \/ CallerStep(t) \/ DeadlinePasses(t)
                       \/ Cancel(t) \/ CloseLoop(t)
    \/ \E w \in Worker : WorkerStep(w)
    \/ EnsureReady \/ Close \/ CloserStep \/ Join \/ JoinTimeout \/ CloseAgain

Spec == Init /\ [][Next]_vars

(***************************************************************************)
(* Properties                                                              *)
(***************************************************************************)
\* The variables have the types of the attributes they stand for, and the
\* queue never holds more than capacity items (push_with_evicted).
TypeOK ==
    /\ up \in BOOLEAN /\ closed \in BOOLEAN
    /\ stateLock \in Task \cup {Free, Closer}
    /\ queue \in Seq(Task) /\ Len(queue) <= Capacity
    /\ drained \in Seq(Task)
    /\ due \subseteq Timed /\ started \subseteq Task /\ loopClosed \subseteq Async
    /\ pc \in [Task -> {"new", "enqueue", "evicting", "waiting", "awaiting",
                        "withdraw", "returned"}]
    /\ reply \in [Task -> Outcomes \cup {"full", None}]
    /\ outcome \in [Task -> Outcomes \cup {None}]
    /\ evicted \in Task \cup {None}
    /\ closer \in {"idle", "draining", "joining", "quiet", "gaveup"}
    /\ wpc \in [Worker -> {"unborn", "pop", "flush", "run", "completed",
                           "failed", "exited", "dead"}]
    /\ item \in [Worker -> Task \cup {None}]
    /\ stale \in [Worker -> Seq(Task)]
    /\ stats \in [Counters -> Nat]

\* A request whose caller was told that it was refused, dropped, expired or
\* closed, or that was cancelled while it waited, is never handed to
\* engine.predict: not by a worker that had already popped it, nor by one
\* that finds it in the queue later.
RefusedNeverRun ==
    \A t \in Task :
        /\ outcome[t] \in Unserved => t \notin started
        /\ reply[t] \in {"full", "closed", "dropped", "expired"} => t \notin started

\* A task is completed once: whichever of the worker, the evicting caller,
\* close(), the timer and the cancellation comes first decides, and a task
\* that has started is only completed by the worker that runs it.
CompletedOnce ==
    [][\A t \in Task :
          outcome'[t] # outcome[t] =>
              /\ outcome[t] = None
              /\ t \in started => \E w \in Worker : wpc[w] = "run" /\ item[w] = t]_vars

\* The tasks a live thread still has in hand.
InHand ==
    LET live == {w \in Worker : Alive(w)}
    IN  {item[w] : w \in live} \cup (UNION {Range(stale[w]) : w \in live})
          \cup Range(drained) \cup {evicted}

\* A request whose caller is waiting without an outcome is in the queue or in
\* the hands of a thread that will complete it: evicting, draining, popping
\* an expired task and exiting lose nobody.
NoRequestLost ==
    \A t \in Task :
        /\ pc[t] \in {"evicting", "waiting", "awaiting"} /\ ~Done(t)
        => t \in Range(queue) \cup InHand

\* The counters reported by stats() count no request twice, whichever thread
\* removes it from the queue: a request is queued, in a worker's hands, or in
\* at most one of the counters.
CountedOnce ==
    stats["dropped"] + stats["expired"] + stats["completed"] + stats["failed"]
      + Len(queue) + Cardinality({w \in Worker : item[w] # None})
    <= Cardinality({t \in Task : pc[t] \notin {"new", "enqueue"}})

\* Once close() returned True nothing is left behind: the queue is empty, no
\* prediction runs, and every accepted request has its outcome.
CloseIsFinal ==
    closer = "quiet" =>
        /\ queue = <<>>
        /\ \A w \in Worker : wpc[w] # "run"
        /\ \A t \in Task : pc[t] \in {"evicting", "waiting", "awaiting"} => Done(t)

\* "Ensure executor workers are available" (ensure_ready): while the executor
\* is started and not closed, ensure_ready returns normally, so every worker
\* thread must be alive.
WorkersAvailable == up /\ ~closed => \A w \in Worker : Alive(w)

\* After close() every worker thread ends, so close() without a timeout returns.
WorkersStop == closed ~> \A w \in Worker : ~Alive(w)
=============================================================================
