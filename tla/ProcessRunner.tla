--------------------------- MODULE ProcessRunner ---------------------------
(***************************************************************************)
(* Process mode of the executor, src/src/edgeai/runtime.py: one            *)
(* _ProcessInferenceRunner, the backend children it spawns one after the   *)
(* other, and the threads that use it.  The worker thread executes         *)
(* requests; the readiness probe (ensure_ready) repairs and preloads;      *)
(* close() terminates.  The runner's lock guards its fields, not the use   *)
(* of the socket, so the threads meet on it.                               *)
(*                                                                         *)
(* A frame is sent and received by loops of send() and recv_into().  It    *)
(* travels here in two pieces, so that frames of two senders can mix and   *)
(* two readers can share one.  Contents are abstracted to the generation   *)
(* they belong to and to whether they are those that were encoded; metrics *)
(* counters are left out.                                                  *)
(***************************************************************************)
EXTENDS Naturals, Sequences

CONSTANTS
    Thread,        \* which of "worker", "monitor", "closer" take part
    Faults,        \* which of "crash", "timeout", "reject", "spawn" may happen
    RestartLimit,  \* process_restart_limit, shared by the executor
    MaxSlides,     \* bound: restarts that may leave the rolling window
    MaxRequest,    \* bound on request ids
    MaxGeneration  \* bound on deployment generations

ASSUME ThreadAssumption ==
    "worker" \in Thread /\ Thread \subseteq {"worker", "monitor", "closer"}
ASSUME FaultAssumption == Faults \subseteq {"crash", "timeout", "reject", "spawn"}
ASSUME BoundAssumption ==
    /\ RestartLimit \in Nat /\ MaxSlides \in Nat
    /\ MaxRequest \in Nat /\ MaxGeneration \in Nat \ {0}

\* Children are numbered in the order they are spawned.
Child == 1..(1 + RestartLimit + MaxSlides)

\* No process, no channel, no generation (generations start at 1).
Nil == 0

Frame == [op    : {"none", "ready", "startup_error", "load", "loaded",
                   "load_error", "predict", "result", "error", "close"},
          id    : 0..MaxRequest,
          gen   : 0..MaxGeneration,
          whole : BOOLEAN]  \* the contents are those that were encoded

Msg(op, id, g) == [op |-> op, id |-> id, gen |-> g, whole |-> TRUE]
NoFrame == Msg("none", 0, Nil)

\* The length prefix with the header, and the rest; or, of a frame without a
\* payload, the prefix and the header.
Piece == [frame : Frame, part : {"head", "body"}]
HeadOf(f) == [frame |-> f, part |-> "head"]
BodyOf(f) == [frame |-> f, part |-> "body"]

\* Frame f with other bytes in its payload.
Spoilt(f) == [op |-> f.op, id |-> f.id, gen |-> f.gen, whole |-> FALSE]

\* The bytes after the head of f were others.  They may pass for its payload,
\* where it has one; for a header they do not pass.
Mixed(f) ==
    IF f.op \in {"load", "predict", "result"} THEN {NoFrame, Spoilt(f)} ELSE {NoFrame}

\* What is decoded if piece p follows the head of f.
Received(f, p) == IF p = BodyOf(f) THEN {f} ELSE Mixed(f)

VARIABLES
    active,   \* the deployment generation a snapshot would return
    closed,   \* the executor's _closed
    cur,      \* _process and _channel, always set together
    gen,      \* _generation
    rid,      \* _request_id
    spawned,  \* children spawned so far, the failed attempts included
    window,   \* restarts inside the rolling window of the budget
    pc,       \* where each thread is
    phase,    \* which exchange it is in: "hello", "load", "predict" or "close"
    want,     \* prepared.generation
    ch,       \* the channel a sending or receiving thread captured
    frame,    \* the frame it received last, or its head
    victim,   \* the child abort() detached
    outcome,  \* how its last call ended
    cpc,      \* where each child is
    model,    \* the load frame whose artifact the child has loaded
    job,      \* the frame it receives or works on
    toChild, toParent, \* the two directions of each socket pair
    shut      \* the channels the parent has closed

runner == <<cur, gen>>
budget == <<spawned, window>>
locals == <<phase, want, ch, frame, victim, outcome>>
backend == <<cpc, model, job, toChild, toParent>>
vars == <<active, closed, runner, rid, budget, pc, locals, backend, shut>>

Alive(i) == i # Nil /\ cpc[i] \notin {"unborn", "dead"}

Goto(t, l) == pc' = [pc EXCEPT ![t] = l]

\* The call of thread t ends.
End(t, o) ==
    /\ Goto(t, "idle")
    /\ outcome' = [outcome EXCEPT ![t] = o]

\* Process i ends: what it had read and loaded is gone, and so is what it had
\* not read.  What it wrote can still be read until the channel is closed.
Die(i) ==
    /\ cpc' = [cpc EXCEPT ![i] = "dead"]
    /\ model' = [model EXCEPT ![i] = NoFrame]
    /\ job' = [job EXCEPT ![i] = NoFrame]
    /\ toChild' = [toChild EXCEPT ![i] = <<>>]

\* The parent's end of channel i is closed.
Shut(i) ==
    /\ shut' = shut \cup {i}
    /\ toParent' = [toParent EXCEPT ![i] = <<>>]

-----------------------------------------------------------------------------
\* A release is deployed or rolled back elsewhere.
Deploy ==
    /\ active < MaxGeneration
    /\ active' = active + 1
    /\ UNCHANGED <<closed, runner, rid, budget, pc, locals, backend, shut>>

\* _process_predict: the worker has begun a task before close() and takes a
\* snapshot of the active generation.
BeginRequest ==
    /\ pc["worker"] = "idle"
    /\ ~closed /\ rid < MaxRequest
    /\ Goto("worker", "start")
    /\ want' = [want EXCEPT !["worker"] = active]
    /\ frame' = [frame EXCEPT !["worker"] = NoFrame]
    /\ outcome' = [outcome EXCEPT !["worker"] = "none"]
    /\ UNCHANGED <<active, closed, runner, rid, budget, phase, ch, victim,
                   backend, shut>>

\* ensure_ready: not closed, so start the runner, then load the snapshot.
Probe ==
    /\ "monitor" \in Thread
    /\ pc["monitor"] = "idle"
    /\ ~closed
    /\ Goto("monitor", "start")
    /\ want' = [want EXCEPT !["monitor"] = Nil]
    /\ frame' = [frame EXCEPT !["monitor"] = NoFrame]
    /\ UNCHANGED <<active, closed, runner, rid, budget, phase, ch, victim,
                   outcome, backend, shut>>

(***************************************************************************)
(* start()                                                                 *)
(***************************************************************************)
\* start() returned.  The probe takes its snapshot and calls load(), which
\* begins with start() again.
Started(t) ==
    IF want[t] = Nil
      THEN Goto(t, "start") /\ want' = [want EXCEPT ![t] = active]
      ELSE Goto(t, "load") /\ UNCHANGED want

\* First section of the lock: keep a live child, or forget the dead one,
\* whose channel is closed.
Start(t) ==
    /\ pc[t] = "start"
    /\ IF Alive(cur)
         THEN Started(t) /\ UNCHANGED <<runner, toParent, shut>>
         ELSE /\ cur' = Nil /\ gen' = Nil
              /\ IF cur = Nil THEN UNCHANGED <<toParent, shut>> ELSE Shut(cur)
              /\ Goto(t, "respawn")
              /\ UNCHANGED want
    /\ UNCHANGED <<active, closed, rid, budget, phase, ch, frame, victim,
                   outcome, cpc, model, job, toChild>>

\* Mutant of BudgetExhausted: one restart too many.
BudgetExhausted_OffByOne == window > RestartLimit

\* _RollingRestartBudget.reserve refuses.
BudgetExhausted == window >= RestartLimit

\* Second section: another caller may have repaired the worker; otherwise a
\* restart is reserved in the budget and a child is spawned.  If the process
\* cannot be started the reservation is spent all the same.
Respawn(t) ==
    /\ pc[t] = "respawn"
    /\ \/ /\ Alive(cur)
          /\ Started(t)
          /\ UNCHANGED <<runner, budget, phase, outcome, cpc>>
       \/ /\ ~Alive(cur) /\ BudgetExhausted
          /\ End(t, "failed")
          /\ UNCHANGED <<runner, budget, phase, want, cpc>>
       \/ /\ ~Alive(cur) /\ ~BudgetExhausted
          /\ spawned' = spawned + 1
          /\ window' = window + 1
          /\ cpc' = [cpc EXCEPT ![spawned + 1] = "boot"]
          /\ cur' = spawned + 1 /\ gen' = Nil
          /\ phase' = [phase EXCEPT ![t] = "hello"]
          /\ Goto(t, "await")
          /\ UNCHANGED <<want, outcome>>
       \/ /\ "spawn" \in Faults
          /\ ~Alive(cur) /\ ~BudgetExhausted
          /\ spawned' = spawned + 1
          /\ window' = window + 1
          /\ cpc' = [cpc EXCEPT ![spawned + 1] = "dead"]
          /\ End(t, "failed")
          /\ UNCHANGED <<runner, phase, want>>
    /\ UNCHANGED <<active, closed, rid, ch, frame, victim, model, job,
                   toChild, toParent, shut>>

\* A restart becomes older than window_s.
WindowSlides ==
    /\ window > 0
    /\ (spawned - 1) - window < MaxSlides
    /\ window' = window - 1
    /\ UNCHANGED <<active, closed, runner, rid, spawned, pc, locals, backend,
                   shut>>

(***************************************************************************)
(* load() and execute()                                                    *)
(***************************************************************************)
\* load() returned: execute() takes a request id and sends the predict frame;
\* the probe is done.
Loaded(t) ==
    IF t = "worker"
      THEN /\ rid' = rid + 1
           /\ phase' = [phase EXCEPT ![t] = "predict"]
           /\ Goto(t, "send")
           /\ UNCHANGED outcome
      ELSE End(t, "ok") /\ UNCHANGED <<rid, phase>>

\* load() sends the artifact unless the recorded generation is the wanted one.
Load(t) ==
    /\ pc[t] = "load"
    /\ IF gen = want[t]
         THEN Loaded(t)
         ELSE /\ phase' = [phase EXCEPT ![t] = "load"]
              /\ Goto(t, "send")
              /\ UNCHANGED <<rid, outcome>>
    /\ UNCHANGED <<active, closed, runner, budget, want, ch, frame, victim,
                   backend, shut>>

\* The frame the thread has to send.
Outgoing(t) == Msg(phase[t], IF phase[t] = "predict" THEN rid ELSE 0, want[t])

\* _send_frame, and close() of the runner, capture the channel if the child
\* lives; then _socket_send_frame loops over send().
SendHead(t) ==
    /\ pc[t] = "send"
    /\ IF Alive(cur)
         THEN /\ ch' = [ch EXCEPT ![t] = cur]
              /\ toChild' = [toChild EXCEPT ![cur] = Append(@, HeadOf(Outgoing(t)))]
              /\ Goto(t, "rest")
         ELSE Goto(t, "abort") /\ UNCHANGED <<ch, toChild>>
    /\ UNCHANGED <<active, closed, runner, rid, budget, phase, want, frame, victim,
                   outcome, cpc, model, job, toParent, shut>>

SendRest(t) ==
    /\ pc[t] = "rest"
    /\ IF Alive(ch[t]) /\ ch[t] \notin shut
         THEN /\ toChild' = [toChild EXCEPT ![ch[t]] = Append(@, BodyOf(Outgoing(t)))]
              /\ Goto(t, IF phase[t] = "close" THEN "abort" ELSE "await")
         ELSE Goto(t, "abort") /\ UNCHANGED toChild
    /\ UNCHANGED <<active, closed, runner, rid, budget, locals, cpc, model, job,
                   toParent, shut>>

\* The child does not drain the socket before the deadline.
SendTimeout(t) ==
    /\ pc[t] = "rest" /\ "timeout" \in Faults
    /\ Goto(t, "abort")
    /\ UNCHANGED <<active, closed, runner, rid, budget, locals, backend, shut>>

\* _receive_frame captures the channel, then blocks on it.
Await(t) ==
    /\ pc[t] = "await"
    /\ IF cur = Nil
         THEN End(t, "failed") /\ UNCHANGED ch
         ELSE /\ ch' = [ch EXCEPT ![t] = cur]
              /\ Goto(t, "read")
              /\ UNCHANGED outcome
    /\ UNCHANGED <<active, closed, runner, rid, budget, phase, want, frame,
                   victim, backend, shut>>

\* Can the thread take the next piece off its channel?
Readable(t) == toParent[ch[t]] # <<>>

\* _socket_recv_frame reads the prefix.  If the head was taken by another
\* thread, the bytes found are no prefix: their length is out of bounds, or
\* is believed and as many bytes are consumed.
ReadHead(t) ==
    /\ pc[t] = "read" /\ Readable(t)
    /\ LET p == Head(toParent[ch[t]])
       IN  /\ frame' = [frame EXCEPT ![t] = IF p.part = "head" THEN p.frame ELSE NoFrame]
           /\ \/ Goto(t, "body")
              \/ p.part = "body" /\ Goto(t, "abort")
    /\ toParent' = [toParent EXCEPT ![ch[t]] = Tail(@)]
    /\ UNCHANGED <<active, closed, runner, rid, budget, phase, want, ch, victim,
                   outcome, cpc, model, job, toChild, shut>>

\* It reads as many bytes as the prefix says, whoever they were meant for.
ReadBody(t) ==
    /\ pc[t] = "body" /\ Readable(t)
    /\ \E f \in Received(frame[t], Head(toParent[ch[t]])) :
          frame' = [frame EXCEPT ![t] = f]
    /\ toParent' = [toParent EXCEPT ![ch[t]] = Tail(@)]
    /\ Goto(t, "handle")
    /\ UNCHANGED <<active, closed, runner, rid, budget, phase, want, ch, victim,
                   outcome, cpc, model, job, toChild, shut>>

\* EOF or an error: the child is gone or another thread closed the channel.
ReadError(t) ==
    /\ pc[t] \in {"read", "body"}
    /\ ~Alive(ch[t]) \/ ch[t] \in shut
    /\ Goto(t, "abort")
    /\ UNCHANGED <<active, closed, runner, rid, budget, locals, backend, shut>>

\* Mutant of ReadTimeout: the child and the channel are kept.
ReadTimeout_KeepChild(t) ==
    /\ pc[t] \in {"read", "body"} /\ "timeout" \in Faults
    /\ End(t, "failed")
    /\ UNCHANGED <<active, closed, runner, rid, budget, phase, want, ch, frame,
                   victim, backend, shut>>

\* Mutant of ReadTimeout: no deadline, only a dead child is noticed.
ReadTimeout_Never(t) ==
    /\ pc[t] \in {"read", "body"} /\ ~Alive(ch[t])
    /\ Goto(t, "abort")
    /\ UNCHANGED <<active, closed, runner, rid, budget, locals, backend, shut>>

\* The control or execution deadline passes.
ReadTimeout(t) ==
    /\ pc[t] \in {"read", "body"} /\ "timeout" \in Faults
    /\ Goto(t, "abort")
    /\ UNCHANGED <<active, closed, runner, rid, budget, locals, backend, shut>>

HandleHello(t) ==
    /\ phase[t] = "hello"
    /\ IF frame[t].op = "ready" THEN Started(t)
       ELSE Goto(t, "abort") /\ UNCHANGED want
    /\ UNCHANGED <<runner, rid, phase, outcome>>

\* `loaded` of the wanted generation is recorded, without the lock.
HandleLoad(t) ==
    /\ phase[t] = "load"
    /\ \/ /\ frame[t] = Msg("loaded", 0, want[t])
          /\ gen' = want[t]
          /\ Loaded(t)
       \/ /\ frame[t] = Msg("load_error", 0, want[t])
          /\ End(t, "failed")
          /\ UNCHANGED <<gen, rid, phase>>
       \/ /\ frame[t] \notin {Msg(op, 0, want[t]) : op \in {"loaded", "load_error"}}
          /\ Goto(t, "abort")
          /\ UNCHANGED <<gen, rid, phase, outcome>>
    /\ UNCHANGED <<cur, want>>

ResponseMatches(f, id) == f.op \in {"result", "error"} /\ f.id = id

HandlePredict(t) ==
    /\ phase[t] = "predict"
    /\ IF ResponseMatches(frame[t], rid)
         THEN End(t, IF frame[t].op = "result" THEN "ok" ELSE "failed")
         ELSE Goto(t, "abort") /\ UNCHANGED outcome
    /\ UNCHANGED <<runner, rid, phase, want>>

Handle(t) ==
    /\ pc[t] = "handle"
    /\ HandleHello(t) \/ HandleLoad(t) \/ HandlePredict(t)
    /\ UNCHANGED <<active, closed, budget, ch, frame, victim, backend, shut>>

(***************************************************************************)
(* abort(): detach under the lock, then close the channel and kill.        *)
(***************************************************************************)
Detach(t) ==
    /\ pc[t] = "abort"
    /\ victim' = [victim EXCEPT ![t] = cur]
    /\ cur' = Nil /\ gen' = Nil
    /\ Goto(t, "kill")
    /\ UNCHANGED <<active, closed, rid, budget, phase, want, ch, frame, outcome,
                   backend, shut>>

\* abort() returns: to close(), or to the caller of the call that failed.
Aborted(t) ==
    IF t = "closer" THEN Goto(t, "join") /\ UNCHANGED outcome ELSE End(t, "failed")

\* Mutant of Kill: the channel is closed and the child is left to notice.
Kill_CloseOnly(t) ==
    /\ pc[t] = "kill"
    /\ IF victim[t] = Nil THEN UNCHANGED <<toParent, shut>> ELSE Shut(victim[t])
    /\ victim' = [victim EXCEPT ![t] = Nil]
    /\ Aborted(t)
    /\ UNCHANGED <<active, closed, runner, rid, budget, phase, want, ch, frame,
                   cpc, model, job, toChild>>

Kill(t) ==
    /\ pc[t] = "kill"
    /\ IF victim[t] = Nil THEN UNCHANGED <<backend, shut>>
       ELSE Shut(victim[t]) /\ Die(victim[t])
    /\ victim' = [victim EXCEPT ![t] = Nil]
    /\ Aborted(t)
    /\ UNCHANGED <<active, closed, runner, rid, budget, phase, want, ch, frame>>

(***************************************************************************)
(* close() of the executor: no new task, close() of the runner, join.      *)
(***************************************************************************)
\* Mutant of Close: the children are terminated before admission is closed.
Close_StillOpen ==
    /\ "closer" \in Thread
    /\ pc["closer"] = "idle" /\ ~closed
    /\ phase' = [phase EXCEPT !["closer"] = "close"]
    /\ Goto("closer", "send")
    /\ UNCHANGED <<active, closed, runner, rid, budget, want, ch, frame, victim,
                   outcome, backend, shut>>

\* A live child is told to close; whether or not that succeeds it is aborted.
Close ==
    /\ "closer" \in Thread
    /\ pc["closer"] = "idle" /\ ~closed
    /\ closed' = TRUE
    /\ phase' = [phase EXCEPT !["closer"] = "close"]
    /\ Goto("closer", "send")
    /\ UNCHANGED <<active, runner, rid, budget, want, ch, frame, victim, outcome,
                   backend, shut>>

\* The worker thread has ended: close() returns True.
Join ==
    /\ "closer" \in Thread
    /\ pc["closer"] = "join"
    /\ pc["worker"] = "idle"
    /\ Goto("closer", "done")
    /\ UNCHANGED <<active, closed, runner, rid, budget, locals, backend, shut>>

(***************************************************************************)
(* _isolated_backend_main, the child                                       *)
(***************************************************************************)
\* The child alone writes to its end, so the two pieces of a reply stay
\* together; if it dies between them the reader sees the end of the stream.
Reply(i, f) ==
    toParent' = [toParent EXCEPT ![i] = @ \o <<HeadOf(f), BodyOf(f)>>]

ChildBoot(i) ==
    /\ cpc[i] = "boot"
    /\ \/ /\ cpc' = [cpc EXCEPT ![i] = "loop"]
          /\ Reply(i, Msg("ready", 0, Nil))
          /\ UNCHANGED <<model, job, toChild>>
       \/ /\ "reject" \in Faults
          /\ Reply(i, Msg("startup_error", 0, Nil))
          /\ Die(i)
    /\ UNCHANGED <<active, closed, runner, rid, budget, pc, locals, shut>>

\* The child takes a piece off its socket and goes on at l with frame f.
ChildMove(i, l, f) ==
    /\ toChild' = [toChild EXCEPT ![i] = Tail(@)]
    /\ cpc' = [cpc EXCEPT ![i] = l]
    /\ job' = [job EXCEPT ![i] = f]

\* The prefix of the next frame; the child returns on one out of bounds.
ChildReceive(i) ==
    /\ cpc[i] = "loop" /\ toChild[i] # <<>>
    /\ LET p == Head(toChild[i])
       IN  \/ /\ ChildMove(i, "recv", IF p.part = "head" THEN p.frame ELSE NoFrame)
              /\ UNCHANGED model
           \/ p.part = "body" /\ Die(i)
    /\ UNCHANGED <<active, closed, runner, rid, budget, pc, locals, toParent, shut>>

\* load_artifact: the runtime is replaced, or dropped if it cannot be built.
ChildLoad(i, f) ==
    /\ f.op = "load"
    /\ \/ /\ model' = [model EXCEPT ![i] = f]
          /\ Reply(i, Msg("loaded", 0, f.gen))
       \/ /\ "reject" \in Faults \/ ~f.whole
          /\ model' = [model EXCEPT ![i] = NoFrame]
          /\ Reply(i, Msg("load_error", 0, f.gen))
    /\ ChildMove(i, "loop", NoFrame)

\* Mutant of GenerationServed: the child uses whatever it has loaded.
GenerationServed_Any(i, f) == model[i].gen # Nil

GenerationServed(i, f) == model[i].gen # Nil /\ model[i].gen = f.gen

ChildPredict(i, f) ==
    /\ f.op = "predict"
    /\ IF GenerationServed(i, f)
         THEN ChildMove(i, "run", f) /\ UNCHANGED toParent
         ELSE Reply(i, Msg("error", f.id, Nil)) /\ ChildMove(i, "loop", NoFrame)
    /\ UNCHANGED model

\* It returns on a close frame and on what it cannot decode.
ChildExit(i, f) ==
    /\ f.op \notin {"load", "predict"}
    /\ Die(i)
    /\ UNCHANGED toParent

ChildServe(i) ==
    /\ cpc[i] = "recv" /\ toChild[i] # <<>>
    /\ \E f \in Received(job[i], Head(toChild[i])) :
          ChildLoad(i, f) \/ ChildPredict(i, f) \/ ChildExit(i, f)
    /\ UNCHANGED <<active, closed, runner, rid, budget, pc, locals, shut>>

\* Logits, tagged here with the generation that computed them.
Computed(i) ==
    [op |-> "result", id |-> job[i].id, gen |-> model[i].gen,
     whole |-> job[i].whole /\ model[i].whole]

\* The backend returns logits or raises.
ChildFinish(i) ==
    /\ cpc[i] = "run"
    /\ \/ Reply(i, Computed(i))
       \/ /\ "reject" \in Faults \/ ~Computed(i).whole
          /\ Reply(i, Msg("error", job[i].id, Nil))
    /\ cpc' = [cpc EXCEPT ![i] = "loop"]
    /\ job' = [job EXCEPT ![i] = NoFrame]
    /\ UNCHANGED <<active, closed, runner, rid, budget, pc, locals, model,
                   toChild, shut>>

ChildCrash(i) ==
    /\ "crash" \in Faults
    /\ Alive(i)
    /\ Die(i)
    /\ UNCHANGED <<active, closed, runner, rid, budget, pc, locals, toParent, shut>>

-----------------------------------------------------------------------------
\* The executor's start() has spawned the first child and shaken hands.
Init ==
    /\ active = 1 /\ closed = FALSE
    /\ cur = 1 /\ gen = Nil /\ rid = 0
    /\ spawned = 1 /\ window = 0
    /\ pc = [t \in Thread |-> "idle"]
    /\ phase = [t \in Thread |-> "hello"]
    /\ want = [t \in Thread |-> Nil]
    /\ ch = [t \in Thread |-> Nil]
    /\ frame = [t \in Thread |-> NoFrame]
    /\ victim = [t \in Thread |-> Nil]
    /\ outcome = [t \in Thread |-> "none"]
    /\ cpc = [i \in Child |-> IF i = 1 THEN "loop" ELSE "unborn"]
    /\ model = [i \in Child |-> NoFrame]
    /\ job = [i \in Child |-> NoFrame]
    /\ toChild = [i \in Child |-> <<>>]
    /\ toParent = [i \in Child |-> <<>>]
    /\ shut = {}

ThreadStep(t) ==
    \/ Start(t) \/ Respawn(t) \/ Load(t)
    \/ SendHead(t) \/ SendRest(t) \/ SendTimeout(t)
    \/ Await(t) \/ ReadHead(t) \/ ReadBody(t) \/ ReadError(t) \/ ReadTimeout(t)
    \/ Handle(t) \/ Detach(t) \/ Kill(t)

ChildStep(i) == ChildBoot(i) \/ ChildReceive(i) \/ ChildServe(i) \/ ChildFinish(i)

Next ==
    \/ Deploy \/ BeginRequest \/ Probe \/ Close \/ Join \/ WindowSlides
    \/ \E t \in Thread : ThreadStep(t)
    \/ \E i \in Child : ChildStep(i) \/ ChildCrash(i)

Spec == Init /\ [][Next]_vars

\* The worker thread is scheduled and its deadlines pass.  Nothing is assumed
\* of the other threads or of the children: a backend may hang for ever.
Fairness == WF_vars(ThreadStep("worker"))

FairSpec == Spec /\ Fairness

-----------------------------------------------------------------------------
\* Each variable has the type of the attribute or local it stands for.
TypeOK ==
    /\ active \in 1..MaxGeneration /\ closed \in BOOLEAN
    /\ cur \in Child \cup {Nil} /\ gen \in 0..MaxGeneration
    /\ rid \in 0..MaxRequest
    /\ spawned \in Child /\ window \in 0..RestartLimit
    /\ pc \in [Thread -> {"idle", "start", "respawn", "load", "send", "rest", "await",
                          "read", "body", "handle", "abort", "kill", "join", "done"}]
    /\ phase \in [Thread -> {"hello", "load", "predict", "close"}]
    /\ want \in [Thread -> 0..MaxGeneration]
    /\ ch \in [Thread -> Child \cup {Nil}]
    /\ frame \in [Thread -> Frame]
    /\ victim \in [Thread -> Child \cup {Nil}]
    /\ outcome \in [Thread -> {"none", "ok", "failed"}]
    /\ cpc \in [Child -> {"unborn", "boot", "loop", "recv", "run", "dead"}]
    /\ model \in [Child -> Frame]
    /\ job \in [Child -> Frame]
    /\ toChild \in [Child -> Seq(Piece)] /\ toParent \in [Child -> Seq(Piece)]
    /\ shut \subseteq Child

\* The logits execute() returns are the answer of the generation its snapshot
\* names to this very request: not of an older model, not to a request that
\* timed out before, even while a probe loads another generation.
ResultBound ==
    outcome["worker"] = "ok" =>
        /\ frame["worker"].op = "result"
        /\ frame["worker"].id = rid
        /\ frame["worker"].gen = want["worker"]

\* ensure_ready "does not interrupt a currently running request": the logits
\* were also computed from the inputs and the model that were sent.
ResultFaithful ==
    outcome["worker"] = "ok" =>
        frame["worker"] = Msg("result", rid, want["worker"])

\* Without a probe they are, until close() uses the socket too: whatever timed
\* out, crashed or was refused before left no bytes behind.
ResultIntact == ~closed => ResultFaithful

\* Every living child is the runner's current one or is being killed: no
\* interleaving of respawn and abort leaks a process.
NoOrphan ==
    \A i \in Child :
        Alive(i) => i = cur \/ \E t \in Thread : pc[t] = "kill" /\ victim[t] = i

Quiet == \A t \in Thread : pc[t] = "idle"

\* Between calls a living child is waiting with both directions of the socket
\* empty: whatever timed out or failed took its channel with it, so the next
\* request cannot meet a leftover.
ChannelClean ==
    Quiet /\ Alive(cur) =>
        /\ toChild[cur] = <<>>
        /\ cpc[cur] \notin {"recv", "run"}
        /\ toParent[cur] = <<>>

\* "Ensure the child owns the exact authenticated deployment generation"
\* (load): between calls, a living child whose runner has recorded the active
\* generation has loaded it.
GenerationOwned ==
    Quiet /\ Alive(cur) /\ gen = active => model[cur] = Msg("load", 0, gen)

\* Between its calls a worker that has the runner for itself leaves a backend
\* that the next request can use as it is: nothing on the socket, and the
\* model it is recorded to have.
IdleBackendReady == ChannelClean /\ GenerationOwned

\* ensure_ready "does not interrupt a currently running request": without
\* crashes, timeouts, rejections and close(), no request fails.
ProbeHarmless ==
    Faults = {} /\ ~closed => outcome["worker"] # "failed"

\* REQ-033: a call on the runner ends, whatever the backend does.
BackendContained == pc["worker"] # "idle" ~> pc["worker"] = "idle"
=============================================================================
