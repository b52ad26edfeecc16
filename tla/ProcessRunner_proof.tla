------------------------ MODULE ProcessRunner_proof ------------------------
(***************************************************************************)
(* Proofs about the process runner: for every set of threads and faults,   *)
(* every restart limit and every bound, its variables keep their types, no *)
(* backend process is leaked, and the logits a request returns carry the   *)
(* id of that request and come from its generation, also where frames of   *)
(* two threads mix on the socket.  A worker that does not share the runner *)
(* with the probe finds a clean channel before each request, and until     *)
(* close() its results are computed from the very bytes it sent.           *)
(***************************************************************************)
EXTENDS ProcessRunner, SequenceTheorems, TLAPS

-----------------------------------------------------------------------------
(***************************************************************************)
(* The inductive invariant                                                 *)
(***************************************************************************)
\* reserve() has counted every respawn: what is not in the window any more
\* has slid out of it.  Children that are not spawned have loaded nothing and
\* have empty sockets.
BudgetInv ==
    /\ spawned <= 1 + window + MaxSlides
    /\ \A i \in Child : i > spawned =>
           /\ ~Alive(i) /\ model[i] = NoFrame
           /\ toChild[i] = <<>> /\ toParent[i] = <<>>

\* A thread that exchanges frames with a child.
Talking(t) == pc[t] \in {"send", "rest", "await", "read", "body", "handle"}

\* The worker has a snapshot and has not taken a request id yet.
Fresh ==
    \/ pc["worker"] \in {"start", "respawn", "load"}
    \/ Talking("worker") /\ phase["worker"] # "predict"

\* What the threads know at each point of their calls.
ThreadInv ==
    /\ pc["worker"] # "idle" => want["worker"] # Nil
    /\ outcome["worker"] = "ok" => pc["worker"] = "idle"
    /\ pc["worker"] \notin {"join", "done"}
    /\ Fresh => rid < MaxRequest
    /\ \A t \in Thread : pc[t] \in {"send", "rest"} => phase[t] # "hello"
    /\ \A t \in Thread : pc[t] \in {"rest", "read", "body"} => ch[t] \in Child
    /\ \A t \in Thread : phase[t] = "predict" => t = "worker"
    /\ \A t \in Thread : phase[t] = "close" => t = "closer"

\* The worker has taken the id rid for the request it works on, or has the
\* answer to it.
Asked ==
    \/ outcome["worker"] = "ok"
    \/ Talking("worker") /\ phase["worker"] = "predict"

\* A frame about a request is about one that was made, and one about the
\* current request is about the generation of its snapshot.
Good(f) ==
    f.op \in {"predict", "result"} =>
        /\ f.id <= rid
        /\ Asked /\ f.id = rid => f.gen = want["worker"]

GoodFrame == {f \in Frame : Good(f)}

\* The pieces of the frames of G.
PieceOf(G) == [frame : G, part : {"head", "body"}]

\* Every frame is good wherever it is, also with the bytes of another one in
\* its payload, and a running child computes with the generation its predict
\* frame names.
FrameInv ==
    /\ frame \in [Thread -> GoodFrame]
    /\ model \in [Child -> GoodFrame] /\ job \in [Child -> GoodFrame]
    /\ toChild \in [Child -> Seq(PieceOf(GoodFrame))]
    /\ toParent \in [Child -> Seq(PieceOf(GoodFrame))]

RunInv ==
    \A i \in Child : cpc[i] = "run" => job[i].op = "predict" /\ job[i].gen = model[i].gen

IInv ==
    TypeOK /\ BudgetInv /\ ThreadInv /\ FrameInv /\ RunInv /\ ResultBound /\ NoOrphan

(***************************************************************************)
(* What a worker that has the runner for itself also keeps                 *)
(***************************************************************************)
\* No other thread is in a call.
Alone == \A t \in Thread : t # "worker" => pc[t] = "idle"

\* Both pieces of a frame on a socket.
Pair(f) == <<HeadOf(f), BodyOf(f)>>

\* Nothing is under way at the current child.
Resting ==
    cpc[cur] = "loop" /\ toChild[cur] = <<>> /\ toParent[cur] = <<>>

\* The worker has sent the head of its frame; the child has it or not.
Sending ==
    /\ toParent[cur] = <<>>
    /\ \/ cpc[cur] = "loop" /\ toChild[cur] = <<HeadOf(Outgoing("worker"))>>
       \/ /\ cpc[cur] = "recv" /\ job[cur] = Outgoing("worker")
          /\ toChild[cur] = <<>>

\* The worker has sent its frame; the child has not got all of it.
Sent ==
    /\ toParent[cur] = <<>>
    /\ \/ cpc[cur] = "loop" /\ toChild[cur] = Pair(Outgoing("worker"))
       \/ /\ cpc[cur] = "recv" /\ job[cur] = Outgoing("worker")
          /\ toChild[cur] = <<BodyOf(Outgoing("worker"))>>

\* An answer to the worker: whole, and true if it says a model is loaded.
Answer(f) ==
    /\ f.whole
    /\ phase["worker"] = "load" /\ f.op = "loaded" =>
           model[cur] = Msg("load", 0, f.gen)

\* The worker's one frame is on its way, being served, or answered.
Exchange ==
    \/ /\ phase["worker"] = "hello"
       /\ cpc[cur] = "boot" /\ toChild[cur] = <<>> /\ toParent[cur] = <<>>
    \/ phase["worker"] # "hello" /\ Sent
    \/ /\ phase["worker"] = "predict"
       /\ cpc[cur] = "run" /\ job[cur].whole
       /\ toChild[cur] = <<>> /\ toParent[cur] = <<>>
    \/ /\ cpc[cur] = "loop" /\ toChild[cur] = <<>>
       /\ \E f \in Frame : Answer(f) /\ toParent[cur] = Pair(f)

\* Generations only grow from the recorded one to the snapshot to the active
\* one, strictly while one is loaded.
GrowInv ==
    /\ gen <= want["worker"] /\ want["worker"] <= active
    /\ phase["worker"] = "load" /\ Talking("worker") => gen < want["worker"]

\* close() only says goodbye, aborts and joins.
CloserInv ==
    "closer" \in Thread =>
        /\ pc["closer"] \in {"idle", "send", "rest", "abort", "kill", "join", "done"}
        /\ pc["closer"] \in {"send", "rest"} => phase["closer"] = "close"
        /\ ~closed => pc["closer"] = "idle"

\* The current child is where the worker's program counter says.
Turn ==
    /\ pc["worker"] \in {"respawn", "kill"} => cur = Nil
    /\ Alive(cur) /\ pc["worker"] # "abort" =>
         /\ gen = active => model[cur] = Msg("load", 0, gen)
         /\ model[cur].whole
         /\ pc["worker"] \in {"idle", "start", "load", "send", "handle"} => Resting
         /\ pc["worker"] = "rest" => Sending
         /\ pc["worker"] \in {"await", "read"} => Exchange
         /\ pc["worker"] = "body" => cpc[cur] = "loop" /\ toChild[cur] = <<>>
         /\ pc["worker"] \in {"body", "handle"} => Answer(frame["worker"])

\* What the worker reads is one whole frame, also after the child's death.
Intact ==
    /\ pc["worker"] \in {"rest", "read", "body"} => ch["worker"] = cur
    /\ pc["worker"] \in {"rest", "await", "read"} /\ cur # Nil =>
           \/ toParent[cur] = <<>>
           \/ \E f \in Frame : f.whole /\ toParent[cur] = Pair(f)
    /\ pc["worker"] = "body" => toParent[cur] = <<BodyOf(frame["worker"])>>
    /\ pc["worker"] \in {"body", "handle"} \/ outcome["worker"] = "ok" =>
           frame["worker"].whole

TurnInv == Alone => Turn /\ Intact

AloneInv == GrowInv /\ CloserInv /\ TurnInv

-----------------------------------------------------------------------------
(***************************************************************************)
(* Frames and queues                                                       *)
(***************************************************************************)
\* The fields of a frame that Msg builds.
LEMMA MsgFields ==
  ASSUME NEW op, NEW id, NEW g
  PROVE  /\ Msg(op, id, g).op = op /\ Msg(op, id, g).id = id
         /\ Msg(op, id, g).gen = g /\ Msg(op, id, g).whole = TRUE
BY DEF Msg

\* Msg builds a frame.
LEMMA MsgType ==
  ASSUME NEW op \in {"none", "ready", "startup_error", "load", "loaded",
                     "load_error", "predict", "result", "error", "close"},
         NEW id \in 0..MaxRequest, NEW g \in 0..MaxGeneration
  PROVE  Msg(op, id, g) \in Frame
BY DEF Msg, Frame

\* The answers of the child that are not results.
LEMMA FramesSent ==
  ASSUME NEW op \in {"ready", "startup_error", "loaded", "load_error", "error"},
         NEW id \in 0..MaxRequest, NEW g \in 0..MaxGeneration
  PROVE  Msg(op, id, g) \in Frame /\ Msg(op, id, g).op \notin {"predict", "result"}
BY DEF Msg, Frame

\* The fields of a frame; a whole one is the Msg of them.
LEMMA FrameFields ==
  ASSUME NEW f \in Frame
  PROVE  /\ f.op \in {"none", "ready", "startup_error", "load", "loaded",
                      "load_error", "predict", "result", "error", "close"}
         /\ f.id \in 0..MaxRequest /\ f.gen \in 0..MaxGeneration
         /\ f.whole \in BOOLEAN
         /\ f.whole => f = Msg(f.op, f.id, f.gen)
BY DEF Msg, Frame

\* Other bytes in the payload of a frame change nothing else of it.
LEMMA SpoiltFields ==
  ASSUME NEW f \in Frame
  PROVE  /\ Spoilt(f) \in Frame
         /\ Spoilt(f).op = f.op /\ Spoilt(f).id = f.id /\ Spoilt(f).gen = f.gen
BY DEF Frame, Spoilt

\* NoFrame is a frame that is about no request.
LEMMA NoFrameType == NoFrame \in Frame /\ NoFrame.op = "none" /\ NoFrame.whole
<1>1. 0 \in 0..MaxRequest /\ 0 \in 0..MaxGeneration
  BY BoundAssumption
<1>. QED
  BY <1>1 DEF NoFrame, Msg, Frame, Nil

\* The pieces of a frame.
LEMMA PieceFields ==
  ASSUME NEW f
  PROVE  /\ HeadOf(f).frame = f /\ HeadOf(f).part = "head"
         /\ BodyOf(f).frame = f /\ BodyOf(f).part = "body"
BY DEF HeadOf, BodyOf

\* What is received is the frame whose head was read, that frame with other
\* bytes in it, or nothing that decodes.
LEMMA ReceivedFrame ==
  ASSUME NEW f \in Frame, NEW p, NEW g \in Received(f, p)
  PROVE  g = f \/ g = NoFrame \/ g = Spoilt(f)
BY DEF Received, Mixed

\* Head and tail of one piece.
LEMMA OnePiece ==
  ASSUME NEW S, NEW p \in S
  PROVE  Head(<<p>>) = p /\ Tail(<<p>>) = <<>> /\ <<p>> # <<>>
<1>1. <<p>> \in Seq(S) /\ Len(<<p>>) = 1 /\ <<p>> # <<>>
  OBVIOUS
<1>2. Tail(<<p>>) \in Seq(S) /\ Len(Tail(<<p>>)) = 0
  BY <1>1
<1>3. Tail(<<p>>) = <<>>
  BY <1>2, EmptySeq
<1>. QED
  BY <1>1, <1>3

\* Head and tail of two pieces.
LEMMA TwoPieces ==
  ASSUME NEW S, NEW p \in S, NEW q \in S
  PROVE  Head(<<p, q>>) = p /\ Tail(<<p, q>>) = <<q>> /\ <<p, q>> # <<>>
OBVIOUS

\* A piece put on an empty socket.
LEMMA FirstPiece ==
  ASSUME NEW S, NEW p \in S
  PROVE  Append(<<>>, p) = <<p>>
<1>1. /\ Append(<<>>, p) \in Seq(S) /\ <<p>> \in Seq(S)
      /\ Len(Append(<<>>, p)) = 1 /\ Len(<<p>>) = 1
  OBVIOUS
<1>2. Append(<<>>, p)[1] = p
  OBVIOUS
<1>. QED
  BY <1>1, <1>2, SeqEqual

\* A piece put behind another one.
LEMMA SecondPiece ==
  ASSUME NEW S, NEW p \in S, NEW q \in S
  PROVE  Append(<<p>>, q) = <<p, q>>
<1>1. <<p>> \in Seq(S) /\ Len(<<p>>) = 1 /\ <<p>>[1] = p
  OBVIOUS
<1>2. /\ Append(<<p>>, q) \in Seq(S) /\ Len(Append(<<p>>, q)) = 2
      /\ Append(<<p>>, q)[1] = p /\ Append(<<p>>, q)[2] = q
  BY <1>1, AppendProperties
<1>3. <<p, q>> \in Seq(S) /\ Len(<<p, q>>) = 2 /\ <<p, q>>[1] = p /\ <<p, q>>[2] = q
  OBVIOUS
<1>4. \A i \in 1..2 : i = 1 \/ i = 2
  OBVIOUS
<1>5. \A i \in 1..Len(Append(<<p>>, q)) : Append(<<p>>, q)[i] = <<p, q>>[i]
  BY <1>2, <1>3, <1>4
<1>6. Len(Append(<<p>>, q)) = Len(<<p, q>>)
  BY <1>2, <1>3
<1>. QED
  BY <1>2, <1>3, <1>5, <1>6, SeqEqual

\* Replacing what is on one of the sockets keeps their type.
LEMMA QueueType ==
  ASSUME NEW P, NEW q \in [Child -> Seq(P)], NEW i \in Child, NEW s \in Seq(P)
  PROVE  [q EXCEPT ![i] = s] \in [Child -> Seq(P)]
OBVIOUS

\* Adding a piece to one of the sockets keeps their type.
LEMMA QueueAppend ==
  ASSUME NEW P, NEW q \in [Child -> Seq(P)], NEW i \in Child, NEW p \in P
  PROVE  [q EXCEPT ![i] = Append(@, p)] \in [Child -> Seq(P)]
OBVIOUS

\* Children are numbered from 1; Nil is none of them.
LEMMA ChildType == Child \subseteq Nat \ {0} /\ 1 \in Child /\ Nil \notin Child
BY BoundAssumption DEF Child, Nil

\* There is a worker thread.
LEMMA WorkerThread == "worker" \in Thread
BY ThreadAssumption

\* The values of the control variables.
PCs == {"idle", "start", "respawn", "load", "send", "rest", "await", "read", "body",
        "handle", "abort", "kill", "join", "done"}
Phases == {"hello", "load", "predict", "close"}
Outcomes == {"none", "ok", "failed"}
CPCs == {"unborn", "boot", "loop", "recv", "run", "dead"}

\* The types of the variables that hold no frames.
ControlOK ==
    /\ active \in 1..MaxGeneration /\ closed \in BOOLEAN
    /\ cur \in Child \cup {Nil} /\ gen \in 0..MaxGeneration
    /\ rid \in 0..MaxRequest
    /\ spawned \in Child /\ window \in 0..RestartLimit
    /\ pc \in [Thread -> PCs] /\ phase \in [Thread -> Phases]
    /\ want \in [Thread -> 0..MaxGeneration]
    /\ ch \in [Thread -> Child \cup {Nil}] /\ victim \in [Thread -> Child \cup {Nil}]
    /\ outcome \in [Thread -> Outcomes]
    /\ cpc \in [Child -> CPCs]
    /\ shut \subseteq Child

\* The two parts of the type invariant.
LEMMA TypeParts ==
  TypeOK <=> /\ ControlOK
             /\ frame \in [Thread -> Frame]
             /\ model \in [Child -> Frame] /\ job \in [Child -> Frame]
             /\ toChild \in [Child -> Seq(PieceOf(Frame))]
             /\ toParent \in [Child -> Seq(PieceOf(Frame))]
BY DEF TypeOK, ControlOK, PCs, Phases, Outcomes, CPCs, Piece, PieceOf

\* The initial state satisfies every part of the invariant.
LEMMA InitIInv == Init => IInv /\ AloneInv
<1>. SUFFICES ASSUME Init PROVE IInv /\ AloneInv
  OBVIOUS
<1>. USE ChildType, WorkerThread, NoFrameType, BoundAssumption
<1>1. ControlOK
  <2>1. 1 \in 1..MaxGeneration /\ 0 \in 0..MaxGeneration /\ 0 \in 0..MaxRequest
         /\ 0 \in 0..RestartLimit
    OBVIOUS
  <2>2. cpc \in [Child -> CPCs]
    BY DEF Init, CPCs
  <2>3. /\ active \in 1..MaxGeneration /\ closed \in BOOLEAN /\ rid \in 0..MaxRequest
        /\ cur \in Child \cup {Nil} /\ gen \in 0..MaxGeneration
        /\ spawned \in Child /\ window \in 0..RestartLimit /\ shut \subseteq Child
    BY <2>1 DEF Init, Nil
  <2>4. /\ want \in [Thread -> 0..MaxGeneration] /\ ch \in [Thread -> Child \cup {Nil}]
        /\ victim \in [Thread -> Child \cup {Nil}]
    BY <2>1 DEF Init, Nil
  <2>5. /\ pc \in [Thread -> PCs] /\ phase \in [Thread -> Phases]
        /\ outcome \in [Thread -> Outcomes]
    BY DEF Init, PCs, Phases, Outcomes
  <2>. QED
    BY <2>2, <2>3, <2>4, <2>5 DEF ControlOK
<1>2. ASSUME NEW G, NoFrame \in G
      PROVE  /\ frame \in [Thread -> G] /\ model \in [Child -> G] /\ job \in [Child -> G]
             /\ toChild \in [Child -> Seq(PieceOf(G))]
             /\ toParent \in [Child -> Seq(PieceOf(G))]
  BY <1>2 DEF Init
<1>3. TypeOK
  BY <1>1, <1>2, TypeParts
<1>4. FrameInv /\ RunInv
  <2>1. NoFrame \in GoodFrame
    BY DEF GoodFrame, Good
  <2>2. FrameInv
    BY <1>2, <2>1 DEF FrameInv
  <2>. QED
    BY <2>2 DEF Init, RunInv
<1>5. BudgetInv /\ ThreadInv
  BY DEF Init, BudgetInv, ThreadInv, Alive, Fresh, Talking, Nil
<1>6. ResultBound /\ NoOrphan
  BY DEF Init, ResultBound, NoOrphan, Alive
<1>7. AloneInv
  BY DEF Init, AloneInv, GrowInv, CloserInv, TurnInv, Turn, Intact, Talking, Resting,
         Alive, Nil
<1>. QED
  BY <1>3, <1>4, <1>5, <1>6, <1>7 DEF IInv

-----------------------------------------------------------------------------
(***************************************************************************)
(* Types                                                                   *)
(***************************************************************************)
\* The steps of the children leave the threads alone.
LEMMA ChildFootprint ==
  ASSUME NEW i \in Child, ChildStep(i) \/ ChildCrash(i)
  PROVE  UNCHANGED <<active, closed, cur, gen, rid, spawned, window, pc, phase, want, ch,
                     frame, victim, outcome, shut>>
BY DEF ChildStep, ChildBoot, ChildReceive, ChildServe, ChildFinish, ChildCrash, runner,
       budget, locals

\* A set of frames is closed under every step if it holds those that are not
\* about a request, those that are sent and computed, and with a frame also
\* the one with other bytes in its payload.
LEMMA FramesNext ==
  ASSUME ControlOK, ThreadInv, [Next]_vars,
         NEW G \in SUBSET Frame,
         \A f \in Frame : f.op \notin {"predict", "result"} => f \in G,
         \A f \in G : Spoilt(f) \in G,
         \A t \in Thread : pc[t] \in {"send", "rest"} => Outgoing(t) \in G,
         \A i \in Child : cpc[i] = "run" => Computed(i) \in G,
         frame \in [Thread -> G], model \in [Child -> G], job \in [Child -> G],
         toChild \in [Child -> Seq(PieceOf(G))], toParent \in [Child -> Seq(PieceOf(G))]
  PROVE  /\ frame' \in [Thread -> G] /\ model' \in [Child -> G] /\ job' \in [Child -> G]
         /\ toChild' \in [Child -> Seq(PieceOf(G))]
         /\ toParent' \in [Child -> Seq(PieceOf(G))]
<1>. DEFINE P == PieceOf(G)
            Goal == /\ frame' \in [Thread -> G]
                    /\ model' \in [Child -> G] /\ job' \in [Child -> G]
                    /\ toChild' \in [Child -> Seq(P)] /\ toParent' \in [Child -> Seq(P)]
<1>. SUFFICES Goal
  OBVIOUS
<1>a. NoFrame \in G
  BY NoFrameType
<1>b. \A f \in G : HeadOf(f) \in P /\ BodyOf(f) \in P
  BY DEF PieceOf, HeadOf, BodyOf
<1>c. \A p \in P : p.frame \in G
  BY DEF PieceOf
<1>d. toChild \in [Child -> Seq(P)] /\ toParent \in [Child -> Seq(P)]
  OBVIOUS
<1>. HIDE DEF P
<1>e. \A f \in G : \A p : \A g \in Received(f, p) : g \in G
  BY <1>a, ReceivedFrame
<1>f. ASSUME NEW i \in Child, NEW f \in G, Reply(i, f)
      PROVE  toParent' \in [Child -> Seq(P)]
  <2>1. <<HeadOf(f), BodyOf(f)>> \in Seq(P)
    BY <1>b
  <2>. QED
    BY <1>d, <1>f, <2>1 DEF Reply
<1>g. ASSUME NEW i \in Child, Die(i)
      PROVE  model' \in [Child -> G] /\ job' \in [Child -> G] /\ toChild' \in [Child -> Seq(P)]
  BY <1>a, <1>d, <1>g DEF Die
<1>h. ASSUME NEW i \in Child, Shut(i) PROVE toParent' \in [Child -> Seq(P)]
  BY <1>d, <1>h DEF Shut
<1>i. ASSUME NEW i \in Child, NEW l, NEW f \in G, toChild[i] # <<>>, ChildMove(i, l, f)
      PROVE  job' \in [Child -> G] /\ toChild' \in [Child -> Seq(P)]
  BY <1>d, <1>i DEF ChildMove
<1>j. ASSUME NEW op \in {"ready", "startup_error", "loaded", "load_error", "error"},
             NEW id \in 0..MaxRequest, NEW g \in 0..MaxGeneration
      PROVE  Msg(op, id, g) \in G
  <2>1. Msg(op, id, g) \in Frame /\ Msg(op, id, g).op \notin {"predict", "result"}
    BY FramesSent
  <2>. QED
    BY <2>1
<1>k. /\ \A f \in G : f.id \in 0..MaxRequest /\ f.gen \in 0..MaxGeneration
      /\ 0 \in 0..MaxRequest /\ Nil \in 0..MaxGeneration
  BY FrameFields, BoundAssumption DEF Nil
<1>1. CASE UNCHANGED <<frame, model, job, toChild, toParent>>
  BY <1>1, <1>d
<1>2. CASE BeginRequest \/ Probe
  BY <1>2, <1>a, <1>d DEF BeginRequest, Probe, backend
<1>3. ASSUME NEW t \in Thread, Start(t) PROVE Goal
  <2>1. UNCHANGED <<frame, model, job, toChild>>
    BY <1>3 DEF Start
  <2>2. cur # Nil => cur \in Child
    BY DEF ControlOK
  <2>3. UNCHANGED toParent \/ (cur # Nil /\ Shut(cur))
    BY <1>3 DEF Start
  <2>. QED
    BY <2>1, <2>2, <2>3, <1>d, <1>h
<1>4. ASSUME NEW t \in Thread, SendHead(t) PROVE Goal
  <2>1. UNCHANGED <<frame, model, job, toParent>>
    BY <1>4 DEF SendHead
  <2>2. HeadOf(Outgoing(t)) \in P
    BY <1>4, <1>b DEF SendHead
  <2>3. CASE Alive(cur)
    <3>1. cur \in Child
      BY <2>3 DEF Alive, ControlOK
    <3>2. toChild' = [toChild EXCEPT ![cur] = Append(@, HeadOf(Outgoing(t)))]
      BY <1>4, <2>3 DEF SendHead
    <3>3. toChild' \in [Child -> Seq(P)]
      BY <2>2, <3>1, <3>2, <1>d, QueueAppend
    <3>. QED
      BY <2>1, <3>3, <1>d
  <2>4. CASE ~Alive(cur)
    BY <2>1, <2>4, <1>4, <1>d DEF SendHead
  <2>. QED
    BY <2>3, <2>4
<1>5. ASSUME NEW t \in Thread, SendRest(t) PROVE Goal
  <2>1. UNCHANGED <<frame, model, job, toParent>>
    BY <1>5 DEF SendRest, locals
  <2>2. BodyOf(Outgoing(t)) \in P /\ ch[t] \in Child
    BY <1>5, <1>b DEF SendRest, ThreadInv
  <2>3. PICK c \in Child : c = ch[t]
    BY <2>2
  <2>4. CASE toChild' = [toChild EXCEPT ![c] = Append(@, BodyOf(Outgoing(t)))]
    <3>1. toChild' \in [Child -> Seq(P)]
      BY <2>2, <2>4, <1>d, QueueAppend
    <3>. QED
      BY <2>1, <3>1, <1>d
  <2>5. CASE UNCHANGED toChild
    BY <2>1, <2>5, <1>d
  <2>. QED
    BY <1>5, <2>3, <2>4, <2>5 DEF SendRest
<1>6. ASSUME NEW t \in Thread, ReadHead(t) \/ ReadBody(t) PROVE Goal
  <2>1. ch[t] \in Child /\ toParent[ch[t]] # <<>> /\ UNCHANGED <<model, job, toChild>>
        /\ toParent' = [toParent EXCEPT ![ch[t]] = Tail(@)]
    BY <1>6 DEF ReadHead, ReadBody, Readable, ThreadInv
  <2>2. toParent' \in [Child -> Seq(P)] /\ Head(toParent[ch[t]]) \in P
    BY <2>1, <1>d
  <2>3. Head(toParent[ch[t]]).frame \in G /\ frame[t] \in G
    BY <2>2, <1>c
  <2>4. \E f \in G : frame' = [frame EXCEPT ![t] = f]
    BY <1>6, <2>3, <1>a, <1>e DEF ReadHead, ReadBody
  <2>5. frame' \in [Thread -> G]
    BY <2>4
  <2>. QED
    BY <2>1, <2>2, <2>5, <1>d
<1>7. ASSUME NEW t \in Thread, Kill(t) PROVE Goal
  <2>1. UNCHANGED frame
    BY <1>7 DEF Kill
  <2>2. \/ UNCHANGED <<model, job, toChild, toParent>>
        \/ victim[t] \in Child /\ Shut(victim[t]) /\ Die(victim[t])
    BY <1>7 DEF Kill, ControlOK, backend
  <2>. QED
    BY <2>1, <2>2, <1>d, <1>g, <1>h
<1>8. ASSUME NEW i \in Child, ChildBoot(i) PROVE Goal
  <2>1. Msg("ready", 0, Nil) \in G /\ Msg("startup_error", 0, Nil) \in G
    BY <1>j, <1>k
  <2>2. UNCHANGED frame /\ toParent' \in [Child -> Seq(P)]
    BY <1>8, <2>1, <1>f DEF ChildBoot, locals
  <2>3. UNCHANGED <<model, job, toChild>> \/ Die(i)
    BY <1>8 DEF ChildBoot
  <2>. QED
    BY <2>2, <2>3, <1>d, <1>g
<1>9. ASSUME NEW i \in Child, ChildReceive(i) PROVE Goal
  <2>1. UNCHANGED <<frame, toParent>> /\ toChild[i] # <<>>
    BY <1>9 DEF ChildReceive, locals
  <2>2. Head(toChild[i]).frame \in G
    BY <2>1, <1>c, <1>d
  <2>3. \/ \E f \in G : ChildMove(i, "recv", f) /\ UNCHANGED model
        \/ Die(i)
    BY <1>9, <2>2, <1>a DEF ChildReceive
  <2>. QED
    BY <2>1, <2>3, <1>d, <1>g, <1>i
<1>10. ASSUME NEW i \in Child, ChildServe(i) PROVE Goal
  <2>1. UNCHANGED frame /\ toChild[i] # <<>>
    BY <1>10 DEF ChildServe, locals
  <2>2. PICK f \in Received(job[i], Head(toChild[i])) :
            ChildLoad(i, f) \/ ChildPredict(i, f) \/ ChildExit(i, f)
    BY <1>10 DEF ChildServe
  <2>3. f \in G
    BY <2>2, <1>e
  <2>4. Msg("loaded", 0, f.gen) \in G /\ Msg("load_error", 0, f.gen) \in G
        /\ Msg("error", f.id, Nil) \in G
    BY <2>3, <1>j, <1>k
  <2>5. CASE ChildLoad(i, f)
    <3>1. toParent' \in [Child -> Seq(P)]
      BY <2>5, <2>4, <1>f DEF ChildLoad
    <3>2. model' \in [Child -> G]
      BY <2>5, <2>3, <1>a DEF ChildLoad
    <3>3. job' \in [Child -> G] /\ toChild' \in [Child -> Seq(P)]
      BY <2>5, <2>1, <1>a, <1>i DEF ChildLoad
    <3>. QED
      BY <2>1, <3>1, <3>2, <3>3
  <2>6. CASE ChildPredict(i, f)
    <3>1. toParent' \in [Child -> Seq(P)]
      BY <2>6, <2>4, <1>d, <1>f DEF ChildPredict
    <3>2. job' \in [Child -> G] /\ toChild' \in [Child -> Seq(P)]
      BY <2>6, <2>1, <2>3, <1>a, <1>i DEF ChildPredict
    <3>. QED
      BY <2>1, <2>6, <3>1, <3>2 DEF ChildPredict
  <2>7. CASE ChildExit(i, f)
    BY <2>1, <2>7, <1>d, <1>g DEF ChildExit
  <2>. QED
    BY <2>2, <2>5, <2>6, <2>7
<1>11. ASSUME NEW i \in Child, ChildFinish(i) PROVE Goal
  <2>1. UNCHANGED <<frame, model, toChild>> /\ job' \in [Child -> G]
    BY <1>11, <1>a DEF ChildFinish, locals
  <2>2. Computed(i) \in G /\ Msg("error", job[i].id, Nil) \in G
    <3>1. job[i] \in G /\ cpc[i] = "run"
      BY <1>11 DEF ChildFinish
    <3>. QED
      BY <3>1, <1>j, <1>k
  <2>3. toParent' \in [Child -> Seq(P)]
    BY <1>11, <2>2, <1>f DEF ChildFinish
  <2>. QED
    BY <2>1, <2>3, <1>d
<1>12. ASSUME NEW i \in Child, ChildCrash(i) PROVE Goal
  BY <1>12, <1>d, <1>g DEF ChildCrash, locals
<1>13. CASE Deploy \/ Close \/ WindowSlides \/ Join \/ UNCHANGED vars
  BY <1>13, <1>1 DEF Deploy, Close, WindowSlides, Join, vars, locals, backend
<1>14. ASSUME NEW t \in Thread,
              \/ Respawn(t) \/ Load(t) \/ SendTimeout(t) \/ Await(t) \/ ReadError(t)
              \/ ReadTimeout(t) \/ Handle(t) \/ Detach(t)
       PROVE  Goal
  <2>1. UNCHANGED <<frame, model, job, toChild, toParent>>
    BY <1>14
    DEF Respawn, Load, SendTimeout, Await, ReadError, ReadTimeout, Handle, Detach, locals,
        backend
  <2>. QED
    BY <2>1, <1>1
<1>. HIDE DEF Goal
<1>. QED
  BY <1>2, <1>3, <1>4, <1>5, <1>6, <1>7, <1>8, <1>9, <1>10, <1>11, <1>12, <1>13, <1>14
  DEF Next, ThreadStep, ChildStep

\* Every step keeps the types of the variables that hold no frames.
LEMMA ControlNext ==
  ASSUME ControlOK, BudgetInv, ThreadInv, [Next]_vars
  PROVE  ControlOK'
<1>active. active \in 1..MaxGeneration
  BY DEF ControlOK
<1>closed. closed \in BOOLEAN
  BY DEF ControlOK
<1>cur. cur \in Child \cup {Nil}
  BY DEF ControlOK
<1>gen. gen \in 0..MaxGeneration
  BY DEF ControlOK
<1>rid. rid \in 0..MaxRequest
  BY DEF ControlOK
<1>spawned. spawned \in Child
  BY DEF ControlOK
<1>window. window \in 0..RestartLimit
  BY DEF ControlOK
<1>pc. pc \in [Thread -> PCs]
  BY DEF ControlOK
<1>phase. phase \in [Thread -> Phases]
  BY DEF ControlOK
<1>want. want \in [Thread -> 0..MaxGeneration]
  BY DEF ControlOK
<1>ch. ch \in [Thread -> Child \cup {Nil}]
  BY DEF ControlOK
<1>victim. victim \in [Thread -> Child \cup {Nil}]
  BY DEF ControlOK
<1>outcome. outcome \in [Thread -> Outcomes]
  BY DEF ControlOK
<1>cpc. cpc \in [Child -> CPCs]
  BY DEF ControlOK
<1>shut. shut \subseteq Child
  BY DEF ControlOK
<1>active0. active \in 0..MaxGeneration
  BY <1>active, BoundAssumption
<1>1. CASE Deploy
  <2>1. active' \in 1..MaxGeneration
    BY <1>1, <1>active, BoundAssumption DEF Deploy, Goto, runner, budget
  <2>. QED
    BY <1>1, <2>1 DEF Deploy, ControlOK, runner, budget, locals, backend
<1>2. CASE BeginRequest
  <2>1. pc' \in [Thread -> PCs]
    BY <1>2, <1>pc DEF BeginRequest, Goto, PCs
  <2>2. want' \in [Thread -> 0..MaxGeneration]
    BY <1>2, <1>want, <1>active0 DEF BeginRequest, Goto
  <2>3. outcome' \in [Thread -> Outcomes]
    BY <1>2, <1>outcome DEF BeginRequest, Goto, Outcomes
  <2>. QED
    BY <1>2, <2>1, <2>2, <2>3 DEF BeginRequest, ControlOK, runner, budget, locals, backend
<1>3. CASE Probe
  <2>1. pc' \in [Thread -> PCs]
    BY <1>3, <1>pc DEF Probe, Goto, PCs
  <2>2. want' \in [Thread -> 0..MaxGeneration]
    BY <1>3, <1>want, BoundAssumption DEF Probe, Goto, Nil
  <2>. QED
    BY <1>3, <2>1, <2>2 DEF Probe, ControlOK, runner, budget, locals, backend
<1>4. CASE Close
  <2>1. pc' \in [Thread -> PCs]
    BY <1>4, <1>pc DEF Close, Goto, PCs
  <2>2. phase' \in [Thread -> Phases]
    BY <1>4, <1>phase DEF Close, Goto, Phases
  <2>3. closed' \in BOOLEAN
    BY <1>4, <1>closed DEF Close, Goto
  <2>. QED
    BY <1>4, <2>1, <2>2, <2>3 DEF Close, ControlOK, runner, budget, locals, backend
<1>5. CASE WindowSlides
  <2>1. window' \in 0..RestartLimit
    BY <1>5, <1>window, BoundAssumption DEF WindowSlides, Goto, runner, budget
  <2>. QED
    BY <1>5, <2>1 DEF WindowSlides, ControlOK, runner, budget, locals, backend
<1>6. CASE Join
  <2>1. pc' \in [Thread -> PCs]
    BY <1>6, <1>pc DEF Join, Goto, PCs
  <2>. QED
    BY <1>6, <2>1 DEF Join, ControlOK, runner, budget, locals, backend
<1>7. ASSUME NEW t \in Thread, Start(t) PROVE ControlOK'
  <2>1. pc' \in [Thread -> PCs]
    BY <1>7, <1>pc DEF Start, Started, Shut, Goto, PCs, runner, budget
  <2>2. want' \in [Thread -> 0..MaxGeneration]
    BY <1>7, <1>want, <1>active0 DEF Start, Started, Shut, Goto, runner, budget
  <2>3. cur' \in Child \cup {Nil}
    BY <1>7, <1>cur DEF Start, Started, Shut, Goto, runner, budget
  <2>4. gen' \in 0..MaxGeneration
    BY <1>7, <1>gen, BoundAssumption DEF Start, Started, Shut, Goto, Nil, runner, budget
  <2>5. shut' \subseteq Child
    BY <1>7, <1>shut, <1>cur DEF Start, Started, Shut, Goto, runner, budget
  <2>. QED
    BY <1>7, <2>1, <2>2, <2>3, <2>4, <2>5
    DEF Start, ControlOK, runner, budget, locals, backend
<1>8. ASSUME NEW t \in Thread, Respawn(t) PROVE ControlOK'
  <2>1. pc' \in [Thread -> PCs]
    BY <1>8, <1>pc DEF Respawn, Started, End, Goto, PCs, runner, budget
  <2>2. want' \in [Thread -> 0..MaxGeneration]
    BY <1>8, <1>want, <1>active0 DEF Respawn, Started, End, Goto, runner, budget
  <2>3. outcome' \in [Thread -> Outcomes]
    BY <1>8, <1>outcome DEF Respawn, Started, End, Goto, Outcomes, runner, budget
  <2>4. phase' \in [Thread -> Phases]
    BY <1>8, <1>phase DEF Respawn, Started, End, Goto, Phases, runner, budget
  <2>5. spawned' \in Child
    BY <1>8, <1>spawned, <1>window, BoundAssumption
    DEF Respawn, Started, End, Goto, BudgetInv, BudgetExhausted, Child, runner, budget
  <2>6. window' \in 0..RestartLimit
    BY <1>8, <1>window, BoundAssumption
    DEF Respawn, Started, End, Goto, BudgetExhausted, runner, budget
  <2>7. cpc' \in [Child -> CPCs]
    BY <1>8, <1>cpc DEF Respawn, Started, End, Goto, CPCs, runner, budget
  <2>8. cur' \in Child \cup {Nil}
    BY <1>8, <1>cur, <2>5 DEF Respawn, Started, End, Goto, runner, budget
  <2>9. gen' \in 0..MaxGeneration
    BY <1>8, <1>gen, BoundAssumption DEF Respawn, Started, End, Goto, Nil, runner, budget
  <2>. QED
    BY <1>8, <2>1, <2>2, <2>3, <2>4, <2>5, <2>6, <2>7, <2>8, <2>9
    DEF Respawn, ControlOK, runner, budget, locals, backend
<1>9. ASSUME NEW t \in Thread, Load(t) PROVE ControlOK'
  <2>1. pc' \in [Thread -> PCs]
    BY <1>9, <1>pc DEF Load, Loaded, End, Goto, PCs
  <2>2. phase' \in [Thread -> Phases]
    BY <1>9, <1>phase DEF Load, Loaded, End, Goto, Phases
  <2>3. outcome' \in [Thread -> Outcomes]
    BY <1>9, <1>outcome DEF Load, Loaded, End, Goto, Outcomes
  <2>4. rid' \in 0..MaxRequest
    BY <1>9, <1>rid, BoundAssumption
    DEF Load, Loaded, End, Goto, ThreadInv, Fresh, Talking
  <2>. QED
    BY <1>9, <2>1, <2>2, <2>3, <2>4 DEF Load, ControlOK, runner, budget, locals, backend
<1>10. ASSUME NEW t \in Thread, SendHead(t) PROVE ControlOK'
  <2>1. pc' \in [Thread -> PCs]
    BY <1>10, <1>pc DEF SendHead, Goto, PCs
  <2>2. ch' \in [Thread -> Child \cup {Nil}]
    BY <1>10, <1>ch, <1>cur DEF SendHead, Goto
  <2>. QED
    BY <1>10, <2>1, <2>2 DEF SendHead, ControlOK, runner, budget, locals, backend
<1>11. ASSUME NEW t \in Thread, SendRest(t) PROVE ControlOK'
  <2>1. pc' \in [Thread -> PCs]
    BY <1>11, <1>pc DEF SendRest, Goto, PCs
  <2>. QED
    BY <1>11, <2>1 DEF SendRest, ControlOK, runner, budget, locals, backend
<1>12. ASSUME NEW t \in Thread, SendTimeout(t) PROVE ControlOK'
  <2>1. pc' \in [Thread -> PCs]
    BY <1>12, <1>pc DEF SendTimeout, Goto, PCs
  <2>. QED
    BY <1>12, <2>1 DEF SendTimeout, ControlOK, runner, budget, locals, backend
<1>13. ASSUME NEW t \in Thread, Await(t) PROVE ControlOK'
  <2>1. pc' \in [Thread -> PCs]
    BY <1>13, <1>pc DEF Await, End, Goto, PCs
  <2>2. ch' \in [Thread -> Child \cup {Nil}]
    BY <1>13, <1>ch, <1>cur DEF Await, End, Goto
  <2>3. outcome' \in [Thread -> Outcomes]
    BY <1>13, <1>outcome DEF Await, End, Goto, Outcomes
  <2>. QED
    BY <1>13, <2>1, <2>2, <2>3 DEF Await, ControlOK, runner, budget, locals, backend
<1>14. ASSUME NEW t \in Thread, ReadHead(t) PROVE ControlOK'
  <2>1. pc' \in [Thread -> PCs]
    BY <1>14, <1>pc DEF ReadHead, Goto, PCs
  <2>. QED
    BY <1>14, <2>1 DEF ReadHead, ControlOK, runner, budget, locals, backend
<1>15. ASSUME NEW t \in Thread, ReadBody(t) PROVE ControlOK'
  <2>1. pc' \in [Thread -> PCs]
    BY <1>15, <1>pc DEF ReadBody, Goto, PCs
  <2>. QED
    BY <1>15, <2>1 DEF ReadBody, ControlOK, runner, budget, locals, backend
<1>16. ASSUME NEW t \in Thread, ReadError(t) PROVE ControlOK'
  <2>1. pc' \in [Thread -> PCs]
    BY <1>16, <1>pc DEF ReadError, Goto, PCs
  <2>. QED
    BY <1>16, <2>1 DEF ReadError, ControlOK, runner, budget, locals, backend
<1>17. ASSUME NEW t \in Thread, ReadTimeout(t) PROVE ControlOK'
  <2>1. pc' \in [Thread -> PCs]
    BY <1>17, <1>pc DEF ReadTimeout, Goto, PCs
  <2>. QED
    BY <1>17, <2>1 DEF ReadTimeout, ControlOK, runner, budget, locals, backend
<1>18. ASSUME NEW t \in Thread, Handle(t) PROVE ControlOK'
  <2>1. pc' \in [Thread -> PCs]
    BY <1>18, <1>pc
    DEF Handle, HandleHello, HandleLoad, HandlePredict, Started, Loaded, End, Goto, PCs,
        runner, budget
  <2>2. want' \in [Thread -> 0..MaxGeneration]
    BY <1>18, <1>want, <1>active0
    DEF Handle, HandleHello, HandleLoad, HandlePredict, Started, Loaded, End, Goto,
        runner, budget
  <2>3. outcome' \in [Thread -> Outcomes]
    BY <1>18, <1>outcome
    DEF Handle, HandleHello, HandleLoad, HandlePredict, Started, Loaded, End, Goto,
        Outcomes, runner, budget
  <2>4. phase' \in [Thread -> Phases]
    BY <1>18, <1>phase
    DEF Handle, HandleHello, HandleLoad, HandlePredict, Started, Loaded, End, Goto,
        Phases, runner, budget
  <2>5. rid' \in 0..MaxRequest
    BY <1>18, <1>rid, BoundAssumption
    DEF Handle, HandleHello, HandleLoad, HandlePredict, Started, Loaded, End, Goto,
        ThreadInv, Fresh, Talking, runner, budget
  <2>6. gen' \in 0..MaxGeneration
    BY <1>18, <1>gen, <1>want
    DEF Handle, HandleHello, HandleLoad, HandlePredict, Started, Loaded, End, Goto,
        runner, budget
  <2>. QED
    BY <1>18, <2>1, <2>2, <2>3, <2>4, <2>5, <2>6
    DEF Handle, HandleHello, HandleLoad, HandlePredict, ControlOK, runner, budget, locals,
        backend
<1>19. ASSUME NEW t \in Thread, Detach(t) PROVE ControlOK'
  <2>1. pc' \in [Thread -> PCs]
    BY <1>19, <1>pc DEF Detach, Goto, PCs
  <2>2. victim' \in [Thread -> Child \cup {Nil}]
    BY <1>19, <1>victim, <1>cur DEF Detach, Goto
  <2>3. cur' \in Child \cup {Nil}
    BY <1>19, <1>cur DEF Detach, Goto
  <2>4. gen' \in 0..MaxGeneration
    BY <1>19, <1>gen, BoundAssumption DEF Detach, Goto, Nil
  <2>. QED
    BY <1>19, <2>1, <2>2, <2>3, <2>4
    DEF Detach, ControlOK, runner, budget, locals, backend
<1>20. ASSUME NEW t \in Thread, Kill(t) PROVE ControlOK'
  <2>1. pc' \in [Thread -> PCs]
    BY <1>20, <1>pc DEF Kill, Aborted, End, Shut, Die, Goto, PCs
  <2>2. victim' \in [Thread -> Child \cup {Nil}]
    BY <1>20, <1>victim DEF Kill, Aborted, End, Shut, Die, Goto
  <2>3. outcome' \in [Thread -> Outcomes]
    BY <1>20, <1>outcome DEF Kill, Aborted, End, Shut, Die, Goto, Outcomes
  <2>4. cpc' \in [Child -> CPCs]
    BY <1>20, <1>cpc, <1>victim DEF Kill, Aborted, End, Shut, Die, Goto, CPCs, backend
  <2>5. shut' \subseteq Child
    BY <1>20, <1>shut, <1>victim DEF Kill, Aborted, End, Shut, Die, Goto
  <2>. QED
    BY <1>20, <2>1, <2>2, <2>3, <2>4, <2>5
    DEF Kill, ControlOK, runner, budget, locals, backend
<1>21. ASSUME NEW i \in Child, ChildBoot(i) PROVE ControlOK'
  <2>1. cpc' \in [Child -> CPCs]
    BY <1>21, <1>cpc DEF ChildBoot, Reply, Die, CPCs
  <2>. QED
    BY <1>21, <2>1 DEF ChildBoot, ControlOK, runner, budget, locals, backend
<1>22. ASSUME NEW i \in Child, ChildReceive(i) PROVE ControlOK'
  <2>1. cpc' \in [Child -> CPCs]
    BY <1>22, <1>cpc DEF ChildReceive, ChildMove, Die, CPCs
  <2>. QED
    BY <1>22, <2>1 DEF ChildReceive, ControlOK, runner, budget, locals, backend
<1>23. ASSUME NEW i \in Child, ChildServe(i) PROVE ControlOK'
  <2>1. cpc' \in [Child -> CPCs]
    BY <1>23, <1>cpc
    DEF ChildServe, ChildLoad, ChildPredict, ChildExit, ChildMove, Reply, Die, CPCs
  <2>. QED
    BY <1>23, <2>1 DEF ChildServe, ControlOK, runner, budget, locals, backend
<1>24. ASSUME NEW i \in Child, ChildFinish(i) PROVE ControlOK'
  <2>1. cpc' \in [Child -> CPCs]
    BY <1>24, <1>cpc DEF ChildFinish, Reply, CPCs
  <2>. QED
    BY <1>24, <2>1 DEF ChildFinish, ControlOK, runner, budget, locals, backend
<1>25. ASSUME NEW i \in Child, ChildCrash(i) PROVE ControlOK'
  <2>1. cpc' \in [Child -> CPCs]
    BY <1>25, <1>cpc DEF ChildCrash, Die, CPCs
  <2>. QED
    BY <1>25, <2>1 DEF ChildCrash, ControlOK, runner, budget, locals, backend
<1>26. CASE UNCHANGED vars
  BY <1>26 DEF ControlOK, vars, runner, budget, locals, backend
<1>. QED
  BY <1>1, <1>2, <1>3, <1>4, <1>5, <1>6, <1>7, <1>8, <1>9, <1>10, <1>11, <1>12, <1>13,
     <1>14, <1>15, <1>16, <1>17, <1>18, <1>19, <1>20, <1>21, <1>22, <1>23, <1>24, <1>25,
     <1>26
  DEF Next, ThreadStep, ChildStep

\* Every step keeps the types.
LEMMA TypeNext ==
  ASSUME TypeOK, BudgetInv, ThreadInv, [Next]_vars
  PROVE  TypeOK'
<1>1. ControlOK'
  BY TypeParts, ControlNext
<1>2. ASSUME NEW t \in Thread, pc[t] \in {"send", "rest"} PROVE Outgoing(t) \in Frame
  <2>1. phase[t] \in {"load", "predict", "close"} /\ want[t] \in 0..MaxGeneration
    BY <1>2, TypeParts DEF ControlOK, Phases, ThreadInv
  <2>2. (IF phase[t] = "predict" THEN rid ELSE 0) \in 0..MaxRequest
    BY TypeParts, BoundAssumption DEF ControlOK
  <2>. QED
    BY <2>1, <2>2, MsgType DEF Outgoing
<1>3. ASSUME NEW i \in Child PROVE Computed(i) \in Frame
  <2>1. /\ job[i].id \in 0..MaxRequest /\ model[i].gen \in 0..MaxGeneration
        /\ (job[i].whole /\ model[i].whole) \in BOOLEAN
    BY TypeParts, FrameFields
  <2>. QED
    BY <2>1 DEF Computed, Frame
<1>4. /\ frame' \in [Thread -> Frame] /\ model' \in [Child -> Frame]
      /\ job' \in [Child -> Frame]
      /\ toChild' \in [Child -> Seq(PieceOf(Frame))]
      /\ toParent' \in [Child -> Seq(PieceOf(Frame))]
  <2>1. \A f \in Frame : Spoilt(f) \in Frame
    BY SpoiltFields
  <2>2. Frame \in SUBSET Frame
    OBVIOUS
  <2>. QED
    BY <1>2, <1>3, <2>1, <2>2, TypeParts, FramesNext
<1>. QED
  BY <1>1, <1>4 DEF TypeOK, ControlOK, PCs, Phases, Outcomes, CPCs, Piece, PieceOf

-----------------------------------------------------------------------------
(***************************************************************************)
(* The restart budget, the threads and the children                        *)
(***************************************************************************)
\* Every step keeps the account of the restarts.
LEMMA BudgetNext ==
  ASSUME TypeOK, BudgetInv, ThreadInv, [Next]_vars
  PROVE  BudgetInv'
<1>cur. cur \in Child \cup {Nil}
  BY TypeParts DEF ControlOK
<1>spawned. spawned \in Child
  BY TypeParts DEF ControlOK
<1>window. window \in 0..RestartLimit
  BY TypeParts DEF ControlOK
<1>victim. victim \in [Thread -> Child \cup {Nil}]
  BY TypeParts DEF ControlOK
<1>ch. ch \in [Thread -> Child \cup {Nil}]
  BY TypeParts DEF ControlOK
<1>cpc. cpc \in [Child -> CPCs]
  BY TypeParts DEF ControlOK
<1>model. model \in [Child -> Frame]
  BY TypeParts
<1>toChild. toChild \in [Child -> Seq(PieceOf(Frame))]
  BY TypeParts
<1>toParent. toParent \in [Child -> Seq(PieceOf(Frame))]
  BY TypeParts
<1>. USE ChildType, BoundAssumption
<1>1. CASE Deploy
  BY <1>1, <1>cur, <1>spawned, <1>window, <1>victim, <1>ch, <1>cpc, <1>model, <1>toChild,
     <1>toParent
  DEF Deploy, Goto, BudgetInv, Alive, CPCs, Nil, runner, budget, locals, backend
<1>2. CASE BeginRequest
  BY <1>2, <1>cur, <1>spawned, <1>window, <1>victim, <1>ch, <1>cpc, <1>model, <1>toChild,
     <1>toParent
  DEF BeginRequest, Goto, BudgetInv, Alive, CPCs, Nil, runner, budget, locals, backend
<1>3. CASE Probe
  BY <1>3, <1>cur, <1>spawned, <1>window, <1>victim, <1>ch, <1>cpc, <1>model, <1>toChild,
     <1>toParent
  DEF Probe, Goto, BudgetInv, Alive, CPCs, Nil, runner, budget, locals, backend
<1>4. CASE Close
  BY <1>4, <1>cur, <1>spawned, <1>window, <1>victim, <1>ch, <1>cpc, <1>model, <1>toChild,
     <1>toParent
  DEF Close, Goto, BudgetInv, Alive, CPCs, Nil, runner, budget, locals, backend
<1>5. CASE WindowSlides
  BY <1>5, <1>cur, <1>spawned, <1>window, <1>victim, <1>ch, <1>cpc, <1>model, <1>toChild,
     <1>toParent
  DEF WindowSlides, Goto, BudgetInv, Alive, CPCs, Nil, runner, budget, locals, backend
<1>6. CASE Join
  BY <1>6, <1>cur, <1>spawned, <1>window, <1>victim, <1>ch, <1>cpc, <1>model, <1>toChild,
     <1>toParent
  DEF Join, Goto, BudgetInv, Alive, CPCs, Nil, runner, budget, locals, backend
<1>7. ASSUME NEW t \in Thread, Start(t) PROVE BudgetInv'
  BY <1>7, <1>cur, <1>spawned, <1>window, <1>victim, <1>ch, <1>cpc, <1>model, <1>toChild,
     <1>toParent
  DEF Start, Started, Shut, Goto, BudgetInv, Alive, CPCs, Nil, runner, budget, locals,
      backend
<1>8. ASSUME NEW t \in Thread, Respawn(t) PROVE BudgetInv'
  <2>1. UNCHANGED <<model, toChild, toParent>>
    BY <1>8 DEF Respawn
  <2>2. CASE UNCHANGED <<spawned, window, cpc>>
    BY <2>1, <2>2 DEF BudgetInv, Alive
  <2>3. ASSUME NEW l \in CPCs, spawned' = spawned + 1, window' = window + 1,
               cpc' = [cpc EXCEPT ![spawned + 1] = l]
        PROVE  BudgetInv'
    <3>1. spawned \in Nat /\ window \in Nat /\ \A i \in Child : i \in Nat
      BY <1>spawned, <1>window
    <3>2. spawned' <= 1 + window' + MaxSlides
      BY <2>3, <3>1 DEF BudgetInv
    <3>3. ASSUME NEW i \in Child, i > spawned' PROVE i > spawned /\ cpc'[i] = cpc[i]
      BY <2>3, <3>1, <3>3, <1>cpc
    <3>. QED
      BY <2>1, <3>2, <3>3 DEF BudgetInv, Alive
  <2>. QED
    BY <1>8, <2>2, <2>3 DEF Respawn, budget, CPCs
<1>9. ASSUME NEW t \in Thread, Load(t) PROVE BudgetInv'
  BY <1>9, <1>cur, <1>spawned, <1>window, <1>victim, <1>ch, <1>cpc, <1>model, <1>toChild,
     <1>toParent
  DEF Load, Loaded, End, Goto, BudgetInv, Alive, CPCs, Nil, runner, budget, locals,
      backend
<1>10. ASSUME NEW t \in Thread, SendHead(t) PROVE BudgetInv'
  BY <1>10, <1>cur, <1>spawned, <1>window, <1>victim, <1>ch, <1>cpc, <1>model, <1>toChild,
     <1>toParent
  DEF SendHead, Goto, BudgetInv, Alive, CPCs, Nil, runner, budget, locals, backend
<1>11. ASSUME NEW t \in Thread, SendRest(t) PROVE BudgetInv'
  BY <1>11, <1>cur, <1>spawned, <1>window, <1>victim, <1>ch, <1>cpc, <1>model, <1>toChild,
     <1>toParent
  DEF SendRest, ThreadInv, Goto, BudgetInv, Alive, CPCs, Nil, runner, budget, locals,
      backend
<1>12. ASSUME NEW t \in Thread, SendTimeout(t) PROVE BudgetInv'
  BY <1>12, <1>cur, <1>spawned, <1>window, <1>victim, <1>ch, <1>cpc, <1>model, <1>toChild,
     <1>toParent
  DEF SendTimeout, Goto, BudgetInv, Alive, CPCs, Nil, runner, budget, locals, backend
<1>13. ASSUME NEW t \in Thread, Await(t) PROVE BudgetInv'
  BY <1>13, <1>cur, <1>spawned, <1>window, <1>victim, <1>ch, <1>cpc, <1>model, <1>toChild,
     <1>toParent
  DEF Await, End, Goto, BudgetInv, Alive, CPCs, Nil, runner, budget, locals, backend
<1>14. ASSUME NEW t \in Thread, ReadHead(t) PROVE BudgetInv'
  BY <1>14, <1>cur, <1>spawned, <1>window, <1>victim, <1>ch, <1>cpc, <1>model, <1>toChild,
     <1>toParent
  DEF ReadHead, ThreadInv, Readable, Goto, BudgetInv, Alive, CPCs, Nil, runner, budget,
      locals, backend
<1>15. ASSUME NEW t \in Thread, ReadBody(t) PROVE BudgetInv'
  BY <1>15, <1>cur, <1>spawned, <1>window, <1>victim, <1>ch, <1>cpc, <1>model, <1>toChild,
     <1>toParent
  DEF ReadBody, ThreadInv, Readable, Goto, BudgetInv, Alive, CPCs, Nil, runner, budget,
      locals, backend
<1>16. ASSUME NEW t \in Thread, ReadError(t) PROVE BudgetInv'
  BY <1>16, <1>cur, <1>spawned, <1>window, <1>victim, <1>ch, <1>cpc, <1>model, <1>toChild,
     <1>toParent
  DEF ReadError, Goto, BudgetInv, Alive, CPCs, Nil, runner, budget, locals, backend
<1>17. ASSUME NEW t \in Thread, ReadTimeout(t) PROVE BudgetInv'
  BY <1>17, <1>cur, <1>spawned, <1>window, <1>victim, <1>ch, <1>cpc, <1>model, <1>toChild,
     <1>toParent
  DEF ReadTimeout, Goto, BudgetInv, Alive, CPCs, Nil, runner, budget, locals, backend
<1>18. ASSUME NEW t \in Thread, Handle(t) PROVE BudgetInv'
  BY <1>18, <1>cur, <1>spawned, <1>window, <1>victim, <1>ch, <1>cpc, <1>model, <1>toChild,
     <1>toParent
  DEF Handle, HandleHello, HandleLoad, HandlePredict, Started, Loaded, End, Goto,
      BudgetInv, Alive, CPCs, Nil, runner, budget, locals, backend
<1>19. ASSUME NEW t \in Thread, Detach(t) PROVE BudgetInv'
  BY <1>19, <1>cur, <1>spawned, <1>window, <1>victim, <1>ch, <1>cpc, <1>model, <1>toChild,
     <1>toParent
  DEF Detach, Goto, BudgetInv, Alive, CPCs, Nil, runner, budget, locals, backend
<1>20. ASSUME NEW t \in Thread, Kill(t) PROVE BudgetInv'
  BY <1>20, <1>cur, <1>spawned, <1>window, <1>victim, <1>ch, <1>cpc, <1>model, <1>toChild,
     <1>toParent
  DEF Kill, Aborted, End, Shut, Die, Goto, BudgetInv, Alive, CPCs, Nil, runner, budget,
      locals, backend
<1>21. ASSUME NEW i \in Child, ChildBoot(i) PROVE BudgetInv'
  BY <1>21, <1>cur, <1>spawned, <1>window, <1>victim, <1>ch, <1>cpc, <1>model, <1>toChild,
     <1>toParent
  DEF ChildBoot, Reply, Die, BudgetInv, Alive, CPCs, Nil, runner, budget, locals, backend
<1>22. ASSUME NEW i \in Child, ChildReceive(i) PROVE BudgetInv'
  BY <1>22, <1>cur, <1>spawned, <1>window, <1>victim, <1>ch, <1>cpc, <1>model, <1>toChild,
     <1>toParent
  DEF ChildReceive, ChildMove, Die, BudgetInv, Alive, CPCs, Nil, runner, budget, locals,
      backend
<1>23. ASSUME NEW i \in Child, ChildServe(i) PROVE BudgetInv'
  BY <1>23, <1>cur, <1>spawned, <1>window, <1>victim, <1>ch, <1>cpc, <1>model, <1>toChild,
     <1>toParent
  DEF ChildServe, ChildLoad, ChildPredict, ChildExit, ChildMove, Reply, Die, BudgetInv,
      Alive, CPCs, Nil, runner, budget, locals, backend
<1>24. ASSUME NEW i \in Child, ChildFinish(i) PROVE BudgetInv'
  BY <1>24, <1>cur, <1>spawned, <1>window, <1>victim, <1>ch, <1>cpc, <1>model, <1>toChild,
     <1>toParent
  DEF ChildFinish, Reply, BudgetInv, Alive, CPCs, Nil, runner, budget, locals, backend
<1>25. ASSUME NEW i \in Child, ChildCrash(i) PROVE BudgetInv'
  BY <1>25, <1>cur, <1>spawned, <1>window, <1>victim, <1>ch, <1>cpc, <1>model, <1>toChild,
     <1>toParent
  DEF ChildCrash, Die, BudgetInv, Alive, CPCs, Nil, runner, budget, locals, backend
<1>26. CASE UNCHANGED vars
  BY <1>26 DEF BudgetInv, Alive, CPCs, Nil, vars, runner, budget, locals, backend
<1>. QED
  BY <1>1, <1>2, <1>3, <1>4, <1>5, <1>6, <1>7, <1>8, <1>9, <1>10, <1>11, <1>12, <1>13,
     <1>14, <1>15, <1>16, <1>17, <1>18, <1>19, <1>20, <1>21, <1>22, <1>23, <1>24, <1>25,
     <1>26
  DEF Next, ThreadStep, ChildStep

\* Every step keeps what the threads know.
LEMMA ThreadNext ==
  ASSUME TypeOK, ThreadInv, [Next]_vars
  PROVE  ThreadInv'
<1>active. active \in 1..MaxGeneration
  BY TypeParts DEF ControlOK
<1>pc. pc \in [Thread -> PCs]
  BY TypeParts DEF ControlOK
<1>phase. phase \in [Thread -> Phases]
  BY TypeParts DEF ControlOK
<1>want. want \in [Thread -> 0..MaxGeneration]
  BY TypeParts DEF ControlOK
<1>outcome. outcome \in [Thread -> Outcomes]
  BY TypeParts DEF ControlOK
<1>ch. ch \in [Thread -> Child \cup {Nil}]
  BY TypeParts DEF ControlOK
<1>cur. cur \in Child \cup {Nil}
  BY TypeParts DEF ControlOK
<1>rid. rid \in 0..MaxRequest
  BY TypeParts DEF ControlOK
<1>. USE WorkerThread
<1>1. CASE Deploy
  BY <1>1, <1>active, <1>pc, <1>phase, <1>want, <1>outcome, <1>ch, <1>cur, <1>rid
  DEF Deploy, Goto, ThreadInv, Fresh, Talking, PCs, Phases, Outcomes, Alive, Nil, runner,
      budget, locals, backend
<1>2. CASE BeginRequest
  BY <1>2, <1>active, <1>pc, <1>phase, <1>want, <1>outcome, <1>ch, <1>cur, <1>rid
  DEF BeginRequest, Goto, ThreadInv, Fresh, Talking, PCs, Phases, Outcomes, Alive, Nil,
      runner, budget, locals, backend
<1>3. CASE Probe
  BY <1>3, <1>active, <1>pc, <1>phase, <1>want, <1>outcome, <1>ch, <1>cur, <1>rid
  DEF Probe, Goto, ThreadInv, Fresh, Talking, PCs, Phases, Outcomes, Alive, Nil, runner,
      budget, locals, backend
<1>4. CASE Close
  BY <1>4, <1>active, <1>pc, <1>phase, <1>want, <1>outcome, <1>ch, <1>cur, <1>rid
  DEF Close, Goto, ThreadInv, Fresh, Talking, PCs, Phases, Outcomes, Alive, Nil, runner,
      budget, locals, backend
<1>5. CASE WindowSlides
  BY <1>5, <1>active, <1>pc, <1>phase, <1>want, <1>outcome, <1>ch, <1>cur, <1>rid
  DEF WindowSlides, Goto, ThreadInv, Fresh, Talking, PCs, Phases, Outcomes, Alive, Nil,
      runner, budget, locals, backend
<1>6. CASE Join
  BY <1>6, <1>active, <1>pc, <1>phase, <1>want, <1>outcome, <1>ch, <1>cur, <1>rid
  DEF Join, Goto, ThreadInv, Fresh, Talking, PCs, Phases, Outcomes, Alive, Nil, runner,
      budget, locals, backend
<1>7. ASSUME NEW t \in Thread, Start(t) PROVE ThreadInv'
  BY <1>7, <1>active, <1>pc, <1>phase, <1>want, <1>outcome, <1>ch, <1>cur, <1>rid
  DEF Start, Started, Shut, Goto, ThreadInv, Fresh, Talking, PCs, Phases, Outcomes, Alive,
      Nil, runner, budget, locals, backend
<1>8. ASSUME NEW t \in Thread, Respawn(t) PROVE ThreadInv'
  BY <1>8, <1>active, <1>pc, <1>phase, <1>want, <1>outcome, <1>ch, <1>cur, <1>rid
  DEF Respawn, Started, End, Goto, ThreadInv, Fresh, Talking, PCs, Phases, Outcomes,
      Alive, Nil, runner, budget, locals, backend
<1>9. ASSUME NEW t \in Thread, Load(t) PROVE ThreadInv'
  BY <1>9, <1>active, <1>pc, <1>phase, <1>want, <1>outcome, <1>ch, <1>cur, <1>rid
  DEF Load, Loaded, End, Goto, ThreadInv, Fresh, Talking, PCs, Phases, Outcomes, Alive,
      Nil, runner, budget, locals, backend
<1>10. ASSUME NEW t \in Thread, SendHead(t) PROVE ThreadInv'
  <2>1. CASE Alive(cur)
    <3>1. cur \in Child
      BY <2>1, <1>cur DEF Alive
    <3>. QED
      BY <1>10, <2>1, <3>1, <1>pc, <1>phase, <1>ch
      DEF SendHead, Goto, ThreadInv, Fresh, Talking
  <2>2. CASE ~Alive(cur)
    BY <1>10, <2>2, <1>pc DEF SendHead, Goto, ThreadInv, Fresh, Talking
  <2>. QED
    BY <2>1, <2>2
<1>11. ASSUME NEW t \in Thread, SendRest(t) PROVE ThreadInv'
  BY <1>11, <1>active, <1>pc, <1>phase, <1>want, <1>outcome, <1>ch, <1>cur, <1>rid
  DEF SendRest, Goto, ThreadInv, Fresh, Talking, PCs, Phases, Outcomes, Alive, Nil,
      runner, budget, locals, backend
<1>12. ASSUME NEW t \in Thread, SendTimeout(t) PROVE ThreadInv'
  BY <1>12, <1>active, <1>pc, <1>phase, <1>want, <1>outcome, <1>ch, <1>cur, <1>rid
  DEF SendTimeout, Goto, ThreadInv, Fresh, Talking, PCs, Phases, Outcomes, Alive, Nil,
      runner, budget, locals, backend
<1>13. ASSUME NEW t \in Thread, Await(t) PROVE ThreadInv'
  BY <1>13, <1>active, <1>pc, <1>phase, <1>want, <1>outcome, <1>ch, <1>cur, <1>rid
  DEF Await, End, Goto, ThreadInv, Fresh, Talking, PCs, Phases, Outcomes, Alive, Nil,
      runner, budget, locals, backend
<1>14. ASSUME NEW t \in Thread, ReadHead(t) PROVE ThreadInv'
  BY <1>14, <1>active, <1>pc, <1>phase, <1>want, <1>outcome, <1>ch, <1>cur, <1>rid
  DEF ReadHead, Goto, ThreadInv, Fresh, Talking, PCs, Phases, Outcomes, Alive, Nil,
      runner, budget, locals, backend
<1>15. ASSUME NEW t \in Thread, ReadBody(t) PROVE ThreadInv'
  BY <1>15, <1>active, <1>pc, <1>phase, <1>want, <1>outcome, <1>ch, <1>cur, <1>rid
  DEF ReadBody, Goto, ThreadInv, Fresh, Talking, PCs, Phases, Outcomes, Alive, Nil,
      runner, budget, locals, backend
<1>16. ASSUME NEW t \in Thread, ReadError(t) PROVE ThreadInv'
  BY <1>16, <1>active, <1>pc, <1>phase, <1>want, <1>outcome, <1>ch, <1>cur, <1>rid
  DEF ReadError, Goto, ThreadInv, Fresh, Talking, PCs, Phases, Outcomes, Alive, Nil,
      runner, budget, locals, backend
<1>17. ASSUME NEW t \in Thread, ReadTimeout(t) PROVE ThreadInv'
  BY <1>17, <1>active, <1>pc, <1>phase, <1>want, <1>outcome, <1>ch, <1>cur, <1>rid
  DEF ReadTimeout, Goto, ThreadInv, Fresh, Talking, PCs, Phases, Outcomes, Alive, Nil,
      runner, budget, locals, backend
<1>18. ASSUME NEW t \in Thread, Handle(t) PROVE ThreadInv'
  BY <1>18, <1>active, <1>pc, <1>phase, <1>want, <1>outcome, <1>ch, <1>cur, <1>rid
  DEF Handle, HandleHello, HandleLoad, HandlePredict, Started, Loaded, End, Goto,
      ThreadInv, Fresh, Talking, PCs, Phases, Outcomes, Alive, Nil, runner, budget,
      locals, backend
<1>19. ASSUME NEW t \in Thread, Detach(t) PROVE ThreadInv'
  BY <1>19, <1>active, <1>pc, <1>phase, <1>want, <1>outcome, <1>ch, <1>cur, <1>rid
  DEF Detach, Goto, ThreadInv, Fresh, Talking, PCs, Phases, Outcomes, Alive, Nil, runner,
      budget, locals, backend
<1>20. ASSUME NEW t \in Thread, Kill(t) PROVE ThreadInv'
  BY <1>20, <1>active, <1>pc, <1>phase, <1>want, <1>outcome, <1>ch, <1>cur, <1>rid
  DEF Kill, Aborted, End, Shut, Die, Goto, ThreadInv, Fresh, Talking, PCs, Phases,
      Outcomes, Alive, Nil, runner, budget, locals, backend
<1>21. ASSUME NEW i \in Child, ChildStep(i) \/ ChildCrash(i) PROVE ThreadInv'
  BY <1>21, ChildFootprint
  DEF ThreadInv, Fresh, Talking, PCs, Phases, Outcomes, Alive, Nil
<1>22. CASE UNCHANGED vars
  BY <1>22
  DEF ThreadInv, Fresh, Talking, PCs, Phases, Outcomes, Alive, Nil, vars, runner, budget,
      locals, backend
<1>. QED
  BY <1>1, <1>2, <1>3, <1>4, <1>5, <1>6, <1>7, <1>8, <1>9, <1>10, <1>11, <1>12, <1>13,
     <1>14, <1>15, <1>16, <1>17, <1>18, <1>19, <1>20, <1>21, <1>22
  DEF Next, ThreadStep

\* No step leaves a living child behind.
LEMMA OrphanNext ==
  ASSUME TypeOK, NoOrphan, [Next]_vars
  PROVE  NoOrphan'
<1>pc. pc \in [Thread -> PCs]
  BY TypeParts DEF ControlOK
<1>victim. victim \in [Thread -> Child \cup {Nil}]
  BY TypeParts DEF ControlOK
<1>cpc. cpc \in [Child -> CPCs]
  BY TypeParts DEF ControlOK
<1>cur. cur \in Child \cup {Nil}
  BY TypeParts DEF ControlOK
<1>. USE ChildType
<1>1. CASE Deploy
  BY <1>1, <1>pc, <1>victim, <1>cpc, <1>cur
  DEF Deploy, Goto, NoOrphan, Alive, PCs, CPCs, Nil, runner, budget, locals, backend
<1>2. CASE BeginRequest
  BY <1>2, <1>pc, <1>victim, <1>cpc, <1>cur
  DEF BeginRequest, Goto, NoOrphan, Alive, PCs, CPCs, Nil, runner, budget, locals, backend
<1>3. CASE Probe
  BY <1>3, <1>pc, <1>victim, <1>cpc, <1>cur
  DEF Probe, Goto, NoOrphan, Alive, PCs, CPCs, Nil, runner, budget, locals, backend
<1>4. CASE Close
  BY <1>4, <1>pc, <1>victim, <1>cpc, <1>cur
  DEF Close, Goto, NoOrphan, Alive, PCs, CPCs, Nil, runner, budget, locals, backend
<1>5. CASE WindowSlides
  BY <1>5, <1>pc, <1>victim, <1>cpc, <1>cur
  DEF WindowSlides, Goto, NoOrphan, Alive, PCs, CPCs, Nil, runner, budget, locals, backend
<1>6. CASE Join
  BY <1>6, <1>pc, <1>victim, <1>cpc, <1>cur
  DEF Join, Goto, NoOrphan, Alive, PCs, CPCs, Nil, runner, budget, locals, backend
<1>7. ASSUME NEW t \in Thread, Start(t) PROVE NoOrphan'
  BY <1>7, <1>pc, <1>victim, <1>cpc, <1>cur
  DEF Start, Started, Shut, Goto, NoOrphan, Alive, PCs, CPCs, Nil, runner, budget, locals,
      backend
<1>8. ASSUME NEW t \in Thread, Respawn(t) PROVE NoOrphan'
  BY <1>8, <1>pc, <1>victim, <1>cpc, <1>cur
  DEF Respawn, Started, End, Goto, NoOrphan, Alive, PCs, CPCs, Nil, runner, budget,
      locals, backend
<1>9. ASSUME NEW t \in Thread, Load(t) PROVE NoOrphan'
  BY <1>9, <1>pc, <1>victim, <1>cpc, <1>cur
  DEF Load, Loaded, End, Goto, NoOrphan, Alive, PCs, CPCs, Nil, runner, budget, locals,
      backend
<1>10. ASSUME NEW t \in Thread, SendHead(t) PROVE NoOrphan'
  BY <1>10, <1>pc, <1>victim, <1>cpc, <1>cur
  DEF SendHead, Goto, NoOrphan, Alive, PCs, CPCs, Nil, runner, budget, locals, backend
<1>11. ASSUME NEW t \in Thread, SendRest(t) PROVE NoOrphan'
  BY <1>11, <1>pc, <1>victim, <1>cpc, <1>cur
  DEF SendRest, Goto, NoOrphan, Alive, PCs, CPCs, Nil, runner, budget, locals, backend
<1>12. ASSUME NEW t \in Thread, SendTimeout(t) PROVE NoOrphan'
  BY <1>12, <1>pc, <1>victim, <1>cpc, <1>cur
  DEF SendTimeout, Goto, NoOrphan, Alive, PCs, CPCs, Nil, runner, budget, locals, backend
<1>13. ASSUME NEW t \in Thread, Await(t) PROVE NoOrphan'
  BY <1>13, <1>pc, <1>victim, <1>cpc, <1>cur
  DEF Await, End, Goto, NoOrphan, Alive, PCs, CPCs, Nil, runner, budget, locals, backend
<1>14. ASSUME NEW t \in Thread, ReadHead(t) PROVE NoOrphan'
  BY <1>14, <1>pc, <1>victim, <1>cpc, <1>cur
  DEF ReadHead, Goto, NoOrphan, Alive, PCs, CPCs, Nil, runner, budget, locals, backend
<1>15. ASSUME NEW t \in Thread, ReadBody(t) PROVE NoOrphan'
  BY <1>15, <1>pc, <1>victim, <1>cpc, <1>cur
  DEF ReadBody, Goto, NoOrphan, Alive, PCs, CPCs, Nil, runner, budget, locals, backend
<1>16. ASSUME NEW t \in Thread, ReadError(t) PROVE NoOrphan'
  BY <1>16, <1>pc, <1>victim, <1>cpc, <1>cur
  DEF ReadError, Goto, NoOrphan, Alive, PCs, CPCs, Nil, runner, budget, locals, backend
<1>17. ASSUME NEW t \in Thread, ReadTimeout(t) PROVE NoOrphan'
  BY <1>17, <1>pc, <1>victim, <1>cpc, <1>cur
  DEF ReadTimeout, Goto, NoOrphan, Alive, PCs, CPCs, Nil, runner, budget, locals, backend
<1>18. ASSUME NEW t \in Thread, Handle(t) PROVE NoOrphan'
  BY <1>18, <1>pc, <1>victim, <1>cpc, <1>cur
  DEF Handle, HandleHello, HandleLoad, HandlePredict, Started, Loaded, End, Goto,
      NoOrphan, Alive, PCs, CPCs, Nil, runner, budget, locals, backend
<1>19. ASSUME NEW t \in Thread, Detach(t) PROVE NoOrphan'
  BY <1>19, <1>pc, <1>victim, <1>cpc, <1>cur
  DEF Detach, Goto, NoOrphan, Alive, PCs, CPCs, Nil, runner, budget, locals, backend
<1>20. ASSUME NEW t \in Thread, Kill(t) PROVE NoOrphan'
  BY <1>20, <1>pc, <1>victim, <1>cpc, <1>cur
  DEF Kill, Aborted, End, Shut, Die, Goto, NoOrphan, Alive, PCs, CPCs, Nil, runner,
      budget, locals, backend
<1>21. ASSUME NEW i \in Child, ChildBoot(i) PROVE NoOrphan'
  BY <1>21, <1>pc, <1>victim, <1>cpc, <1>cur
  DEF ChildBoot, Reply, Die, NoOrphan, Alive, PCs, CPCs, Nil, runner, budget, locals,
      backend
<1>22. ASSUME NEW i \in Child, ChildReceive(i) PROVE NoOrphan'
  BY <1>22, <1>pc, <1>victim, <1>cpc, <1>cur
  DEF ChildReceive, ChildMove, Die, NoOrphan, Alive, PCs, CPCs, Nil, runner, budget,
      locals, backend
<1>23. ASSUME NEW i \in Child, ChildServe(i) PROVE NoOrphan'
  BY <1>23, <1>pc, <1>victim, <1>cpc, <1>cur
  DEF ChildServe, ChildLoad, ChildPredict, ChildExit, ChildMove, Reply, Die, NoOrphan,
      Alive, PCs, CPCs, Nil, runner, budget, locals, backend
<1>24. ASSUME NEW i \in Child, ChildFinish(i) PROVE NoOrphan'
  BY <1>24, <1>pc, <1>victim, <1>cpc, <1>cur
  DEF ChildFinish, Reply, NoOrphan, Alive, PCs, CPCs, Nil, runner, budget, locals, backend
<1>25. ASSUME NEW i \in Child, ChildCrash(i) PROVE NoOrphan'
  BY <1>25, <1>pc, <1>victim, <1>cpc, <1>cur
  DEF ChildCrash, Die, NoOrphan, Alive, PCs, CPCs, Nil, runner, budget, locals, backend
<1>26. CASE UNCHANGED vars
  BY <1>26 DEF NoOrphan, Alive, PCs, CPCs, Nil, vars, runner, budget, locals, backend
<1>. QED
  BY <1>1, <1>2, <1>3, <1>4, <1>5, <1>6, <1>7, <1>8, <1>9, <1>10, <1>11, <1>12, <1>13,
     <1>14, <1>15, <1>16, <1>17, <1>18, <1>19, <1>20, <1>21, <1>22, <1>23, <1>24, <1>25,
     <1>26
  DEF Next, ThreadStep, ChildStep

-----------------------------------------------------------------------------
(***************************************************************************)
(* Frames                                                                  *)
(***************************************************************************)
\* A step that does not take a new request id leaves the current request and
\* its generation alone, or leaves no current request.
RequestKept ==
    \/ rid' = rid + 1
    \/ rid' = rid /\ (Asked' => Asked /\ want'["worker"] = want["worker"])

\* Every step keeps the request in that sense.
LEMMA RequestStep ==
  ASSUME TypeOK, ThreadInv, [Next]_vars
  PROVE  RequestKept
<1>pc. pc \in [Thread -> PCs]
  BY TypeParts DEF ControlOK
<1>phase. phase \in [Thread -> Phases]
  BY TypeParts DEF ControlOK
<1>want. want \in [Thread -> 0..MaxGeneration]
  BY TypeParts DEF ControlOK
<1>outcome. outcome \in [Thread -> Outcomes]
  BY TypeParts DEF ControlOK
<1>rid. rid \in 0..MaxRequest
  BY TypeParts DEF ControlOK
<1>. USE WorkerThread
<1>1. CASE Deploy
  BY <1>1, <1>pc, <1>phase, <1>want, <1>outcome, <1>rid
  DEF Deploy, Goto, RequestKept, Asked, ThreadInv, Talking, PCs, Phases, Outcomes, Nil,
      runner, budget, locals, backend
<1>2. CASE BeginRequest
  BY <1>2, <1>pc, <1>phase, <1>want, <1>outcome, <1>rid
  DEF BeginRequest, Goto, RequestKept, Asked, ThreadInv, Talking, PCs, Phases, Outcomes,
      Nil, runner, budget, locals, backend
<1>3. CASE Probe
  BY <1>3, <1>pc, <1>phase, <1>want, <1>outcome, <1>rid
  DEF Probe, Goto, RequestKept, Asked, ThreadInv, Talking, PCs, Phases, Outcomes, Nil,
      runner, budget, locals, backend
<1>4. CASE Close
  BY <1>4, <1>pc, <1>phase, <1>want, <1>outcome, <1>rid
  DEF Close, Goto, RequestKept, Asked, ThreadInv, Talking, PCs, Phases, Outcomes, Nil,
      runner, budget, locals, backend
<1>5. CASE WindowSlides
  BY <1>5, <1>pc, <1>phase, <1>want, <1>outcome, <1>rid
  DEF WindowSlides, Goto, RequestKept, Asked, ThreadInv, Talking, PCs, Phases, Outcomes,
      Nil, runner, budget, locals, backend
<1>6. CASE Join
  BY <1>6, <1>pc, <1>phase, <1>want, <1>outcome, <1>rid
  DEF Join, Goto, RequestKept, Asked, ThreadInv, Talking, PCs, Phases, Outcomes, Nil,
      runner, budget, locals, backend
<1>7. ASSUME NEW t \in Thread, Start(t) PROVE RequestKept
  BY <1>7, <1>pc, <1>phase, <1>want, <1>outcome, <1>rid
  DEF Start, Started, Shut, Goto, RequestKept, Asked, ThreadInv, Talking, PCs, Phases,
      Outcomes, Nil, runner, budget, locals, backend
<1>8. ASSUME NEW t \in Thread, Respawn(t) PROVE RequestKept
  BY <1>8, <1>pc, <1>phase, <1>want, <1>outcome, <1>rid
  DEF Respawn, Started, End, Goto, RequestKept, Asked, ThreadInv, Talking, PCs, Phases,
      Outcomes, Nil, runner, budget, locals, backend
<1>9. ASSUME NEW t \in Thread, Load(t) PROVE RequestKept
  BY <1>9, <1>pc, <1>phase, <1>want, <1>outcome, <1>rid
  DEF Load, Loaded, End, Goto, RequestKept, Asked, ThreadInv, Talking, PCs, Phases,
      Outcomes, Nil, runner, budget, locals, backend
<1>10. ASSUME NEW t \in Thread, SendHead(t) PROVE RequestKept
  BY <1>10, <1>pc, <1>phase, <1>want, <1>outcome, <1>rid
  DEF SendHead, Goto, RequestKept, Asked, ThreadInv, Talking, PCs, Phases, Outcomes, Nil,
      runner, budget, locals, backend
<1>11. ASSUME NEW t \in Thread, SendRest(t) PROVE RequestKept
  BY <1>11, <1>pc, <1>phase, <1>want, <1>outcome, <1>rid
  DEF SendRest, Goto, RequestKept, Asked, ThreadInv, Talking, PCs, Phases, Outcomes, Nil,
      runner, budget, locals, backend
<1>12. ASSUME NEW t \in Thread, SendTimeout(t) PROVE RequestKept
  BY <1>12, <1>pc, <1>phase, <1>want, <1>outcome, <1>rid
  DEF SendTimeout, Goto, RequestKept, Asked, ThreadInv, Talking, PCs, Phases, Outcomes,
      Nil, runner, budget, locals, backend
<1>13. ASSUME NEW t \in Thread, Await(t) PROVE RequestKept
  BY <1>13, <1>pc, <1>phase, <1>want, <1>outcome, <1>rid
  DEF Await, End, Goto, RequestKept, Asked, ThreadInv, Talking, PCs, Phases, Outcomes,
      Nil, runner, budget, locals, backend
<1>14. ASSUME NEW t \in Thread, ReadHead(t) PROVE RequestKept
  BY <1>14, <1>pc, <1>phase, <1>want, <1>outcome, <1>rid
  DEF ReadHead, Goto, RequestKept, Asked, ThreadInv, Talking, PCs, Phases, Outcomes, Nil,
      runner, budget, locals, backend
<1>15. ASSUME NEW t \in Thread, ReadBody(t) PROVE RequestKept
  BY <1>15, <1>pc, <1>phase, <1>want, <1>outcome, <1>rid
  DEF ReadBody, Goto, RequestKept, Asked, ThreadInv, Talking, PCs, Phases, Outcomes, Nil,
      runner, budget, locals, backend
<1>16. ASSUME NEW t \in Thread, ReadError(t) PROVE RequestKept
  BY <1>16, <1>pc, <1>phase, <1>want, <1>outcome, <1>rid
  DEF ReadError, Goto, RequestKept, Asked, ThreadInv, Talking, PCs, Phases, Outcomes, Nil,
      runner, budget, locals, backend
<1>17. ASSUME NEW t \in Thread, ReadTimeout(t) PROVE RequestKept
  BY <1>17, <1>pc, <1>phase, <1>want, <1>outcome, <1>rid
  DEF ReadTimeout, Goto, RequestKept, Asked, ThreadInv, Talking, PCs, Phases, Outcomes,
      Nil, runner, budget, locals, backend
<1>18. ASSUME NEW t \in Thread, Handle(t) PROVE RequestKept
  BY <1>18, <1>pc, <1>phase, <1>want, <1>outcome, <1>rid
  DEF Handle, HandleHello, HandleLoad, HandlePredict, Started, Loaded, End, Goto,
      RequestKept, Asked, ThreadInv, Talking, PCs, Phases, Outcomes, Nil, runner, budget,
      locals, backend
<1>19. ASSUME NEW t \in Thread, Detach(t) PROVE RequestKept
  BY <1>19, <1>pc, <1>phase, <1>want, <1>outcome, <1>rid
  DEF Detach, Goto, RequestKept, Asked, ThreadInv, Talking, PCs, Phases, Outcomes, Nil,
      runner, budget, locals, backend
<1>20. ASSUME NEW t \in Thread, Kill(t) PROVE RequestKept
  BY <1>20, <1>pc, <1>phase, <1>want, <1>outcome, <1>rid
  DEF Kill, Aborted, End, Shut, Die, Goto, RequestKept, Asked, ThreadInv, Talking, PCs,
      Phases, Outcomes, Nil, runner, budget, locals, backend
<1>21. ASSUME NEW i \in Child, ChildStep(i) \/ ChildCrash(i) PROVE RequestKept
  BY <1>21, ChildFootprint
  DEF RequestKept, Asked, ThreadInv, Talking, PCs, Phases, Outcomes, Nil
<1>22. CASE UNCHANGED vars
  BY <1>22
  DEF RequestKept, Asked, ThreadInv, Talking, PCs, Phases, Outcomes, Nil, vars, runner,
      budget, locals, backend
<1>. QED
  BY <1>1, <1>2, <1>3, <1>4, <1>5, <1>6, <1>7, <1>8, <1>9, <1>10, <1>11, <1>12, <1>13,
     <1>14, <1>15, <1>16, <1>17, <1>18, <1>19, <1>20, <1>21, <1>22
  DEF Next, ThreadStep

\* So every good frame stays good.
LEMMA GoodKept ==
  ASSUME TypeOK, ThreadInv, [Next]_vars, NEW f \in Frame, Good(f)
  PROVE  Good(f)'
<1>1. rid \in 0..MaxRequest /\ f.id \in 0..MaxRequest
  BY FrameFields DEF TypeOK
<1>. QED
  BY <1>1, RequestStep, BoundAssumption DEF Good, RequestKept

\* More pieces may be on a socket than there are.
LEMMA PieceSubset ==
  ASSUME NEW G, NEW H, G \subseteq H, NEW D, NEW q \in [D -> Seq(PieceOf(G))]
  PROVE  q \in [D -> Seq(PieceOf(H))]
<1>1. PieceOf(G) \subseteq PieceOf(H)
  BY DEF PieceOf
<1>2. \A s \in Seq(PieceOf(G)) : s \in Seq(PieceOf(H))
  <2>. SUFFICES ASSUME NEW s \in Seq(PieceOf(G)) PROVE s \in Seq(PieceOf(H))
    OBVIOUS
  <2>1. s = [k \in 1..Len(s) |-> s[k]] /\ Len(s) \in Nat
    OBVIOUS
  <2>2. \A k \in 1..Len(s) : s[k] \in PieceOf(H)
    BY <1>1
  <2>. QED
    BY <2>1, <2>2
<1>. QED
  BY <1>2

\* Every step keeps the frames good.
LEMMA FrameNext ==
  ASSUME TypeOK, ThreadInv, FrameInv, RunInv, [Next]_vars
  PROVE  FrameInv'
<1>. DEFINE H == {f \in Frame : Good(f)'}
<1>1. H \in SUBSET Frame
  OBVIOUS
<1>2. GoodFrame \subseteq H
  BY GoodKept DEF GoodFrame
<1>3. \A f \in Frame : f.op \notin {"predict", "result"} => f \in H
  BY DEF Good
<1>4. \A f \in H : Spoilt(f) \in H
  BY SpoiltFields DEF Good
<1>5. ASSUME NEW t \in Thread, pc[t] \in {"send", "rest"} PROVE Outgoing(t) \in H
  <2>1. phase[t] \in {"load", "predict", "close"} /\ want[t] \in 0..MaxGeneration
    BY <1>5, TypeParts DEF ControlOK, Phases, ThreadInv
  <2>2. (IF phase[t] = "predict" THEN rid ELSE 0) \in 0..MaxRequest /\ rid \in Nat
    BY TypeParts, BoundAssumption DEF ControlOK
  <2>3. Outgoing(t) \in Frame
    BY <2>1, <2>2, MsgType DEF Outgoing
  <2>4. /\ Outgoing(t).op = phase[t] /\ Outgoing(t).gen = want[t]
        /\ phase[t] = "predict" => Outgoing(t).id = rid /\ t = "worker"
    <3>1. phase[t] = "predict" => t = "worker"
      BY DEF ThreadInv
    <3>. QED
      BY <3>1 DEF Outgoing, Msg
  <2>5. Good(Outgoing(t))
    BY <2>1, <2>2, <2>4 DEF Good
  <2>. QED
    BY <2>3, <2>5, <1>2 DEF GoodFrame
<1>6. ASSUME NEW i \in Child, cpc[i] = "run" PROVE Computed(i) \in H
  <2>1. /\ job[i] \in Frame /\ Good(job[i])
        /\ job[i].op = "predict" /\ job[i].gen = model[i].gen
    BY <1>6 DEF FrameInv, RunInv, GoodFrame
  <2>2. /\ job[i].id \in 0..MaxRequest /\ model[i].gen \in 0..MaxGeneration
        /\ (job[i].whole /\ model[i].whole) \in BOOLEAN
    BY TypeParts, FrameFields
  <2>3. Computed(i) \in Frame
    BY <2>2 DEF Computed, Frame
  <2>4. Computed(i).id = job[i].id /\ Computed(i).gen = job[i].gen
    BY <2>1 DEF Computed
  <2>5. Good(Computed(i))
    BY <2>1, <2>4 DEF Good
  <2>. QED
    BY <2>3, <2>5, <1>2 DEF GoodFrame
<1>7. GoodFrame' = H
  BY DEF GoodFrame
<1>. HIDE DEF H
<1>8. /\ frame \in [Thread -> H] /\ model \in [Child -> H] /\ job \in [Child -> H]
      /\ toChild \in [Child -> Seq(PieceOf(H))] /\ toParent \in [Child -> Seq(PieceOf(H))]
  BY <1>2, PieceSubset DEF FrameInv
<1>9. ControlOK
  BY TypeParts
<1>10. /\ frame' \in [Thread -> H] /\ model' \in [Child -> H] /\ job' \in [Child -> H]
       /\ toChild' \in [Child -> Seq(PieceOf(H))] /\ toParent' \in [Child -> Seq(PieceOf(H))]
  BY <1>1, <1>3, <1>4, <1>5, <1>6, <1>8, <1>9, FramesNext
<1>. QED
  BY <1>7, <1>10 DEF FrameInv, PieceOf

\* A running child keeps its job and its model.
LEMMA RunNext ==
  ASSUME TypeOK, RunInv, [Next]_vars
  PROVE  RunInv'
<1>cpc. cpc \in [Child -> CPCs]
  BY TypeParts DEF ControlOK
<1>model. model \in [Child -> Frame]
  BY TypeParts
<1>job. job \in [Child -> Frame]
  BY TypeParts
<1>1. ASSUME UNCHANGED <<cpc, model, job>> PROVE RunInv'
  BY <1>1 DEF RunInv
<1>2. ASSUME NEW i \in Child, Die(i) PROVE RunInv'
  BY <1>2, <1>cpc, <1>model, <1>job DEF Die, RunInv
<1>3. ASSUME NEW t \in Thread, Respawn(t) PROVE RunInv'
  BY <1>3, <1>cpc DEF Respawn, RunInv
<1>4. ASSUME NEW t \in Thread, Kill(t) PROVE RunInv'
  <2>1. UNCHANGED <<cpc, model, job>> \/ (victim[t] \in Child /\ Die(victim[t]))
    BY <1>4, TypeParts DEF Kill, ControlOK, backend
  <2>. QED
    BY <2>1, <1>1, <1>2
<1>5. ASSUME NEW t \in Thread, ThreadStep(t), ~Respawn(t), ~Kill(t) PROVE RunInv'
  <2>1. UNCHANGED <<cpc, model, job>>
    BY <1>5
    DEF ThreadStep, Start, Load, SendHead, SendRest, SendTimeout, Await, ReadHead, ReadBody,
        ReadError, ReadTimeout, Handle, Detach, backend
  <2>. QED
    BY <2>1, <1>1
<1>6. ASSUME NEW i \in Child, ChildBoot(i) PROVE RunInv'
  <2>1. (cpc' = [cpc EXCEPT ![i] = "loop"] /\ UNCHANGED <<model, job>>) \/ Die(i)
    BY <1>6 DEF ChildBoot
  <2>. QED
    BY <2>1, <1>2, <1>cpc DEF RunInv
<1>7. ASSUME NEW i \in Child, ChildReceive(i) PROVE RunInv'
  <2>1. CASE Die(i)
    BY <2>1, <1>2
  <2>2. CASE ~Die(i)
    BY <1>7, <2>2, <1>cpc, <1>job DEF ChildReceive, ChildMove, RunInv
  <2>. QED
    BY <2>1, <2>2
<1>8. ASSUME NEW i \in Child, ChildServe(i) PROVE RunInv'
  <2>1. PICK f : ChildLoad(i, f) \/ ChildPredict(i, f) \/ ChildExit(i, f)
    BY <1>8 DEF ChildServe
  <2>2. CASE ChildLoad(i, f)
    BY <2>2, <1>cpc, <1>model, <1>job DEF ChildLoad, ChildMove, RunInv
  <2>3. CASE ChildPredict(i, f)
    BY <2>3, <1>cpc, <1>job DEF ChildPredict, GenerationServed, ChildMove, RunInv
  <2>4. CASE ChildExit(i, f)
    BY <2>4, <1>2 DEF ChildExit
  <2>. QED
    BY <2>1, <2>2, <2>3, <2>4
<1>9. ASSUME NEW i \in Child, ChildFinish(i) PROVE RunInv'
  BY <1>9, <1>cpc, <1>job DEF ChildFinish, RunInv
<1>10. ASSUME NEW i \in Child, ChildCrash(i) PROVE RunInv'
  BY <1>10, <1>2 DEF ChildCrash
<1>11. CASE Deploy \/ BeginRequest \/ Probe \/ Close \/ WindowSlides \/ Join \/ UNCHANGED vars
  <2>1. UNCHANGED <<cpc, model, job>>
    BY <1>11 DEF Deploy, BeginRequest, Probe, Close, WindowSlides, Join, vars, backend
  <2>. QED
    BY <2>1, <1>1
<1>. QED
  BY <1>3, <1>4, <1>5, <1>6, <1>7, <1>8, <1>9, <1>10, <1>11 DEF Next, ChildStep

-----------------------------------------------------------------------------
(***************************************************************************)
(* The result of a request                                                 *)
(***************************************************************************)
\* Only an answer to the current request ends the call with "ok".
LEMMA AnswerStep ==
  ASSUME TypeOK, ThreadInv, FrameInv, Handle("worker"), outcome'["worker"] = "ok"
  PROVE  /\ frame["worker"].op = "result" /\ frame["worker"].id = rid
         /\ frame["worker"].gen = want["worker"]
         /\ pc["worker"] = "handle"
         /\ UNCHANGED <<rid, frame>> /\ want'["worker"] = want["worker"]
<1>1. frame["worker"] \in Frame /\ outcome \in [Thread -> Outcomes]
      /\ pc["worker"] = "handle"
  BY WorkerThread, TypeParts DEF ControlOK, Handle
<1>2. outcome["worker"] # "ok" /\ want["worker"] # Nil
  BY <1>1 DEF ThreadInv
<1>3. phase["worker"] = "predict" /\ HandlePredict("worker")
  BY <1>1, <1>2, WorkerThread
  DEF Handle, HandleHello, HandleLoad, HandlePredict, Started, Loaded, End
<1>4. frame["worker"].op = "result" /\ frame["worker"].id = rid
  BY <1>1, <1>2, <1>3, WorkerThread DEF HandlePredict, ResponseMatches, End
<1>5. Asked
  BY <1>1, <1>3 DEF Asked, Talking
<1>6. frame["worker"].gen = want["worker"]
  BY <1>4, <1>5, WorkerThread DEF FrameInv, GoodFrame, Good
<1>. QED
  BY <1>1, <1>3, <1>4, <1>6 DEF Handle, HandlePredict

\* Every step keeps the result of the last request bound to it.
LEMMA ResultNext ==
  ASSUME TypeOK, ThreadInv, FrameInv, ResultBound, [Next]_vars
  PROVE  ResultBound'
<1>pc. pc \in [Thread -> PCs]
  BY TypeParts DEF ControlOK
<1>want. want \in [Thread -> 0..MaxGeneration]
  BY TypeParts DEF ControlOK
<1>frame. frame \in [Thread -> Frame]
  BY TypeParts
<1>outcome. outcome \in [Thread -> Outcomes]
  BY TypeParts DEF ControlOK
<1>. USE WorkerThread
<1>1. CASE Deploy
  BY <1>1, <1>pc, <1>want, <1>frame, <1>outcome
  DEF Deploy, Goto, ResultBound, ThreadInv, PCs, Outcomes, Nil, runner, budget, locals,
      backend
<1>2. CASE BeginRequest
  BY <1>2, <1>pc, <1>want, <1>frame, <1>outcome
  DEF BeginRequest, Goto, ResultBound, ThreadInv, PCs, Outcomes, Nil, runner, budget,
      locals, backend
<1>3. CASE Probe
  BY <1>3, <1>pc, <1>want, <1>frame, <1>outcome
  DEF Probe, Goto, ResultBound, ThreadInv, PCs, Outcomes, Nil, runner, budget, locals,
      backend
<1>4. CASE Close
  BY <1>4, <1>pc, <1>want, <1>frame, <1>outcome
  DEF Close, Goto, ResultBound, ThreadInv, PCs, Outcomes, Nil, runner, budget, locals,
      backend
<1>5. CASE WindowSlides
  BY <1>5, <1>pc, <1>want, <1>frame, <1>outcome
  DEF WindowSlides, Goto, ResultBound, ThreadInv, PCs, Outcomes, Nil, runner, budget,
      locals, backend
<1>6. CASE Join
  BY <1>6, <1>pc, <1>want, <1>frame, <1>outcome
  DEF Join, Goto, ResultBound, ThreadInv, PCs, Outcomes, Nil, runner, budget, locals,
      backend
<1>7. ASSUME NEW t \in Thread, Start(t) PROVE ResultBound'
  BY <1>7, <1>pc, <1>want, <1>frame, <1>outcome
  DEF Start, Started, Shut, Goto, ResultBound, ThreadInv, PCs, Outcomes, Nil, runner,
      budget, locals, backend
<1>8. ASSUME NEW t \in Thread, Respawn(t) PROVE ResultBound'
  BY <1>8, <1>pc, <1>want, <1>frame, <1>outcome
  DEF Respawn, Started, End, Goto, ResultBound, ThreadInv, PCs, Outcomes, Nil, runner,
      budget, locals, backend
<1>9. ASSUME NEW t \in Thread, Load(t) PROVE ResultBound'
  BY <1>9, <1>pc, <1>want, <1>frame, <1>outcome
  DEF Load, Loaded, End, Goto, ResultBound, ThreadInv, PCs, Outcomes, Nil, runner, budget,
      locals, backend
<1>10. ASSUME NEW t \in Thread, SendHead(t) PROVE ResultBound'
  BY <1>10, <1>pc, <1>want, <1>frame, <1>outcome
  DEF SendHead, Goto, ResultBound, ThreadInv, PCs, Outcomes, Nil, runner, budget, locals,
      backend
<1>11. ASSUME NEW t \in Thread, SendRest(t) PROVE ResultBound'
  BY <1>11, <1>pc, <1>want, <1>frame, <1>outcome
  DEF SendRest, Goto, ResultBound, ThreadInv, PCs, Outcomes, Nil, runner, budget, locals,
      backend
<1>12. ASSUME NEW t \in Thread, SendTimeout(t) PROVE ResultBound'
  BY <1>12, <1>pc, <1>want, <1>frame, <1>outcome
  DEF SendTimeout, Goto, ResultBound, ThreadInv, PCs, Outcomes, Nil, runner, budget,
      locals, backend
<1>13. ASSUME NEW t \in Thread, Await(t) PROVE ResultBound'
  BY <1>13, <1>pc, <1>want, <1>frame, <1>outcome
  DEF Await, End, Goto, ResultBound, ThreadInv, PCs, Outcomes, Nil, runner, budget,
      locals, backend
<1>14. ASSUME NEW t \in Thread, ReadHead(t) PROVE ResultBound'
  BY <1>14, <1>pc, <1>want, <1>frame, <1>outcome
  DEF ReadHead, Goto, ResultBound, ThreadInv, PCs, Outcomes, Nil, runner, budget, locals,
      backend
<1>15. ASSUME NEW t \in Thread, ReadBody(t) PROVE ResultBound'
  BY <1>15, <1>pc, <1>want, <1>frame, <1>outcome
  DEF ReadBody, Goto, ResultBound, ThreadInv, PCs, Outcomes, Nil, runner, budget, locals,
      backend
<1>16. ASSUME NEW t \in Thread, ReadError(t) PROVE ResultBound'
  BY <1>16, <1>pc, <1>want, <1>frame, <1>outcome
  DEF ReadError, Goto, ResultBound, ThreadInv, PCs, Outcomes, Nil, runner, budget, locals,
      backend
<1>17. ASSUME NEW t \in Thread, ReadTimeout(t) PROVE ResultBound'
  BY <1>17, <1>pc, <1>want, <1>frame, <1>outcome
  DEF ReadTimeout, Goto, ResultBound, ThreadInv, PCs, Outcomes, Nil, runner, budget,
      locals, backend
<1>18. ASSUME NEW t \in Thread, Handle(t) PROVE ResultBound'
  <2>1. CASE t # "worker"
    BY <1>18, <2>1, <1>want, <1>outcome, <1>pc
    DEF Handle, HandleHello, HandleLoad, HandlePredict, Started, Loaded, End, Goto,
        ResultBound, ThreadInv
  <2>2. CASE t = "worker"
    BY <1>18, <2>2, AnswerStep DEF ResultBound
  <2>. QED
    BY <2>1, <2>2
<1>19. ASSUME NEW t \in Thread, Detach(t) PROVE ResultBound'
  BY <1>19, <1>pc, <1>want, <1>frame, <1>outcome
  DEF Detach, Goto, ResultBound, ThreadInv, PCs, Outcomes, Nil, runner, budget, locals,
      backend
<1>20. ASSUME NEW t \in Thread, Kill(t) PROVE ResultBound'
  BY <1>20, <1>pc, <1>want, <1>frame, <1>outcome
  DEF Kill, Aborted, End, Shut, Die, Goto, ResultBound, ThreadInv, PCs, Outcomes, Nil,
      runner, budget, locals, backend
<1>21. ASSUME NEW i \in Child, ChildStep(i) \/ ChildCrash(i) PROVE ResultBound'
  BY <1>21, ChildFootprint DEF ResultBound, ThreadInv, PCs, Outcomes, Nil
<1>22. CASE UNCHANGED vars
  BY <1>22
  DEF ResultBound, ThreadInv, PCs, Outcomes, Nil, vars, runner, budget, locals, backend
<1>. QED
  BY <1>1, <1>2, <1>3, <1>4, <1>5, <1>6, <1>7, <1>8, <1>9, <1>10, <1>11, <1>12, <1>13,
     <1>14, <1>15, <1>16, <1>17, <1>18, <1>19, <1>20, <1>21, <1>22
  DEF Next, ThreadStep

\* The invariant is inductive.
LEMMA IInvNext == IInv /\ [Next]_vars => IInv'
<1>. SUFFICES ASSUME IInv, [Next]_vars PROVE IInv'
  OBVIOUS
<1>1. TypeOK'
  BY TypeNext DEF IInv
<1>2. BudgetInv' /\ ThreadInv'
  BY BudgetNext, ThreadNext DEF IInv
<1>3. FrameInv' /\ RunInv'
  BY FrameNext, RunNext DEF IInv
<1>4. ResultBound' /\ NoOrphan'
  BY ResultNext, OrphanNext DEF IInv
<1>. QED
  BY <1>1, <1>2, <1>3, <1>4 DEF IInv

\* The inductive invariant holds in every reachable state of the runner.
THEOREM Invariant == Spec => []IInv
<1>1. Init => IInv
  BY InitIInv
<1>. QED
  BY <1>1, IInvNext, PTL DEF Spec

\* Each variable of the runner, its threads and its children keeps its type:
\* no child is spawned beyond the restart budget, no request id is reused.
THEOREM TypeCorrect == Spec => []TypeOK
<1>1. IInv => TypeOK
  BY DEF IInv
<1>. QED
  BY <1>1, Invariant, PTL

\* No interleaving of respawn, abort and close leaks a backend process.
THEOREM NoOrphanEver == Spec => []NoOrphan
<1>1. IInv => NoOrphan
  BY DEF IInv
<1>. QED
  BY <1>1, Invariant, PTL

\* The logits a request returns carry its id and come from its generation,
\* with the readiness probe, close() and every fault, and with frames that mix
\* on the socket.
THEOREM ResultAlwaysBound == Spec => []ResultBound
<1>1. IInv => ResultBound
  BY DEF IInv
<1>. QED
  BY <1>1, Invariant, PTL

-----------------------------------------------------------------------------
(***************************************************************************)
(* A worker that has the runner for itself                                 *)
(***************************************************************************)
\* Deployments and loads keep the order of the generations.
LEMMA GrowNext ==
  ASSUME "monitor" \notin Thread, TypeOK, ThreadInv, CloserInv, GrowInv, [Next]_vars
  PROVE  GrowInv'
<1>active. active \in 1..MaxGeneration
  BY TypeParts DEF ControlOK
<1>gen. gen \in 0..MaxGeneration
  BY TypeParts DEF ControlOK
<1>want. want \in [Thread -> 0..MaxGeneration]
  BY TypeParts DEF ControlOK
<1>pc. pc \in [Thread -> PCs]
  BY TypeParts DEF ControlOK
<1>phase. phase \in [Thread -> Phases]
  BY TypeParts DEF ControlOK
<1>. USE WorkerThread, BoundAssumption, ThreadAssumption
<1>1. CASE Deploy
  BY <1>1, <1>active, <1>gen, <1>want, <1>pc, <1>phase
  DEF Deploy, Goto, GrowInv, CloserInv, ThreadInv, Talking, PCs, Phases, Nil, runner,
      budget, locals, backend
<1>2. CASE BeginRequest
  BY <1>2, <1>active, <1>gen, <1>want, <1>pc, <1>phase
  DEF BeginRequest, Goto, GrowInv, CloserInv, ThreadInv, Talking, PCs, Phases, Nil,
      runner, budget, locals, backend
<1>3. CASE Probe
  BY <1>3, <1>active, <1>gen, <1>want, <1>pc, <1>phase
  DEF Probe, Goto, GrowInv, CloserInv, ThreadInv, Talking, PCs, Phases, Nil, runner,
      budget, locals, backend
<1>4. CASE Close
  BY <1>4, <1>active, <1>gen, <1>want, <1>pc, <1>phase
  DEF Close, Goto, GrowInv, CloserInv, ThreadInv, Talking, PCs, Phases, Nil, runner,
      budget, locals, backend
<1>5. CASE WindowSlides
  BY <1>5, <1>active, <1>gen, <1>want, <1>pc, <1>phase
  DEF WindowSlides, Goto, GrowInv, CloserInv, ThreadInv, Talking, PCs, Phases, Nil,
      runner, budget, locals, backend
<1>6. CASE Join
  BY <1>6, <1>active, <1>gen, <1>want, <1>pc, <1>phase
  DEF Join, Goto, GrowInv, CloserInv, ThreadInv, Talking, PCs, Phases, Nil, runner,
      budget, locals, backend
<1>7. ASSUME NEW t \in Thread, Start(t) PROVE GrowInv'
  BY <1>7, <1>active, <1>gen, <1>want, <1>pc, <1>phase
  DEF Start, Started, Shut, Goto, GrowInv, CloserInv, ThreadInv, Talking, PCs, Phases,
      Nil, runner, budget, locals, backend
<1>8. ASSUME NEW t \in Thread, Respawn(t) PROVE GrowInv'
  BY <1>8, <1>active, <1>gen, <1>want, <1>pc, <1>phase
  DEF Respawn, Started, End, Goto, GrowInv, CloserInv, ThreadInv, Talking, PCs, Phases,
      Nil, runner, budget, locals, backend
<1>9. ASSUME NEW t \in Thread, Load(t) PROVE GrowInv'
  BY <1>9, <1>active, <1>gen, <1>want, <1>pc, <1>phase
  DEF Load, Loaded, End, Goto, GrowInv, CloserInv, ThreadInv, Talking, PCs, Phases, Nil,
      runner, budget, locals, backend
<1>10. ASSUME NEW t \in Thread, SendHead(t) PROVE GrowInv'
  BY <1>10, <1>active, <1>gen, <1>want, <1>pc, <1>phase
  DEF SendHead, Goto, GrowInv, CloserInv, ThreadInv, Talking, PCs, Phases, Nil, runner,
      budget, locals, backend
<1>11. ASSUME NEW t \in Thread, SendRest(t) PROVE GrowInv'
  BY <1>11, <1>active, <1>gen, <1>want, <1>pc, <1>phase
  DEF SendRest, Goto, GrowInv, CloserInv, ThreadInv, Talking, PCs, Phases, Nil, runner,
      budget, locals, backend
<1>12. ASSUME NEW t \in Thread, SendTimeout(t) PROVE GrowInv'
  BY <1>12, <1>active, <1>gen, <1>want, <1>pc, <1>phase
  DEF SendTimeout, Goto, GrowInv, CloserInv, ThreadInv, Talking, PCs, Phases, Nil, runner,
      budget, locals, backend
<1>13. ASSUME NEW t \in Thread, Await(t) PROVE GrowInv'
  BY <1>13, <1>active, <1>gen, <1>want, <1>pc, <1>phase
  DEF Await, End, Goto, GrowInv, CloserInv, ThreadInv, Talking, PCs, Phases, Nil, runner,
      budget, locals, backend
<1>14. ASSUME NEW t \in Thread, ReadHead(t) PROVE GrowInv'
  BY <1>14, <1>active, <1>gen, <1>want, <1>pc, <1>phase
  DEF ReadHead, Goto, GrowInv, CloserInv, ThreadInv, Talking, PCs, Phases, Nil, runner,
      budget, locals, backend
<1>15. ASSUME NEW t \in Thread, ReadBody(t) PROVE GrowInv'
  BY <1>15, <1>active, <1>gen, <1>want, <1>pc, <1>phase
  DEF ReadBody, Goto, GrowInv, CloserInv, ThreadInv, Talking, PCs, Phases, Nil, runner,
      budget, locals, backend
<1>16. ASSUME NEW t \in Thread, ReadError(t) PROVE GrowInv'
  BY <1>16, <1>active, <1>gen, <1>want, <1>pc, <1>phase
  DEF ReadError, Goto, GrowInv, CloserInv, ThreadInv, Talking, PCs, Phases, Nil, runner,
      budget, locals, backend
<1>17. ASSUME NEW t \in Thread, ReadTimeout(t) PROVE GrowInv'
  BY <1>17, <1>active, <1>gen, <1>want, <1>pc, <1>phase
  DEF ReadTimeout, Goto, GrowInv, CloserInv, ThreadInv, Talking, PCs, Phases, Nil, runner,
      budget, locals, backend
<1>18. ASSUME NEW t \in Thread, Handle(t) PROVE GrowInv'
  BY <1>18, <1>active, <1>gen, <1>want, <1>pc, <1>phase
  DEF Handle, HandleHello, HandleLoad, HandlePredict, Started, Loaded, End, Goto, GrowInv,
      CloserInv, ThreadInv, Talking, PCs, Phases, Nil, runner, budget, locals, backend
<1>19. ASSUME NEW t \in Thread, Detach(t) PROVE GrowInv'
  BY <1>19, <1>active, <1>gen, <1>want, <1>pc, <1>phase
  DEF Detach, Goto, GrowInv, CloserInv, ThreadInv, Talking, PCs, Phases, Nil, runner,
      budget, locals, backend
<1>20. ASSUME NEW t \in Thread, Kill(t) PROVE GrowInv'
  BY <1>20, <1>active, <1>gen, <1>want, <1>pc, <1>phase
  DEF Kill, Aborted, End, Shut, Die, Goto, GrowInv, CloserInv, ThreadInv, Talking, PCs,
      Phases, Nil, runner, budget, locals, backend
<1>21. ASSUME NEW i \in Child, ChildStep(i) \/ ChildCrash(i) PROVE GrowInv'
  BY <1>21, ChildFootprint DEF GrowInv, CloserInv, ThreadInv, Talking, PCs, Phases, Nil
<1>22. CASE UNCHANGED vars
  BY <1>22
  DEF GrowInv, CloserInv, ThreadInv, Talking, PCs, Phases, Nil, vars, runner, budget,
      locals, backend
<1>. QED
  BY <1>1, <1>2, <1>3, <1>4, <1>5, <1>6, <1>7, <1>8, <1>9, <1>10, <1>11, <1>12, <1>13,
     <1>14, <1>15, <1>16, <1>17, <1>18, <1>19, <1>20, <1>21, <1>22
  DEF Next, ThreadStep

\* close() takes no other step.
LEMMA CloserNext ==
  ASSUME TypeOK, CloserInv, [Next]_vars
  PROVE  CloserInv'
<1>pc. pc \in [Thread -> PCs]
  BY TypeParts DEF ControlOK
<1>phase. phase \in [Thread -> Phases]
  BY TypeParts DEF ControlOK
<1>. USE WorkerThread
<1>1. CASE Deploy
  BY <1>1, <1>pc, <1>phase
  DEF Deploy, Goto, CloserInv, PCs, Phases, runner, budget, locals, backend
<1>2. CASE BeginRequest
  BY <1>2, <1>pc, <1>phase
  DEF BeginRequest, Goto, CloserInv, PCs, Phases, runner, budget, locals, backend
<1>3. CASE Probe
  BY <1>3, <1>pc, <1>phase
  DEF Probe, Goto, CloserInv, PCs, Phases, runner, budget, locals, backend
<1>4. CASE Close
  BY <1>4, <1>pc, <1>phase
  DEF Close, Goto, CloserInv, PCs, Phases, runner, budget, locals, backend
<1>5. CASE WindowSlides
  BY <1>5, <1>pc, <1>phase
  DEF WindowSlides, Goto, CloserInv, PCs, Phases, runner, budget, locals, backend
<1>6. CASE Join
  BY <1>6, <1>pc, <1>phase
  DEF Join, Goto, CloserInv, PCs, Phases, runner, budget, locals, backend
<1>7. ASSUME NEW t \in Thread, Start(t) PROVE CloserInv'
  BY <1>7, <1>pc, <1>phase
  DEF Start, Started, Shut, Goto, CloserInv, PCs, Phases, runner, budget, locals, backend
<1>8. ASSUME NEW t \in Thread, Respawn(t) PROVE CloserInv'
  BY <1>8, <1>pc, <1>phase
  DEF Respawn, Started, End, Goto, CloserInv, PCs, Phases, runner, budget, locals, backend
<1>9. ASSUME NEW t \in Thread, Load(t) PROVE CloserInv'
  BY <1>9, <1>pc, <1>phase
  DEF Load, Loaded, End, Goto, CloserInv, PCs, Phases, runner, budget, locals, backend
<1>10. ASSUME NEW t \in Thread, SendHead(t) PROVE CloserInv'
  BY <1>10, <1>pc, <1>phase
  DEF SendHead, Goto, CloserInv, PCs, Phases, runner, budget, locals, backend
<1>11. ASSUME NEW t \in Thread, SendRest(t) PROVE CloserInv'
  BY <1>11, <1>pc, <1>phase
  DEF SendRest, Goto, CloserInv, PCs, Phases, runner, budget, locals, backend
<1>12. ASSUME NEW t \in Thread, SendTimeout(t) PROVE CloserInv'
  BY <1>12, <1>pc, <1>phase
  DEF SendTimeout, Goto, CloserInv, PCs, Phases, runner, budget, locals, backend
<1>13. ASSUME NEW t \in Thread, Await(t) PROVE CloserInv'
  BY <1>13, <1>pc, <1>phase
  DEF Await, End, Goto, CloserInv, PCs, Phases, runner, budget, locals, backend
<1>14. ASSUME NEW t \in Thread, ReadHead(t) PROVE CloserInv'
  BY <1>14, <1>pc, <1>phase
  DEF ReadHead, Goto, CloserInv, PCs, Phases, runner, budget, locals, backend
<1>15. ASSUME NEW t \in Thread, ReadBody(t) PROVE CloserInv'
  BY <1>15, <1>pc, <1>phase
  DEF ReadBody, Goto, CloserInv, PCs, Phases, runner, budget, locals, backend
<1>16. ASSUME NEW t \in Thread, ReadError(t) PROVE CloserInv'
  BY <1>16, <1>pc, <1>phase
  DEF ReadError, Goto, CloserInv, PCs, Phases, runner, budget, locals, backend
<1>17. ASSUME NEW t \in Thread, ReadTimeout(t) PROVE CloserInv'
  BY <1>17, <1>pc, <1>phase
  DEF ReadTimeout, Goto, CloserInv, PCs, Phases, runner, budget, locals, backend
<1>18. ASSUME NEW t \in Thread, Handle(t) PROVE CloserInv'
  BY <1>18, <1>pc, <1>phase
  DEF Handle, HandleHello, HandleLoad, HandlePredict, Started, Loaded, End, Goto,
      CloserInv, PCs, Phases, runner, budget, locals, backend
<1>19. ASSUME NEW t \in Thread, Detach(t) PROVE CloserInv'
  BY <1>19, <1>pc, <1>phase
  DEF Detach, Goto, CloserInv, PCs, Phases, runner, budget, locals, backend
<1>20. ASSUME NEW t \in Thread, Kill(t) PROVE CloserInv'
  BY <1>20, <1>pc, <1>phase
  DEF Kill, Aborted, End, Shut, Die, Goto, CloserInv, PCs, Phases, runner, budget, locals,
      backend
<1>21. ASSUME NEW i \in Child, ChildStep(i) \/ ChildCrash(i) PROVE CloserInv'
  BY <1>21, ChildFootprint DEF CloserInv, PCs, Phases
<1>22. CASE UNCHANGED vars
  BY <1>22 DEF CloserInv, PCs, Phases, vars, runner, budget, locals, backend
<1>. QED
  BY <1>1, <1>2, <1>3, <1>4, <1>5, <1>6, <1>7, <1>8, <1>9, <1>10, <1>11, <1>12, <1>13,
     <1>14, <1>15, <1>16, <1>17, <1>18, <1>19, <1>20, <1>21, <1>22
  DEF Next, ThreadStep

\* While the worker is alone, only it and the children take steps.
LEMMA AloneStep ==
  ASSUME "monitor" \notin Thread, TypeOK, CloserInv, [Next]_vars, Alone'
  PROVE  /\ Alone
         /\ \/ Deploy \/ BeginRequest \/ WindowSlides \/ ThreadStep("worker")
            \/ \E i \in Child : ChildStep(i) \/ ChildCrash(i)
            \/ UNCHANGED vars
<1>. USE WorkerThread, ThreadAssumption
<1>1. pc \in [Thread -> PCs]
  BY TypeParts DEF ControlOK
<1>2. CASE Close \/ Join \/ Probe
  BY <1>1, <1>2 DEF Close, Join, Probe, Goto, Alone
<1>3. ASSUME NEW t \in Thread, ThreadStep(t), t # "worker" PROVE FALSE
  <2>1. /\ t = "closer"
        /\ pc[t] \in {"idle", "send", "rest", "abort", "kill", "join", "done"}
        /\ pc[t] = "rest" => phase[t] = "close"
    BY <1>3 DEF CloserInv
  <2>2. SendHead(t) \/ SendRest(t) \/ SendTimeout(t) \/ Detach(t) \/ Kill(t)
    BY <1>3, <2>1
    DEF ThreadStep, Start, Respawn, Load, Await, ReadHead, ReadBody, ReadError, ReadTimeout,
        Handle
  <2>. QED
    BY <1>1, <2>1, <2>2
    DEF SendHead, SendRest, SendTimeout, Detach, Kill, Aborted, Goto, Alone
<1>4. CASE Deploy \/ BeginRequest \/ WindowSlides
  BY <1>1, <1>4 DEF Deploy, BeginRequest, WindowSlides, Goto, Alone
<1>5. CASE ThreadStep("worker")
  <2>1. \A t \in Thread : t # "worker" => pc'[t] = pc[t]
    BY <1>1, <1>5
    DEF ThreadStep, Start, Respawn, Load, SendHead, SendRest, SendTimeout, Await, ReadHead,
        ReadBody, ReadError, ReadTimeout, Handle, HandleHello, HandleLoad, HandlePredict,
        Detach, Kill, Aborted, Started, Loaded, End, Goto
  <2>. QED
    BY <1>5, <2>1 DEF Alone
<1>6. ASSUME NEW i \in Child, ChildStep(i) \/ ChildCrash(i) PROVE Alone
  BY <1>6, ChildFootprint DEF Alone
<1>7. CASE UNCHANGED vars
  BY <1>7 DEF vars, Alone
<1>. QED
  BY <1>2, <1>3, <1>4, <1>5, <1>6, <1>7 DEF Next

\* The worker's frame is whole and says what it is about.
LEMMA WorkerFrame ==
  ASSUME TypeOK, ThreadInv, pc["worker"] # "idle", phase["worker"] # "hello"
  PROVE  /\ Outgoing("worker") \in Frame /\ Outgoing("worker").whole
         /\ phase["worker"] \in {"load", "predict"}
         /\ Outgoing("worker").op = phase["worker"]
         /\ Outgoing("worker").gen = want["worker"]
         /\ phase["worker"] = "load" => Outgoing("worker") = Msg("load", 0, want["worker"])
<1>1. phase["worker"] \in {"load", "predict"} /\ want["worker"] \in 0..MaxGeneration
  BY TypeParts, WorkerThread DEF ControlOK, Phases, ThreadInv
<1>2. (IF phase["worker"] = "predict" THEN rid ELSE 0) \in 0..MaxRequest
  BY TypeParts, BoundAssumption DEF ControlOK
<1>3. Outgoing("worker") \in Frame
  BY <1>1, <1>2, MsgType DEF Outgoing
<1>. QED
  BY <1>1, <1>3 DEF Outgoing, Msg

\* The two pieces of a frame follow each other.
LEMMA PairPieces ==
  ASSUME NEW f \in Frame
  PROVE  /\ Head(Pair(f)) = HeadOf(f) /\ Tail(Pair(f)) = <<BodyOf(f)>> /\ Pair(f) # <<>>
         /\ Head(<<HeadOf(f)>>) = HeadOf(f) /\ Tail(<<HeadOf(f)>>) = <<>>
         /\ <<HeadOf(f)>> # <<>>
         /\ Head(<<BodyOf(f)>>) = BodyOf(f) /\ Tail(<<BodyOf(f)>>) = <<>>
         /\ <<BodyOf(f)>> # <<>>
         /\ Append(<<HeadOf(f)>>, BodyOf(f)) = Pair(f) /\ Append(<<>>, HeadOf(f)) = <<HeadOf(f)>>
         /\ Append(<<>>, BodyOf(f)) = <<BodyOf(f)>>
         /\ <<>> \o Pair(f) = Pair(f)
<1>1. HeadOf(f) \in PieceOf(Frame) /\ BodyOf(f) \in PieceOf(Frame)
  BY DEF HeadOf, BodyOf, PieceOf
<1>2. Head(Pair(f)) = HeadOf(f) /\ Tail(Pair(f)) = <<BodyOf(f)>> /\ Pair(f) # <<>>
  BY <1>1, TwoPieces DEF Pair
<1>3. /\ Head(<<HeadOf(f)>>) = HeadOf(f) /\ Tail(<<HeadOf(f)>>) = <<>> /\ <<HeadOf(f)>> # <<>>
      /\ Head(<<BodyOf(f)>>) = BodyOf(f) /\ Tail(<<BodyOf(f)>>) = <<>> /\ <<BodyOf(f)>> # <<>>
  BY <1>1, OnePiece
<1>4. Append(<<HeadOf(f)>>, BodyOf(f)) = Pair(f) /\ Append(<<>>, HeadOf(f)) = <<HeadOf(f)>>
      /\ Append(<<>>, BodyOf(f)) = <<BodyOf(f)>>
  BY <1>1, FirstPiece, SecondPiece DEF Pair
<1>5. <<>> \o Pair(f) = Pair(f)
  BY <1>1 DEF Pair
<1>. QED
  BY <1>2, <1>3, <1>4, <1>5

\* A reply to a reader that has got everything is the only frame on the way.
LEMMA ReplyPair ==
  ASSUME NEW i \in Child, NEW f \in Frame, Reply(i, f), toParent[i] = <<>>,
         toParent \in [Child -> Seq(PieceOf(Frame))]
  PROVE  toParent'[i] = Pair(f)
<1>1. toParent'[i] = <<>> \o Pair(f)
  BY DEF Reply, Pair
<1>. QED
  BY <1>1, PairPieces

\* The worker's own steps keep the turns.
LEMMA TurnWorker ==
  ASSUME TypeOK, TypeOK', ThreadInv, BudgetInv, GrowInv, Turn, Intact, ThreadStep("worker")
  PROVE  Turn' /\ Intact'
<1>active. active \in 1..MaxGeneration
  BY TypeParts DEF ControlOK
<1>gen. gen \in 0..MaxGeneration
  BY TypeParts DEF ControlOK
<1>want. want \in [Thread -> 0..MaxGeneration]
  BY TypeParts DEF ControlOK
<1>pc. pc \in [Thread -> PCs]
  BY TypeParts DEF ControlOK
<1>phase. phase \in [Thread -> Phases]
  BY TypeParts DEF ControlOK
<1>outcome. outcome \in [Thread -> Outcomes]
  BY TypeParts DEF ControlOK
<1>frame. frame \in [Thread -> Frame]
  BY TypeParts
<1>ch. ch \in [Thread -> Child \cup {Nil}]
  BY TypeParts DEF ControlOK
<1>cur. cur \in Child \cup {Nil}
  BY TypeParts DEF ControlOK
<1>cpc. cpc \in [Child -> CPCs]
  BY TypeParts DEF ControlOK
<1>model. model \in [Child -> Frame]
  BY TypeParts
<1>toChild. toChild \in [Child -> Seq(PieceOf(Frame))]
  BY TypeParts
<1>toParent. toParent \in [Child -> Seq(PieceOf(Frame))]
  BY TypeParts
<1>spawned. spawned \in Child
  BY TypeParts DEF ControlOK
<1>. USE WorkerThread, ChildType
<1>ok. pc["worker"] # "idle" /\ outcome["worker"] # "ok" /\ want["worker"] # Nil
  <2>1. pc["worker"] # "idle"
    BY DEF ThreadStep, Start, Respawn, Load, SendHead, SendRest, SendTimeout, Await, ReadHead,
           ReadBody, ReadError, ReadTimeout, Handle, Detach, Kill
  <2>. QED
    BY <2>1 DEF ThreadInv
<1>a. ASSUME pc' = [pc EXCEPT !["worker"] = "abort"], UNCHANGED <<cur, outcome>>
      PROVE  Turn' /\ Intact'
  BY <1>a, <1>ok, <1>pc DEF Turn, Intact
<1>b. ASSUME pc'["worker"] = "idle", outcome'["worker"] = "failed", cur' = Nil
      PROVE  Turn' /\ Intact'
  BY <1>b DEF Turn, Intact, Alive
<1>1. CASE Start("worker")
  <2>1. UNCHANGED <<active, outcome, frame, cpc, model, job, toChild>>
    BY <1>1 DEF Start
  <2>2. CASE Alive(cur)
    <3>1. pc'["worker"] = "load" /\ UNCHANGED <<cur, gen, toParent>>
      BY <1>1, <1>ok, <1>pc, <2>2 DEF Start, Started, Goto, runner
    <3>2. pc["worker"] = "start"
      BY <1>1 DEF Start
    <3>. QED
      BY <1>ok, <2>1, <2>2, <3>1, <3>2 DEF Turn, Intact, Resting, Alive
  <2>3. CASE ~Alive(cur)
    <3>1. pc'["worker"] = "respawn" /\ cur' = Nil
      BY <1>1, <1>pc, <2>3 DEF Start, Goto
    <3>. QED
      BY <1>ok, <2>1, <3>1 DEF Turn, Intact, Alive
  <2>. QED
    BY <2>2, <2>3
<1>2. CASE Respawn("worker")
  <2>1. cur = Nil /\ ~Alive(cur)
    BY <1>2 DEF Respawn, Turn, Alive
  <2>2. CASE cur' = Nil
    BY <1>2, <2>1, <2>2, <1>b, <1>pc, <1>outcome, <1>spawned
    DEF Respawn, End, Goto, Nil
  <2>3. CASE cur' # Nil
    <3>. DEFINE c == spawned + 1
    <3>1. /\ cur' = c /\ gen' = Nil /\ pc'["worker"] = "await"
          /\ phase'["worker"] = "hello" /\ cpc' = [cpc EXCEPT ![c] = "boot"]
          /\ UNCHANGED <<active, outcome, model, toChild, toParent>>
      BY <1>2, <2>1, <2>3, <1>pc, <1>phase DEF Respawn, Goto, runner
    <3>2. c \in Child /\ c > spawned
      BY <3>1, <1>spawned DEF TypeOK, Nil
    <3>3. cpc'[c] = "boot"
      BY <3>1, <3>2, <1>cpc
    <3>4. toChild'[c] = <<>> /\ toParent'[c] = <<>> /\ model'[c].whole
      BY <3>1, <3>2, NoFrameType DEF BudgetInv
    <3>5. active' # gen'
      BY <3>1, <1>active DEF Nil
    <3>. HIDE DEF c
    <3>6. Exchange'
      BY <3>1, <3>3, <3>4 DEF Exchange
    <3>. QED
      BY <1>ok, <3>1, <3>4, <3>5, <3>6 DEF Turn, Intact
  <2>. QED
    BY <2>2, <2>3
<1>3. CASE Load("worker")
  <2>1. /\ pc["worker"] = "load" /\ pc'["worker"] = "send"
        /\ UNCHANGED <<active, cur, gen, outcome, frame, cpc, model, toChild, toParent>>
    BY <1>3, <1>pc DEF Load, Loaded, Goto, runner, backend
  <2>. QED
    BY <1>ok, <2>1 DEF Turn, Intact, Resting, Alive
<1>4. CASE SendHead("worker")
  <2>1. CASE ~Alive(cur)
    BY <1>4, <2>1, <1>a DEF SendHead, Goto, runner
  <2>2. CASE Alive(cur)
    <3>1. cur \in Child /\ Resting /\ phase["worker"] # "hello" /\ pc["worker"] = "send"
      BY <1>4, <2>2, <1>cur DEF SendHead, Turn, ThreadInv, Alive
    <3>2. /\ toChild' = [toChild EXCEPT ![cur] = Append(@, HeadOf(Outgoing("worker")))]
          /\ pc'["worker"] = "rest" /\ ch'["worker"] = cur
          /\ UNCHANGED <<active, cur, gen, rid, phase, want, outcome, frame, cpc, model,
                         toParent>>
      BY <1>4, <2>2, <1>pc, <1>ch DEF SendHead, Goto, runner
    <3>3. toChild'[cur] = <<HeadOf(Outgoing("worker"))>>
      <4>1. toChild'[cur] = Append(<<>>, HeadOf(Outgoing("worker")))
        BY <3>1, <3>2, <1>toChild DEF Resting
      <4>. QED
        BY <4>1, <3>1, WorkerFrame, PairPieces, <1>ok
    <3>4. Outgoing("worker")' = Outgoing("worker")
      BY <3>2 DEF Outgoing
    <3>5. Sending'
      BY <3>1, <3>2, <3>3, <3>4 DEF Sending, Resting
    <3>. QED
      BY <1>ok, <2>2, <3>1, <3>2, <3>5 DEF Turn, Intact, Resting, Alive
  <2>. QED
    BY <2>1, <2>2
<1>5. CASE SendRest("worker")
  <2>1. pc["worker"] = "rest" /\ ch["worker"] = cur /\ cur \in Child
        /\ phase["worker"] \notin {"hello", "close"}
    BY <1>5 DEF SendRest, Intact, ThreadInv
  <2>2. CASE Alive(cur) /\ cur \notin shut
    <3>1. /\ toChild' = [toChild EXCEPT ![cur] = Append(@, BodyOf(Outgoing("worker")))]
          /\ pc'["worker"] = "await"
          /\ UNCHANGED <<active, cur, gen, rid, phase, want, outcome, frame, cpc, model, job,
                         toParent>>
      BY <1>5, <2>1, <2>2, <1>pc DEF SendRest, Goto, runner, locals
    <3>2. Sending
      BY <2>1, <2>2 DEF Turn
    <3>3. Outgoing("worker")' = Outgoing("worker")
      BY <3>1 DEF Outgoing
    <3>4. toChild'[cur] = Append(toChild[cur], BodyOf(Outgoing("worker")))
      BY <2>1, <3>1, <1>toChild
    <3>5. Outgoing("worker") \in Frame
      BY <2>1, WorkerFrame
    <3>6. Sent'
      BY <3>1, <3>2, <3>3, <3>4, <3>5, PairPieces DEF Sending, Sent
    <3>7. Exchange'
      BY <2>1, <3>1, <3>6 DEF Exchange
    <3>. QED
      BY <1>ok, <2>1, <2>2, <3>1, <3>2, <3>7 DEF Turn, Intact, Sending, Alive
  <2>3. CASE ~(Alive(cur) /\ cur \notin shut)
    BY <1>5, <2>1, <2>3, <1>a DEF SendRest, Goto, runner, locals
  <2>. QED
    BY <2>2, <2>3
<1>6. CASE SendTimeout("worker") \/ ReadError("worker") \/ ReadTimeout("worker")
  BY <1>6, <1>a DEF SendTimeout, ReadError, ReadTimeout, Goto, runner, locals
<1>7. CASE Await("worker")
  <2>1. /\ pc["worker"] = "await"
        /\ UNCHANGED <<active, cur, gen, rid, phase, want, frame, cpc, model, job, toChild,
                       toParent>>
    BY <1>7 DEF Await, runner, backend
  <2>2. CASE cur = Nil
    BY <1>7, <2>1, <2>2, <1>b, <1>pc, <1>outcome DEF Await, End, Goto
  <2>3. CASE cur # Nil
    <3>1. pc'["worker"] = "read" /\ ch'["worker"] = cur /\ UNCHANGED outcome
      BY <1>7, <2>3, <1>pc, <1>ch DEF Await, Goto
    <3>2. Exchange => Exchange'
      BY <2>1 DEF Exchange, Sent, Outgoing, Answer
    <3>. QED
      BY <1>ok, <2>1, <2>3, <3>1, <3>2 DEF Turn, Intact, Alive
  <2>. QED
    BY <2>2, <2>3
<1>8. CASE ReadHead("worker")
  <2>1. /\ pc["worker"] = "read" /\ ch["worker"] = cur /\ cur \in Child
        /\ toParent[cur] # <<>> /\ toParent' = [toParent EXCEPT ![cur] = Tail(@)]
        /\ UNCHANGED <<active, cur, gen, phase, outcome, cpc, model, toChild>>
    BY <1>8, <1>cur, <1>ch DEF ReadHead, Readable, Intact, ThreadInv, runner
  <2>2. PICK f \in Frame : f.whole /\ toParent[cur] = Pair(f)
    BY <2>1 DEF Intact
  <2>3. Head(toParent[cur]) = HeadOf(f) /\ toParent'[cur] = <<BodyOf(f)>>
    BY <2>1, <2>2, <1>toParent, PairPieces
  <2>4. frame'["worker"] = f /\ pc'["worker"] = "body" /\ ch'["worker"] = cur'
    BY <1>8, <2>1, <2>3, <1>frame, <1>pc, PieceFields DEF ReadHead, Goto
  <2>5. Intact'
    BY <1>ok, <2>1, <2>2, <2>3, <2>4 DEF Intact
  <2>6. CASE ~Alive(cur)
    BY <2>1, <2>4, <2>5, <2>6 DEF Turn, Alive
  <2>7. CASE Alive(cur)
    <3>1. Exchange /\ model[cur].whole /\ (gen = active => model[cur] = Msg("load", 0, gen))
      BY <2>1, <2>7 DEF Turn
    <3>2. cpc[cur] = "loop" /\ toChild[cur] = <<>>
          /\ \E g \in Frame : Answer(g) /\ toParent[cur] = Pair(g)
      BY <2>1, <3>1 DEF Exchange, Sent
    <3>3. PICK g \in Frame : Answer(g) /\ toParent[cur] = Pair(g)
      BY <3>2
    <3>4. f = g
      <4>1. HeadOf(f) = HeadOf(g)
        BY <2>2, <3>3, PairPieces
      <4>. QED
        BY <4>1, PieceFields
    <3>5. Answer(frame["worker"])'
      BY <2>1, <2>4, <3>3, <3>4 DEF Answer
    <3>. QED
      BY <2>1, <2>4, <2>5, <3>1, <3>2, <3>5 DEF Turn
  <2>. QED
    BY <2>6, <2>7
<1>9. CASE ReadBody("worker")
  <2>1. /\ pc["worker"] = "body" /\ ch["worker"] = cur /\ cur \in Child
        /\ toParent[cur] = <<BodyOf(frame["worker"])>> /\ frame["worker"] \in Frame
        /\ toParent' = [toParent EXCEPT ![cur] = Tail(@)] /\ pc'["worker"] = "handle"
        /\ UNCHANGED <<active, cur, gen, phase, outcome, cpc, model, toChild>>
    BY <1>9, <1>cur, <1>ch, <1>pc, <1>frame DEF ReadBody, Intact, ThreadInv, Goto, runner
  <2>2. Head(toParent[cur]) = BodyOf(frame["worker"]) /\ toParent'[cur] = <<>>
    BY <2>1, <1>toParent, PairPieces
  <2>3. Received(frame["worker"], Head(toParent[cur])) = {frame["worker"]}
    BY <2>2 DEF Received
  <2>4. frame'["worker"] = frame["worker"]
    BY <1>9, <2>1, <2>3, <1>frame DEF ReadBody
  <2>5. Intact'
    BY <1>ok, <2>1, <2>4 DEF Intact
  <2>6. CASE ~Alive(cur)
    BY <2>1, <2>5, <2>6 DEF Turn, Alive
  <2>7. CASE Alive(cur)
    <3>1. /\ model[cur].whole /\ (gen = active => model[cur] = Msg("load", 0, gen))
          /\ cpc[cur] = "loop" /\ toChild[cur] = <<>> /\ Answer(frame["worker"])
      BY <2>1, <2>7 DEF Turn
    <3>2. Resting' /\ Answer(frame["worker"])'
      BY <2>1, <2>2, <2>4, <3>1 DEF Resting, Answer
    <3>. QED
      BY <2>1, <2>5, <3>1, <3>2 DEF Turn
  <2>. QED
    BY <2>6, <2>7
<1>10. CASE Handle("worker")
  <2>1. /\ pc["worker"] = "handle"
        /\ UNCHANGED <<active, cur, ch, frame, cpc, model, toChild, toParent>>
    BY <1>10 DEF Handle, HandleHello, HandleLoad, HandlePredict, runner, backend
  <2>2. Alive(cur) => /\ Resting /\ Answer(frame["worker"]) /\ model[cur].whole
                      /\ gen = active => model[cur] = Msg("load", 0, gen)
    BY <2>1 DEF Turn
  <2>3. /\ pc'["worker"] \in {"idle", "load", "send", "abort"}
        /\ gen' # gen => /\ gen' = want["worker"] /\ phase["worker"] = "load"
                         /\ frame["worker"] = Msg("loaded", 0, want["worker"])
    BY <1>10, <1>ok, <1>pc
    DEF Handle, HandleHello, HandleLoad, HandlePredict, Started, Loaded, End, Goto, runner
  <2>4. gen' # gen => frame["worker"].op = "loaded" /\ frame["worker"].gen = gen'
    BY <2>3 DEF Msg
  <2>5. Alive(cur) /\ gen' # gen => model[cur] = Msg("load", 0, gen')
    BY <2>2, <2>3, <2>4 DEF Answer
  <2>6. Intact'
    BY <2>1, <2>3 DEF Intact
  <2>. QED
    BY <2>1, <2>2, <2>3, <2>5, <2>6 DEF Turn, Resting, Alive
<1>11. CASE Detach("worker")
  <2>1. pc'["worker"] = "kill" /\ cur' = Nil /\ UNCHANGED outcome
    BY <1>11, <1>pc DEF Detach, Goto
  <2>. QED
    BY <1>ok, <2>1 DEF Turn, Intact, Alive
<1>12. CASE Kill("worker")
  <2>1. cur' = Nil /\ pc'["worker"] = "idle" /\ outcome'["worker"] = "failed"
    BY <1>12, <1>pc, <1>outcome DEF Kill, Aborted, End, Goto, Turn, runner
  <2>. QED
    BY <2>1, <1>b
<1>. QED
  BY <1>1, <1>2, <1>3, <1>4, <1>5, <1>6, <1>7, <1>8, <1>9, <1>10, <1>11, <1>12
  DEF ThreadStep

\* A child's steps keep the turns.
LEMMA TurnChild ==
  ASSUME TypeOK, ThreadInv, RunInv, GrowInv, Turn, Intact,
         NEW i \in Child, ChildStep(i) \/ ChildCrash(i)
  PROVE  Turn' /\ Intact'
<1>active. active \in 1..MaxGeneration
  BY TypeParts DEF ControlOK
<1>pc. pc \in [Thread -> PCs]
  BY TypeParts DEF ControlOK
<1>cur. cur \in Child \cup {Nil}
  BY TypeParts DEF ControlOK
<1>cpc. cpc \in [Child -> CPCs]
  BY TypeParts DEF ControlOK
<1>model. model \in [Child -> Frame]
  BY TypeParts
<1>job. job \in [Child -> Frame]
  BY TypeParts
<1>toChild. toChild \in [Child -> Seq(PieceOf(Frame))]
  BY TypeParts
<1>toParent. toParent \in [Child -> Seq(PieceOf(Frame))]
  BY TypeParts
<1>0. UNCHANGED <<active, cur, gen, rid, pc, phase, want, ch, frame, outcome>>
  BY ChildFootprint
<1>1. CASE i # cur
  <2>1. cur \in Child => /\ cpc'[cur] = cpc[cur] /\ model'[cur] = model[cur]
                         /\ job'[cur] = job[cur]
                         /\ toChild'[cur] = toChild[cur] /\ toParent'[cur] = toParent[cur]
    BY <1>1, <1>cpc, <1>model, <1>job, <1>toChild, <1>toParent
    DEF ChildStep, ChildBoot, ChildReceive, ChildServe, ChildLoad, ChildPredict, ChildExit,
        ChildFinish, ChildCrash, ChildMove, Die, Reply
  <2>2. cur = Nil \/ cur \in Child
    BY <1>cur
  <2>3. Turn'
    BY <1>0, <2>1, <2>2, ChildType
    DEF Turn, Alive, Resting, Sending, Sent, Exchange, Answer, Outgoing
  <2>4. Intact'
    <3>1. pc["worker"] = "body" => cur \in Child
      BY WorkerThread DEF Intact, ThreadInv
    <3>. QED
      BY <1>0, <2>1, <2>2, <3>1 DEF Intact
  <2>. QED
    BY <2>3, <2>4
<1>2. CASE i = cur /\ pc["worker"] = "abort"
  <2>1. outcome["worker"] # "ok"
    BY <1>2 DEF ThreadInv
  <2>. QED
    BY <1>0, <1>2, <2>1 DEF Turn, Intact
<1>3. CASE i = cur /\ pc["worker"] # "abort"
  <2>1. Alive(cur) /\ cur # Nil /\ cur \in Child
    BY <1>3, ChildType
    DEF ChildStep, ChildBoot, ChildReceive, ChildServe, ChildFinish, ChildCrash, Alive
  <2>2. /\ pc["worker"] \in {"idle", "start", "load", "send", "rest", "await", "read", "body",
                             "handle"}
        /\ gen = active => model[cur] = Msg("load", 0, gen)
        /\ model[cur].whole
    BY <1>3, <2>1, <1>pc, WorkerThread DEF Turn, ThreadInv, PCs
  <2>3. ASSUME Die(i), UNCHANGED toParent PROVE Turn' /\ Intact'
    <3>1. ~Alive(cur)'
      BY <1>0, <1>3, <2>3, <1>cpc DEF Die, Alive
    <3>. QED
      BY <1>0, <2>1, <2>2, <2>3, <3>1 DEF Turn, Intact
  <2>4. CASE ChildCrash(i)
    BY <2>3, <2>4 DEF ChildCrash
  \* The child waits for a frame or has taken its head: the worker is sending.
  <2>5. CASE ChildReceive(i)
    <3>. DEFINE O == Outgoing("worker")
    <3>1. cpc[cur] = "loop" /\ toChild[cur] # <<>>
      BY <1>3, <2>5 DEF ChildReceive
    <3>2. \/ pc["worker"] = "rest" /\ Sending
          \/ pc["worker"] \in {"await", "read"} /\ phase["worker"] # "hello" /\ Sent
      BY <1>3, <2>1, <2>2, <3>1 DEF Turn, Resting, Exchange
    <3>3. O \in Frame /\ phase["worker"] # "hello"
      BY <3>2, WorkerFrame, WorkerThread DEF ThreadInv
    <3>4. Head(toChild[cur]) = HeadOf(O)
      BY <3>1, <3>2, <3>3, PairPieces DEF Sending, Sent
    <3>5. Head(toChild[cur]).part = "head" /\ Head(toChild[cur]).frame = O
      BY <3>4, PieceFields
    <3>6. ChildMove(cur, "recv", O) /\ UNCHANGED <<model, toParent>>
      BY <1>3, <2>5, <3>5 DEF ChildReceive
    <3>7. /\ cpc'[cur] = "recv" /\ job'[cur] = O /\ toChild'[cur] = Tail(toChild[cur])
      BY <2>1, <3>6, <1>cpc, <1>job, <1>toChild DEF ChildMove
    <3>8. O' = O
      BY <1>0 DEF Outgoing
    <3>9. CASE pc["worker"] = "rest" /\ Sending
      <4>1. toChild'[cur] = <<>> /\ toParent'[cur] = <<>>
        BY <3>1, <3>3, <3>6, <3>7, <3>9, PairPieces DEF Sending
      <4>2. Sending'
        BY <1>0, <3>7, <3>8, <4>1 DEF Sending
      <4>. QED
        BY <1>0, <2>1, <2>2, <3>6, <3>9, <4>1, <4>2 DEF Turn, Intact
    <3>10. CASE pc["worker"] \in {"await", "read"} /\ Sent
      <4>1. toChild'[cur] = <<BodyOf(O)>> /\ toParent'[cur] = <<>>
        BY <3>1, <3>3, <3>6, <3>7, <3>10, PairPieces DEF Sent
      <4>2. Sent'
        BY <1>0, <3>7, <3>8, <4>1 DEF Sent
      <4>3. Exchange'
        BY <1>0, <3>3, <4>2 DEF Exchange
      <4>. QED
        BY <1>0, <2>1, <2>2, <3>6, <3>10, <4>1, <4>3 DEF Turn, Intact
    <3>. QED
      BY <3>2, <3>9, <3>10
  \* The child answers: the worker waits for that.
  <2>6. ASSUME NEW f \in Frame, Reply(i, f), pc["worker"] \in {"await", "read"},
               toParent[cur] = <<>>, cpc'[cur] = "loop", toChild'[cur] = <<>>,
               f.whole, model'[cur].whole,
               phase["worker"] = "load" /\ f.op = "loaded" => model'[cur] = Msg("load", 0, f.gen),
               gen = active => model'[cur] = Msg("load", 0, gen)
        PROVE  Turn' /\ Intact'
    <3>1. toParent'[cur] = Pair(f)
      BY <1>3, <2>6, <1>toParent, ReplyPair
    <3>2. Answer(f)'
      BY <1>0, <2>6 DEF Answer
    <3>3. Exchange'
      BY <1>0, <2>6, <3>1, <3>2 DEF Exchange
    <3>4. Turn'
      BY <1>0, <2>6, <3>3 DEF Turn
    <3>5. outcome["worker"] # "ok"
      BY <2>6 DEF ThreadInv
    <3>6. Intact'
      BY <1>0, <2>6, <3>1, <3>5 DEF Intact
    <3>. QED
      BY <3>4, <3>6
  <2>7. CASE ChildBoot(i)
    <3>1. cpc[cur] = "boot"
      BY <1>3, <2>7 DEF ChildBoot
    <3>2. /\ pc["worker"] \in {"await", "read"} /\ phase["worker"] = "hello"
          /\ toChild[cur] = <<>> /\ toParent[cur] = <<>>
      BY <1>3, <2>1, <2>2, <3>1 DEF Turn, Resting, Sending, Sent, Exchange
    <3>3. /\ Msg("ready", 0, Nil) \in Frame /\ Msg("ready", 0, Nil).whole
          /\ Msg("startup_error", 0, Nil) \in Frame /\ Msg("startup_error", 0, Nil).whole
      <4>1. 0 \in 0..MaxRequest /\ Nil \in 0..MaxGeneration
        BY BoundAssumption DEF Nil
      <4>. QED
        BY <4>1 DEF Msg, Frame
    <3>4. CASE Reply(i, Msg("ready", 0, Nil)) /\ cpc' = [cpc EXCEPT ![i] = "loop"]
               /\ UNCHANGED <<model, toChild>>
      <4>1. cpc'[cur] = "loop" /\ toChild'[cur] = <<>>
        BY <1>3, <3>2, <3>4, <1>cpc
      <4>. QED
        BY <2>2, <2>6, <3>2, <3>3, <3>4, <4>1
    <3>5. CASE Reply(i, Msg("startup_error", 0, Nil)) /\ Die(i)
      <4>1. ~Alive(cur)'
        BY <1>0, <1>3, <3>5, <1>cpc DEF Die, Alive
      <4>2. toParent'[cur] = Pair(Msg("startup_error", 0, Nil))
        BY <1>3, <3>2, <3>3, <3>5, <1>toParent, ReplyPair
      <4>3. outcome["worker"] # "ok"
        BY <3>2 DEF ThreadInv
      <4>4. Turn'
        BY <1>0, <3>2, <4>1 DEF Turn
      <4>5. Intact'
        BY <1>0, <3>2, <3>3, <4>2, <4>3 DEF Intact
      <4>. QED
        BY <4>4, <4>5
    <3>. QED
      BY <2>7, <3>4, <3>5 DEF ChildBoot
  <2>8. CASE ChildFinish(i)
    <3>1. cpc[cur] = "run"
      BY <1>3, <2>8 DEF ChildFinish
    <3>2. /\ pc["worker"] \in {"await", "read"} /\ phase["worker"] = "predict"
          /\ job[cur].whole /\ toChild[cur] = <<>> /\ toParent[cur] = <<>>
      BY <1>3, <2>1, <2>2, <3>1 DEF Turn, Resting, Sending, Sent, Exchange
    <3>3. /\ job[cur].id \in 0..MaxRequest /\ model[cur].gen \in 0..MaxGeneration
          /\ Nil \in 0..MaxGeneration
      BY <2>1, <1>job, <1>model, FrameFields, BoundAssumption DEF Nil
    <3>4. Computed(cur) \in Frame /\ Computed(cur).whole
      BY <2>2, <3>2, <3>3 DEF Computed, Frame
    <3>5. Msg("error", job[cur].id, Nil) \in Frame /\ Msg("error", job[cur].id, Nil).whole
      BY <3>3 DEF Msg, Frame
    <3>6. cpc'[cur] = "loop" /\ UNCHANGED <<model, toChild>>
      BY <1>3, <2>1, <2>8, <1>cpc DEF ChildFinish
    <3>7. \E f \in Frame : Reply(i, f) /\ f.whole
      BY <1>3, <2>8, <3>4, <3>5 DEF ChildFinish
    <3>. QED
      BY <2>2, <2>6, <3>2, <3>6, <3>7
  <2>9. CASE ChildServe(i)
    <3>. DEFINE O == Outgoing("worker")
    <3>1. cpc[cur] = "recv" /\ toChild[cur] # <<>>
      BY <1>3, <2>9 DEF ChildServe
    <3>2. pc["worker"] \in {"await", "read"} /\ phase["worker"] # "hello" /\ Sent
      BY <1>3, <2>1, <2>2, <3>1 DEF Turn, Resting, Sending, Exchange
    <3>3. /\ O \in Frame /\ O.whole /\ phase["worker"] \in {"load", "predict"}
          /\ O.op = phase["worker"] /\ O.gen = want["worker"]
          /\ phase["worker"] = "load" => O = Msg("load", 0, want["worker"])
      BY <3>2, WorkerFrame
    <3>4. job[cur] = O /\ toChild[cur] = <<BodyOf(O)>> /\ toParent[cur] = <<>>
      BY <3>1, <3>2 DEF Sent
    <3>5. Head(toChild[cur]) = BodyOf(O) /\ Tail(toChild[cur]) = <<>>
      BY <3>3, <3>4, PairPieces
    <3>6. Received(job[cur], Head(toChild[cur])) = {O}
      BY <3>4, <3>5 DEF Received
    <3>7. ChildLoad(cur, O) \/ ChildPredict(cur, O) \/ ChildExit(cur, O)
      BY <1>3, <2>9, <3>6 DEF ChildServe
    <3>. HIDE DEF O
    <3>8. ~ChildExit(cur, O)
      BY <3>3 DEF ChildExit
    <3>9. ASSUME NEW l \in CPCs, NEW f \in Frame, ChildMove(cur, l, f)
          PROVE  cpc'[cur] = l /\ job'[cur] = f /\ toChild'[cur] = <<>>
      BY <2>1, <3>5, <3>9, <1>cpc, <1>job, <1>toChild DEF ChildMove
    <3>10. O.gen \in 0..MaxGeneration /\ O.id \in 0..MaxRequest /\ Nil \in 0..MaxGeneration
      BY <3>3, FrameFields, BoundAssumption DEF Nil
    <3>11. CASE ChildLoad(cur, O)
      <4>1. phase["worker"] = "load" /\ gen # active
        <5>1. phase["worker"] = "load"
          BY <3>3, <3>11 DEF ChildLoad
        <5>2. gen < want["worker"] /\ want["worker"] <= active
          BY <5>1, <3>2 DEF GrowInv, Talking
        <5>3. gen \in Nat /\ want["worker"] \in Nat /\ active \in Nat
          BY WorkerThread DEF TypeOK
        <5>. QED
          BY <5>1, <5>2, <5>3
      <4>2. cpc'[cur] = "loop" /\ toChild'[cur] = <<>>
        BY <3>9, <3>11, NoFrameType DEF ChildLoad, CPCs
      <4>3. CASE Reply(cur, Msg("loaded", 0, O.gen)) /\ model' = [model EXCEPT ![cur] = O]
        <5>1. model'[cur] = O
          BY <4>3, <2>1, <1>model
        <5>2. PICK f \in Frame : f = Msg("loaded", 0, O.gen)
          BY <3>10, MsgType, BoundAssumption
        <5>3. f.whole /\ f.gen = want["worker"]
          BY <5>2, <3>3 DEF Msg
        <5>. QED
          BY <1>3, <2>6, <3>2, <3>3, <3>4, <4>1, <4>2, <4>3, <5>1, <5>2, <5>3
      <4>4. CASE Reply(cur, Msg("load_error", 0, O.gen))
                 /\ model' = [model EXCEPT ![cur] = NoFrame]
        <5>1. model'[cur].whole
          BY <4>4, <2>1, <1>model, NoFrameType
        <5>2. PICK f \in Frame : f = Msg("load_error", 0, O.gen)
          BY <3>10, MsgType, BoundAssumption
        <5>3. f.whole /\ f.op # "loaded"
          BY <5>2 DEF Msg
        <5>. QED
          BY <1>3, <2>6, <3>2, <3>4, <4>1, <4>2, <4>4, <5>1, <5>2, <5>3
      <4>. QED
        BY <3>11, <4>3, <4>4 DEF ChildLoad
    <3>12. CASE ChildPredict(cur, O)
      <4>1. phase["worker"] = "predict" /\ UNCHANGED model
        BY <3>3, <3>12 DEF ChildPredict
      <4>2. CASE ChildMove(cur, "run", O) /\ UNCHANGED toParent
        <5>1. cpc'[cur] = "run" /\ job'[cur] = O /\ toChild'[cur] = <<>>
          BY <3>3, <3>9, <4>2 DEF CPCs
        <5>2. Exchange'
          BY <1>0, <3>3, <3>4, <4>1, <4>2, <5>1 DEF Exchange
        <5>3. Turn'
          BY <1>0, <2>2, <3>2, <4>1, <5>2 DEF Turn
        <5>4. Intact'
          BY <1>0, <3>2, <3>4, <4>2 DEF Intact
        <5>. QED
          BY <5>3, <5>4
      <4>3. CASE Reply(cur, Msg("error", O.id, Nil)) /\ ChildMove(cur, "loop", NoFrame)
        <5>1. cpc'[cur] = "loop" /\ toChild'[cur] = <<>>
          BY <3>9, <4>3, NoFrameType DEF CPCs
        <5>2. PICK f \in Frame : f = Msg("error", O.id, Nil)
          BY <3>10, MsgType
        <5>3. f.whole
          BY <5>2 DEF Msg
        <5>. QED
          BY <1>3, <2>2, <2>6, <3>2, <3>4, <4>1, <4>3, <5>1, <5>2, <5>3
      <4>. QED
        BY <3>12, <4>2, <4>3 DEF ChildPredict
    <3>. QED
      BY <3>7, <3>8, <3>11, <3>12
  <2>. QED
    BY <2>4, <2>5, <2>7, <2>8, <2>9 DEF ChildStep
<1>. QED
  BY <1>1, <1>2, <1>3

\* Every step keeps the turns.
LEMMA TurnNext ==
  ASSUME "monitor" \notin Thread, IInv, IInv', AloneInv, [Next]_vars
  PROVE  TurnInv'
<1>. SUFFICES ASSUME Alone' PROVE Turn' /\ Intact'
  BY DEF TurnInv
<1>. USE DEF IInv, AloneInv
<1>1. Alone /\ Turn /\ Intact
  BY AloneStep DEF TurnInv
<1>2. CASE Deploy
  <2>1. active \in Nat /\ gen <= want["worker"] /\ want["worker"] <= active /\ gen \in Nat
        /\ want["worker"] \in Nat
    BY WorkerThread DEF TypeOK, GrowInv
  <2>2. gen' # active'
    BY <1>2, <2>1 DEF Deploy, runner
  <2>3. UNCHANGED <<cur, rid, pc, phase, want, ch, frame, outcome, cpc, model, job, toChild,
                    toParent>>
    BY <1>2 DEF Deploy, runner, locals, backend
  <2>. QED
    BY <1>1, <2>2, <2>3
    DEF Turn, Intact, Alive, Resting, Sending, Sent, Exchange, Answer, Outgoing
<1>3. CASE BeginRequest
  <2>1. /\ pc["worker"] = "idle" /\ pc'["worker"] = "start" /\ outcome'["worker"] = "none"
        /\ UNCHANGED <<active, cur, gen, cpc, model, toChild, toParent>>
    BY <1>3, WorkerThread, TypeParts DEF BeginRequest, Goto, ControlOK, runner, backend
  <2>. QED
    BY <1>1, <2>1 DEF Turn, Intact, Alive, Resting
<1>4. CASE WindowSlides \/ UNCHANGED vars
  <2>1. UNCHANGED <<active, cur, gen, rid, pc, phase, want, ch, frame, outcome, cpc, model,
                    job, toChild, toParent>>
    BY <1>4 DEF WindowSlides, vars, runner, locals, backend
  <2>. QED
    BY <1>1, <2>1
    DEF Turn, Intact, Alive, Resting, Sending, Sent, Exchange, Answer, Outgoing
<1>5. CASE ThreadStep("worker")
  BY <1>1, <1>5, TurnWorker
<1>6. ASSUME NEW i \in Child, ChildStep(i) \/ ChildCrash(i) PROVE Turn' /\ Intact'
  BY <1>1, <1>6, TurnChild
<1>. QED
  BY <1>2, <1>3, <1>4, <1>5, <1>6, AloneStep

\* What a runner without the readiness probe keeps.
LEMMA AloneInvariant ==
  ASSUME "monitor" \notin Thread
  PROVE  Spec => [](IInv /\ AloneInv)
<1>1. Init => IInv /\ AloneInv
  BY InitIInv
<1>2. IInv /\ AloneInv /\ [Next]_vars => (IInv /\ AloneInv)'
  <2>. SUFFICES ASSUME IInv, AloneInv, [Next]_vars PROVE IInv' /\ AloneInv'
    OBVIOUS
  <2>1. IInv'
    BY IInvNext
  <2>2. GrowInv' /\ CloserInv'
    BY GrowNext, CloserNext DEF IInv, AloneInv
  <2>3. TurnInv'
    BY <2>1, TurnNext
  <2>. QED
    BY <2>1, <2>2, <2>3 DEF AloneInv
<1>. QED
  BY <1>1, <1>2, PTL DEF Spec

\* Without the readiness probe a worker leaves, between two requests, a child
\* with nothing on its socket that owns the generation recorded for it,
\* whatever timed out, crashed or was rejected before.
THEOREM BackendReadyWhenIdle ==
  ASSUME "monitor" \notin Thread
  PROVE  Spec => []IdleBackendReady
<1>1. IInv /\ AloneInv => IdleBackendReady
  BY WorkerThread
  DEF AloneInv, TurnInv, Turn, Alone, Resting, IdleBackendReady, ChannelClean,
      GenerationOwned, Quiet
<1>. QED
  BY <1>1, AloneInvariant, PTL

\* Without the readiness probe, and until close(), the logits of a request are
\* computed from the inputs and the model that were sent, although every frame
\* is sent and received in pieces and any of them may be the last.
THEOREM ResultAlwaysIntact ==
  ASSUME "monitor" \notin Thread
  PROVE  Spec => []ResultIntact
<1>1. IInv /\ AloneInv => ResultIntact
  <2>. SUFFICES ASSUME IInv, AloneInv, ~closed, outcome["worker"] = "ok"
                PROVE  frame["worker"] = Msg("result", rid, want["worker"])
    BY DEF ResultIntact, ResultFaithful
  <2>1. Alone
    BY ThreadAssumption DEF AloneInv, CloserInv, Alone
  <2>2. frame["worker"].whole /\ frame["worker"] \in Frame
    BY <2>1, WorkerThread, TypeParts DEF AloneInv, TurnInv, Intact, IInv
  <2>3. /\ frame["worker"].op = "result" /\ frame["worker"].id = rid
        /\ frame["worker"].gen = want["worker"]
    BY DEF IInv, ResultBound
  <2>. QED
    BY <2>2, <2>3, FrameFields
<1>. QED
  BY <1>1, AloneInvariant, PTL
=============================================================================
