----------------------------- MODULE HealthGate -----------------------------
(***************************************************************************)
(* The health gate of a deployment: _health_metrics in deploy.py,          *)
(* qualification.py and health.py.  The candidate and then the model that  *)
(* is active now are each qualified, in a child process of their own or    *)
(* (compatibility mode) in the agent itself, and their metrics compared.   *)
(*                                                                         *)
(* The agent holds the deployment lock throughout, so the gate has to come *)
(* to an end whatever a child does: it may crash, hang, answer late or     *)
(* outlive SIGTERM.  A frame is abstracted to its kind; the metrics to the *)
(* accuracy, which the model determines, and one measured Boolean.         *)
(***************************************************************************)
EXTENDS Integers

CONSTANTS
    MaxAccuracy,  \* bound: accuracies are 0..MaxAccuracy
    MinAccuracy,  \* HealthPolicy.min_accuracy
    MaxDrop,      \* HealthPolicy.max_accuracy_drop
    None

ASSUME PolicyAssumption ==
    /\ MaxAccuracy \in Nat
    /\ MinAccuracy \in 0..MaxAccuracy /\ MaxDrop \in 0..MaxAccuracy
    /\ None \notin [accuracy : 0..MaxAccuracy, limits : BOOLEAN]

Subject == {"candidate", "baseline"}

VARIABLES
    isolate,      \* isolate_health_gate
    hasBaseline,  \* is there an active model to compare with?
    accuracy,     \* that of each model on the validation set
    subject,      \* the model being qualified
    pc,           \* where the agent is
    metrics,      \* what each qualification has returned
    gate,         \* how the gate ended
    child,        \* where the child of each qualification is
    signal,       \* the last signal sent to it
    loaded,       \* the children that have built their runtime
    toChild, toParent   \* the frame under way in each direction

given == <<isolate, hasBaseline, accuracy>>
agent == <<subject, pc, metrics, gate>>
process == <<child, loaded, toParent>>
vars == <<given, agent, process, signal, toChild>>

Metrics == [accuracy : 0..MaxAccuracy, limits : BOOLEAN]
Alive(s) == child[s] \notin {"unborn", "dead"}
Exchange == {"hello", "load", "measure"}

-----------------------------------------------------------------------------
(* The verdict                                                             *)

(* Mutant of Enforce: a regression is not looked for.                      *)
Enforce_NoBaseline(c, b) == c.accuracy >= MinAccuracy /\ c.limits

(* enforce(): calibration, latency and memory are the Boolean.             *)
Enforce(c, b) ==
    /\ c.accuracy >= MinAccuracy
    /\ b # None => b.accuracy - c.accuracy <= MaxDrop
    /\ c.limits

(* Any exception on the way ends deploy's gate; the state is written as    *)
(* failed by the deployment manager.                                       *)
Refused == pc' = "done" /\ gate' = "refused"

(* qualify_model_bytes or the in-process path has returned the metrics.    *)
Qualified ==
    /\ IF subject = "candidate" /\ hasBaseline
       THEN subject' = "baseline" /\ pc' = "begin"
       ELSE subject' = subject /\ pc' = "enforce"
    /\ UNCHANGED gate

Verdict ==
    /\ pc = "enforce"
    /\ pc' = "done"
    /\ gate' = IF Enforce(metrics["candidate"], metrics["baseline"])
               THEN "passed" ELSE "refused"
    /\ UNCHANGED <<given, subject, metrics, process, signal, toChild>>

-----------------------------------------------------------------------------
(* The agent                                                               *)

(* load_runtime and benchmark on the agent's own stack.                    *)
InProcess ==
    /\ pc = "begin" /\ ~isolate
    /\ \/ /\ \E b \in BOOLEAN :
                metrics' = [metrics EXCEPT ![subject] =
                              [accuracy |-> accuracy[subject], limits |-> b]]
          /\ Qualified
       \/ Refused /\ UNCHANGED <<subject, metrics>>
    /\ UNCHANGED <<given, process, signal, toChild>>

(* The validation data or the model does not fit the frame bounds.         *)
InputRefused ==
    /\ pc = "begin" /\ isolate
    /\ Refused
    /\ UNCHANGED <<given, subject, metrics, process, signal, toChild>>

(* The socket pair is made and the child spawned.  When start() fails the  *)
(* finally block asserts on the process that never started; either way an  *)
(* exception leaves the function.                                          *)
Spawn ==
    /\ pc = "begin" /\ isolate
    /\ \/ /\ child' = [child EXCEPT ![subject] = "boot"]
          /\ pc' = "hello"
          /\ UNCHANGED gate
       \/ Refused /\ UNCHANGED child
    /\ UNCHANGED <<given, subject, metrics, loaded, toParent, signal, toChild>>

(* The frame a phase waits for, the next phase, and what is sent then.     *)
Expected == [hello |-> "ready", load |-> "loaded", measure |-> "metrics"]
Following == [hello |-> "load", load |-> "measure", measure |-> "reap"]
Request == [hello |-> "model", load |-> "validation", measure |-> "none"]

(* The answer expected arrives; the next request is sent.                  *)
Receive ==
    /\ pc \in Exchange
    /\ toParent[subject].kind = Expected[pc]
    /\ pc' = Following[pc]
    /\ metrics' = [metrics EXCEPT ![subject] =
                     IF pc = "measure" THEN toParent[subject].body ELSE @]
    /\ toChild' = [toChild EXCEPT ![subject] = Request[pc]]
    /\ toParent' = [toParent EXCEPT ![subject] = [kind |-> "none", body |-> None]]
    /\ UNCHANGED <<given, subject, gate, child, loaded, signal>>

(* HealthGateError is raised and the finally block runs.                   *)
GiveUp ==
    /\ pc' = "reap"
    /\ UNCHANGED <<given, subject, metrics, gate, process, signal, toChild>>

(* An error frame, a frame of another kind, or the end of the stream.      *)
BadAnswer ==
    /\ pc \in Exchange
    /\ IF toParent[subject].kind = "none" THEN child[subject] = "dead"
       ELSE toParent[subject].kind # Expected[pc]
    /\ GiveUp

(* Mutant of Deadline: only the first answer has one.                      *)
Deadline_FirstOnly == pc = "hello" /\ GiveUp

(* The one deadline of the qualification may pass at any receive or send,  *)
(* also when the answer is already there.                                  *)
Deadline == pc \in Exchange /\ GiveUp

(* The way out of the finally block.                                       *)
Leave == IF metrics[subject] # None THEN Qualified ELSE Refused /\ UNCHANGED subject

(* The sockets are closed, and _terminate sends SIGTERM to a living child.  *)
Reap ==
    /\ pc = "reap"
    /\ IF Alive(subject)
       THEN /\ signal' = [signal EXCEPT ![subject] = "term"]
            /\ pc' = "term"
            /\ UNCHANGED <<subject, gate>>
       ELSE Leave /\ UNCHANGED signal
    /\ UNCHANGED <<given, metrics, process, toChild>>

(* Mutant of JoinTerm: SIGTERM is taken to be enough.                      *)
JoinTerm_NoKill ==
    /\ pc = "term"
    /\ Leave
    /\ UNCHANGED <<given, metrics, process, signal, toChild>>

(* join(0.5) is over: a child that survived SIGTERM gets SIGKILL.          *)
JoinTerm ==
    /\ pc = "term"
    /\ IF Alive(subject)
       THEN /\ signal' = [signal EXCEPT ![subject] = "kill"]
            /\ pc' = "kill"
            /\ UNCHANGED <<subject, gate>>
       ELSE Leave /\ UNCHANGED signal
    /\ UNCHANGED <<given, metrics, process, toChild>>

(* The second join is bounded too.                                         *)
JoinKill ==
    /\ pc = "kill"
    /\ Leave
    /\ UNCHANGED <<given, metrics, process, signal, toChild>>

-----------------------------------------------------------------------------
(* The children: _qualification_worker                                     *)

Answer(s, kind, body) ==
    toParent' = [toParent EXCEPT ![s] = [kind |-> kind, body |-> body]]

(* An exception is reported and the worker is about to end.                *)
Report(s) ==
    /\ Answer(s, "qualification_error", None)
    /\ child' = [child EXCEPT ![s] = "exiting"]
    /\ UNCHANGED loaded

(* apply_process_sandbox, then ready.                                      *)
ChildBoot(s) ==
    /\ child[s] = "boot"
    /\ \/ /\ Answer(s, "ready", None)
          /\ child' = [child EXCEPT ![s] = "idle"]
          /\ UNCHANGED loaded
       \/ Report(s)
    /\ UNCHANGED <<given, agent, signal, toChild>>

(* load_runtime on the bytes received.                                     *)
ChildLoad(s) ==
    /\ child[s] = "idle" /\ toChild[s] = "model"
    /\ toChild' = [toChild EXCEPT ![s] = "none"]
    /\ \/ /\ Answer(s, "loaded", None)
          /\ loaded' = loaded \cup {s}
          /\ child' = [child EXCEPT ![s] = "serving"]
       \/ Report(s)
    /\ UNCHANGED <<given, agent, signal>>

(* benchmark(), after which the worker is about to end.                    *)
ChildMeasure(s) ==
    /\ child[s] = "serving" /\ toChild[s] = "validation"
    /\ toChild' = [toChild EXCEPT ![s] = "none"]
    /\ \/ /\ \E b \in BOOLEAN :
                Answer(s, "metrics", [accuracy |-> accuracy[s], limits |-> b])
          /\ child' = [child EXCEPT ![s] = "exiting"]
          /\ UNCHANGED loaded
       \/ Report(s)
    /\ UNCHANGED <<given, agent, signal>>

(* The process ends: its work is done, it crashes, meets its memory limit  *)
(* or a signal, or the agent has closed the socket.  What it sent can      *)
(* still be read.                                                          *)
ChildDies(s) ==
    /\ Alive(s)
    /\ child' = [child EXCEPT ![s] = "dead"]
    /\ UNCHANGED <<given, agent, loaded, toParent, signal, toChild>>

-----------------------------------------------------------------------------
Init ==
    /\ isolate \in BOOLEAN /\ hasBaseline \in BOOLEAN
    /\ accuracy \in [Subject -> 0..MaxAccuracy]
    /\ subject = "candidate" /\ pc = "begin"
    /\ metrics = [s \in Subject |-> None]
    /\ gate = "running"
    /\ child = [s \in Subject |-> "unborn"]
    /\ signal = [s \in Subject |-> "none"]
    /\ loaded = {}
    /\ toChild = [s \in Subject |-> "none"]
    /\ toParent = [s \in Subject |-> [kind |-> "none", body |-> None]]

AgentStep ==
    \/ InProcess \/ InputRefused \/ Spawn \/ Receive \/ BadAnswer
    \/ Deadline \/ Reap \/ JoinTerm \/ JoinKill \/ Verdict

Next ==
    \/ AgentStep
    \/ \E s \in Subject :
          ChildBoot(s) \/ ChildLoad(s) \/ ChildMeasure(s) \/ ChildDies(s)

Spec == Init /\ [][Next]_vars

(* The agent runs and its deadlines pass.  Nothing is assumed of a child.  *)
FairSpec == Spec /\ WF_vars(AgentStep)

-----------------------------------------------------------------------------
(* Properties                                                              *)

(* A candidate passes only on what was measured: by a process that loaded  *)
(* this very model and was asked after that, and with the active model     *)
(* measured beside it, so that neither a crash, a late answer nor a        *)
(* baseline that cannot be qualified waves a regression through.           *)
PassEarned ==
    gate = "passed" =>
        /\ accuracy["candidate"] >= MinAccuracy
        /\ hasBaseline => accuracy["baseline"] - accuracy["candidate"] <= MaxDrop
        /\ isolate => loaded = IF hasBaseline THEN Subject ELSE {"candidate"}

(* The gate leaves no model process behind and never runs two: a living    *)
(* child belongs to the qualification under way, or SIGKILL is on its way. *)
NoChildLeft ==
    \A s \in Subject :
        Alive(s) => \/ s = subject /\ pc \in Exchange \cup {"reap", "term"}
                    \/ signal[s] = "kill"

(* The agent gets its lock back: the gate ends although the children may   *)
(* hang for ever.                                                          *)
GateReturns == <>(pc = "done")
=============================================================================
