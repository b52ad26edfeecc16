-------------------------- MODULE HealthGate_proof --------------------------
(***************************************************************************)
(* Proofs about the health gate, for every policy and every accuracy of    *)
(* the two models.  The verdict is about what the children measured: the   *)
(* metrics the agent compares can be traced back through the frame and the *)
(* child to the model that was loaded (MeasuredInv), and the agent only    *)
(* gets to the comparison with every measurement it needs (OrderInv).      *)
(***************************************************************************)
EXTENDS HealthGate, TLAPS

TypeOK ==
    /\ isolate \in BOOLEAN /\ hasBaseline \in BOOLEAN
    /\ accuracy \in [Subject -> 0..MaxAccuracy]
    /\ subject \in Subject
    /\ pc \in Exchange \cup {"begin", "reap", "term", "kill", "enforce", "done"}
    /\ metrics \in [Subject -> Metrics \cup {None}]
    /\ gate \in {"running", "passed", "refused"}
    /\ child \in [Subject -> {"unborn", "boot", "idle", "serving", "exiting", "dead"}]
    /\ signal \in [Subject -> {"none", "term", "kill"}]
    /\ loaded \subseteq Subject
    /\ toChild \in [Subject -> {"none", "model", "validation"}]
    /\ toParent \in [Subject ->
          [kind : {"none", "ready", "loaded", "metrics", "qualification_error"},
           body : Metrics \cup {None}]]

(* m is a measurement of the model s, by a process that had loaded it.     *)
Measured(s, m) ==
    /\ m \in Metrics /\ m.accuracy = accuracy[s]
    /\ isolate => s \in loaded

(* Every measurement, in the agent or under way, is genuine.               *)
MeasuredInv ==
    \A s \in Subject :
        /\ metrics[s] # None => Measured(s, metrics[s])
        /\ toParent[s].kind = "metrics" => Measured(s, toParent[s].body)
        /\ child[s] = "serving" => s \in loaded

(* The baseline comes after the candidate has been measured, if at all,    *)
(* and the comparison after the last of them.                              *)
OrderInv ==
    /\ subject = "baseline" => hasBaseline /\ metrics["candidate"] # None
    /\ subject = "candidate" => /\ metrics["baseline"] = None
                                /\ child["baseline"] = "unborn"
                                /\ "baseline" \notin loaded
    /\ pc = "enforce" => /\ metrics[subject] # None
                         /\ hasBaseline => subject = "baseline"

(* A verdict is the last step and was reached on complete measurements.    *)
VerdictInv ==
    gate = "passed" =>
        /\ pc = "done"
        /\ metrics["candidate"] # None
        /\ hasBaseline => metrics["baseline"] # None
        /\ Enforce(metrics["candidate"], metrics["baseline"])

IInv == TypeOK /\ MeasuredInv /\ OrderInv /\ VerdictInv /\ NoChildLeft

USE PolicyAssumption
USE DEF given, agent, process, Subject, Exchange

-----------------------------------------------------------------------------
(* The agent's own steps                                                   *)

LEMMA VerdictStep == ASSUME IInv, Verdict PROVE IInv'
<1> USE DEF Verdict
<1>1. TypeOK' /\ MeasuredInv' /\ OrderInv'
  BY DEF IInv, TypeOK, MeasuredInv, Measured, OrderInv
<1>2. VerdictInv'
  BY DEF IInv, TypeOK, OrderInv, VerdictInv, Enforce
<1>3. NoChildLeft'
  BY DEF IInv, TypeOK, NoChildLeft, Alive
<1> QED BY <1>1, <1>2, <1>3 DEF IInv

LEMMA InProcessStep == ASSUME IInv, InProcess PROVE IInv'
<1> USE DEF InProcess, Qualified, Refused
<1>1. \A b \in BOOLEAN : [accuracy |-> accuracy[subject], limits |-> b] \in Metrics
  BY DEF IInv, TypeOK, Metrics
<1>2. None \notin Metrics
  BY DEF Metrics
<1>3. TypeOK'
  BY <1>1 DEF IInv, TypeOK
<1>4. MeasuredInv'
  BY <1>1 DEF IInv, TypeOK, MeasuredInv, Measured
<1>5. OrderInv'
  BY <1>1, <1>2 DEF IInv, TypeOK, OrderInv
<1>6. VerdictInv'
  BY DEF IInv, TypeOK, VerdictInv
<1>7. NoChildLeft'
  BY DEF IInv, TypeOK, NoChildLeft, Alive
<1> QED BY <1>3, <1>4, <1>5, <1>6, <1>7 DEF IInv

LEMMA SpawnStep == ASSUME IInv, InputRefused \/ Spawn PROVE IInv'
<1> USE DEF InputRefused, Spawn, Refused
<1>1. TypeOK'
  BY ZenonT(60) DEF IInv, TypeOK
<1>2. MeasuredInv' /\ OrderInv'
  BY DEF IInv, TypeOK, MeasuredInv, Measured, OrderInv
<1>3. VerdictInv'
  BY DEF IInv, TypeOK, VerdictInv
<1>4. NoChildLeft'
  BY DEF IInv, TypeOK, NoChildLeft, Alive
<1> QED BY <1>1, <1>2, <1>3, <1>4 DEF IInv

LEMMA ReceiveStep == ASSUME IInv, Receive PROVE IInv'
<1> USE DEF Receive
<1>1. TypeOK'
  BY DEF IInv, TypeOK, Following, Request
<1>2. MeasuredInv'
  BY DEF IInv, TypeOK, MeasuredInv, Measured, Expected
<1>3. OrderInv'
  BY DEF IInv, TypeOK, MeasuredInv, Measured, OrderInv, Expected, Following
<1>4. VerdictInv'
  BY DEF IInv, TypeOK, VerdictInv
<1>5. NoChildLeft'
  BY DEF IInv, TypeOK, NoChildLeft, Alive, Following
<1> QED BY <1>1, <1>2, <1>3, <1>4, <1>5 DEF IInv

LEMMA GiveUpStep == ASSUME IInv, BadAnswer \/ Deadline PROVE IInv'
<1> USE DEF BadAnswer, Deadline, GiveUp
<1>1. TypeOK' /\ OrderInv' /\ VerdictInv'
  BY DEF IInv, TypeOK, OrderInv, VerdictInv, Enforce
<1>2. MeasuredInv'
  BY DEF IInv, MeasuredInv, Measured
<1>3. NoChildLeft'
  BY DEF IInv, TypeOK, NoChildLeft, Alive
<1> QED BY <1>1, <1>2, <1>3 DEF IInv

LEMMA JoinStep == ASSUME IInv, Reap \/ JoinTerm \/ JoinKill PROVE IInv'
<1> USE DEF Reap, JoinTerm, JoinKill, Leave, Qualified, Refused
<1>1. TypeOK'
  <2>1. /\ UNCHANGED <<given, metrics, process, toChild>>
        /\ signal' = signal \/ \E x \in {"term", "kill"} :
                                 signal' = [signal EXCEPT ![subject] = x]
        /\ subject' \in Subject
        /\ pc' \in {"begin", "term", "kill", "enforce", "done"}
        /\ gate' \in {"running", "passed", "refused"}
    BY DEF IInv, TypeOK
  <2> QED BY <2>1 DEF IInv, TypeOK
<1>2. MeasuredInv'
  BY DEF IInv, TypeOK, MeasuredInv, Measured
<1>3. OrderInv'
  BY DEF IInv, TypeOK, OrderInv
<1>4. VerdictInv'
  BY DEF IInv, TypeOK, VerdictInv
<1>5. NoChildLeft'
  BY DEF IInv, TypeOK, NoChildLeft, Alive
<1> QED BY <1>1, <1>2, <1>3, <1>4, <1>5 DEF IInv

-----------------------------------------------------------------------------
(* The children                                                            *)

LEMMA ChildStep ==
    ASSUME IInv, NEW s \in Subject,
           ChildBoot(s) \/ ChildLoad(s) \/ ChildMeasure(s) \/ ChildDies(s)
    PROVE  IInv'
<1> USE DEF ChildBoot, ChildLoad, ChildMeasure, ChildDies, Report, Answer
<1>1. \A b \in BOOLEAN : [accuracy |-> accuracy[s], limits |-> b] \in Metrics
  BY DEF IInv, TypeOK, Metrics
<1>2. TypeOK'
  <2>1. \E c \in {"idle", "serving", "exiting", "dead"} :
            child' = [child EXCEPT ![s] = c]
    OBVIOUS
  <2>2. \/ toParent' = toParent
        \/ \E k \in {"ready", "loaded", "metrics", "qualification_error"},
              b \in Metrics \cup {None} :
              toParent' = [toParent EXCEPT ![s] = [kind |-> k, body |-> b]]
    BY <1>1
  <2>3. toChild' = toChild \/ toChild' = [toChild EXCEPT ![s] = "none"]
    OBVIOUS
  <2>4. loaded' \subseteq Subject /\ UNCHANGED <<given, agent, signal>>
    BY DEF IInv, TypeOK
  <2> QED BY <2>1, <2>2, <2>3, <2>4, SMT DEF IInv, TypeOK
<1>3. MeasuredInv'
  BY <1>1 DEF IInv, TypeOK, MeasuredInv, Measured
<1>4. OrderInv'
  BY DEF IInv, TypeOK, OrderInv, Alive
<1>5. VerdictInv'
  BY DEF IInv, TypeOK, VerdictInv
<1>6. NoChildLeft'
  BY DEF IInv, TypeOK, NoChildLeft, Alive
<1> QED BY <1>2, <1>3, <1>4, <1>5, <1>6 DEF IInv

-----------------------------------------------------------------------------
LEMMA Invariance == Spec => []IInv
<1>1. Init => IInv
  BY DEF Init, IInv, TypeOK, MeasuredInv, OrderInv, VerdictInv, NoChildLeft, Alive
<1>2. ASSUME IInv, [Next]_vars
      PROVE  IInv'
  <2>1. ASSUME UNCHANGED vars PROVE IInv'
    BY <1>2, <2>1 DEF vars, IInv, TypeOK, MeasuredInv, Measured, OrderInv,
       VerdictInv, Enforce, NoChildLeft, Alive
  <2> QED BY <1>2, <2>1, VerdictStep, InProcessStep, SpawnStep, ReceiveStep,
             GiveUpStep, JoinStep, ChildStep DEF Next, AgentStep
<1> QED BY <1>1, <1>2, PTL DEF Spec

(* A deployment's candidate passes the gate only on its own accuracy,      *)
(* measured by a process that had loaded it, and with the active model     *)
(* measured too: whatever a child does, no regression is waved through.    *)
THEOREM PassAlwaysEarned == Spec => []PassEarned
<1>1. ASSUME IInv, gate = "passed"
      PROVE  /\ accuracy["candidate"] >= MinAccuracy
             /\ hasBaseline => accuracy["baseline"] - accuracy["candidate"] <= MaxDrop
             /\ isolate => loaded = IF hasBaseline THEN Subject ELSE {"candidate"}
  <2>1. /\ Enforce(metrics["candidate"], metrics["baseline"])
        /\ Measured("candidate", metrics["candidate"])
        /\ hasBaseline => Measured("baseline", metrics["baseline"])
        /\ hasBaseline => metrics["baseline"] # None
    BY <1>1 DEF IInv, VerdictInv, MeasuredInv
  <2>2. ~hasBaseline => loaded \subseteq {"candidate"}
    BY <1>1 DEF IInv, TypeOK, OrderInv
  <2>3. loaded \subseteq Subject
    BY <1>1 DEF IInv, TypeOK
  <2>4. accuracy["candidate"] >= MinAccuracy
    BY <2>1 DEF Enforce, Measured
  <2>5. hasBaseline => accuracy["baseline"] - accuracy["candidate"] <= MaxDrop
    BY <2>1 DEF Enforce, Measured
  <2> QED BY <2>1, <2>2, <2>3, <2>4, <2>5 DEF Measured
<1>2. IInv => PassEarned
  BY <1>1 DEF PassEarned
<1> QED BY <1>2, Invariance, PTL

(* The gate never runs two model processes and leaves none behind that it  *)
(* has not sent SIGKILL, on every way out of the finally block.            *)
THEOREM NoChildEverLeft == Spec => []NoChildLeft
BY Invariance, PTL DEF IInv
=============================================================================
