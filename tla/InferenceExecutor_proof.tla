---------------------- MODULE InferenceExecutor_proof ----------------------
(***************************************************************************)
(* Proofs about the bounded inference executor, for any number of tasks    *)
(* and workers, every capacity and overflow policy.                        *)
(*                                                                         *)
(* The argument is about where a task is.  It is in the queue once; on its *)
(* way out unserved, in the hands of the thread that evicts, drains or     *)
(* expires it; held by one worker; or in none of these places.  Only a     *)
(* worker that holds a task starts it, and a task that is queued or        *)
(* leaving is neither held nor started (PlaceInv).                         *)
(***************************************************************************)
EXTENDS InferenceExecutor, SequenceTheorems, FiniteSetTheorems,
        WellFoundedInduction, TLAPS

Distinct(q) == \A i, j \in 1..Len(q) : q[i] = q[j] => i = j

(* t was removed from the queue by a thread that will refuse it.           *)
Leaving(t) ==
    \/ t = evicted
    \/ t \in Range(drained)
    \/ \E w \in Worker : t \in Range(stale[w])

(* t was popped by a worker.                                               *)
Held(t) == \E w \in Worker : item[w] = t

Nowhere(t) ==
    t \notin Range(queue) /\ ~Leaving(t) /\ ~Held(t) /\ t \notin started

(* _state_lock is held by the caller that evicts or by close().            *)
LockInv ==
    /\ \A t \in Task : pc[t] = "evicting" <=> stateLock = t
    /\ evicted # None <=> stateLock \in Task
    /\ stateLock = Closer <=> closer = "draining"

(* Nothing enters the executor once _closed is set.                        *)
CloseInv ==
    /\ closer # "idle" <=> closed
    /\ closed => queue = <<>> /\ evicted = None
    /\ closer # "draining" => drained = <<>>
    /\ closer = "quiet" => \A w \in Worker : ~Alive(w)

(* What a worker has in hand at each point of its loop.                    *)
WorkerInv ==
    \A w \in Worker :
        /\ ~up => wpc[w] = "unborn"
        /\ wpc[w] \in {"unborn", "pop", "exited"} => item[w] = None
        /\ wpc[w] \in {"run", "completed", "failed", "dead"} => item[w] # None
        /\ wpc[w] \notin {"pop", "flush"} => stale[w] = <<>>
        /\ wpc[w] \in {"completed", "failed", "dead"} => Done(item[w])

PlaceInv ==
    /\ Distinct(queue)
    /\ \A t \in Range(queue) : ~Leaving(t)
    /\ \A t \in Task : t \in Range(queue) \/ Leaving(t) => t \notin started /\ ~Held(t)
    /\ \A w, u \in Worker : item[w] = item[u] /\ item[w] # None => w = u
    /\ \A t \in Task : pc[t] \in {"new", "enqueue"} => Nowhere(t)

(* An answer that says the request did not run is final.                   *)
ReplyInv ==
    \A t \in Task :
        /\ reply[t] # None => pc[t] = "returned"
        /\ reply[t] \in {"full", "closed", "dropped", "expired"} =>
              outcome[t] \in Unserved \/ Nowhere(t)
        /\ outcome[t] \in Unserved => t \notin started
        /\ reply[t] = "cancelled" \/ outcome[t] = "cancelled" => t \in Async

(* A caller that waits for an outcome waits for a task that is somewhere.  *)
WaitInv ==
    \A t \in Task :
        pc[t] \in {"evicting", "waiting", "awaiting"} /\ ~Done(t) =>
            t \in Range(queue) \/ Leaving(t) \/ Held(t)

IInv ==
    /\ TypeOK /\ LockInv /\ CloseInv /\ WorkerInv
    /\ PlaceInv /\ ReplyInv /\ WaitInv

USE TaskAssumption, CapacityAssumption, PolicyAssumption, NameAssumption

-----------------------------------------------------------------------------
(* Sequences                                                               *)

LEMMA LeastExists ==
    ASSUME NEW S \in SUBSET Nat, S # {}
    PROVE  \E i \in S : \A j \in S : i <= j
<1> DEFINE R == {ss \in Nat \X Nat : ss[1] < ss[2]}
<1>1. IsWellFoundedOn(R, Nat)
  BY NatLessThanWellFounded, Zenon DEF OpToRel
<1>2. \A x, y \in Nat : ~(<<y, x>> \in R) => x <= y
  OBVIOUS
<1> HIDE DEF R
<1>3. \E x \in S : \A y \in S : ~(<<y, x>> \in R)
  BY <1>1, WFMin
<1> QED BY <1>2, <1>3

LEMMA RangeLemma ==
    ASSUME NEW T, NEW q \in Seq(T)
    PROVE  /\ \A x : x \in Range(q) <=> \E i \in 1..Len(q) : q[i] = x
           /\ Range(q) \subseteq T
           /\ q = <<>> <=> Range(q) = {}
           /\ Len(q) \in Nat
<1>1. DOMAIN q = 1..Len(q) /\ Len(q) \in Nat /\ \A i \in 1..Len(q) : q[i] \in T
  OBVIOUS
<1>2. \A x : x \in Range(q) <=> \E i \in 1..Len(q) : q[i] = x
  BY <1>1, Zenon DEF Range
<1>3. q = <<>> <=> Len(q) = 0
  OBVIOUS
<1>4. Len(q) = 0 <=> 1..Len(q) = {}
  BY <1>1
<1> QED BY <1>1, <1>2, <1>3, <1>4

LEMMA EmptyLemma ==
    Range(<<>>) = {} /\ Len(<<>>) = 0 /\ Distinct(<<>>)
BY DEF Range, Distinct

LEMMA AppendLemma ==
    ASSUME NEW T, NEW q \in Seq(T), NEW e \in T
    PROVE  /\ Append(q, e) \in Seq(T)
           /\ Len(Append(q, e)) = Len(q) + 1
           /\ Range(Append(q, e)) = Range(q) \cup {e}
           /\ Distinct(q) /\ e \notin Range(q) => Distinct(Append(q, e))
<1>1. /\ Append(q, e) \in Seq(T)
      /\ Len(Append(q, e)) = Len(q) + 1
      /\ \A i \in 1..Len(q) : Append(q, e)[i] = q[i]
      /\ Append(q, e)[Len(q) + 1] = e
      /\ Len(q) \in Nat
  OBVIOUS
<1> DEFINE a == Append(q, e)
<1>2. \A x : x \in Range(a) <=> \E i \in 1..Len(a) : a[i] = x
  BY <1>1, RangeLemma
<1>3. \A x : x \in Range(q) <=> \E i \in 1..Len(q) : q[i] = x
  BY RangeLemma
<1> HIDE DEF a
<1>4. Range(a) = Range(q) \cup {e}
  BY <1>1, <1>2, <1>3 DEF a
<1>5. ASSUME Distinct(q), e \notin Range(q)
      PROVE  Distinct(Append(q, e))
  BY <1>1, <1>3, <1>5 DEF Distinct
<1> QED BY <1>1, <1>4, <1>5 DEF a

LEMMA TailLemma ==
    ASSUME NEW T, NEW q \in Seq(T), q # <<>>
    PROVE  /\ Head(q) \in T /\ Tail(q) \in Seq(T)
           /\ Len(Tail(q)) = Len(q) - 1
           /\ Range(q) = {Head(q)} \cup Range(Tail(q))
           /\ Distinct(q) => Distinct(Tail(q)) /\ Head(q) \notin Range(Tail(q))
<1> DEFINE a == Tail(q)
<1>1. /\ Head(q) \in T /\ a \in Seq(T) /\ Len(a) = Len(q) - 1
      /\ Head(q) = q[1]
      /\ \A i \in 1..Len(a) : a[i] = q[i + 1]
      /\ Len(q) \in Nat \ {0}
  OBVIOUS
<1>2. \A x : x \in Range(a) <=> \E i \in 1..Len(a) : a[i] = x
  BY <1>1, RangeLemma
<1>3. \A x : x \in Range(q) <=> \E i \in 1..Len(q) : q[i] = x
  BY RangeLemma
<1> HIDE DEF a
<1>4. Range(q) = {Head(q)} \cup Range(a)
  <2>1. ASSUME NEW x \in Range(q) PROVE x = Head(q) \/ x \in Range(a)
    <3>1. PICK i \in 1..Len(q) : q[i] = x
      BY <1>3
    <3>2. CASE i = 1
      BY <3>1, <3>2, <1>1
    <3>3. CASE i # 1
      <4>1. i - 1 \in 1..Len(a) /\ a[i - 1] = x
        BY <3>1, <3>3, <1>1
      <4> QED BY <4>1, <1>2
    <3> QED BY <3>2, <3>3
  <2>2. Head(q) \in Range(q)
    BY <1>1, <1>3
  <2>3. Range(a) \subseteq Range(q)
    BY <1>1, <1>2, <1>3
  <2> QED BY <2>1, <2>2, <2>3
<1>5. ASSUME Distinct(q) PROVE Distinct(a) /\ Head(q) \notin Range(a)
  BY <1>1, <1>2, <1>5 DEF Distinct
<1> QED BY <1>1, <1>4, <1>5 DEF a

(* What a scan of the queue takes from its front, when it stops after n.   *)
LEMMA SplitLemma ==
    ASSUME NEW T, NEW q \in Seq(T), NEW n \in 0..Len(q)
    PROVE  /\ SubSeq(q, 1, n) \in Seq(T) /\ SubSeq(q, n + 2, Len(q)) \in Seq(T)
           /\ n < Len(q) => /\ q[n + 1] \in T
                            /\ Len(SubSeq(q, n + 2, Len(q))) = Len(q) - n - 1
                            /\ Range(q) = Range(SubSeq(q, 1, n)) \cup {q[n + 1]}
                                          \cup Range(SubSeq(q, n + 2, Len(q)))
           /\ n = Len(q) => /\ SubSeq(q, n + 2, Len(q)) = <<>>
                            /\ Range(q) = Range(SubSeq(q, 1, n))
           /\ Distinct(q) =>
                /\ Distinct(SubSeq(q, n + 2, Len(q)))
                /\ Range(SubSeq(q, 1, n)) \cap Range(SubSeq(q, n + 2, Len(q))) = {}
                /\ n < Len(q) => q[n + 1] \notin Range(SubSeq(q, 1, n))
                                                 \cup Range(SubSeq(q, n + 2, Len(q)))
<1> DEFINE a == SubSeq(q, 1, n)
           b == SubSeq(q, n + 2, Len(q))
           L == Len(q)
<1>1. /\ L \in Nat /\ n \in Nat /\ n <= L
      /\ \A i \in 1..L : q[i] \in T
  OBVIOUS
<1>2. /\ a \in Seq(T) /\ Len(a) = n
      /\ \A i \in 1..n : a[i] = q[i]
  BY <1>1, SubSeqProperties
<1>3. /\ b \in Seq(T) /\ Len(b) = IF n < L THEN L - n - 1 ELSE 0
      /\ \A i \in 1..Len(b) : b[i] = q[n + 1 + i]
  <2>1. \A i \in (n + 2)..L : q[i] \in T
    BY <1>1
  <2>2. /\ b \in Seq(T) /\ Len(b) = IF n + 2 <= L THEN L - (n + 2) + 1 ELSE 0
        /\ \A i \in 1..(L - (n + 2) + 1) : b[i] = q[(n + 2) + i - 1]
    BY <1>1, <2>1, SubSeqProperties
  <2> QED BY <1>1, <2>2
<1>4. /\ \A x : x \in Range(a) <=> \E i \in 1..Len(a) : a[i] = x
      /\ \A x : x \in Range(b) <=> \E i \in 1..Len(b) : b[i] = x
      /\ \A x : x \in Range(q) <=> \E i \in 1..L : q[i] = x
  <2> HIDE DEF a, b
  <2> QED BY <1>2, <1>3, RangeLemma
<1> HIDE DEF a, b, L
<1>5. ASSUME n < L
      PROVE  q[n + 1] \in T /\ Range(q) = Range(a) \cup {q[n + 1]} \cup Range(b)
  <2>1. ASSUME NEW x \in Range(q)
        PROVE  x \in Range(a) \/ x = q[n + 1] \/ x \in Range(b)
    <3>1. PICK i \in 1..L : q[i] = x
      BY <1>4
    <3>2. CASE i <= n
      BY <1>1, <1>2, <1>4, <3>1, <3>2
    <3>3. CASE i > n + 1
      <4>1. i - (n + 1) \in 1..Len(b) /\ b[i - (n + 1)] = x
        BY <1>1, <1>3, <1>5, <3>1, <3>3
      <4> QED BY <1>4, <4>1
    <3> QED BY <1>1, <3>1, <3>2, <3>3
  <2>2. Range(a) \subseteq Range(q)
    BY <1>1, <1>2, <1>4
  <2>3. Range(b) \subseteq Range(q)
    BY <1>1, <1>3, <1>4, <1>5
  <2>4. q[n + 1] \in Range(q) /\ q[n + 1] \in T
    BY <1>1, <1>4, <1>5
  <2> QED BY <2>1, <2>2, <2>3, <2>4
<1>6. ASSUME n = L
      PROVE  b = <<>> /\ Range(q) = Range(a)
  <2>1. b = <<>>
    BY <1>3, <1>6
  <2>2. \A x : x \in Range(q) <=> x \in Range(a)
    BY <1>1, <1>2, <1>4, <1>6
  <2> QED BY <2>1, <2>2
<1>7. ASSUME Distinct(q)
      PROVE  /\ Distinct(b) /\ Range(a) \cap Range(b) = {}
             /\ n < L => q[n + 1] \notin Range(a) \cup Range(b)
  <2>0. \A i, j \in 1..L : q[i] = q[j] => i = j
    BY <1>7 DEF Distinct, L
  <2>1. Distinct(b)
    <3> SUFFICES ASSUME NEW i \in 1..Len(b), NEW j \in 1..Len(b), b[i] = b[j]
                 PROVE  i = j
      BY DEF Distinct
    <3>1. n + 1 + i \in 1..L /\ n + 1 + j \in 1..L /\ q[n + 1 + i] = q[n + 1 + j]
      BY <1>1, <1>3
    <3> QED BY <1>1, <2>0, <3>1
  <2>2. ASSUME NEW x \in Range(a), x \in Range(b) PROVE FALSE
    <3>1. PICK i \in 1..n : q[i] = x
      BY <1>2, <1>4
    <3>2. PICK j \in 1..Len(b) : q[n + 1 + j] = x
      BY <1>3, <1>4, <2>2
    <3>3. i \in 1..L /\ n + 1 + j \in 1..L /\ i # n + 1 + j
      BY <1>1, <1>3
    <3> QED BY <2>0, <3>1, <3>2, <3>3
  <2>3. ASSUME n < L PROVE q[n + 1] \notin Range(a)
    BY <1>1, <1>2, <1>4, <2>0, <2>3
  <2>4. ASSUME n < L PROVE q[n + 1] \notin Range(b)
    <3>1. ASSUME NEW i \in 1..Len(b) PROVE b[i] # q[n + 1]
      <4>1. n + 1 \in 1..L /\ n + 1 + i \in 1..L /\ n + 1 + i # n + 1
        BY <1>1, <1>3, <2>4
      <4> QED BY <1>3, <2>0, <4>1
    <3> QED BY <1>4, <3>1
  <2> QED BY <2>1, <2>2, <2>3, <2>4
<1> QED BY <1>2, <1>3, <1>5, <1>6, <1>7 DEF a, b, L

LEMMA RemoveFirstLemma ==
    ASSUME NEW T, NEW q \in Seq(T), NEW e \in T
    PROVE  /\ RemoveFirst(q, e) \in Seq(T)
           /\ Len(RemoveFirst(q, e)) = IF Contains(q, e) THEN Len(q) - 1 ELSE Len(q)
           /\ Range(RemoveFirst(q, e)) \subseteq Range(q)
           /\ Range(q) \subseteq Range(RemoveFirst(q, e)) \cup {e}
           /\ Distinct(q) => Distinct(RemoveFirst(q, e))
           /\ Contains(q, e) => Len(q) > 0
<1>1. CASE ~Contains(q, e)
  BY <1>1, RangeLemma DEF Contains, RemoveFirst
<1>2. CASE Contains(q, e)
  <2> DEFINE I == {i \in 1..Len(q) : q[i] = e}
             m == Min(I)
             r == RemoveFirst(q, e)
  <2>1. I # {} /\ I \in SUBSET Nat
    BY <1>2 DEF Contains
  <2>2. m \in I
    <3> HIDE DEF I
    <3> QED BY <2>1, LeastExists DEF Min
  <2>3. r = SubSeq(q, 1, m - 1) \o SubSeq(q, m + 1, Len(q))
    BY <1>2 DEF Contains, RemoveFirst, SelectInSeq, RemoveAt
  <2>4. m \in 1..Len(q) /\ q[m] = e /\ m - 1 \in 0..Len(q) /\ m - 1 < Len(q)
        /\ (m - 1) + 2 = m + 1 /\ (m - 1) + 1 = m /\ Len(q) \in Nat
    BY <2>2
  <2> HIDE DEF I, m, r
  <2> DEFINE a == SubSeq(q, 1, m - 1)
             b == SubSeq(q, m + 1, Len(q))
  <2>5. /\ a \in Seq(T) /\ b \in Seq(T)
        /\ Len(b) = Len(q) - (m - 1) - 1
        /\ Range(q) = Range(a) \cup {e} \cup Range(b)
    BY <2>4, SplitLemma
  <2>6. Len(a) = m - 1 /\ \A i \in 1..(m - 1) : a[i] = q[i]
    BY <2>4, SubSeqProperties
  <2>7. Len(b) = Len(q) - m /\ \A i \in 1..Len(b) : b[i] = q[m + i]
    BY <2>4, SubSeqProperties
  <2> HIDE DEF a, b
  <2>8. r \in Seq(T) /\ Len(r) = Len(q) - 1 /\ Range(r) = Range(a) \cup Range(b)
        /\ \A i \in 1..Len(r) : r[i] = IF i < m THEN q[i] ELSE q[i + 1]
    <3>1. r = a \o b
      BY <2>3 DEF a, b
    <3>2. r \in Seq(T) /\ Len(r) = Len(a) + Len(b)
          /\ \A i \in 1..(Len(a) + Len(b)) :
                r[i] = IF i <= Len(a) THEN a[i] ELSE b[i - Len(a)]
      BY <2>5, <3>1, ConcatProperties
    <3>3. Range(r) = Range(a) \cup Range(b)
      BY <2>5, <3>1, RangeConcatenation
    <3> QED BY <2>4, <2>6, <2>7, <3>2, <3>3
  <2>9. Distinct(q) => Distinct(r)
    BY <2>4, <2>8 DEF Distinct
  <2> QED BY <1>2, <2>4, <2>5, <2>8, <2>9 DEF r
<1> QED BY <1>1, <1>2

LEMMA StalePrefixType ==
    ASSUME TypeOK
    PROVE  StalePrefix \in 0..Len(queue) /\ Len(queue) \in Nat
<1> DEFINE live == {i \in 1..Len(queue) : queue[i] \notin due}
<1>1. Len(queue) \in Nat
  BY DEF TypeOK
<1>2. live \in SUBSET Nat /\ \A i \in live : i - 1 \in 0..Len(queue)
  BY <1>1
<1>3. StalePrefix = IF live = {} THEN Len(queue)
                    ELSE (CHOOSE i \in live : \A j \in live : i <= j) - 1
  BY DEF StalePrefix
<1> HIDE DEF live
<1>4. live # {} => (CHOOSE i \in live : \A j \in live : i <= j) \in live
  <2> DEFINE m == CHOOSE i \in live : \A j \in live : i <= j
  <2>1. ASSUME live # {} PROVE \E i \in live : \A j \in live : i <= j
    BY <1>2, <2>1, LeastExists
  <2> QED BY <2>1
<1>5. CASE live = {}
  BY <1>1, <1>3, <1>5
<1>6. CASE live # {}
  BY <1>1, <1>2, <1>3, <1>4, <1>6
<1> QED BY <1>5, <1>6

-----------------------------------------------------------------------------
(* Steps that move no task                                                 *)

USE DEF callers, tasks, workers, closing

LEMMA OutcomeNames ==
    /\ "expired" \in Unserved /\ "dropped" \in Unserved
    /\ "closed" \in Unserved /\ "cancelled" \in Unserved
    /\ "ok" \notin Unserved /\ "failed" \notin Unserved
    /\ "expired" \in Outcomes /\ "dropped" \in Outcomes
    /\ "closed" \in Outcomes /\ "cancelled" \in Outcomes
    /\ "ok" \in Outcomes /\ "failed" \in Outcomes
    /\ "full" \notin Outcomes /\ None \notin Outcomes /\ None \notin Unserved
BY DEF Outcomes, Unserved

(* An outcome or an answer that is set to one of the Outcomes.             *)
LEMMA AnswerType ==
    ASSUME TypeOK, NEW t \in Task, NEW x \in Outcomes \cup {"full"}
    PROVE  /\ [reply EXCEPT ![t] = x] \in [Task -> Outcomes \cup {"full", None}]
           /\ x \in Outcomes =>
                [outcome EXCEPT ![t] = x] \in [Task -> Outcomes \cup {None}]
BY DEF TypeOK

(* complete(): the first outcome stays.                                    *)
LEMMA CompleteLemma ==
    ASSUME TypeOK, NEW t \in Task, NEW x \in Outcomes, Complete(t, x)
    PROVE  /\ outcome' \in [Task -> Outcomes \cup {None}]
           /\ \A u \in Task :
                outcome'[u] = IF u = t /\ outcome[t] = None THEN x ELSE outcome[u]
           /\ outcome'[t] # None
BY AnswerType, OutcomeNames DEF TypeOK, Complete, Done

LEMMA PlaceFrame ==
    ASSUME UNCHANGED <<queue, evicted, drained, stale, item, started>>
    PROVE  /\ Range(queue)' = Range(queue)
           /\ \A t : Leaving(t)' <=> Leaving(t)
           /\ \A t : Held(t)' <=> Held(t)
           /\ \A t : Nowhere(t)' <=> Nowhere(t)
BY DEF Leaving, Held, Nowhere

LEMMA PlaceInvFrame ==
    ASSUME IInv, UNCHANGED <<queue, evicted, drained, stale, item, started>>,
           \A t \in Task : pc'[t] \in {"new", "enqueue"} => pc[t] \in {"new", "enqueue"}
    PROVE  PlaceInv'
BY PlaceFrame DEF IInv, PlaceInv, Distinct

LEMMA StartStep ==
    ASSUME IInv,
           EnsureReady \/ \E t \in Task : Submit(t)
    PROVE  IInv'
<1> USE DEF EnsureReady, Submit, StartWorkers
<1>1. TypeOK'
  <2>1. /\ up' \in BOOLEAN
        /\ wpc' = wpc \/ wpc' = [w \in Worker |-> "pop"]
        /\ \/ UNCHANGED <<pc, reply>>
           \/ \E t \in Task : /\ \/ pc' = [pc EXCEPT ![t] = "returned"]
                                 \/ pc' = [pc EXCEPT ![t] = "enqueue"]
                              /\ \/ reply' = reply
                                 \/ reply' = [reply EXCEPT ![t] = "closed"]
        /\ UNCHANGED <<closed, stateLock, queue, due, outcome, started,
                       loopClosed, evicted, drained, closer, item, stale, stats>>
    BY DEF IInv, TypeOK
  <2> HIDE DEF EnsureReady, Submit, StartWorkers
  <2>2. /\ wpc' \in [Worker -> {"unborn", "pop", "flush", "run", "completed",
                              "failed", "exited", "dead"}]
    BY <2>1 DEF IInv, TypeOK
  <2>3. /\ pc' \in [Task -> {"new", "enqueue", "evicting", "waiting", "awaiting",
                             "withdraw", "returned"}]
    BY <2>1 DEF IInv, TypeOK
  <2>4. reply' \in [Task -> Outcomes \cup {"full", None}]
    <3>1. TypeOK /\ reply \in [Task -> Outcomes \cup {"full", None}]
      BY DEF IInv, TypeOK
    <3> QED BY <2>1, <3>1, AnswerType, OutcomeNames
  <2> QED BY <2>1, <2>2, <2>3, <2>4 DEF IInv, TypeOK
<1>2. LockInv'
  BY DEF IInv, TypeOK, LockInv
<1>3. WorkerInv'
  BY DEF IInv, TypeOK, WorkerInv, Done
<1>4. CloseInv'
  BY DEF IInv, TypeOK, CloseInv, Alive
<1>5. PlaceInv'
  BY PlaceInvFrame DEF IInv, TypeOK
<1>6. ReplyInv'
  BY PlaceFrame DEF IInv, TypeOK, PlaceInv, ReplyInv
<1>7. WaitInv'
  BY PlaceFrame DEF IInv, TypeOK, WaitInv, Done
<1> QED BY <1>1, <1>2, <1>3, <1>4, <1>5, <1>6, <1>7 DEF IInv

(* Time passes, or the caller's event loop is closed.                      *)
LEMMA EnvironmentStep ==
    ASSUME IInv,
           \/ \E t \in Task : DeadlinePasses(t) \/ CloseLoop(t)
           \/ UNCHANGED vars
    PROVE  IInv'
<1>1. /\ UNCHANGED <<up, closed, stateLock, queue, pc, reply, outcome, started,
                     evicted, drained, closer, wpc, item, stale, stats>>
      /\ due' \subseteq Timed /\ loopClosed' \subseteq Async
  BY DEF DeadlinePasses, CloseLoop, vars, IInv, TypeOK, ReplyInv
<1>2. TypeOK'
  BY <1>1 DEF IInv, TypeOK
<1>3. LockInv' /\ CloseInv' /\ WorkerInv'
  BY <1>1 DEF IInv, LockInv, CloseInv, WorkerInv, Alive, Done
<1>4. PlaceInv' /\ ReplyInv' /\ WaitInv'
  BY <1>1, PlaceFrame, PlaceInvFrame DEF IInv, ReplyInv, WaitInv, Done
<1> QED BY <1>2, <1>3, <1>4 DEF IInv

LEMMA WaitStep ==
    ASSUME IInv, NEW t \in Task, TimeOut(t) \/ Return(t) \/ Cancel(t)
    PROVE  IInv'
<1> USE DEF TimeOut, Return, Cancel, Idle
<1>1. TypeOK'
  <2>1. /\ \E x \in {"withdraw", "awaiting", "returned"} : pc' = [pc EXCEPT ![t] = x]
        /\ \/ reply' = reply
           \/ \E x \in Outcomes : reply' = [reply EXCEPT ![t] = x]
        /\ \/ outcome' = outcome
           \/ \E x \in Outcomes : outcome' = [outcome EXCEPT ![t] = x]
        /\ UNCHANGED <<up, closed, stateLock, queue, due, started,
                       loopClosed, evicted, drained, closer, wpc, item, stale, stats>>
    BY OutcomeNames DEF IInv, TypeOK, Done
  <2>2. /\ pc' \in [Task -> {"new", "enqueue", "evicting", "waiting", "awaiting",
                             "withdraw", "returned"}]
    BY <2>1 DEF IInv, TypeOK
  <2>3. /\ reply' \in [Task -> Outcomes \cup {"full", None}]
        /\ outcome' \in [Task -> Outcomes \cup {None}]
    <3>1. /\ TypeOK /\ reply \in [Task -> Outcomes \cup {"full", None}]
          /\ outcome \in [Task -> Outcomes \cup {None}]
      BY DEF IInv, TypeOK
    <3> QED BY <2>1, <3>1, AnswerType
  <2> QED BY <2>1, <2>2, <2>3 DEF IInv, TypeOK
<1>2. LockInv' /\ CloseInv'
  BY DEF IInv, TypeOK, LockInv, CloseInv, Alive
<1>3. WorkerInv'
  BY DEF IInv, TypeOK, WorkerInv, Done
<1>4. PlaceInv'
  BY PlaceInvFrame DEF IInv, TypeOK
<1>5. ReplyInv'
  <2>1. CASE TimeOut(t)
    BY <2>1, PlaceFrame, OutcomeNames DEF IInv, TypeOK, ReplyInv, Done
  <2>2. CASE Return(t)
    BY <2>2, PlaceFrame, OutcomeNames DEF IInv, TypeOK, ReplyInv, Done
  <2>3. CASE Cancel(t)
    BY <2>3, PlaceFrame, OutcomeNames DEF IInv, TypeOK, ReplyInv, Done
  <2> QED BY <2>1, <2>2, <2>3
<1>6. WaitInv'
  BY PlaceFrame DEF IInv, TypeOK, WaitInv, Done
<1> QED BY <1>1, <1>2, <1>3, <1>4, <1>5, <1>6 DEF IInv

LEMMA CloserStepLemma ==
    ASSUME IInv, EndDrain \/ Join \/ JoinTimeout \/ CloseAgain
    PROVE  IInv'
<1> USE DEF EndDrain, Join, JoinTimeout, CloseAgain
<1>1. TypeOK'
  BY DEF IInv, TypeOK
<1>2. LockInv' /\ CloseInv' /\ WorkerInv'
  BY DEF IInv, TypeOK, LockInv, CloseInv, WorkerInv, Alive, Done
<1>3. PlaceInv' /\ ReplyInv' /\ WaitInv'
  BY PlaceFrame, PlaceInvFrame DEF IInv, ReplyInv, WaitInv, Done
<1> QED BY <1>1, <1>2, <1>3 DEF IInv

-----------------------------------------------------------------------------
(* Steps of callers that move tasks                                        *)

LEMMA EnqueueRefusedStep ==
    ASSUME IInv, NEW t \in Task, Enqueue(t), EnqueueClosed(t) \/ EnqueueRejected(t)
    PROVE  IInv'
<1>1. /\ pc[t] = "enqueue" /\ pc' = [pc EXCEPT ![t] = "returned"]
      /\ \E x \in {"closed", "full"} : reply' = [reply EXCEPT ![t] = x]
      /\ stats' \in [Counters -> Nat]
      /\ UNCHANGED <<stateLock, queue, evicted, due, loopClosed, tasks, up,
                     closed, closing, workers>>
  BY DEF IInv, TypeOK, Enqueue, EnqueueClosed, EnqueueRejected, Refuse, Count, Counters
<1>2. TypeOK'
  <2>1. reply' \in [Task -> Outcomes \cup {"full", None}]
    <3>1. TypeOK
      BY DEF IInv
    <3> QED BY <1>1, <3>1, AnswerType, OutcomeNames
  <2> QED BY <1>1, <2>1 DEF IInv, TypeOK
<1>3. LockInv' /\ CloseInv' /\ WorkerInv'
  BY <1>1 DEF IInv, TypeOK, LockInv, CloseInv, WorkerInv, Alive, Done
<1>4. PlaceInv'
  BY <1>1, PlaceInvFrame DEF IInv, TypeOK
<1>5. ReplyInv'
  BY <1>1, PlaceFrame DEF IInv, TypeOK, PlaceInv, ReplyInv
<1>6. WaitInv'
  BY <1>1, PlaceFrame DEF IInv, TypeOK, WaitInv, Done
<1> QED BY <1>2, <1>3, <1>4, <1>5, <1>6 DEF IInv

LEMMA EnqueueAcceptedStep ==
    ASSUME IInv, NEW t \in Task, Enqueue(t), EnqueueAccepted(t)
    PROVE  IInv'
<1>1. /\ pc[t] = "enqueue" /\ pc' = [pc EXCEPT ![t] = "waiting"]
      /\ queue' = Append(queue, t)
      /\ stats' \in [Counters -> Nat]
      /\ Len(queue) < Capacity /\ ~closed /\ stateLock = Free
      /\ UNCHANGED <<stateLock, evicted, reply, due, loopClosed, tasks, up,
                     closed, closing, workers>>
  BY DEF IInv, TypeOK, Enqueue, EnqueueAccepted, Count, Counters, Full
<1>2. /\ queue' \in Seq(Task) /\ Len(queue') = Len(queue) + 1
      /\ Range(queue') = Range(queue) \cup {t}
      /\ Distinct(queue) /\ t \notin Range(queue) => Distinct(queue')
      /\ Len(queue) \in Nat /\ Range(queue) \subseteq Task
  BY <1>1, AppendLemma, RangeLemma DEF IInv, TypeOK
<1>3. Nowhere(t)
  BY <1>1 DEF IInv, PlaceInv
<1>4. /\ \A u \in Task : Leaving(u)' <=> Leaving(u)
      /\ \A u \in Task : Held(u)' <=> Held(u)
  BY <1>1 DEF Leaving, Held
<1>5. TypeOK'
  BY <1>1, <1>2 DEF IInv, TypeOK
<1>6. LockInv' /\ CloseInv' /\ WorkerInv'
  BY <1>1 DEF IInv, TypeOK, LockInv, CloseInv, WorkerInv, Alive, Done
<1>7. PlaceInv'
  BY <1>1, <1>2, <1>3, <1>4 DEF IInv, TypeOK, PlaceInv, Nowhere
<1>8. ReplyInv'
  BY <1>1, <1>2, <1>4 DEF IInv, TypeOK, ReplyInv, Nowhere
<1>9. WaitInv'
  BY <1>1, <1>2, <1>4 DEF IInv, TypeOK, WaitInv, Done
<1> QED BY <1>5, <1>6, <1>7, <1>8, <1>9 DEF IInv

LEMMA EnqueueEvictingStep ==
    ASSUME IInv, NEW t \in Task, Enqueue(t), EnqueueEvicting(t)
    PROVE  IInv'
<1> DEFINE h == Head(queue)
<1>1. /\ pc[t] = "enqueue" /\ pc' = [pc EXCEPT ![t] = "evicting"]
      /\ queue' = Append(Tail(queue), t)
      /\ evicted' = h
      /\ stats' \in [Counters -> Nat]
      /\ Len(queue) >= Capacity /\ ~closed /\ stateLock = Free /\ stateLock' = t
      /\ UNCHANGED <<reply, due, loopClosed, tasks, up, closed, closing, workers>>
  <2>1. stats' = [stats EXCEPT !.accepted = @ + 1, !.dropped = @ + 1]
        /\ stats \in [Counters -> Nat]
    BY DEF EnqueueEvicting, IInv, TypeOK
  <2>2. \A f \in [Counters -> Nat] : \A c \in Counters :
           [f EXCEPT ![c] = @ + 1] \in [Counters -> Nat]
    OBVIOUS
  <2>3. stats' \in [Counters -> Nat]
    <3>1. [stats EXCEPT !["accepted"] = @ + 1] \in [Counters -> Nat]
      BY <2>1, <2>2 DEF Counters
    <3> QED BY <2>1, <2>2, <3>1 DEF Counters
  <2> QED BY <2>3 DEF Enqueue, EnqueueEvicting, Full
<1>2. /\ queue # <<>> /\ queue \in Seq(Task) /\ Len(queue) \in Nat
      /\ Len(queue) = Capacity
  BY <1>1 DEF IInv, TypeOK
<1>3. /\ h \in Task /\ Tail(queue) \in Seq(Task)
      /\ Len(Tail(queue)) = Len(queue) - 1
      /\ Range(queue) = {h} \cup Range(Tail(queue))
      /\ Distinct(Tail(queue)) /\ h \notin Range(Tail(queue))
  BY <1>2, TailLemma DEF IInv, PlaceInv
<1>4. Nowhere(t) /\ evicted = None
  BY <1>1 DEF IInv, PlaceInv, LockInv
<1>5. /\ queue' \in Seq(Task) /\ Len(queue') = Len(queue)
      /\ Range(queue') = Range(Tail(queue)) \cup {t}
      /\ Distinct(queue') /\ Range(queue) \subseteq Task
  <2>1. t \notin Range(Tail(queue))
    BY <1>3, <1>4 DEF Nowhere
  <2>2. Range(queue) \subseteq Task
    BY <1>2, RangeLemma
  <2> DEFINE r == Tail(queue)
  <2>3. r \in Seq(Task) /\ Distinct(r) /\ t \notin Range(r)
    BY <1>3, <2>1
  <2>4. queue' = Append(r, t) /\ Len(r) = Len(queue) - 1
    BY <1>1, <1>3
  <2> HIDE DEF r
  <2>5. /\ Append(r, t) \in Seq(Task) /\ Len(Append(r, t)) = Len(r) + 1
        /\ Range(Append(r, t)) = Range(r) \cup {t} /\ Distinct(Append(r, t))
    BY <2>3, AppendLemma
  <2>6. Len(queue') = Len(queue)
    BY <1>2, <2>4, <2>5
  <2> QED BY <2>2, <2>4, <2>5, <2>6 DEF r
<1> HIDE DEF h
<1>6. /\ \A u \in Task : Leaving(u)' <=> (Leaving(u) \/ u = h)
      /\ \A u \in Task : Held(u)' <=> Held(u)
  BY <1>1, <1>4 DEF Leaving, Held
<1>7. TypeOK'
  BY <1>1, <1>2, <1>3, <1>5 DEF IInv, TypeOK
<1>8. LockInv' /\ CloseInv' /\ WorkerInv'
  BY <1>1, <1>3 DEF IInv, TypeOK, LockInv, CloseInv, WorkerInv, Alive, Done
<1>9. PlaceInv'
  BY <1>1, <1>3, <1>4, <1>5, <1>6 DEF IInv, TypeOK, PlaceInv, Nowhere
<1>10. ReplyInv'
  BY <1>1, <1>3, <1>5, <1>6 DEF IInv, TypeOK, ReplyInv, Nowhere
<1>11. WaitInv'
  BY <1>1, <1>3, <1>5, <1>6 DEF IInv, TypeOK, WaitInv, Done
<1> QED BY <1>7, <1>8, <1>9, <1>10, <1>11 DEF IInv

(* A thread completes a task that is leaving as unserved.                  *)
LEMMA RefuseLemma ==
    ASSUME IInv, NEW x \in Task, NEW o \in {"dropped", "expired", "closed"},
           Leaving(x), Complete(x, o),
           UNCHANGED <<queue, item, started, reply>>,
           \A u \in Task : Leaving(u)' => Leaving(u),
           \A u \in Task : Leaving(u) => Leaving(u)' \/ u = x,
           \A u \in Task : \/ pc'[u] = pc[u]
                           \/ pc[u] = "evicting" /\ pc'[u] = "waiting"
    PROVE  PlaceInv' /\ ReplyInv' /\ WaitInv'
<1>1. /\ \A u \in Task :
            outcome'[u] = IF u = x /\ outcome[x] = None THEN o ELSE outcome[u]
      /\ outcome'[x] # None /\ o \in Unserved
  <2>1. TypeOK /\ o \in Outcomes /\ o \in Unserved
    BY OutcomeNames DEF IInv
  <2> QED BY <2>1, CompleteLemma
<1>2. /\ Range(queue') = Range(queue) /\ Range(queue) \subseteq Task
      /\ \A u : Held(u)' <=> Held(u)
      /\ \A u \in Task : Nowhere(u) => Nowhere(u)'
  BY RangeLemma DEF IInv, TypeOK, Held, Nowhere
<1>3. PlaceInv'
  BY <1>2 DEF IInv, TypeOK, PlaceInv, Distinct
<1>4. ReplyInv'
  <2>1. x \notin started
    BY DEF IInv, PlaceInv
  <2> QED BY <1>1, <1>2, <2>1, OutcomeNames DEF IInv, TypeOK, ReplyInv
<1>5. WaitInv'
  BY <1>1, <1>2 DEF IInv, WaitInv, Done
<1> QED BY <1>3, <1>4, <1>5

LEMMA CompleteEvictedStep ==
    ASSUME IInv, NEW t \in Task, CompleteEvicted(t)
    PROVE  IInv'
<1> USE DEF CompleteEvicted
<1>1. evicted \in Task /\ stateLock = t
  BY DEF IInv, TypeOK, LockInv
<1>2. /\ outcome' \in [Task -> Outcomes \cup {None}]
      /\ \A u \in Task : outcome[u] # None => outcome'[u] # None
  <2>1. TypeOK
    BY DEF IInv
  <2> QED BY <1>1, <2>1, CompleteLemma, OutcomeNames
<1>3. TypeOK'
  BY <1>2 DEF IInv, TypeOK
<1>4. LockInv' /\ CloseInv'
  BY <1>1 DEF IInv, TypeOK, LockInv, CloseInv, Alive
<1>5. WorkerInv'
  BY <1>2 DEF IInv, TypeOK, WorkerInv, Done
<1>6. PlaceInv' /\ ReplyInv' /\ WaitInv'
  <2>1. /\ \A u \in Task : Leaving(u)' => Leaving(u)
        /\ \A u \in Task : Leaving(u) => Leaving(u)' \/ u = evicted
        /\ Leaving(evicted)
    BY DEF Leaving
  <2>2. \A u \in Task : \/ pc'[u] = pc[u]
                        \/ pc[u] = "evicting" /\ pc'[u] = "waiting"
    BY DEF IInv, TypeOK
  <2> QED BY <1>1, <2>1, <2>2, RefuseLemma
<1> QED BY <1>3, <1>4, <1>5, <1>6 DEF IInv

LEMMA WithdrawStep ==
    ASSUME IInv, NEW t \in Task, Withdraw(t)
    PROVE  IInv'
<1> USE DEF Withdraw
<1>1. /\ queue' \in Seq(Task) /\ Range(queue') \subseteq Range(queue)
      /\ Range(queue) \subseteq Range(queue') \cup {t}
      /\ Distinct(queue') /\ Range(queue) \subseteq Task
      /\ Len(queue') <= Len(queue) /\ Len(queue) \in Nat /\ Len(queue') \in Nat
  <2>1. queue \in Seq(Task) /\ Distinct(queue) /\ queue' = RemoveFirst(queue, t)
    BY DEF IInv, TypeOK, PlaceInv
  <2>2. Len(queue) \in Nat /\ Range(queue) \subseteq Task
    BY <2>1, RangeLemma
  <2> DEFINE r == RemoveFirst(queue, t)
  <2> HIDE DEF Withdraw
  <2>3. /\ r \in Seq(Task) /\ Distinct(r)
        /\ Len(r) = IF Contains(queue, t) THEN Len(queue) - 1 ELSE Len(queue)
        /\ Range(r) \subseteq Range(queue)
        /\ Range(queue) \subseteq Range(r) \cup {t}
        /\ Contains(queue, t) => Len(queue) > 0
    BY <2>1, RemoveFirstLemma
  <2>4. queue' = r
    BY <2>1
  <2> HIDE DEF r
  <2> QED BY <2>2, <2>3, <2>4
<1>2. /\ \A u : Leaving(u)' <=> Leaving(u)
      /\ \A u : Held(u)' <=> Held(u)
      /\ \A u \in Task : Nowhere(u) => Nowhere(u)'
  BY <1>1 DEF Leaving, Held, Nowhere
<1>3. TypeOK'
  <2>1. stats' \in [Counters -> Nat]
    BY DEF IInv, TypeOK, Count, Counters
  <2>2. \E x \in Outcomes \cup {None} : reply' = [reply EXCEPT ![t] = x]
    BY DEF IInv, TypeOK
  <2>3. reply' \in [Task -> Outcomes \cup {"full", None}]
    BY <2>2 DEF IInv, TypeOK
  <2> QED BY <1>1, <2>1, <2>3 DEF IInv, TypeOK
<1>4. LockInv' /\ WorkerInv'
  BY DEF IInv, TypeOK, LockInv, WorkerInv, Done
<1>5. CloseInv'
  <2>1. queue = <<>> => queue' = <<>>
    BY <1>1, RangeLemma DEF IInv, TypeOK
  <2> QED BY <2>1 DEF IInv, CloseInv, Alive
<1>6. PlaceInv'
  BY <1>1, <1>2 DEF IInv, TypeOK, PlaceInv
<1>7. ReplyInv'
  BY <1>2, OutcomeNames DEF IInv, TypeOK, ReplyInv
<1>8. WaitInv'
  BY <1>1, <1>2 DEF IInv, TypeOK, WaitInv, Done
<1> QED BY <1>3, <1>4, <1>5, <1>6, <1>7, <1>8 DEF IInv

-----------------------------------------------------------------------------
(* Steps of the workers                                                    *)

(* One pass over the queue: n stale tasks and possibly the one after them  *)
(* leave it.                                                               *)
LEMMA ScanLemma ==
    ASSUME IInv, NEW w \in Worker, Scan(w)
    PROVE  /\ queue' \in Seq(Task) /\ Len(queue') <= Len(queue) /\ Len(queue') \in Nat
           /\ stale' \in [Worker -> Seq(Task)] /\ stats' \in [Counters -> Nat]
           /\ Distinct(queue')
           /\ \A u \in Worker : u # w => stale'[u] = stale[u]
           /\ StalePrefix = Len(queue) =>
                /\ queue' = <<>>
                /\ Range(stale'[w]) = Range(stale[w]) \cup Range(queue)
           /\ StalePrefix < Len(queue) =>
                /\ queue[StalePrefix + 1] \in Task
                /\ queue[StalePrefix + 1] \notin Range(queue') \cup Range(stale'[w])
                /\ Range(stale[w]) \subseteq Range(stale'[w])
                /\ Range(stale'[w]) \subseteq Range(stale[w]) \cup Range(queue)
                /\ Range(queue) \cup Range(stale[w]) =
                     Range(queue') \cup Range(stale'[w]) \cup {queue[StalePrefix + 1]}
                /\ Range(queue') \cap Range(stale'[w]) = {}
                /\ Range(queue') \subseteq Range(queue)
<1> DEFINE n == StalePrefix
           a == SubSeq(queue, 1, n)
           b == SubSeq(queue, n + 2, Len(queue))
<1>1. /\ n \in 0..Len(queue) /\ Len(queue) \in Nat
      /\ queue \in Seq(Task) /\ Distinct(queue)
      /\ stale \in [Worker -> Seq(Task)] /\ stats \in [Counters -> Nat]
      /\ \A x \in Range(queue) : x \notin Range(stale[w])
  BY StalePrefixType DEF IInv, TypeOK, PlaceInv, Leaving
<1>2. /\ queue' = b /\ stale' = [stale EXCEPT ![w] = stale[w] \o a]
      /\ stats' = [stats EXCEPT !["expired"] = @ + n]
  BY DEF Scan, Count
<1> HIDE DEF n
<1>3. /\ a \in Seq(Task) /\ b \in Seq(Task)
      /\ n < Len(queue) => /\ queue[n + 1] \in Task
                           /\ Len(b) = Len(queue) - n - 1
                           /\ Range(queue) = Range(a) \cup {queue[n + 1]} \cup Range(b)
      /\ n = Len(queue) => b = <<>> /\ Range(queue) = Range(a)
      /\ Distinct(b) /\ Range(a) \cap Range(b) = {}
      /\ n < Len(queue) => queue[n + 1] \notin Range(a) \cup Range(b)
  BY <1>1, SplitLemma
<1> HIDE DEF a, b
<1>4. /\ stale'[w] = stale[w] \o a /\ stale'[w] \in Seq(Task)
      /\ Range(stale'[w]) = Range(stale[w]) \cup Range(a)
      /\ stale' \in [Worker -> Seq(Task)]
      /\ \A u \in Worker : u # w => stale'[u] = stale[u]
  <2>1. /\ stale[w] \in Seq(Task) /\ stale[w] \o a \in Seq(Task)
        /\ Range(stale[w] \o a) = Range(stale[w]) \cup Range(a)
    BY <1>1, <1>3, ConcatProperties, RangeConcatenation
  <2> QED BY <1>1, <1>2, <2>1
<1>5. stats' \in [Counters -> Nat]
  BY <1>1, <1>2 DEF Counters
<1>6. Len(queue') <= Len(queue) /\ Len(queue') \in Nat
  <2>1. CASE n < Len(queue)
    BY <1>1, <1>2, <1>3, <2>1
  <2>2. CASE n = Len(queue)
    BY <1>1, <1>2, <1>3, <2>2
  <2> QED BY <1>1, <2>1, <2>2
<1>7. CASE n = Len(queue)
  BY <1>1, <1>2, <1>3, <1>4, <1>5, <1>6, <1>7 DEF n
<1>8. CASE n < Len(queue)
  BY <1>1, <1>2, <1>3, <1>4, <1>5, <1>6, <1>8 DEF n
<1> QED BY <1>1, <1>7, <1>8

LEMMA PopStep ==
    ASSUME IInv, NEW w \in Worker, Pop(w)
    PROVE  IInv'
<1> DEFINE k == queue[StalePrefix + 1]
<1>1. /\ queue' \in Seq(Task) /\ Len(queue') <= Len(queue) /\ Len(queue') \in Nat
      /\ stale' \in [Worker -> Seq(Task)] /\ stats' \in [Counters -> Nat]
      /\ Distinct(queue')
      /\ \A u \in Worker : u # w => stale'[u] = stale[u]
      /\ k \in Task /\ k \notin Range(queue') \cup Range(stale'[w])
      /\ Range(stale[w]) \subseteq Range(stale'[w])
      /\ Range(stale'[w]) \subseteq Range(stale[w]) \cup Range(queue)
      /\ Range(queue) \cup Range(stale[w]) =
           Range(queue') \cup Range(stale'[w]) \cup {k}
      /\ Range(queue') \cap Range(stale'[w]) = {}
      /\ Range(queue') \subseteq Range(queue)
      /\ k \in Range(queue) /\ Range(queue) \subseteq Task
  <2>1. Scan(w) /\ StalePrefix < Len(queue)
    BY DEF Pop
  <2>2. k \in Range(queue) /\ Range(queue) \subseteq Task
    <3>1. queue \in Seq(Task) /\ StalePrefix + 1 \in 1..Len(queue)
      BY <2>1, StalePrefixType DEF IInv, TypeOK
    <3> QED BY <3>1, RangeLemma
  <2> QED BY <2>1, <2>2, ScanLemma
<1>2. /\ item' = [item EXCEPT ![w] = k]
      /\ wpc' = [wpc EXCEPT ![w] = "flush"] /\ wpc[w] = "pop" /\ item[w] = None
      /\ UNCHANGED <<callers, tasks, up, closed, stateLock, evicted, closing>>
  BY DEF Pop, IInv, WorkerInv
<1> HIDE DEF k
<1>3. /\ \A u \in Task : Leaving(u)' <=> (Leaving(u) \/ u \in Range(stale'[w]))
      /\ \A u \in Task : Held(u)' <=> (Held(u) \/ u = k)
  <2>1. \A u \in Task : Leaving(u)' <=> (Leaving(u) \/ u \in Range(stale'[w]))
    BY <1>1, <1>2 DEF Leaving
  <2>2. \A v \in Worker : item'[v] = IF v = w THEN k ELSE item[v]
    BY <1>2 DEF IInv, TypeOK
  <2>3. \A u \in Task : Held(u)' <=> (Held(u) \/ u = k)
    BY <1>2, <2>2 DEF Held
  <2> QED BY <2>1, <2>3
<1>4. TypeOK'
  BY <1>1, <1>2 DEF IInv, TypeOK
<1>5. LockInv' /\ CloseInv'
  BY <1>1, <1>2, EmptyLemma DEF IInv, TypeOK, LockInv, CloseInv, Alive
<1>6. WorkerInv'
  BY <1>1, <1>2 DEF IInv, TypeOK, WorkerInv, Done
<1>7. PlaceInv'
  <2>1. k \notin started /\ ~Held(k) /\ ~Leaving(k)
    BY <1>1 DEF IInv, PlaceInv
  <2>2. \A t \in Range(queue') : ~Leaving(t)'
    BY <1>1, <1>3 DEF IInv, PlaceInv
  <2>3. \A t \in Task : t \in Range(queue') \/ Leaving(t)' => t \notin started /\ ~Held(t)'
    <3> SUFFICES ASSUME NEW t \in Task, t \in Range(queue') \/ Leaving(t)'
                 PROVE  t \notin started /\ ~Held(t) /\ t # k
      BY <1>3
    <3>1. t \in Range(queue) \/ Leaving(t)
      BY <1>1, <1>3 DEF Leaving
    <3>2. t # k
      BY <1>1, <1>3, <2>1
    <3> QED BY <3>1, <3>2 DEF IInv, PlaceInv
  <2>4. \A v, u \in Worker : item'[v] = item'[u] /\ item'[v] # None => v = u
    <3>1. \A v \in Worker : item'[v] = IF v = w THEN k ELSE item[v]
      BY <1>2 DEF IInv, TypeOK
    <3>2. \A v \in Worker : item[v] # k
      BY <2>1 DEF Held
    <3> QED BY <3>1, <3>2 DEF IInv, PlaceInv
  <2>5. \A t \in Task : pc'[t] \in {"new", "enqueue"} => Nowhere(t)'
    <3> SUFFICES ASSUME NEW t \in Task, pc[t] \in {"new", "enqueue"}
                 PROVE  t \notin Range(queue') /\ ~Leaving(t)' /\ ~Held(t)' /\ t \notin started
      BY <1>2 DEF Nowhere
    <3>1. t \notin Range(queue) /\ ~Leaving(t) /\ ~Held(t) /\ t \notin started
      BY DEF IInv, PlaceInv, Nowhere
    <3> QED BY <1>1, <1>3, <3>1 DEF Leaving
  <2> QED BY <1>1, <1>2, <2>2, <2>3, <2>4, <2>5 DEF PlaceInv
<1>8. ReplyInv'
  <2>1. ASSUME NEW t \in Task, Nowhere(t) PROVE Nowhere(t)'
    BY <1>1, <1>2, <1>3, <2>1 DEF Nowhere, Leaving
  <2> QED BY <1>2, <2>1 DEF IInv, ReplyInv
<1>9. WaitInv'
  BY <1>1, <1>2, <1>3 DEF IInv, WaitInv, Done
<1> QED BY <1>4, <1>5, <1>6, <1>7, <1>8, <1>9 DEF IInv

LEMMA PopIdleStep ==
    ASSUME IInv, NEW w \in Worker, PopWait(w) \/ PopTimeout(w)
    PROVE  IInv'
<1>1. /\ queue' = <<>> /\ queue \in Seq(Task)
      /\ stale' \in [Worker -> Seq(Task)] /\ stats' \in [Counters -> Nat]
      /\ \A u \in Worker : u # w => stale'[u] = stale[u]
      /\ Range(stale'[w]) = Range(stale[w]) \cup Range(queue)
      /\ Range(queue') = {} /\ Distinct(queue') /\ Len(queue') = 0
      /\ Range(queue) \subseteq Task
  <2>1. Scan(w) /\ StalePrefix = Len(queue) /\ queue \in Seq(Task)
    BY DEF PopWait, PopTimeout, IInv, TypeOK
  <2>2. Range(queue) \subseteq Task
    BY <2>1, RangeLemma
  <2>3. queue' = <<>>
    BY <2>1, ScanLemma
  <2>4. Range(queue') = {} /\ Distinct(queue') /\ Len(queue') = 0
    BY <2>3, EmptyLemma
  <2> QED BY <2>1, <2>2, <2>3, <2>4, ScanLemma
<1>2. /\ wpc' = wpc \/ wpc' = [wpc EXCEPT ![w] = "flush"] 
      /\ wpc[w] = "pop"
      /\ UNCHANGED <<callers, tasks, up, closed, stateLock, evicted, closing, item>>
  BY DEF PopWait, PopTimeout
<1>3. /\ \A u \in Task : Leaving(u)' <=> (Leaving(u) \/ u \in Range(queue))
      /\ \A u : Held(u)' <=> Held(u)
      /\ \A u \in Task : Nowhere(u) => Nowhere(u)'
  <2>1. \A u \in Task : Leaving(u)' <=> (Leaving(u) \/ u \in Range(queue))
    BY <1>1, <1>2 DEF Leaving
  <2>2. \A u : Held(u)' <=> Held(u)
    BY <1>2 DEF Held
  <2> QED BY <1>1, <1>2, <2>1, <2>2 DEF Nowhere
<1>4. TypeOK'
  BY <1>1, <1>2 DEF IInv, TypeOK
<1>5. LockInv' /\ CloseInv'
  BY <1>1, <1>2 DEF IInv, TypeOK, LockInv, CloseInv, Alive
<1>6. WorkerInv'
  BY <1>1, <1>2 DEF IInv, TypeOK, WorkerInv, Done
<1>7. PlaceInv'
  BY <1>1, <1>2, <1>3 DEF IInv, TypeOK, PlaceInv
<1>8. ReplyInv'
  BY <1>2, <1>3 DEF IInv, ReplyInv
<1>9. WaitInv'
  BY <1>1, <1>2, <1>3 DEF IInv, WaitInv, Done
<1> QED BY <1>4, <1>5, <1>6, <1>7, <1>8, <1>9 DEF IInv

LEMMA FlushStep ==
    ASSUME IInv, NEW w \in Worker, Flush(w)
    PROVE  IInv'
<1> DEFINE h == Head(stale[w])
<1>1. /\ stale[w] \in Seq(Task) /\ stale[w] # <<>>
      /\ h \in Task /\ Tail(stale[w]) \in Seq(Task)
      /\ Range(stale[w]) = {h} \cup Range(Tail(stale[w]))
  BY TailLemma DEF Flush, IInv, TypeOK
<1>2. /\ Complete(h, "expired") /\ wpc[w] = "flush"
      /\ stale' = [stale EXCEPT ![w] = Tail(stale[w])]
      /\ UNCHANGED <<callers, started, up, closed, stateLock, queue, evicted,
                     closing, wpc, item, stats>>
  BY DEF Flush
<1> HIDE DEF h
<1>3. /\ outcome' \in [Task -> Outcomes \cup {None}]
      /\ \A u \in Task : outcome[u] # None => outcome'[u] # None
  <2>1. TypeOK
    BY DEF IInv
  <2> QED BY <1>1, <1>2, <2>1, CompleteLemma, OutcomeNames
<1>4. /\ stale' \in [Worker -> Seq(Task)]
      /\ \A u \in Worker : stale'[u] = IF u = w THEN Tail(stale[w]) ELSE stale[u]
  BY <1>1, <1>2 DEF IInv, TypeOK
<1>5. TypeOK'
  BY <1>2, <1>3, <1>4 DEF IInv, TypeOK
<1>6. LockInv' /\ CloseInv'
  BY <1>2 DEF IInv, LockInv, CloseInv, Alive
<1>7. WorkerInv'
  BY <1>2, <1>3, <1>4 DEF IInv, TypeOK, WorkerInv, Done
<1>8. PlaceInv' /\ ReplyInv' /\ WaitInv'
  <2>1. /\ \A u \in Task : Leaving(u)' => Leaving(u)
        /\ \A u \in Task : Leaving(u) => Leaving(u)' \/ u = h
        /\ Leaving(h)
    BY <1>1, <1>2, <1>4 DEF Leaving
  <2> QED BY <1>1, <1>2, <2>1, RefuseLemma
<1> QED BY <1>5, <1>6, <1>7, <1>8 DEF IInv

LEMMA CheckClosedStep ==
    ASSUME IInv, NEW w \in Worker, CheckClosed(w)
    PROVE  IInv'
<1> USE DEF CheckClosed
<1>1. TypeOK' /\ LockInv'
  BY DEF IInv, TypeOK, LockInv
<1>2. CloseInv' /\ WorkerInv'
  BY DEF IInv, TypeOK, CloseInv, WorkerInv, Alive, Done
<1>3. PlaceInv' /\ ReplyInv' /\ WaitInv'
  BY PlaceFrame, PlaceInvFrame DEF IInv, ReplyInv, WaitInv, Done
<1> QED BY <1>1, <1>2, <1>3 DEF IInv

(* begin() skips a task that is done already, as does the end of a turn.   *)
LEMMA DropItemStep ==
    ASSUME IInv, NEW w \in Worker,
           Done(item[w]), item[w] \in Task,
           item' = [item EXCEPT ![w] = None],
           wpc' = [wpc EXCEPT ![w] = "pop"], stale[w] = <<>>,
           wpc[w] \in {"flush", "completed", "failed"},
           stats' \in [Counters -> Nat],
           UNCHANGED <<callers, tasks, up, closed, stateLock, queue, evicted,
                       closing, stale>>
    PROVE  IInv'
<1>1. \A v \in Worker : item'[v] = IF v = w THEN None ELSE item[v]
  BY DEF IInv, TypeOK
<1>2. /\ \A u : Leaving(u)' <=> Leaving(u)
      /\ \A u \in Task : Held(u)' => Held(u)
      /\ \A u \in Task : Held(u) => Held(u)' \/ u = item[w]
      /\ \A u \in Task : Nowhere(u) => Nowhere(u)'
  BY <1>1 DEF Leaving, Held, Nowhere
<1>3. TypeOK' /\ LockInv'
  BY DEF IInv, TypeOK, LockInv
<1>4. CloseInv' /\ WorkerInv'
  BY <1>1 DEF IInv, TypeOK, CloseInv, WorkerInv, Alive, Done
<1>5. PlaceInv'
  <2>1. Range(queue) \subseteq Task
    BY RangeLemma DEF IInv, TypeOK
  <2> QED BY <1>1, <1>2, <2>1 DEF IInv, PlaceInv, Distinct
<1>6. ReplyInv'
  BY <1>2 DEF IInv, ReplyInv
<1>7. WaitInv'
  BY <1>2 DEF IInv, WaitInv, Done
<1> QED BY <1>3, <1>4, <1>5, <1>6, <1>7 DEF IInv

LEMMA BeginStep ==
    ASSUME IInv, NEW w \in Worker, Begin(w)
    PROVE  IInv'
<1> USE DEF Begin
<1>1. item[w] \in Task /\ wpc[w] = "flush" /\ stale[w] = <<>>
  BY DEF IInv, TypeOK
<1>2. CASE Done(item[w])
  <2>1. stats' \in [Counters -> Nat]
    BY DEF IInv, TypeOK
  <2> QED BY <1>1, <1>2, <2>1, DropItemStep
<1>3. CASE ~Done(item[w])
  <2>1. /\ started' = started \cup {item[w]}
        /\ wpc' = [wpc EXCEPT ![w] = "run"]
        /\ UNCHANGED <<callers, outcome, up, closed, stateLock, queue, evicted,
                       closing, item, stale, stats>>
    BY <1>3
  <2> HIDE DEF Begin
  <2>2. /\ \A u : Leaving(u)' <=> Leaving(u)
        /\ \A u : Held(u)' <=> Held(u)
        /\ Held(item[w])
        /\ \A u \in Task : Nowhere(u) => Nowhere(u)'
    BY <2>1 DEF Leaving, Held, Nowhere
  <2>3. TypeOK' /\ LockInv'
    BY <1>1, <2>1 DEF IInv, TypeOK, LockInv
  <2>4. CloseInv' /\ WorkerInv'
    BY <1>1, <2>1 DEF IInv, TypeOK, CloseInv, WorkerInv, Alive, Done
  <2>5. PlaceInv'
    <3>1. Range(queue) \subseteq Task
      BY RangeLemma DEF IInv, TypeOK
    <3> QED BY <1>1, <2>1, <2>2, <3>1 DEF IInv, PlaceInv, Distinct
  <2>6. ReplyInv'
    <3>1. outcome[item[w]] \notin Unserved
      BY <1>3, OutcomeNames DEF Done
    <3> QED BY <1>1, <2>1, <2>2, <3>1 DEF IInv, ReplyInv
  <2>7. WaitInv'
    BY <2>1, <2>2 DEF IInv, WaitInv, Done
  <2> QED BY <2>3, <2>4, <2>5, <2>6, <2>7 DEF IInv
<1> QED BY <1>2, <1>3

LEMMA FinishStep ==
    ASSUME IInv, NEW w \in Worker, NEW o \in {"ok", "failed"}, Finish(w, o)
    PROVE  IInv'
<1>1. /\ item[w] \in Task /\ wpc[w] = "run" /\ stale[w] = <<>>
      /\ Complete(item[w], o) /\ TypeOK /\ o \in Outcomes /\ o \notin Unserved
      /\ \E x \in {"dead", "completed", "failed"} : wpc' = [wpc EXCEPT ![w] = x]
      /\ UNCHANGED <<callers, started, up, closed, stateLock, queue, evicted,
                     closing, item, stale, stats>>
  <2>1. item[w] \in Task /\ wpc[w] = "run" /\ stale[w] = <<>> /\ TypeOK
    BY DEF Finish, IInv, TypeOK, WorkerInv
  <2>2. o \in Outcomes /\ o \notin Unserved
    BY OutcomeNames
  <2>3. \E x \in {"dead", "completed", "failed"} : wpc' = [wpc EXCEPT ![w] = x]
    <3> DEFINE x == CASE item[w] \in loopClosed -> "dead"
                      [] o = "ok" -> "completed"
                      [] OTHER -> "failed"
    <3>1. wpc' = [wpc EXCEPT ![w] = x]
      BY DEF Finish
    <3>2. x \in {"dead", "completed", "failed"}
      OBVIOUS
    <3> HIDE DEF x
    <3> QED BY <3>1, <3>2
  <2> QED BY <2>1, <2>2, <2>3 DEF Finish
<1>2. /\ outcome' \in [Task -> Outcomes \cup {None}]
      /\ \A u \in Task :
            outcome'[u] = IF u = item[w] /\ outcome[item[w]] = None THEN o ELSE outcome[u]
      /\ outcome'[item[w]] # None
  BY <1>1, CompleteLemma
<1>3. TypeOK'
  BY <1>1, <1>2 DEF TypeOK
<1>4. LockInv'
  BY <1>1 DEF IInv, LockInv
<1>5. CloseInv' /\ WorkerInv'
  BY <1>1, <1>2, OutcomeNames DEF IInv, TypeOK, CloseInv, WorkerInv, Alive, Done
<1>6. PlaceInv'
  BY <1>1, PlaceInvFrame
<1>7. ReplyInv'
  BY <1>1, <1>2, PlaceFrame, OutcomeNames DEF IInv, ReplyInv
<1>8. WaitInv'
  BY <1>1, <1>2, PlaceFrame, OutcomeNames DEF IInv, WaitInv, Done
<1> QED BY <1>3, <1>4, <1>5, <1>6, <1>7, <1>8 DEF IInv

LEMMA CountResultStep ==
    ASSUME IInv, NEW w \in Worker, CountResult(w)
    PROVE  IInv'
<1>1. stats' \in [Counters -> Nat]
  BY DEF CountResult, Count, IInv, TypeOK, Counters
<1>2. item[w] \in Task /\ Done(item[w]) /\ stale[w] = <<>>
  BY DEF CountResult, IInv, TypeOK, WorkerInv
<1> QED BY <1>1, <1>2, DropItemStep DEF CountResult

-----------------------------------------------------------------------------
(* close()                                                                 *)

LEMMA CloseStep ==
    ASSUME IInv, Close
    PROVE  IInv'
<1> USE DEF Close
<1>1. /\ drained = <<>> /\ evicted = None /\ queue \in Seq(Task)
      /\ Range(queue) \subseteq Task
  BY RangeLemma DEF IInv, TypeOK, CloseInv, LockInv
<1>2. /\ \A u \in Task : Leaving(u)' <=> (Leaving(u) \/ u \in Range(queue))
      /\ \A u : Held(u)' <=> Held(u)
      /\ Range(queue') = {} /\ Distinct(queue') /\ Len(queue') = 0
      /\ \A u \in Task : Nowhere(u) => Nowhere(u)'
  <2>1. \A u \in Task : Leaving(u)' <=> (Leaving(u) \/ u \in Range(queue))
    BY <1>1, EmptyLemma DEF Leaving
  <2>2. \A u : Held(u)' <=> Held(u)
    BY DEF Held
  <2>3. Range(queue') = {} /\ Distinct(queue') /\ Len(queue') = 0
    BY EmptyLemma
  <2> QED BY <2>1, <2>2, <2>3 DEF Nowhere
<1>3. TypeOK' /\ LockInv'
  BY <1>1, <1>2 DEF IInv, TypeOK, LockInv
<1>4. CloseInv' /\ WorkerInv'
  BY <1>1 DEF IInv, TypeOK, CloseInv, WorkerInv, Alive, Done
<1>5. PlaceInv'
  BY <1>2 DEF IInv, TypeOK, PlaceInv
<1>6. ReplyInv'
  BY <1>2 DEF IInv, ReplyInv
<1>7. WaitInv'
  BY <1>2 DEF IInv, WaitInv, Done
<1> QED BY <1>3, <1>4, <1>5, <1>6, <1>7 DEF IInv

LEMMA CompleteDrainedStep ==
    ASSUME IInv, CompleteDrained
    PROVE  IInv'
<1> DEFINE h == Head(drained)
<1>1. /\ drained \in Seq(Task) /\ drained # <<>>
      /\ h \in Task /\ Tail(drained) \in Seq(Task)
      /\ Range(drained) = {h} \cup Range(Tail(drained))
  BY TailLemma DEF CompleteDrained, IInv, TypeOK
<1>2. /\ Complete(h, "closed") /\ closer = "draining" /\ drained' = Tail(drained)
      /\ UNCHANGED <<callers, started, up, closed, stateLock, queue, evicted,
                     workers, closer, stats>>
  BY DEF CompleteDrained
<1> HIDE DEF h
<1>3. /\ outcome' \in [Task -> Outcomes \cup {None}]
      /\ \A u \in Task : outcome[u] # None => outcome'[u] # None
  <2>1. TypeOK
    BY DEF IInv
  <2> QED BY <1>1, <1>2, <2>1, CompleteLemma, OutcomeNames
<1>4. TypeOK'
  BY <1>1, <1>2, <1>3 DEF IInv, TypeOK
<1>5. LockInv' /\ CloseInv'
  BY <1>2 DEF IInv, LockInv, CloseInv, Alive
<1>6. WorkerInv'
  BY <1>2, <1>3 DEF IInv, TypeOK, WorkerInv, Done
<1>7. PlaceInv' /\ ReplyInv' /\ WaitInv'
  <2>1. /\ \A u \in Task : Leaving(u)' => Leaving(u)
        /\ \A u \in Task : Leaving(u) => Leaving(u)' \/ u = h
        /\ Leaving(h)
    BY <1>1, <1>2 DEF Leaving
  <2> QED BY <1>1, <1>2, <2>1, RefuseLemma
<1> QED BY <1>4, <1>5, <1>6, <1>7 DEF IInv

-----------------------------------------------------------------------------
LEMMA Inductive ==
    ASSUME IInv, [Next]_vars
    PROVE  IInv'
<1>1. ASSUME NEW t \in Task, Enqueue(t) PROVE IInv'
  BY <1>1, EnqueueRefusedStep, EnqueueAcceptedStep, EnqueueEvictingStep DEF Enqueue
<1>2. ASSUME NEW t \in Task, CallerStep(t) \/ Cancel(t) PROVE IInv'
  BY <1>1, <1>2, CompleteEvictedStep, WaitStep, WithdrawStep DEF CallerStep
<1>3. ASSUME NEW w \in Worker, WorkerStep(w) PROVE IInv'
  BY <1>3, PopStep, PopIdleStep, FlushStep, CheckClosedStep, BeginStep,
     FinishStep, CountResultStep DEF WorkerStep
<1> QED BY <1>2, <1>3, StartStep, EnvironmentStep, CloserStepLemma, CloseStep,
           CompleteDrainedStep DEF Next, CloserStep

LEMMA Invariance == Spec => []IInv
<1>1. Init => IInv
  <2> SUFFICES ASSUME Init PROVE IInv
    OBVIOUS
  <2> USE DEF Init
  <2>1. TypeOK
    <3>1. <<>> \in Seq(Task) /\ Len(<<>>) <= Capacity
      OBVIOUS
    <3>2. /\ [w \in Worker |-> <<>>] \in [Worker -> Seq(Task)]
          /\ [c \in Counters |-> 0] \in [Counters -> Nat]
      BY <3>1
    <3> QED BY <3>1, <3>2 DEF TypeOK
  <2>2. LockInv /\ CloseInv /\ WorkerInv
    BY DEF LockInv, CloseInv, WorkerInv, Alive
  <2>3. \A t \in Task : Nowhere(t)
    BY EmptyLemma DEF Nowhere, Leaving, Held
  <2>4. PlaceInv /\ ReplyInv /\ WaitInv
    BY <2>3, EmptyLemma, OutcomeNames DEF PlaceInv, ReplyInv, WaitInv, Nowhere
  <2> QED BY <2>1, <2>2, <2>4 DEF IInv
<1> QED BY <1>1, Inductive, PTL DEF Spec

(* The attributes keep their types, and the queue never holds more than    *)
(* capacity requests, whichever of append and evict push_with_evicted      *)
(* takes and whoever removes requests meanwhile.                           *)
THEOREM TypeCorrect == Spec => []TypeOK
BY Invariance, PTL DEF IInv

(* A request whose caller was told that it did not run never runs, however *)
(* the worker, the timer, the cancellation, an eviction and close() race   *)
(* for it.                                                                 *)
THEOREM RefusedNeverRuns == Spec => []RefusedNeverRun
<1>1. IInv => RefusedNeverRun
  BY DEF IInv, ReplyInv, RefusedNeverRun, Nowhere
<1> QED BY <1>1, Invariance, PTL

(* Evicting, draining, expiring and exiting lose no request: somebody who  *)
(* will complete it has it.                                                *)
THEOREM NoRequestEverLost == Spec => []NoRequestLost
<1>1. ASSUME IInv PROVE NoRequestLost
  <2> SUFFICES ASSUME NEW t \in Task,
                      pc[t] \in {"evicting", "waiting", "awaiting"}, ~Done(t)
               PROVE  t \in Range(queue) \cup InHand
    BY DEF NoRequestLost
  <2>1. t \in Range(queue) \/ Leaving(t) \/ Held(t)
    BY <1>1 DEF IInv, WaitInv
  <2>2. ASSUME NEW w \in Worker, t \in Range(stale[w]) PROVE Alive(w)
    BY <1>1, <2>2, EmptyLemma DEF IInv, WorkerInv, Alive
  <2>3. ASSUME NEW w \in Worker, item[w] = t PROVE Alive(w)
    BY <1>1, <2>3 DEF IInv, WorkerInv, Alive
  <2>4. CASE Held(t)
    BY <2>3, <2>4 DEF Held, InHand
  <2>5. CASE \E w \in Worker : t \in Range(stale[w])
    <3>1. PICK w \in Worker : t \in Range(stale[w])
      BY <2>5
    <3>2. w \in {u \in Worker : Alive(u)}
      BY <2>2, <3>1
    <3> QED BY <3>1, <3>2, Zenon DEF InHand
  <2>6. CASE t = evicted \/ t \in Range(drained)
    BY <2>6 DEF InHand
  <2> QED BY <2>1, <2>4, <2>5, <2>6 DEF Leaving
<1> QED BY <1>1, Invariance, PTL

(* When close() has returned True the queue is empty, no prediction runs   *)
(* and every accepted request has its outcome.                             *)
THEOREM CloseAlwaysFinal == Spec => []CloseIsFinal
<1>1. ASSUME IInv, closer = "quiet"
      PROVE  /\ queue = <<>>
             /\ \A w \in Worker : wpc[w] # "run"
             /\ \A t \in Task : pc[t] \in {"evicting", "waiting", "awaiting"} => Done(t)
  <2>1. queue = <<>> /\ evicted = None /\ drained = <<>> /\ \A w \in Worker : ~Alive(w)
    BY <1>1 DEF IInv, CloseInv
  <2>2. \A w \in Worker : stale[w] = <<>> /\ (item[w] # None => Done(item[w]))
    BY <1>1, <2>1 DEF IInv, TypeOK, WorkerInv, Alive
  <2>3. \A t \in Task : t \notin Range(queue) /\ ~Leaving(t) /\ (Held(t) => Done(t))
    BY <2>1, <2>2, EmptyLemma DEF Leaving, Held
  <2> QED BY <1>1, <2>1, <2>3 DEF IInv, WaitInv, Alive
<1>2. IInv => CloseIsFinal
  BY <1>1 DEF CloseIsFinal
<1> QED BY <1>2, Invariance, PTL

(* A task is completed once, and once it has started only by the worker    *)
(* that runs it.                                                           *)
THEOREM CompletedAtMostOnce == Spec => CompletedOnce
<1> DEFINE Decided == \A t \in Task :
               outcome'[t] # outcome[t] =>
                 /\ outcome[t] = None
                 /\ t \in started => \E w \in Worker : wpc[w] = "run" /\ item[w] = t
<1>1. ASSUME IInv, NEW x \in Task, Leaving(x), NEW o, Complete(x, o)
      PROVE  Decided
  BY <1>1 DEF IInv, TypeOK, PlaceInv, Complete, Done
<1>2. ASSUME IInv, Next PROVE Decided
  <2>1. ASSUME NEW t \in Task, CompleteEvicted(t) PROVE Decided
    <3>1. evicted \in Task /\ Leaving(evicted) /\ Complete(evicted, "dropped")
      BY <1>2, <2>1 DEF CompleteEvicted, IInv, TypeOK, LockInv, Leaving
    <3> QED BY <1>1, <1>2, <3>1
  <2>2. ASSUME NEW t \in Task, TimeOut(t) \/ Cancel(t) PROVE Decided
    BY <1>2, <2>2 DEF TimeOut, Cancel, Idle, Done, IInv, TypeOK
  <2>3. ASSUME NEW w \in Worker, Flush(w) PROVE Decided
    <3>1. stale[w] \in Seq(Task) /\ stale[w] # <<>>
      BY <1>2, <2>3 DEF Flush, IInv, TypeOK
    <3>2. /\ Head(stale[w]) \in Task /\ Leaving(Head(stale[w]))
          /\ Complete(Head(stale[w]), "expired")
      BY <2>3, <3>1, TailLemma DEF Flush, Leaving
    <3> QED BY <1>1, <1>2, <3>2
  <2>4. ASSUME NEW w \in Worker, NEW o, Finish(w, o) PROVE Decided
    BY <1>2, <2>4 DEF Finish, Complete, Done, IInv, TypeOK, WorkerInv
  <2>5. ASSUME CompleteDrained PROVE Decided
    <3>1. drained \in Seq(Task) /\ drained # <<>>
      BY <1>2, <2>5 DEF CompleteDrained, IInv, TypeOK
    <3>2. /\ Head(drained) \in Task /\ Leaving(Head(drained))
          /\ Complete(Head(drained), "closed")
      BY <2>5, <3>1, TailLemma DEF CompleteDrained, Leaving
    <3> QED BY <1>1, <1>2, <3>2
  <2>6. \/ \E t \in Task : CompleteEvicted(t) \/ TimeOut(t) \/ Cancel(t)
        \/ \E w \in Worker : Flush(w) \/ \E o \in {"ok", "failed"} : Finish(w, o)
        \/ CompleteDrained
        \/ UNCHANGED outcome
    BY <1>2 DEF Next, CallerStep, WorkerStep, CloserStep, Submit, EnsureReady,
       DeadlinePasses, CloseLoop, Enqueue, Withdraw, Return, Pop, PopWait,
       PopTimeout, CheckClosed, Begin, CountResult, Close, EndDrain, Join,
       JoinTimeout, CloseAgain
  <2> QED BY <2>1, <2>2, <2>3, <2>4, <2>5, <2>6
<1>3. IInv /\ [Next]_vars => [Decided]_vars
  BY <1>2
<1> QED BY <1>3, Invariance, PTL DEF Spec, CompletedOnce

-----------------------------------------------------------------------------
(* The counters.  CountedOnce is inductive relative to IInv: each step     *)
(* moves a request from one of its terms to another, or adds one to both   *)
(* sides.                                                                  *)

Counted == stats["dropped"] + stats["expired"] + stats["completed"] + stats["failed"]
Holders == {w \in Worker : item[w] # None}
Entered == {t \in Task : pc[t] \notin {"new", "enqueue"}}

CountFacts ==
    /\ stats["dropped"] \in Nat /\ stats["expired"] \in Nat
    /\ stats["completed"] \in Nat /\ stats["failed"] \in Nat
    /\ Counted \in Nat /\ Len(queue) \in Nat
    /\ IsFiniteSet(Holders) /\ Cardinality(Holders) \in Nat
    /\ IsFiniteSet(Entered) /\ Cardinality(Entered) \in Nat
    /\ CountedOnce <=>
         Counted + Len(queue) + Cardinality(Holders) <= Cardinality(Entered)

LEMMA CountTypes == TypeOK => CountFacts
<1> SUFFICES ASSUME TypeOK PROVE CountFacts
  OBVIOUS
<1>1. /\ stats["dropped"] \in Nat /\ stats["expired"] \in Nat
      /\ stats["completed"] \in Nat /\ stats["failed"] \in Nat
      /\ Len(queue) \in Nat
  BY DEF TypeOK, Counters
<1>2. Holders \subseteq Worker /\ Entered \subseteq Task
  BY DEF Holders, Entered
<1>3. IsFiniteSet(Holders) /\ IsFiniteSet(Entered)
  BY <1>2, TaskAssumption, WorkerAssumption, FS_Subset
<1>4. Cardinality(Holders) \in Nat /\ Cardinality(Entered) \in Nat
  BY <1>3, FS_CardinalityType
<1>5. Counted \in Nat
  BY <1>1 DEF Counted
<1>6. CountedOnce <=>
        Counted + Len(queue) + Cardinality(Holders) <= Cardinality(Entered)
  BY DEF CountedOnce, Counted, Holders, Entered
<1> QED BY <1>1, <1>3, <1>4, <1>5, <1>6 DEF CountFacts

LEMMA CountTypesNext == TypeOK' => CountFacts'
BY CountTypes, PTL

(* A caller gets past enqueue.                                             *)
LEMMA EnterLemma ==
    ASSUME TypeOK, NEW t \in Task, NEW x \in {"waiting", "evicting", "returned"},
           pc[t] \in {"new", "enqueue"}, pc' = [pc EXCEPT ![t] = x]
    PROVE  Cardinality(Entered') = Cardinality(Entered) + 1
<1>1. Entered' = Entered \cup {t} /\ t \notin Entered
  BY DEF TypeOK, Entered
<1>2. IsFiniteSet(Entered)
  BY CountTypes DEF CountFacts
<1> QED BY <1>1, <1>2, FS_AddElement

(* Nothing is counted, and nothing more is queued or held.                 *)
LEMMA CountFrame ==
    ASSUME IInv, IInv', CountedOnce,
           UNCHANGED stats, Len(queue') <= Len(queue),
           Holders' \subseteq Holders, Entered \subseteq Entered'
    PROVE  CountedOnce'
<1>1. CountFacts /\ CountFacts'
  BY CountTypes, CountTypesNext DEF IInv
<1>2. /\ Cardinality(Holders') <= Cardinality(Holders)
      /\ Cardinality(Entered) <= Cardinality(Entered')
  BY <1>1, FS_Subset DEF CountFacts
<1>3. Counted' = Counted
  BY DEF Counted
<1> QED BY <1>1, <1>2, <1>3 DEF CountFacts, Counted

(* The general case: the left side grows by d, the right side by e >= d.   *)
LEMMA CountShift ==
    ASSUME IInv, IInv', CountedOnce, NEW d \in Int, NEW e \in Int, d <= e,
           Counted' + Len(queue') + Cardinality(Holders') =
             Counted + Len(queue) + Cardinality(Holders) + d,
           Cardinality(Entered') = Cardinality(Entered) + e
    PROVE  CountedOnce'
<1>1. CountFacts /\ CountFacts'
  BY CountTypes, CountTypesNext DEF IInv
<1> QED BY <1>1 DEF CountFacts

LEMMA CountLemma ==
    ASSUME IInv, CountedOnce, NEW c \in {"dropped", "expired", "completed", "failed"},
           NEW n \in Nat, Count(c, n)
    PROVE  Counted' = Counted + n
BY DEF IInv, TypeOK, Count, Counted, Counters

LEMMA EnqueueCount ==
    ASSUME IInv, IInv', CountedOnce, NEW t \in Task, Enqueue(t)
    PROVE  CountedOnce'
<1>0. /\ TypeOK /\ pc[t] = "enqueue" /\ Holders' = Holders /\ CountFacts
      /\ queue \in Seq(Task)
  BY CountTypes DEF IInv, TypeOK, Enqueue, Holders
<1>1. CASE EnqueueClosed(t) \/ EnqueueRejected(t)
  <2>1. queue' = queue /\ (UNCHANGED stats \/ Count("dropped", 1))
    BY <1>1 DEF EnqueueClosed, EnqueueRejected, Refuse
  <2>2. Counted' = Counted \/ Counted' = Counted + 1
    BY <2>1, CountLemma DEF Counted
  <2>3. Cardinality(Entered') = Cardinality(Entered) + 1
    BY <1>0, <1>1, EnterLemma DEF EnqueueClosed, EnqueueRejected, Refuse
  <2>4. CASE Counted' = Counted
    BY <1>0, <2>1, <2>3, <2>4, CountShift DEF CountFacts
  <2>5. CASE Counted' = Counted + 1
    BY <1>0, <2>1, <2>3, <2>5, CountShift DEF CountFacts
  <2> QED BY <2>2, <2>4, <2>5
<1>2. CASE EnqueueAccepted(t)
  <2>1. Cardinality(Entered') = Cardinality(Entered) + 1
    BY <1>0, <1>2, EnterLemma DEF EnqueueAccepted
  <2>2. Len(queue') = Len(queue) + 1
    BY <1>0, <1>2, AppendLemma DEF EnqueueAccepted
  <2>3. Counted' = Counted
    BY <1>2 DEF EnqueueAccepted, Count, Counted, IInv, TypeOK, Counters
  <2> QED BY <1>0, <2>1, <2>2, <2>3, CountShift DEF CountFacts
<1>3. CASE EnqueueEvicting(t)
  <2>1. Cardinality(Entered') = Cardinality(Entered) + 1
    BY <1>0, <1>3, EnterLemma DEF EnqueueEvicting
  <2>2. Len(queue') = Len(queue)
    <3>1. queue # <<>>
      BY <1>0, <1>3 DEF EnqueueEvicting, Full
    <3>2. Tail(queue) \in Seq(Task) /\ Len(Tail(queue)) = Len(queue) - 1
      BY <1>0, <3>1, TailLemma
    <3>3. Len(Append(Tail(queue), t)) = Len(Tail(queue)) + 1
      BY <3>2
    <3> QED BY <1>0, <1>3, <3>2, <3>3 DEF EnqueueEvicting, CountFacts
  <2>3. Counted' = Counted + 1
    BY <1>3 DEF EnqueueEvicting, Counted, IInv, TypeOK, Counters
  <2> QED BY <1>0, <2>1, <2>2, <2>3, CountShift DEF CountFacts
<1> QED BY <1>1, <1>2, <1>3 DEF Enqueue

LEMMA WithdrawCount ==
    ASSUME IInv, IInv', CountedOnce, NEW t \in Task, Withdraw(t)
    PROVE  CountedOnce'
<1>1. /\ CountFacts /\ queue \in Seq(Task) /\ pc[t] = "withdraw"
      /\ queue' = RemoveFirst(queue, t)
      /\ Count("expired", IF Contains(queue, t) THEN 1 ELSE 0)
      /\ Holders' = Holders
  BY CountTypes DEF IInv, TypeOK, Withdraw, Holders
<1>2. Len(queue') = IF Contains(queue, t) THEN Len(queue) - 1 ELSE Len(queue)
  BY <1>1, RemoveFirstLemma
<1>3. Counted' = Counted + IF Contains(queue, t) THEN 1 ELSE 0
  BY <1>1, CountLemma
<1>4. Entered' = Entered
  BY DEF Withdraw, Entered, IInv, TypeOK
<1>5. CASE Contains(queue, t)
  BY <1>1, <1>2, <1>3, <1>4, <1>5, CountShift DEF CountFacts
<1>6. CASE ~Contains(queue, t)
  BY <1>1, <1>2, <1>3, <1>4, <1>6, CountShift DEF CountFacts
<1> QED BY <1>5, <1>6

LEMMA PopCount ==
    ASSUME IInv, IInv', CountedOnce, NEW w \in Worker,
           Pop(w) \/ PopWait(w) \/ PopTimeout(w)
    PROVE  CountedOnce'
<1>1. /\ CountFacts /\ StalePrefix \in 0..Len(queue) /\ queue \in Seq(Task)
      /\ Count("expired", StalePrefix) /\ Entered' = Entered
      /\ queue' = SubSeq(queue, StalePrefix + 2, Len(queue))
  BY CountTypes, StalePrefixType
     DEF IInv, TypeOK, Pop, PopWait, PopTimeout, Scan, Entered
<1>2. Counted' = Counted + StalePrefix
  BY <1>1, CountLemma DEF CountFacts
<1>3. CASE Pop(w)
  <2>1. StalePrefix < Len(queue) /\ Len(queue') = Len(queue) - StalePrefix - 1
    BY <1>1, <1>3, SplitLemma DEF Pop
  <2>2. Holders' = Holders \cup {w} /\ w \notin Holders
    <3>1. item[w] = None /\ item \in [Worker -> Task \cup {None}]
      BY <1>3 DEF Pop, IInv, TypeOK, WorkerInv
    <3>2. queue[StalePrefix + 1] \in Task /\ item' = [item EXCEPT ![w] = queue[StalePrefix + 1]]
      BY <1>1, <1>3, SplitLemma DEF Pop
    <3> QED BY <3>1, <3>2 DEF Holders
  <2>3. Cardinality(Holders') = Cardinality(Holders) + 1
    BY <1>1, <2>2, FS_AddElement DEF CountFacts
  <2>4. Counted' + Len(queue') + Cardinality(Holders') =
          Counted + Len(queue) + Cardinality(Holders) + 0
    <3>1. /\ StalePrefix \in Int /\ Len(queue) \in Int /\ Counted \in Int
          /\ Cardinality(Holders) \in Int
      BY <1>1 DEF CountFacts
    <3> QED BY <1>2, <2>1, <2>3, <3>1
  <2>5. Cardinality(Entered') = Cardinality(Entered) + 0
    BY <1>1 DEF CountFacts
  <2> QED BY <2>4, <2>5, CountShift
<1>4. CASE PopWait(w) \/ PopTimeout(w)
  <2>1. StalePrefix = Len(queue) /\ Holders' = Holders
    BY <1>4 DEF PopWait, PopTimeout, Holders
  <2>2. Len(queue') = 0
    BY <1>1, <2>1, SplitLemma, EmptyLemma
  <2> QED BY <1>1, <1>2, <2>1, <2>2, CountShift DEF CountFacts
<1> QED BY <1>3, <1>4

LEMMA ResultCount ==
    ASSUME IInv, IInv', CountedOnce, NEW w \in Worker, CountResult(w)
    PROVE  CountedOnce'
<1>1. /\ CountFacts /\ wpc[w] \in {"completed", "failed"} /\ Count(wpc[w], 1)
      /\ Entered' = Entered /\ queue' = queue
  BY CountTypes DEF IInv, CountResult, Entered
<1>2. Counted' = Counted + 1
  BY <1>1, CountLemma
<1>3. Holders' = Holders \ {w} /\ w \in Holders
  BY DEF CountResult, Holders, IInv, TypeOK, WorkerInv
<1>4. Cardinality(Holders') = Cardinality(Holders) - 1
  BY <1>1, <1>3, FS_RemoveElement DEF CountFacts
<1>5. Counted' + Len(queue') + Cardinality(Holders') =
        Counted + Len(queue) + Cardinality(Holders) + 0
  BY <1>1, <1>2, <1>4 DEF CountFacts
<1>6. Cardinality(Entered') = Cardinality(Entered) + 0
  BY <1>1 DEF CountFacts
<1> QED BY <1>5, <1>6, CountShift

(* No request is counted twice by stats(), nor counted while it is queued  *)
(* or held by a worker: the counters of the queue and of the executor add  *)
(* up to no more than the calls that were made.                            *)
THEOREM CountedAtMostOnce == Spec => []CountedOnce
<1>1. Init => CountedOnce
  <2> SUFFICES ASSUME Init PROVE CountedOnce
    OBVIOUS
  <2>1. Holders = {} /\ Entered = {} /\ Counted = 0 /\ Len(queue) = 0
    BY DEF Init, Holders, Entered, Counted, Counters
  <2>2. Cardinality({}) = 0
    BY FS_EmptySet
  <2>3. CountedOnce <=>
          Counted + Len(queue) + Cardinality(Holders) <= Cardinality(Entered)
    BY DEF CountedOnce, Counted, Holders, Entered
  <2> QED BY <2>1, <2>2, <2>3
<1>2. ASSUME IInv, IInv', CountedOnce, [Next]_vars
      PROVE  CountedOnce'
  <2>1. ASSUME UNCHANGED stats, UNCHANGED queue \/ queue' = <<>>,
               \A w \in Worker : item'[w] = item[w] \/ item'[w] = None,
               \A t \in Task : pc'[t] \in {"new", "enqueue"} => pc[t] \in {"new", "enqueue"}
        PROVE  CountedOnce'
    <3>1. Holders' \subseteq Holders /\ Entered \subseteq Entered'
      BY <2>1 DEF Holders, Entered
    <3>2. Len(queue') <= Len(queue)
      BY <1>2, <2>1 DEF IInv, TypeOK
    <3> QED BY <1>2, <2>1, <3>1, <3>2, CountFrame
  <2>2. ASSUME NEW t \in Task,
               \/ Submit(t) \/ CompleteEvicted(t) \/ TimeOut(t) \/ Return(t)
               \/ DeadlinePasses(t) \/ Cancel(t) \/ CloseLoop(t)
        PROVE  CountedOnce'
    BY <1>2, <2>1, <2>2 DEF Submit, CompleteEvicted, TimeOut, Return,
       DeadlinePasses, Cancel, CloseLoop, IInv, TypeOK
  <2>3. ASSUME NEW w \in Worker, NEW o \in {"ok", "failed"},
               Flush(w) \/ CheckClosed(w) \/ Begin(w) \/ Finish(w, o)
        PROVE  CountedOnce'
    BY <1>2, <2>1, <2>3 DEF Flush, CheckClosed, Begin, Finish, IInv, TypeOK
  <2>4. ASSUME \/ EnsureReady \/ Close \/ CompleteDrained \/ EndDrain
               \/ Join \/ JoinTimeout \/ CloseAgain \/ UNCHANGED vars
        PROVE  CountedOnce'
    BY <1>2, <2>1, <2>4 DEF EnsureReady, Close, CompleteDrained, EndDrain,
       Join, JoinTimeout, CloseAgain, vars
  <2> QED BY <1>2, <2>2, <2>3, <2>4, EnqueueCount, WithdrawCount, PopCount,
             ResultCount DEF Next, CallerStep, WorkerStep, CloserStep
<1> QED BY <1>1, <1>2, Invariance, PTL DEF Spec
=============================================================================
