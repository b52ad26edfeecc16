------------------------- MODULE OfflineSpool_proof -------------------------
(***************************************************************************)
(* Safety of the telemetry spool, for any number of processes and events,  *)
(* any record lengths and any max_bytes, with torn writes, failing sinks   *)
(* and killed flushes.  The length of a file is a recursive sum over its   *)
(* lines; what the proof needs of it is shown by minimal counterexample:   *)
(* the least prefix for which a fact fails cannot exist (LeastExists).     *)
(***************************************************************************)
EXTENDS OfflineSpool, SequenceTheorems, WellFoundedInduction, TLAPS

TypeOK ==
    /\ spool \in Seq(Line) /\ open \in BOOLEAN
    /\ lock \in Proc \cup {Free}
    /\ pc \in [Proc -> {"idle", "flush", "rewrite"}]
    /\ idx \in [Proc -> Nat]
    /\ sent \in [Proc -> Nat]
    /\ limit \in [Proc -> Nat \cup {None}]
    /\ written \in Seq(Event) /\ delivered \in Seq(Event)
    /\ acked \subseteq Event /\ glued \subseteq Event /\ evicted \subseteq Event

(* A flush holds the lock, and what it has passed was delivered or does    *)
(* not decode.                                                             *)
FlushInv ==
    \A p \in Proc : pc[p] # "idle" =>
        /\ lock = p
        /\ idx[p] \in 1..(Len(spool) + 1)
        /\ \A k \in 1..(idx[p] - 1) : spool[k].event \in Range(delivered) \cup {None}

(* There is room for the newline that a torn line lacks.                   *)
RoomInv == Bytes(spool) + (IF open THEN 1 ELSE 0) <= MaxBytes

(* A torn line is not the only copy of an event acknowledged cleanly.      *)
TornInv ==
    open /\ spool # <<>> =>
        (spool[Len(spool)].event \in acked \ glued
            => spool[Len(spool)].event \in Range(delivered) \cup evicted)

(* x was written for the last time before y was.                           *)
Before(w, x, y) ==
    \A a, b \in 1..Len(w) : w[a] = x /\ w[b] = y => a < b

(* The file is in the order of the writes, and what was delivered was      *)
(* written before what is still to be delivered.                           *)
OrderInv ==
    /\ \A a, b \in 1..Len(written) : written[a] = written[b] => a = b
    /\ \A i, j \in 1..Len(spool) :
          i < j /\ spool[i].event # None /\ spool[j].event # None =>
              Before(written, spool[i].event, spool[j].event)
    /\ \A d \in Range(delivered) : \A k \in 1..Len(spool) :
          spool[k].event \notin Range(delivered) \cup {None} =>
              Before(written, d, spool[k].event)
    /\ \A i, j \in 1..Len(delivered) :
          i < j => Before(written, delivered[i], delivered[j])

(* Nothing is in the file, or delivered, that was not written.             *)
WrittenInv == Events(spool) \cup Range(delivered) \subseteq Range(written)

IInv ==
    /\ TypeOK /\ FlushInv /\ RoomInv
    /\ TornInv /\ CleanlyKept /\ OrderInv /\ WrittenInv

(* A set of natural numbers that is not empty has a least member.          *)
LEMMA LeastExists ==
    ASSUME NEW S \in SUBSET Nat, S # {}
    PROVE  \E i \in S : \A j \in S : i <= j
<1> DEFINE R == {ss \in Nat \X Nat : ss[1] < ss[2]}
<1>1. IsWellFoundedOn(R, Nat)
  BY NatLessThanWellFounded, Zenon DEF OpToRel
<1>2. \A x, y \in Nat : ~(<<y, x>> \in R) => x <= y
  OBVIOUS
<1> HIDE DEF R
<1>3. \E x \in S : \A y \in S : ~(<<y, x>> \in R)
  BY <1>1, WFMin
<1> QED BY <1>2, <1>3

(* f gives the length of the first i lines, for i up to n.                 *)
Sums(f, lines, n) == f = [i \in 0..n |-> IF i = 0 THEN 0 ELSE f[i - 1] + lines[i].size]

(* The recursion that defines Total has a solution.                        *)
LEMMA SumsExist ==
    ASSUME NEW lines \in Seq(Line), NEW n \in 0..Len(lines)
    PROVE  \E f : Sums(f, lines, n)
<1> DEFINE Bad == {k \in Nat : k <= Len(lines) /\ ~\E f : Sums(f, lines, k)}
<1>1. SUFFICES Bad = {}
  OBVIOUS
<1>2. SUFFICES ASSUME Bad # {} PROVE FALSE
  OBVIOUS
<1>3. PICK k \in Bad : \A j \in Bad : k <= j
  BY <1>2, LeastExists
<1>4. CASE k = 0
  <2>1. Sums([i \in 0..0 |-> 0], lines, 0)
    BY DEF Sums
  <2> QED BY <1>4, <2>1
<1>5. CASE k # 0
  <2>1. PICK g : Sums(g, lines, k - 1)
    BY <1>3, <1>5
  <2> DEFINE f == [i \in 0..k |-> IF i = k THEN g[k - 1] + lines[k].size ELSE g[i]]
  <2>2. Sums(f, lines, k)
    <3>1. ASSUME NEW i \in 0..k
          PROVE  f[i] = IF i = 0 THEN 0 ELSE f[i - 1] + lines[i].size
      BY <2>1, <1>5, <1>3 DEF Sums
    <3> HIDE DEF f
    <3>2. f = [i \in 0..k |-> f[i]]
      BY DEF f
    <3> QED BY <3>1, <3>2 DEF Sums
  <2> QED BY <2>2
<1> QED BY <1>4, <1>5

LEMMA TotalEquation ==
    ASSUME NEW lines \in Seq(Line)
    PROVE  Sums(Total(lines), lines, Len(lines))
<1>1. \E f : Sums(f, lines, Len(lines))
  BY SumsExist
<1>2. Total(lines) = CHOOSE f : Sums(f, lines, Len(lines))
  BY Zenon DEF Total, Sums
<1> QED BY <1>1, <1>2, Zenon

(* What the recursion says at each line.                                   *)
LEMMA TotalStep ==
    ASSUME NEW s \in Seq(Line)
    PROVE  /\ Total(s)[0] = 0
           /\ \A n \in Nat : n + 1 <= Len(s) =>
                 Total(s)[n + 1] = Total(s)[n] + s[n + 1].size
<1> DEFINE T == Total(s)
<1>1. T = [i \in 0..Len(s) |-> IF i = 0 THEN 0 ELSE T[i - 1] + s[i].size]
  BY TotalEquation DEF Sums
<1> HIDE DEF T
<1>2. T[0] = 0
  BY <1>1
<1>3. ASSUME NEW n \in Nat, n + 1 <= Len(s)
      PROVE  T[n + 1] = T[n] + s[n + 1].size
  <2>1. n + 1 \in 0..Len(s) /\ n + 1 # 0 /\ (n + 1) - 1 = n
    BY <1>3
  <2>2. T[n + 1] = IF n + 1 = 0 THEN 0 ELSE T[(n + 1) - 1] + s[n + 1].size
    BY <1>1, <2>1
  <2> QED BY <2>1, <2>2
<1> QED BY <1>2, <1>3 DEF T

LEMMA LineAt ==
    ASSUME NEW s \in Seq(Line), NEW i \in 1..Len(s)
    PROVE  s[i] \in Line /\ s[i].size \in Nat /\ s[i].event \in Event \cup {None}
<1>1. s[i] \in Line
  OBVIOUS
<1> QED BY <1>1 DEF Line

LEMMA TotalNat ==
    ASSUME NEW s \in Seq(Line), NEW n \in Nat, n <= Len(s)
    PROVE  Total(s)[n] \in Nat
<1> DEFINE Bad == {k \in Nat : k <= Len(s) /\ Total(s)[k] \notin Nat}
<1>1. SUFFICES ASSUME Bad # {} PROVE FALSE
  OBVIOUS
<1>2. PICK k \in Bad : \A j \in Bad : k <= j
  BY <1>1, LeastExists
<1>3. k # 0
  BY <1>2, TotalStep
<1>4. /\ k - 1 \in Nat /\ (k - 1) + 1 = k /\ k <= Len(s)
      /\ k \in 1..Len(s)
  BY <1>2, <1>3
<1>5. Total(s)[k - 1] \in Nat
  BY <1>2, <1>4
<1>6. Total(s)[k] = Total(s)[k - 1] + s[k].size
  BY <1>4, TotalStep
<1> QED BY <1>2, <1>4, <1>5, <1>6, LineAt

(* A segment of a file is no longer than what it ends.                     *)
LEMMA TotalSegment ==
    ASSUME NEW s \in Seq(Line), NEW t \in Seq(Line), NEW k \in Nat, NEW n \in Nat,
           n <= Len(s), k + n <= Len(t),
           \A i \in 1..n : s[i].size = t[k + i].size
    PROVE  Total(s)[n] <= Total(t)[k + n]
<1> DEFINE Bad == {m \in Nat : m <= n /\ ~(Total(s)[m] <= Total(t)[k + m])}
<1>0. n <= n
  OBVIOUS
<1>1. SUFFICES ASSUME Bad # {} PROVE FALSE
  BY <1>0, Zenon
<1>2. PICK m \in Bad : \A j \in Bad : m <= j
  BY <1>1, LeastExists
<1>3. m # 0
  <2>1. Total(s)[0] = 0 /\ k + 0 = k /\ Total(t)[k] \in Nat
    BY TotalStep, TotalNat
  <2> QED BY <1>2, <2>1
<1>4. /\ m - 1 \in Nat /\ (m - 1) + 1 = m /\ m <= Len(s) /\ m \in 1..n
      /\ k + (m - 1) \in Nat /\ (k + (m - 1)) + 1 = k + m /\ k + m <= Len(t)
  BY <1>2, <1>3
<1>5. Total(s)[m - 1] <= Total(t)[k + (m - 1)]
  BY <1>2, <1>4
<1>6. /\ Total(s)[m] = Total(s)[m - 1] + s[m].size
      /\ Total(t)[k + m] = Total(t)[k + (m - 1)] + t[k + m].size
  BY <1>4, TotalStep
<1>7. /\ Total(s)[m - 1] \in Nat /\ Total(t)[k + (m - 1)] \in Nat
      /\ s[m].size \in Nat /\ s[m].size = t[k + m].size
  <2>1. m \in 1..Len(s) /\ m - 1 <= Len(s) /\ k + (m - 1) <= Len(t)
    BY <1>4
  <2> QED BY <2>1, <1>4, TotalNat, LineAt
<1> QED BY <1>2, <1>5, <1>6, <1>7

LEMMA BytesNat ==
    ASSUME NEW s \in Seq(Line) PROVE Bytes(s) \in Nat
BY TotalNat DEF Bytes

LEMMA BytesEmpty == Bytes(<<>>) = 0
<1>1. <<>> \in Seq(Line) /\ Len(<<>>) = 0
  OBVIOUS
<1> QED BY <1>1, TotalStep DEF Bytes

(* A file that differs from s by one line at its end.                      *)
LEMMA BytesLonger ==
    ASSUME NEW s \in Seq(Line), NEW t \in Seq(Line), Len(t) = Len(s) + 1,
           \A i \in 1..Len(s) : t[i].size = s[i].size
    PROVE  Bytes(t) = Bytes(s) + t[Len(t)].size
<1>1. /\ Len(s) \in Nat /\ Len(s) <= Len(s) /\ 0 + Len(s) = Len(s) /\ 0 \in Nat
      /\ Len(s) <= Len(t)
      /\ \A i \in 1..Len(s) : 0 + i = i
  OBVIOUS
<1> DEFINE n == Len(s)
<1> HIDE DEF n
<1>a. /\ n \in Nat /\ n <= Len(s) /\ n <= Len(t) /\ 0 + n = n
      /\ \A i \in 1..n : s[i].size = t[0 + i].size
      /\ \A i \in 1..n : t[i].size = s[0 + i].size
  BY <1>1 DEF n
<1>2. Total(s)[n] <= Total(t)[0 + n]
  BY <1>1, <1>a, TotalSegment
<1>3. Total(t)[n] <= Total(s)[0 + n]
  BY <1>1, <1>a, TotalSegment
<1>b. Total(t)[n] \in Nat /\ Total(s)[n] \in Nat
  BY <1>a, TotalNat
<1>4. Total(t)[Len(s)] = Total(s)[Len(s)]
  BY <1>a, <1>b, <1>2, <1>3 DEF n
<1> QED BY <1>1, <1>4, TotalStep DEF Bytes

(* What remains when the first k lines are dropped.                        *)
LEMMA SuffixLemma ==
    ASSUME NEW s \in Seq(Line), NEW k \in 0..Len(s)
    PROVE  LET t == SubSeq(s, k + 1, Len(s))
           IN  /\ t \in Seq(Line) /\ Len(t) = Len(s) - k
               /\ \A i \in 1..Len(t) : t[i] = s[k + i]
               /\ Bytes(t) <= Bytes(s)
<1> DEFINE t == SubSeq(s, k + 1, Len(s))
<1>1. Len(s) \in Nat /\ k \in Nat /\ k <= Len(s)
  OBVIOUS
<1>2. t \in Seq(Line) /\ Len(t) = Len(s) - k /\ \A i \in 1..Len(t) : t[i] = s[k + i]
  BY <1>1
<1> HIDE DEF t
<1> DEFINE n == Len(t)
<1>a. /\ n \in Nat /\ n <= Len(t) /\ k + n <= Len(s)
      /\ \A i \in 1..n : t[i].size = s[k + i].size
  BY <1>1, <1>2
<1> HIDE DEF n
<1>b. Total(t)[n] <= Total(s)[k + n]
  BY <1>1, <1>2, <1>a, TotalSegment
<1>3. Total(t)[Len(t)] <= Total(s)[k + Len(t)]
  BY <1>b DEF n
<1>4. Bytes(t) <= Bytes(s)
  BY <1>1, <1>2, <1>3 DEF Bytes
<1> QED BY <1>2, <1>4 DEF t

(* The end of a file is replaced.                                          *)
LEMMA LastReplaced ==
    ASSUME NEW s \in Seq(Line), s # <<>>, NEW l \in Line,
           NEW g, g = Append(Front(s), l)
    PROVE  /\ g \in Seq(Line) /\ Len(g) = Len(s) /\ Len(s) \in Nat \ {0}
           /\ \A i \in 1..(Len(s) - 1) : g[i] = s[i]
           /\ g[Len(s)] = l
           /\ Bytes(g) = Bytes(s) - Last(s).size + l.size
<1> DEFINE f == SubSeq(s, 1, Len(s) - 1)
<1>0. g = Append(f, l)
  BY DEF Front
<1>1. Len(s) \in Nat \ {0} /\ s[Len(s)] \in Line
  OBVIOUS
<1>2. f \in Seq(Line) /\ Len(f) = Len(s) - 1 /\ \A i \in 1..(Len(s) - 1) : f[i] = s[i]
  <2> DEFINE n == Len(s) - 1
  <2>1. n \in Nat /\ 1 \in Int /\ \A i \in 1..n : s[i] \in Line
    BY <1>1
  <2> HIDE DEF n
  <2>2. /\ SubSeq(s, 1, n) \in Seq(Line)
        /\ Len(SubSeq(s, 1, n)) = IF 1 <= n THEN n - 1 + 1 ELSE 0
        /\ \A i \in 1..(n - 1 + 1) : SubSeq(s, 1, n)[i] = s[1 + i - 1]
    BY <2>1, SubSeqProperties
  <2>3. Len(SubSeq(s, 1, n)) = n /\ \A i \in 1..n : SubSeq(s, 1, n)[i] = s[i]
    BY <2>1, <2>2
  <2> QED BY <2>2, <2>3 DEF n
<1> HIDE DEF f
<1>3. /\ g \in Seq(Line) /\ Len(g) = Len(s)
      /\ \A i \in 1..(Len(s) - 1) : g[i] = s[i]
      /\ g[Len(s)] = l
  BY <1>0, <1>1, <1>2
<1>4. Bytes(g) = Bytes(f) + l.size
  <2>1. Len(g) = Len(f) + 1 /\ \A i \in 1..Len(f) : g[i].size = f[i].size
    BY <1>1, <1>2, <1>3
  <2>2. Bytes(g) = Bytes(f) + g[Len(g)].size
    BY <1>2, <1>3, <2>1, BytesLonger
  <2> QED BY <2>2, <1>3
<1>5. Bytes(s) = Bytes(f) + s[Len(s)].size
  BY <1>1, <1>2, BytesLonger
<1>6. Bytes(f) \in Nat /\ l.size \in Nat /\ s[Len(s)].size \in Nat
  BY <1>1, <1>2, BytesNat DEF Line
<1>7. Last(s) = s[Len(s)]
  BY DEF Last
<1>8. Bytes(g) = Bytes(s) - s[Len(s)].size + l.size
  BY <1>4, <1>5, <1>6
<1> QED BY <1>1, <1>3, <1>7, <1>8

(* What a write does to the file: the lines before the last one stay, and  *)
(* the last one is the new record or decodes to nothing.                   *)
Glued(g, s, torn, l) ==
    /\ g \in Seq(Line) /\ Len(g) \in Nat \ {0}
    /\ Bytes(g) = Bytes(s) + l.size
    /\ Len(g) - 1 <= Len(s)
    /\ \A i \in 1..(Len(g) - 1) : g[i] = s[i]
    /\ g[Len(g)].event \in {None, l.event}
    /\ \A i \in 1..Len(s) : i <= Len(g) - 1 \/ (torn /\ i = Len(s))
    /\ ~torn => g[Len(g)] = l

LEMMA GlueLemma ==
    ASSUME NEW s \in Seq(Line), NEW torn \in BOOLEAN, NEW l \in Line,
           NEW g, g = Glue(s, torn, l)
    PROVE  Glued(g, s, torn, l)
<1>1. CASE torn /\ s # <<>>
  <2> DEFINE m == [event |-> None, size |-> Last(s).size + l.size]
  <2>1. g = Append(Front(s), m)
    BY <1>1 DEF Glue
  <2>2. Last(s) \in Line
    BY <1>1 DEF Last
  <2>3. m \in Line
    BY <2>2 DEF Line
  <2> HIDE DEF m
  <2>4. /\ g \in Seq(Line) /\ Len(g) = Len(s) /\ Len(s) \in Nat \ {0}
        /\ \A i \in 1..(Len(s) - 1) : g[i] = s[i]
        /\ g[Len(s)] = m
        /\ Bytes(g) = Bytes(s) - Last(s).size + m.size
    BY <1>1, <2>1, <2>3, LastReplaced, ZenonT(60)
  <2>5. /\ Bytes(s) \in Nat /\ Last(s).size \in Nat /\ l.size \in Nat
        /\ m.size = Last(s).size + l.size /\ m.event = None
    BY <2>2, BytesNat DEF Line, m
  <2>6. Bytes(g) = Bytes(s) + l.size
    BY <2>4, <2>5
  <2>7. \A i \in 1..Len(s) : i <= Len(g) - 1 \/ i = Len(s)
    BY <2>4
  <2>8. Len(g) - 1 <= Len(s) /\ g[Len(g)].event = None
    BY <2>4, <2>5
  <2> QED BY <1>1, <2>4, <2>6, <2>7, <2>8 DEF Glued
<1>2. CASE ~(torn /\ s # <<>>)
  <2>1. g = Append(s, l) /\ (torn => Len(s) = 0)
    BY <1>2 DEF Glue
  <2>2. /\ g \in Seq(Line) /\ Len(g) = Len(s) + 1 /\ Len(s) \in Nat
        /\ \A i \in 1..Len(s) : g[i] = s[i]
        /\ g[Len(g)] = l
    BY <2>1
  <2>3. Bytes(g) = Bytes(s) + l.size
    BY <2>2, BytesLonger
  <2> QED BY <2>1, <2>2, <2>3 DEF Glued
<1> QED BY <1>1, <1>2

(* A file that is rewritten keeps its events and gains at most a newline.  *)
LEMMA ClosedLemma ==
    ASSUME NEW s \in Seq(Line), open \in BOOLEAN, NEW c, c = Closed(s)
    PROVE  /\ c \in Seq(Line) /\ Len(c) = Len(s)
           /\ \A i \in 1..Len(s) : c[i].event = s[i].event
           /\ Bytes(c) <= Bytes(s) + IF open THEN 1 ELSE 0
<1>1. CASE open /\ s # <<>>
  <2> DEFINE m == [Last(s) EXCEPT !.size = @ + 1]
  <2>1. c = Append(Front(s), m)
    BY <1>1 DEF Closed
  <2>2. Last(s) \in Line /\ Last(s) = s[Len(s)]
    BY <1>1 DEF Last
  <2>3. m \in Line /\ m.size = Last(s).size + 1 /\ m.event = Last(s).event
    BY <2>2 DEF Line
  <2> HIDE DEF m
  <2>a. s # <<>> /\ m \in Line
    BY <1>1, <2>3
  <2>4. /\ c \in Seq(Line) /\ Len(c) = Len(s) /\ Len(s) \in Nat \ {0}
        /\ \A i \in 1..(Len(s) - 1) : c[i] = s[i]
        /\ c[Len(s)] = m
        /\ Bytes(c) = Bytes(s) - Last(s).size + m.size
    BY <2>a, <2>1, LastReplaced, ZenonT(60)
  <2>5. Bytes(s) \in Nat /\ Last(s).size \in Nat
    BY <2>2, BytesNat DEF Line
  <2>6. Bytes(c) = Bytes(s) + 1
    BY <2>3, <2>4, <2>5
  <2>7. \A i \in 1..Len(s) : c[i].event = s[i].event
    BY <2>2, <2>3, <2>4
  <2> QED BY <1>1, <2>4, <2>5, <2>6, <2>7
<1>2. CASE ~(open /\ s # <<>>)
  <2>1. c = s
    BY <1>2 DEF Closed
  <2> QED BY <2>1, BytesNat
<1> QED BY <1>1, <1>2

(* As many of the oldest lines are dropped as make room, if the new record *)
(* fits at all.                                                            *)
LEMMA KeptLemma ==
    ASSUME NEW s \in Seq(Line), NEW room \in Nat
    PROVE  \E k \in 0..Len(s) :
              /\ Kept(s, room) = SubSeq(s, k + 1, Len(s))
              /\ Bytes(Kept(s, room)) <= room
<1> DEFINE ok == {k \in 0..Len(s) : Bytes(SubSeq(s, k + 1, Len(s))) <= room}
           k == CHOOSE i \in ok : \A j \in ok : i <= j
<1>1. Len(s) \in ok
  <2>1. Len(s) \in Nat /\ SubSeq(s, Len(s) + 1, Len(s)) = <<>>
    OBVIOUS
  <2>2. Bytes(SubSeq(s, Len(s) + 1, Len(s))) = 0
    BY <2>1, BytesEmpty
  <2>3. 0 <= room /\ Len(s) \in 0..Len(s)
    BY <2>1
  <2> QED BY <2>2, <2>3, Zenon
<1>2. ok \in SUBSET Nat /\ ok # {}
  BY <1>1
<1> HIDE DEF ok
<1>3. \E i \in ok : \A j \in ok : i <= j
  BY <1>2, LeastExists
<1>4. k \in ok
  BY <1>3
<1> HIDE DEF k
<1>5. Kept(s, room) = SubSeq(s, 1 + k, Len(s))
  BY DEF Kept, k, ok
<1>6. 1 + k = k + 1 /\ k \in 0..Len(s) /\ Bytes(SubSeq(s, k + 1, Len(s))) <= room
  BY <1>4 DEF ok
<1> QED BY <1>5, <1>6

LEMMA RangeLemma ==
    ASSUME NEW T, NEW q \in Seq(T)
    PROVE  /\ \A x : x \in Range(q) <=> \E i \in 1..Len(q) : q[i] = x
           /\ Range(q) \subseteq T
           /\ Len(q) \in Nat /\ DOMAIN q = 1..Len(q)
<1>1. DOMAIN q = 1..Len(q) /\ Len(q) \in Nat /\ \A i \in 1..Len(q) : q[i] \in T
  OBVIOUS
<1>2. \A x : x \in Range(q) <=> \E i \in 1..Len(q) : q[i] = x
  BY <1>1, Zenon DEF Range
<1> QED BY <1>1, <1>2

LEMMA EventsLemma ==
    ASSUME NEW s \in Seq(Line)
    PROVE  /\ \A x : x \in Events(s) <=> x # None /\ \E i \in 1..Len(s) : s[i].event = x
           /\ Events(s) \subseteq Event
<1>1. \A l : l \in Range(s) <=> \E i \in 1..Len(s) : s[i] = l
  BY RangeLemma
<1>2. \A x : x \in Events(s) <=> x # None /\ \E i \in 1..Len(s) : s[i].event = x
  BY <1>1, Zenon DEF Events
<1>3. \A i \in 1..Len(s) : s[i].event \in Event \cup {None}
  BY LineAt
<1> QED BY <1>2, <1>3

(* RemoveFirst closes the gap at the only place of e.                      *)
LEMMA RemoveLemma ==
    ASSUME NEW w \in Seq(Event), NEW e \in Event,
           \A a, b \in 1..Len(w) : w[a] = w[b] => a = b
    PROVE  LET r == RemoveFirst(w, e)
           IN  /\ r \in Seq(Event)
               /\ \E i \in 1..(Len(w) + 1) :
                     /\ \A j \in 1..Len(w) : w[j] = e <=> j = i
                     /\ Len(r) = IF i <= Len(w) THEN Len(w) - 1 ELSE Len(w)
                     /\ \A j \in 1..Len(r) : r[j] = w[IF j < i THEN j ELSE j + 1]
<1> DEFINE r == RemoveFirst(w, e)
<1>0. Len(w) \in Nat
  OBVIOUS
<1>1. CASE \E i \in 1..Len(w) : w[i] = e
  <2>1. PICK i \in 1..Len(w) : w[i] = e
    BY <1>1
  <2>2. {j \in 1..Len(w) : w[j] = e} = {i}
    BY <2>1
  <2>3. SelectInSeq(w, LAMBDA v : v = e) = i
    <3>1. Min({i}) = i
      <4>1. \A x \in {i} : i <= x
        BY <2>1
      <4> QED BY <4>1 DEF Min
    <3> QED BY <2>2, <3>1 DEF SelectInSeq
  <2>4. r = SubSeq(w, 1, i - 1) \o SubSeq(w, i + 1, Len(w))
    BY <1>1, <2>3 DEF RemoveFirst, RemoveAt
  <2> DEFINE u == SubSeq(w, 1, i - 1)
             v == SubSeq(w, i + 1, Len(w))
  <2>5. u \in Seq(Event) /\ Len(u) = i - 1 /\ \A j \in 1..(i - 1) : u[j] = w[j]
    BY <1>0, <2>1
  <2>6. /\ v \in Seq(Event) /\ Len(v) = Len(w) - i
        /\ \A j \in 1..(Len(w) - i) : v[j] = w[i + j]
    BY <1>0, <2>1
  <2> HIDE DEF u, v
  <2>7. /\ r \in Seq(Event) /\ Len(r) = Len(w) - 1
        /\ \A j \in 1..Len(r) : r[j] = IF j < i THEN u[j] ELSE v[j - (i - 1)]
    <3>1. r = u \o v
      BY <2>4 DEF u, v
    <3> HIDE DEF r
    <3> QED BY <3>1, <2>5, <2>6, <1>0, <2>1
  <2> HIDE DEF r
  <2>8. ASSUME NEW j \in 1..Len(r)
        PROVE  r[j] = w[IF j < i THEN j ELSE j + 1]
    <3>1. CASE j < i
      <4>1. j \in 1..(i - 1)
        BY <3>1, <2>7, <1>0, <2>1
      <4> QED BY <3>1, <4>1, <2>5, <2>7
    <3>2. CASE ~(j < i)
      <4>1. j - (i - 1) \in 1..(Len(w) - i) /\ i + (j - (i - 1)) = j + 1
        BY <3>2, <2>7, <1>0, <2>1
      <4> QED BY <3>2, <4>1, <2>6, <2>7
    <3> QED BY <3>1, <3>2
  <2>9. i \in 1..(Len(w) + 1) /\ i <= Len(w) /\ \A j \in 1..Len(w) : w[j] = e <=> j = i
    BY <1>0, <2>1
  <2> QED BY <2>7, <2>8, <2>9 DEF r
<1>2. CASE ~\E i \in 1..Len(w) : w[i] = e
  <2>1. r = w
    BY <1>2 DEF RemoveFirst
  <2>2. Len(w) + 1 \in 1..(Len(w) + 1) /\ ~(Len(w) + 1 <= Len(w))
    BY <1>0
  <2>3. \A j \in 1..Len(w) : (w[j] = e <=> j = Len(w) + 1) /\ j < Len(w) + 1
    BY <1>0, <1>2
  <2> QED BY <2>1, <2>2, <2>3
<1> QED BY <1>1, <1>2

(* A write moves e behind everything and keeps the order of the others.    *)
LEMMA WrittenLemma ==
    ASSUME NEW w \in Seq(Event), NEW e \in Event,
           \A a, b \in 1..Len(w) : w[a] = w[b] => a = b
    PROVE  LET z == Append(RemoveFirst(w, e), e)
           IN  /\ z \in Seq(Event)
               /\ \A a, b \in 1..Len(z) : z[a] = z[b] => a = b
               /\ \A x : x \in Range(w) \/ x = e => x \in Range(z)
               /\ \A x, y : x # e /\ y # e /\ Before(w, x, y) => Before(z, x, y)
               /\ \A x : x # e => Before(z, x, e)
<1> DEFINE r == RemoveFirst(w, e)
           z == Append(r, e)
<1>0. Len(w) \in Nat
  OBVIOUS
<1>1. r \in Seq(Event) /\ Len(r) \in Nat
  BY RemoveLemma
<1>2. PICK i \in 1..(Len(w) + 1) :
           /\ \A j \in 1..Len(w) : w[j] = e <=> j = i
           /\ Len(r) = IF i <= Len(w) THEN Len(w) - 1 ELSE Len(w)
           /\ \A j \in 1..Len(r) : r[j] = w[IF j < i THEN j ELSE j + 1]
  BY RemoveLemma
<1> HIDE DEF r
<1>3. /\ z \in Seq(Event) /\ Len(z) = Len(r) + 1
      /\ \A j \in 1..Len(r) : z[j] = r[j]
      /\ z[Len(r) + 1] = e
  BY <1>1
<1> HIDE DEF z
<1> DEFINE src(j) == IF j < i THEN j ELSE j + 1
<1>4. \A j \in 1..Len(r) : src(j) \in 1..Len(w) /\ src(j) # i /\ z[j] = w[src(j)]
  BY <1>0, <1>1, <1>2, <1>3
<1>5. \A j \in 1..Len(r) : z[j] # e
  BY <1>2, <1>4
<1>6. \A a, b \in 1..Len(r) : src(a) < src(b) => a < b
  BY <1>1, <1>2
<1>7. \A a, b \in 1..Len(r) : src(a) = src(b) => a = b
  BY <1>1, <1>2
<1>8. \A j \in 1..Len(z) : j \in 1..Len(r) \/ j = Len(r) + 1
  BY <1>1, <1>3
<1>9. \A a, b \in 1..Len(z) : z[a] = z[b] => a = b
  <2> SUFFICES ASSUME NEW a \in 1..Len(z), NEW b \in 1..Len(z), z[a] = z[b]
               PROVE  a = b
    OBVIOUS
  <2>1. CASE a \in 1..Len(r) /\ b \in 1..Len(r)
    <3>1. w[src(a)] = w[src(b)] /\ src(a) \in 1..Len(w) /\ src(b) \in 1..Len(w)
      BY <1>4, <2>1
    <3>2. src(a) = src(b)
      BY <3>1, Zenon
    <3> QED BY <2>1, <3>2, <1>7
  <2> QED BY <2>1, <1>3, <1>5, <1>8
<1>10. ASSUME NEW x, x \in Range(w) \/ x = e PROVE x \in Range(z)
  <2>1. \A y : y \in Range(z) <=> \E j \in 1..Len(z) : z[j] = y
    BY <1>3, RangeLemma
  <2>2. Len(r) + 1 \in 1..Len(z)
    BY <1>1, <1>3
  <2>3. CASE x = e
    BY <2>1, <2>2, <2>3, <1>3
  <2>4. CASE x \in Range(w) /\ x # e
    <3>1. PICK a \in 1..Len(w) : w[a] = x
      BY <2>4, RangeLemma
    <3> DEFINE j == IF a < i THEN a ELSE a - 1
    <3>2. a # i
      BY <1>2, <2>4, <3>1
    <3>3. j \in 1..Len(r) /\ src(j) = a
      BY <1>0, <1>1, <1>2, <3>2
    <3> HIDE DEF j, src
    <3>4. z[j] = w[src(j)]
      BY <1>4, <3>3
    <3>5. z[j] = x
      BY <3>1, <3>3, <3>4, Zenon
    <3>6. j \in 1..Len(z)
      BY <1>1, <1>3, <3>3
    <3> QED BY <2>1, <3>5, <3>6
  <2> QED BY <1>10, <2>3, <2>4
<1>11. ASSUME NEW x, NEW y, x # e, y # e, Before(w, x, y)
       PROVE  Before(z, x, y)
  <2> SUFFICES ASSUME NEW a \in 1..Len(z), NEW b \in 1..Len(z), z[a] = x, z[b] = y
               PROVE  a < b
    BY DEF Before
  <2>1. a \in 1..Len(r) /\ b \in 1..Len(r)
    BY <1>3, <1>8, <1>11
  <2>2. src(a) \in 1..Len(w) /\ src(b) \in 1..Len(w) /\ w[src(a)] = x /\ w[src(b)] = y
    BY <1>4, <2>1
  <2>3. src(a) < src(b)
    BY <1>11, <2>2 DEF Before
  <2> QED BY <1>6, <2>1, <2>3
<1>12. ASSUME NEW x, x # e PROVE Before(z, x, e)
  <2> SUFFICES ASSUME NEW a \in 1..Len(z), NEW b \in 1..Len(z), z[a] = x, z[b] = e
               PROVE  a < b
    BY DEF Before
  <2>1. a \in 1..Len(r) /\ b = Len(r) + 1
    BY <1>3, <1>5, <1>8, <1>12
  <2> QED BY <2>1, <1>1
<1> QED BY <1>3, <1>9, <1>10, <1>11, <1>12 DEF z, r

-----------------------------------------------------------------------------
(* Types                                                                   *)

USE ProcAssumption, SizeAssumption, TornAssumption
USE DEF file, flushVars, acks, history

LEMMA RecordLine == ASSUME NEW e \in Event PROVE Record(e) \in Line
BY DEF Record, Line

LEMMA WrittenType ==
    ASSUME TypeOK, OrderInv, NEW e \in Event, Written(e)
    PROVE  written' \in Seq(Event)
<1>1. written \in Seq(Event)
  BY DEF TypeOK
<1>2. \A a, b \in 1..Len(written) : written[a] = written[b] => a = b
  BY DEF OrderInv
<1>3. Append(RemoveFirst(written, e), e) \in Seq(Event)
  BY <1>1, <1>2, WrittenLemma
<1> QED BY <1>3 DEF Written

LEMMA AcceptedType ==
    ASSUME delivered \in Seq(Event), NEW e \in Event, Accepted(e)
    PROVE  delivered' \in Seq(Event) /\ Range(delivered') = Range(delivered) \cup {e}
<1>1. CASE Contains(delivered, e)
  <2>1. delivered' = delivered /\ e \in Range(delivered)
    BY <1>1, RangeLemma DEF Accepted, Contains
  <2> QED BY <2>1
<1>2. CASE ~Contains(delivered, e)
  <2>1. delivered' = Append(delivered, e)
    BY <1>2 DEF Accepted
  <2>2. /\ delivered' \in Seq(Event) /\ Len(delivered') = Len(delivered) + 1
        /\ Len(delivered) \in Nat
        /\ \A i \in 1..Len(delivered) : delivered'[i] = delivered[i]
        /\ delivered'[Len(delivered) + 1] = e
    BY <2>1
  <2>3. \A x : x \in Range(delivered) <=> \E i \in 1..Len(delivered) : delivered[i] = x
    BY RangeLemma
  <2>4. \A x : x \in Range(delivered') <=> \E i \in 1..Len(delivered') : delivered'[i] = x
    BY <2>2, RangeLemma
  <2>5. \A i \in 1..Len(delivered') : i \in 1..Len(delivered) \/ i = Len(delivered) + 1
    BY <2>2
  <2>6. /\ \A i \in 1..Len(delivered) : i \in 1..Len(delivered')
        /\ Len(delivered) + 1 \in 1..Len(delivered')
    BY <2>2
  <2>7. ASSUME NEW x PROVE x \in Range(delivered') <=> x \in Range(delivered) \/ x = e
    BY <2>2, <2>3, <2>4, <2>5, <2>6
  <2> QED BY <2>2, <2>7
<1> QED BY <1>1, <1>2

(* The flush's own variables.                                              *)
LEMMA LeaveType ==
    ASSUME TypeOK, NEW p \in Proc, Leave(p)
    PROVE  /\ lock' = Free /\ pc' = [pc EXCEPT ![p] = "idle"]
           /\ pc' \in [Proc -> {"idle", "flush", "rewrite"}]
           /\ idx' \in [Proc -> Nat] /\ sent' \in [Proc -> Nat]
           /\ limit' \in [Proc -> Nat \cup {None}]
BY DEF TypeOK, Leave

-----------------------------------------------------------------------------
(* Writing a record                                                        *)

(* The event of an append that writes is nowhere yet, and nobody flushes.  *)
LEMMA FreshEvent ==
    ASSUME IInv, NEW p \in Proc, NEW e \in Event, MayAppend(p, e), Duplicates(e) = {}
    PROVE  /\ e \notin Events(spool) /\ e \notin Range(delivered) /\ e \notin evicted
           /\ e \notin acked \ glued
           /\ \A q \in Proc : pc[q] = "idle"
<1>1. e \notin Events(spool)
  BY DEF Duplicates
<1>2. e \notin Range(delivered) /\ e \notin evicted /\ lock = Free
  BY DEF MayAppend
<1>3. e \notin acked \ glued
  BY <1>1, <1>2 DEF IInv, CleanlyKept, Traceable
<1>4. \A q \in Proc : pc[q] = "idle"
  BY <1>2 DEF IInv, FlushInv
<1> QED BY <1>1, <1>2, <1>3, <1>4

(* Whatever a write drops from the front and glues to the end, the order   *)
(* of the file is kept, and only the torn line may vanish uncounted.       *)
LEMMA PutStep ==
    ASSUME IInv, NEW p \in Proc, NEW e \in Event, MayAppend(p, e), Duplicates(e) = {},
           NEW k \in 0..Len(spool), NEW kept, kept = SubSeq(spool, k + 1, Len(spool)),
           NEW l \in Line, l.event \in {e, None},
           spool' = Glue(kept, open, l), Written(e),
           evicted' = evicted \cup (Events(spool) \ Events(kept)),
           UNCHANGED <<lock, pc, flushVars, delivered>>
    PROVE  /\ spool' \in Seq(Line) /\ written' \in Seq(Event) /\ evicted' \subseteq Event
           /\ Bytes(spool') = Bytes(kept) + l.size
           /\ spool' # <<>> /\ spool'[Len(spool')].event \in {e, None}
           /\ ~open /\ l.event = e => e \in Events(spool')
           /\ FlushInv' /\ OrderInv' /\ WrittenInv'
           /\ \A x \in Events(spool) :
                 \/ x \in Events(spool') \cup evicted'
                 \/ open /\ spool # <<>> /\ x = spool[Len(spool)].event
<1>t. /\ spool \in Seq(Line) /\ open \in BOOLEAN /\ written \in Seq(Event)
      /\ delivered \in Seq(Event) /\ evicted \subseteq Event
      /\ Len(spool) \in Nat /\ k \in Nat /\ k <= Len(spool)
  BY DEF IInv, TypeOK
<1>k. /\ kept \in Seq(Line) /\ Len(kept) = Len(spool) - k
      /\ \A i \in 1..Len(kept) : kept[i] = spool[k + i]
  BY <1>t, SuffixLemma
<1> DEFINE g == spool'
           n == Len(spool')
<1>g. /\ g \in Seq(Line) /\ n \in Nat \ {0}
      /\ Bytes(g) = Bytes(kept) + l.size
      /\ n - 1 <= Len(kept)
      /\ \A i \in 1..(n - 1) : g[i] = kept[i]
      /\ g[n].event \in {None, l.event}
      /\ \A i \in 1..Len(kept) : i <= n - 1 \/ (open /\ i = Len(kept))
      /\ ~open => g[n] = l
  <2>1. spool' = Glue(kept, open, l) /\ kept \in Seq(Line) /\ open \in BOOLEAN
    BY <1>t, <1>k
  <2>2. l \in Line /\ n = Len(g) /\ g = Glue(kept, open, l)
    OBVIOUS
  <2> HIDE DEF g, n
  <2>3. Glued(g, kept, open, l)
    BY <2>1, <2>2, GlueLemma, Zenon
  <2> QED BY <2>2, <2>3, Zenon DEF Glued
<1>e. /\ e \notin Events(spool) /\ e \notin Range(delivered)
      /\ \A q \in Proc : pc[q] = "idle"
  BY FreshEvent
<1> HIDE DEF g, n
<1>1. \A i \in 1..(n - 1) : k + i \in 1..Len(spool) /\ g[i] = spool[k + i]
  BY <1>t, <1>k, <1>g
<1>2. \A i \in 1..n : i \in 1..(n - 1) \/ i = n
  BY <1>g
<1>3. \A x : x \in Events(spool) <=> x # None /\ \E i \in 1..Len(spool) : spool[i].event = x
  BY <1>t, EventsLemma
<1>4. \A x : x \in Events(g) <=> x # None /\ \E i \in 1..n : g[i].event = x
  BY <1>g, EventsLemma DEF n, g
<1>5. \A i \in 1..(n - 1) : g[i].event # None => g[i].event \in Events(spool) /\ g[i].event # e
  BY <1>1, <1>3, <1>e
<1>6. g[n].event \in {e, None} /\ n \in 1..n
  BY <1>g
<1> DEFINE w == written
           z == written'
<1>w. /\ z \in Seq(Event)
      /\ \A a, b \in 1..Len(z) : z[a] = z[b] => a = b
      /\ \A x : x \in Range(w) \/ x = e => x \in Range(z)
      /\ \A x, y : x # e /\ y # e /\ Before(w, x, y) => Before(z, x, y)
      /\ \A x : x # e => Before(z, x, e)
  <2>1. \A a, b \in 1..Len(w) : w[a] = w[b] => a = b
    BY DEF IInv, OrderInv
  <2>2. z = Append(RemoveFirst(w, e), e)
    BY DEF Written
  <2> HIDE DEF w, z
  <2>3. w \in Seq(Event)
    BY <1>t DEF w
  <2> QED BY <2>1, <2>2, <2>3, WrittenLemma
<1> HIDE DEF w, z
<1>7. FlushInv'
  BY <1>e DEF FlushInv
<1>8. ASSUME NEW i \in 1..n, NEW j \in 1..n, i < j,
             g[i].event # None, g[j].event # None
      PROVE  Before(z, g[i].event, g[j].event)
  <2>1. i \in 1..(n - 1)
    BY <1>8, <1>g
  <2>2. CASE j = n
    BY <2>1, <2>2, <1>5, <1>6, <1>8, <1>w
  <2>3. CASE j \in 1..(n - 1)
    <3>1. /\ k + i \in 1..Len(spool) /\ k + j \in 1..Len(spool) /\ k + i < k + j
          /\ g[i] = spool[k + i] /\ g[j] = spool[k + j]
      BY <2>1, <2>3, <1>1, <1>8, <1>t
    <3>2. Before(w, g[i].event, g[j].event)
      BY <3>1, <1>8 DEF IInv, OrderInv, w
    <3> QED BY <2>1, <2>3, <3>2, <1>5, <1>8, <1>w
  <2> QED BY <2>2, <2>3, <1>2
<1>9. ASSUME NEW d \in Range(delivered), NEW i \in 1..n,
             g[i].event \notin Range(delivered) \cup {None}
      PROVE  Before(z, d, g[i].event)
  <2>0. d # e
    BY <1>e
  <2>1. CASE i = n
    BY <2>0, <2>1, <1>6, <1>9, <1>w
  <2>2. CASE i \in 1..(n - 1)
    <3>1. Before(w, d, g[i].event)
      BY <2>2, <1>1, <1>9 DEF IInv, OrderInv, w
    <3> QED BY <2>0, <2>2, <3>1, <1>5, <1>9, <1>w
  <2> QED BY <2>1, <2>2, <1>2
<1>10. ASSUME NEW i \in 1..Len(delivered), NEW j \in 1..Len(delivered), i < j
       PROVE  Before(z, delivered[i], delivered[j])
  <2>1. delivered[i] # e /\ delivered[j] # e
    BY <1>e, <1>t, RangeLemma
  <2>2. Before(w, delivered[i], delivered[j])
    BY <1>10 DEF IInv, OrderInv, w
  <2> QED BY <2>1, <2>2, <1>w
<1>11. OrderInv'
  BY <1>w, <1>8, <1>9, <1>10 DEF OrderInv, g, n, z
<1>12. WrittenInv'
  <2>1. ASSUME NEW x \in Events(g) PROVE x \in Events(spool) \/ x = e
    BY <1>2, <1>4, <1>5, <1>6
  <2>2. Events(spool) \cup Range(delivered) \subseteq Range(w)
    BY DEF IInv, WrittenInv, w
  <2> QED BY <2>1, <2>2, <1>w DEF WrittenInv, g, z
<1>13. ~open /\ l.event = e => e \in Events(g)
  BY <1>4, <1>6, <1>g
<1>14. ASSUME NEW x \in Events(spool)
       PROVE  \/ x \in Events(g) \cup evicted'
              \/ open /\ spool # <<>> /\ x = spool[Len(spool)].event
  <2>1. CASE x \notin Events(kept)
    BY <2>1
  <2>2. CASE x \in Events(kept)
    <3>0. kept \in Seq(Line)
      BY <1>k
    <3>1. PICK i \in 1..Len(kept) : kept[i].event = x /\ x # None
      BY <2>2, <3>0, EventsLemma, ZenonT(60)
    <3>2. CASE i <= n - 1
      <4>1. i \in 1..(n - 1) /\ i \in 1..n /\ g[i].event = x
        BY <3>1, <3>2, <1>g, <1>k
      <4> QED BY <4>1, <3>1, <1>4
    <3>3. CASE open /\ i = Len(kept)
      <4>1. k + i = Len(spool) /\ kept[i] = spool[k + i] /\ Len(spool) # 0
        <5>1. i \in 1..Len(kept) /\ Len(kept) = Len(spool) - k
          BY <3>1, <1>k
        <5>2. k + i = Len(spool) /\ Len(spool) # 0
          BY <5>1, <3>3, <1>t
        <5> QED BY <5>1, <5>2, <1>k
      <4>2. spool # <<>> /\ spool[Len(spool)].event = x
        BY <4>1, <3>1
      <4> QED BY <4>2, <3>3
    <3> QED BY <3>1, <3>2, <3>3, <1>g
  <2> QED BY <2>1, <2>2
<1>15. evicted' \subseteq Event
  BY <1>t, EventsLemma
<1>16. g # <<>>
  BY <1>g DEF n, g
<1> QED BY <1>g, <1>w, <1>6, <1>7, <1>11, <1>12, <1>13, <1>14, <1>15, <1>16 DEF g, n, z

(* A write keeps every invariant: the event itself counts as acknowledged  *)
(* cleanly only if it did not meet a torn line.                            *)
LEMMA WriteStep ==
    ASSUME IInv, NEW p \in Proc, NEW e \in Event, MayAppend(p, e), Duplicates(e) = {},
           NEW k \in 0..Len(spool), NEW kept, kept = SubSeq(spool, k + 1, Len(spool)),
           NEW l \in Line, l.event \in {e, None},
           spool' = Glue(kept, open, l), Written(e),
           evicted' = evicted \cup (Events(spool) \ Events(kept)),
           UNCHANGED <<lock, pc, flushVars, delivered>>,
           Bytes(kept) + Size[e] <= MaxBytes,
           \/ l = Record(e) /\ open' = FALSE /\ Acknowledge(e)
           \/ l.size + 1 <= Size[e] /\ open' = TRUE /\ UNCHANGED acks
    PROVE  IInv'
<1>1. /\ spool' \in Seq(Line) /\ written' \in Seq(Event) /\ evicted' \subseteq Event
      /\ Bytes(spool') = Bytes(kept) + l.size
      /\ spool' # <<>> /\ spool'[Len(spool')].event \in {e, None}
      /\ ~open /\ l.event = e => e \in Events(spool')
      /\ FlushInv' /\ OrderInv' /\ WrittenInv'
      /\ \A x \in Events(spool) :
            \/ x \in Events(spool') \cup evicted'
            \/ open /\ spool # <<>> /\ x = spool[Len(spool)].event
  BY PutStep
<1>2. e \notin acked \ glued
  BY FreshEvent
<1>3. acked \subseteq Event /\ glued \subseteq Event
  BY DEF IInv, TypeOK
<1>4. TypeOK'
  <2>1. open' \in BOOLEAN
    OBVIOUS
  <2>2. acked' \subseteq Event /\ glued' \subseteq Event
    BY <1>3 DEF Acknowledge
  <2>3. /\ lock' \in Proc \cup {Free} /\ pc' \in [Proc -> {"idle", "flush", "rewrite"}]
        /\ idx' \in [Proc -> Nat] /\ sent' \in [Proc -> Nat]
        /\ limit' \in [Proc -> Nat \cup {None}] /\ delivered' \in Seq(Event)
    BY DEF IInv, TypeOK
  <2> QED BY <1>1, <2>1, <2>2, <2>3, Zenon DEF TypeOK
<1>5. RoomInv'
  <2>1. kept \in Seq(Line)
    BY SuffixLemma DEF IInv, TypeOK
  <2>2. Bytes(kept) \in Nat /\ l.size \in Nat /\ Size[e] \in Nat /\ MaxBytes \in Nat
    BY <2>1, BytesNat DEF Line
  <2>3. l.size + (IF open' THEN 1 ELSE 0) <= Size[e]
    BY <2>2 DEF Record
  <2>4. Bytes(spool') = Bytes(kept) + l.size
    BY <1>1
  <2>5. Bytes(spool') + (IF open' THEN 1 ELSE 0) <= MaxBytes
    BY <2>2, <2>3, <2>4
  <2> QED BY <2>5 DEF RoomInv
<1>6. TornInv'
  <2>1. CASE l = Record(e) /\ open' = FALSE /\ Acknowledge(e)
    BY <2>1 DEF TornInv
  <2>2. CASE open' = TRUE /\ UNCHANGED acks
    <3>1. spool'[Len(spool')].event \notin acked' \ glued'
      BY <1>1, <1>2, <1>3, <2>2
    <3> QED BY <3>1 DEF TornInv
  <2> QED BY <2>1, <2>2
<1>7. ASSUME NEW x \in acked' \ glued' PROVE Traceable(x)'
  <2>1. CASE x = e
    <3>1. Acknowledge(e) /\ l = Record(e)
      BY <1>2, <1>7, <2>1
    <3>2. ~open
      BY <1>2, <1>7, <2>1, <3>1 DEF Acknowledge
    <3>3. e \in Events(spool')
      BY <1>1, <3>1, <3>2 DEF Record
    <3> QED BY <2>1, <3>3 DEF Traceable
  <2>2. CASE x # e
    <3>1. x \in acked \ glued
      BY <1>7, <2>2 DEF Acknowledge
    <3>2. x \in Events(spool) \cup Range(delivered) \cup evicted
      BY <3>1 DEF IInv, CleanlyKept, Traceable
    <3>3. open /\ spool # <<>> /\ x = spool[Len(spool)].event
              => x \in Range(delivered) \cup evicted
      BY <3>1 DEF IInv, TornInv
    <3>4. x \in Events(spool') \cup Range(delivered') \cup evicted'
      BY <1>1, <3>2, <3>3
    <3> QED BY <3>4 DEF Traceable
  <2> QED BY <2>1, <2>2
<1>8. CleanlyKept'
  BY <1>7 DEF CleanlyKept
<1> QED BY <1>1, <1>4, <1>5, <1>6, <1>8 DEF IInv

LEMMA WholeSpool ==
    ASSUME NEW s \in Seq(Line)
    PROVE  0 \in 0..Len(s) /\ s = SubSeq(s, 0 + 1, Len(s))
<1>1. Len(s) \in Nat /\ 0 + 1 = 1
  OBVIOUS
<1>2. s = SubSeq(s, 1, Len(s))
  BY <1>1
<1> QED BY <1>1, <1>2

LEMMA AppendLineStep ==
    ASSUME IInv, NEW p \in Proc, NEW e \in Event, AppendLine(p, e)
    PROVE  IInv'
<1>1. /\ MayAppend(p, e) /\ Duplicates(e) = {} /\ Bytes(spool) + Size[e] <= MaxBytes
      /\ spool' = Glue(spool, open, Record(e)) /\ open' = FALSE
      /\ Acknowledge(e) /\ Written(e)
      /\ UNCHANGED <<lock, pc, flushVars, evicted, delivered>>
  BY DEF AppendLine, Fits
<1>2. spool \in Seq(Line)
  BY DEF IInv, TypeOK
<1>3. 0 \in 0..Len(spool) /\ spool = SubSeq(spool, 0 + 1, Len(spool))
  BY <1>2, WholeSpool
<1>4. Record(e) \in Line /\ Record(e).event \in {e, None}
  BY RecordLine DEF Record
<1>5. evicted' = evicted \cup (Events(spool) \ Events(spool))
  BY <1>1
<1> DEFINE l == Record(e)
<1>6. SUFFICES ASSUME NEW kept, kept = spool PROVE IInv'
  OBVIOUS
<1> QED BY <1>1, <1>3, <1>4, <1>5, <1>6, WriteStep

LEMMA AppendTornStep ==
    ASSUME IInv, NEW p \in Proc, NEW e \in Event, NEW n \in 1..(Size[e] - 1),
           AppendTorn(p, e, n)
    PROVE  IInv'
<1> DEFINE l == [event |-> IF n = Size[e] - 1 THEN e ELSE None, size |-> n]
<1>1. /\ MayAppend(p, e) /\ Duplicates(e) = {} /\ Bytes(spool) + Size[e] <= MaxBytes
      /\ spool' = Glue(spool, open, l) /\ open' = TRUE
      /\ Written(e)
      /\ UNCHANGED <<lock, pc, flushVars, acks, evicted, delivered>>
  BY DEF AppendTorn, Fits
<1>2. spool \in Seq(Line)
  BY DEF IInv, TypeOK
<1>3. 0 \in 0..Len(spool) /\ spool = SubSeq(spool, 0 + 1, Len(spool))
  BY <1>2, WholeSpool
<1>4. l \in Line /\ l.event \in {e, None} /\ l.size + 1 <= Size[e]
  BY DEF Line
<1>5. evicted' = evicted \cup (Events(spool) \ Events(spool))
  BY <1>1
<1> HIDE DEF l
<1>6. SUFFICES ASSUME NEW kept, kept = spool PROVE IInv'
  OBVIOUS
<1> QED BY <1>1, <1>3, <1>4, <1>5, <1>6, WriteStep

LEMMA AppendEvictingStep ==
    ASSUME IInv, NEW p \in Proc, NEW e \in Event, AppendEvicting(p, e)
    PROVE  IInv'
<1>1. /\ MayAppend(p, e) /\ Duplicates(e) = {} /\ Size[e] <= MaxBytes
      /\ spool' = Glue(Kept(spool, MaxBytes - Size[e]), open, Record(e))
      /\ evicted' = evicted \cup (Events(spool) \ Events(Kept(spool, MaxBytes - Size[e])))
      /\ open' = FALSE /\ Acknowledge(e) /\ Written(e)
      /\ UNCHANGED <<lock, pc, flushVars, delivered>>
  BY DEF AppendEvicting
<1>2. spool \in Seq(Line)
  BY DEF IInv, TypeOK
<1> DEFINE room == MaxBytes - Size[e]
<1>3. room \in Nat /\ Size[e] \in Nat
  BY <1>1
<1> HIDE DEF room
<1>4. PICK k \in 0..Len(spool) : /\ Kept(spool, room) = SubSeq(spool, k + 1, Len(spool))
                                 /\ Bytes(Kept(spool, room)) <= room
  BY <1>2, <1>3, KeptLemma
<1>5. SUFFICES ASSUME NEW kept, kept = Kept(spool, room) PROVE IInv'
  OBVIOUS
<1>6. kept \in Seq(Line)
  BY <1>2, <1>4, <1>5, SuffixLemma
<1>7. Bytes(kept) + Size[e] <= MaxBytes
  <2>1. Bytes(kept) \in Nat /\ Bytes(kept) <= room
    BY <1>4, <1>5, <1>6, BytesNat
  <2> QED BY <2>1, <1>3 DEF room
<1>8. Record(e) \in Line /\ Record(e).event \in {e, None}
  BY RecordLine DEF Record
<1>9. /\ kept = SubSeq(spool, k + 1, Len(spool))
      /\ spool' = Glue(kept, open, Record(e))
      /\ evicted' = evicted \cup (Events(spool) \ Events(kept))
  BY <1>1, <1>4, <1>5 DEF room
<1> QED BY <1>1, <1>7, <1>8, <1>9, WriteStep

(* The id is in the file already.                                          *)
LEMMA AppendDuplicateStep ==
    ASSUME IInv, NEW p \in Proc, NEW e \in Event, AppendDuplicate(p, e)
    PROVE  IInv'
<1>1. /\ Acknowledge(e) /\ e \in Events(spool)
      /\ UNCHANGED <<spool, open, lock, pc, idx, sent, limit, written, evicted, delivered>>
  BY DEF AppendDuplicate, Duplicates
<1>2. /\ acked' = acked \cup {e}
      /\ glued' = IF open /\ e \notin acked THEN glued \cup {e} ELSE glued
  BY <1>1 DEF Acknowledge
<1>3. TypeOK'
  BY <1>1, <1>2 DEF IInv, TypeOK
<1>4. FlushInv' /\ RoomInv'
  BY <1>1 DEF IInv, FlushInv, RoomInv
<1>5. TornInv'
  <2> SUFFICES ASSUME open, spool # <<>>,
                      spool[Len(spool)].event \in acked' \ glued'
               PROVE  spool[Len(spool)].event \in acked \ glued
    BY <1>1 DEF IInv, TornInv
  <2> QED BY <1>2
<1>6. CleanlyKept'
  <2> SUFFICES ASSUME NEW x \in acked' \ glued'
               PROVE  x \in Events(spool) \cup Range(delivered) \cup evicted
    BY <1>1 DEF CleanlyKept, Traceable
  <2>1. x = e \/ x \in acked \ glued
    BY <1>2
  <2> QED BY <2>1, <1>1 DEF IInv, CleanlyKept, Traceable
<1>7. OrderInv' /\ WrittenInv'
  BY <1>1 DEF IInv, OrderInv, WrittenInv, Before
<1> QED BY <1>3, <1>4, <1>5, <1>6, <1>7 DEF IInv

-----------------------------------------------------------------------------
(* Flushing                                                                *)

(* Only the holder of the lock is in a flush.                              *)
LEMMA Alone ==
    ASSUME IInv, NEW p \in Proc, pc[p] # "idle"
    PROVE  \A q \in Proc : q # p => pc[q] = "idle"
BY DEF IInv, FlushInv

(* A step that touches neither the file nor the histories.                 *)
LEMMA SameFile ==
    ASSUME IInv, UNCHANGED <<file, history>>
    PROVE  /\ spool' \in Seq(Line) /\ open' \in BOOLEAN
           /\ written' \in Seq(Event) /\ delivered' \in Seq(Event)
           /\ acked' \subseteq Event /\ glued' \subseteq Event /\ evicted' \subseteq Event
           /\ RoomInv' /\ TornInv' /\ CleanlyKept' /\ OrderInv' /\ WrittenInv'
<1>1. UNCHANGED <<spool, open, written, acked, glued, evicted, delivered>>
  OBVIOUS
<1>2. /\ spool' \in Seq(Line) /\ open' \in BOOLEAN
      /\ written' \in Seq(Event) /\ delivered' \in Seq(Event)
      /\ acked' \subseteq Event /\ glued' \subseteq Event /\ evicted' \subseteq Event
  BY <1>1 DEF IInv, TypeOK
<1>3. RoomInv' /\ TornInv' /\ CleanlyKept'
  BY <1>1 DEF IInv, RoomInv, TornInv, CleanlyKept, Traceable
<1>4. OrderInv' /\ WrittenInv'
  BY <1>1 DEF IInv, OrderInv, WrittenInv, Before
<1> QED BY <1>2, <1>3, <1>4

LEMMA FlushBeginStep ==
    ASSUME IInv, NEW p \in Proc, NEW max \in {None, 0, 1}, FlushBegin(p, max)
    PROVE  IInv'
<1>1. /\ lock = Free /\ lock' = p
      /\ pc' = [pc EXCEPT ![p] = "flush"]
      /\ idx' = [idx EXCEPT ![p] = 1]
      /\ sent' = [sent EXCEPT ![p] = 0]
      /\ limit' = [limit EXCEPT ![p] = max]
      /\ UNCHANGED <<file, history>>
  BY DEF FlushBegin
<1>2. /\ spool' \in Seq(Line) /\ open' \in BOOLEAN
      /\ written' \in Seq(Event) /\ delivered' \in Seq(Event)
      /\ acked' \subseteq Event /\ glued' \subseteq Event /\ evicted' \subseteq Event
      /\ RoomInv' /\ TornInv' /\ CleanlyKept' /\ OrderInv' /\ WrittenInv'
  BY <1>1, SameFile
<1>3. /\ pc \in [Proc -> {"idle", "flush", "rewrite"}] /\ idx \in [Proc -> Nat]
      /\ sent \in [Proc -> Nat] /\ limit \in [Proc -> Nat \cup {None}]
      /\ spool \in Seq(Line)
  BY DEF IInv, TypeOK
<1>4. TypeOK'
  <2>1. /\ lock' \in Proc \cup {Free} /\ pc' \in [Proc -> {"idle", "flush", "rewrite"}]
        /\ idx' \in [Proc -> Nat] /\ sent' \in [Proc -> Nat]
        /\ limit' \in [Proc -> Nat \cup {None}]
    BY <1>1, <1>3
  <2> QED BY <1>2, <2>1, Zenon DEF TypeOK
<1>5. FlushInv'
  <2>1. \A q \in Proc : pc[q] = "idle"
    BY <1>1 DEF IInv, FlushInv
  <2>2. \A q \in Proc : pc'[q] # "idle" => q = p
    BY <1>1, <1>3, <2>1
  <2>3. idx'[p] = 1 /\ 1 \in 1..(Len(spool') + 1) /\ \A j \in 1..(1 - 1) : FALSE
    BY <1>1, <1>3
  <2> QED BY <1>1, <2>2, <2>3 DEF FlushInv
<1> QED BY <1>2, <1>4, <1>5 DEF IInv

(* What holds of the line a flush is at.                                   *)
LEMMA AtLine ==
    ASSUME IInv, NEW p \in Proc, AtRecord(p)
    PROVE  /\ pc[p] = "flush" /\ lock = p
           /\ idx[p] \in 1..Len(spool)
           /\ spool[idx[p]].event \in Event \cup {None}
           /\ \A k \in 1..(idx[p] - 1) : spool[k].event \in Range(delivered) \cup {None}
<1>1. pc[p] = "flush" /\ idx[p] <= Len(spool)
  BY DEF AtRecord
<1>2. /\ lock = p /\ idx[p] \in 1..(Len(spool) + 1)
      /\ \A k \in 1..(idx[p] - 1) : spool[k].event \in Range(delivered) \cup {None}
  BY <1>1 DEF IInv, FlushInv
<1>3. spool \in Seq(Line) /\ Len(spool) \in Nat
  BY DEF IInv, TypeOK
<1>4. idx[p] \in 1..Len(spool)
  BY <1>1, <1>2, <1>3
<1>5. spool[idx[p]].event \in Event \cup {None}
  BY <1>3, <1>4, LineAt
<1> QED BY <1>1, <1>2, <1>4, <1>5

(* A flush that goes past a line which is delivered or does not decode.    *)
LEMMA Advance ==
    ASSUME IInv, NEW p \in Proc, AtRecord(p),
           Range(delivered) \subseteq Range(delivered'),
           spool[idx[p]].event \in Range(delivered') \cup {None},
           idx' = [idx EXCEPT ![p] = @ + 1],
           UNCHANGED <<file, lock, pc>>
    PROVE  FlushInv' /\ idx' \in [Proc -> Nat]
<1>1. /\ idx \in [Proc -> Nat] /\ Len(spool) \in Nat /\ spool' = spool
  BY DEF IInv, TypeOK
<1>2. /\ idx[p] \in 1..Len(spool) /\ lock = p /\ pc[p] = "flush"
      /\ \A k \in 1..(idx[p] - 1) : spool[k].event \in Range(delivered) \cup {None}
  BY AtLine
<1>3. idx'[p] = idx[p] + 1 /\ idx' \in [Proc -> Nat]
  BY <1>1
<1>4. idx'[p] \in 1..(Len(spool) + 1)
  BY <1>1, <1>2, <1>3
<1>5. ASSUME NEW k \in 1..(idx'[p] - 1)
      PROVE  spool[k].event \in Range(delivered') \cup {None}
  <2>1. k \in 1..(idx[p] - 1) \/ k = idx[p]
    BY <1>1, <1>2, <1>3
  <2> QED BY <1>2, <2>1
<1>6. \A q \in Proc : pc[q] # "idle" => q = p
  BY <1>2, Alone
<1> QED BY <1>1, <1>2, <1>3, <1>4, <1>5, <1>6 DEF FlushInv

LEMMA FlushCorruptStep ==
    ASSUME IInv, NEW p \in Proc, FlushCorrupt(p)
    PROVE  IInv'
<1>1. /\ AtRecord(p) /\ spool[idx[p]].event = None
      /\ idx' = [idx EXCEPT ![p] = @ + 1]
      /\ UNCHANGED <<file, lock, pc, sent, limit, history>>
  BY DEF FlushCorrupt
<1>2. /\ spool' \in Seq(Line) /\ open' \in BOOLEAN
      /\ written' \in Seq(Event) /\ delivered' \in Seq(Event)
      /\ acked' \subseteq Event /\ glued' \subseteq Event /\ evicted' \subseteq Event
      /\ RoomInv' /\ TornInv' /\ CleanlyKept' /\ OrderInv' /\ WrittenInv'
  BY <1>1, SameFile
<1>3. FlushInv' /\ idx' \in [Proc -> Nat]
  BY <1>1, Advance
<1>4. TypeOK'
  <2>1. /\ lock' \in Proc \cup {Free} /\ pc' \in [Proc -> {"idle", "flush", "rewrite"}]
        /\ sent' \in [Proc -> Nat] /\ limit' \in [Proc -> Nat \cup {None}]
    BY <1>1 DEF IInv, TypeOK
  <2> QED BY <1>2, <1>3, <2>1, Zenon DEF TypeOK
<1> QED BY <1>2, <1>3, <1>4 DEF IInv

(* The sink accepts the record a flush is at.  All before it in the file   *)
(* is delivered or does not decode, so it comes next in the order.         *)
LEMMA AcceptStep ==
    ASSUME IInv, NEW p \in Proc, AtRecord(p), spool[idx[p]].event # None,
           Accepted(spool[idx[p]].event),
           UNCHANGED <<file, written, acks, evicted>>
    PROVE  /\ spool' \in Seq(Line) /\ open' \in BOOLEAN
           /\ written' \in Seq(Event) /\ delivered' \in Seq(Event)
           /\ acked' \subseteq Event /\ glued' \subseteq Event /\ evicted' \subseteq Event
           /\ Range(delivered) \subseteq Range(delivered')
           /\ spool[idx[p]].event \in Range(delivered')
           /\ RoomInv' /\ TornInv' /\ CleanlyKept' /\ OrderInv' /\ WrittenInv'
<1> DEFINE m == idx[p]
           e == spool[m].event
<1>1. UNCHANGED <<spool, open, written, acked, glued, evicted>>
  OBVIOUS
<1>2. /\ spool \in Seq(Line) /\ delivered \in Seq(Event) /\ written \in Seq(Event)
      /\ Len(spool) \in Nat /\ Len(delivered) \in Nat
      /\ open \in BOOLEAN
      /\ acked \subseteq Event /\ glued \subseteq Event /\ evicted \subseteq Event
  BY DEF IInv, TypeOK
<1>3. /\ m \in 1..Len(spool) /\ e \in Event
      /\ \A k \in 1..(m - 1) : spool[k].event \in Range(delivered) \cup {None}
  BY AtLine
<1>a. e # None /\ Accepted(e)
  OBVIOUS
<1> HIDE DEF e
<1>4. delivered' \in Seq(Event) /\ Range(delivered') = Range(delivered) \cup {e}
  BY <1>2, <1>3, <1>a, AcceptedType
<1>5. RoomInv' /\ TornInv' /\ CleanlyKept'
  <2>1. RoomInv'
    BY <1>1 DEF IInv, RoomInv
  <2>2. TornInv' /\ CleanlyKept'
    BY <1>1, <1>4 DEF IInv, TornInv, CleanlyKept, Traceable
  <2> QED BY <2>1, <2>2
<1>6. WrittenInv'
  <2>1. Events(spool) \cup Range(delivered) \subseteq Range(written)
    BY DEF IInv, WrittenInv
  <2>2. e \in Events(spool)
    BY <1>2, <1>3, <1>a, EventsLemma DEF e
  <2> QED BY <1>1, <1>4, <2>1, <2>2 DEF WrittenInv
<1>b. ASSUME NEW k \in 1..Len(spool), spool[k].event \notin Range(delivered) \cup {None}
      PROVE  m <= k
  <2>1. ~(k \in 1..(m - 1))
    BY <1>3, <1>b
  <2> QED BY <2>1, <1>2, <1>3
<1>7. ASSUME NEW d \in Range(delivered'), NEW k \in 1..Len(spool),
             spool[k].event \notin Range(delivered') \cup {None}
      PROVE  Before(written, d, spool[k].event)
  <2>1. CASE d \in Range(delivered)
    BY <1>4, <1>7, <2>1 DEF IInv, OrderInv
  <2>2. CASE d = e
    <3>1. spool[k].event # e /\ spool[k].event # None /\ m <= k
      BY <1>4, <1>7, <1>b
    <3>2. m # k
      BY <3>1 DEF e
    <3>3. m < k
      BY <1>2, <1>3, <3>1, <3>2
    <3> QED BY <1>3, <1>a, <2>2, <3>1, <3>3 DEF IInv, OrderInv, e
  <2> QED BY <1>4, <2>1, <2>2
<1>8. ASSUME NEW i \in 1..Len(delivered'), NEW j \in 1..Len(delivered'), i < j
      PROVE  Before(written, delivered'[i], delivered'[j])
  <2>1. CASE Contains(delivered, e)
    <3>1. delivered' = delivered
      BY <1>a, <2>1 DEF Accepted
    <3> QED BY <1>8, <3>1 DEF IInv, OrderInv
  <2>2. CASE ~Contains(delivered, e)
    <3>1. delivered' = Append(delivered, e)
      BY <1>a, <2>2 DEF Accepted
    <3>2. e \notin Range(delivered)
      BY <1>2, <2>2, RangeLemma DEF Contains
    <3>3. /\ Len(delivered') = Len(delivered) + 1
          /\ \A x \in 1..Len(delivered) : delivered'[x] = delivered[x]
          /\ delivered'[Len(delivered) + 1] = e
      BY <1>2, <3>1
    <3>4. i \in 1..Len(delivered) /\ (j \in 1..Len(delivered) \/ j = Len(delivered) + 1)
      <4>1. i \in 1..(Len(delivered) + 1) /\ j \in 1..(Len(delivered) + 1)
        BY <3>3
      <4>2. Len(delivered) \in Nat
        BY <1>2
      <4> QED BY <1>8, <4>1, <4>2
    <3>5. CASE j \in 1..Len(delivered)
      <4>1. Before(written, delivered[i], delivered[j])
        BY <1>8, <3>4, <3>5 DEF IInv, OrderInv
      <4>2. delivered'[i] = delivered[i] /\ delivered'[j] = delivered[j]
        BY <3>3, <3>4, <3>5
      <4> QED BY <4>1, <4>2
    <3>6. CASE j = Len(delivered) + 1
      <4>1. delivered[i] \in Range(delivered)
        BY <1>2, <3>4, RangeLemma
      <4>2. Before(written, delivered[i], e)
        BY <1>3, <1>a, <3>2, <4>1 DEF IInv, OrderInv, e
      <4> QED BY <3>3, <3>4, <3>6, <4>2
    <3> QED BY <3>4, <3>5, <3>6
  <2> QED BY <2>1, <2>2
<1>9. OrderInv'
  <2>1. /\ \A a, b \in 1..Len(written) : written[a] = written[b] => a = b
        /\ \A i, j \in 1..Len(spool) :
              i < j /\ spool[i].event # None /\ spool[j].event # None =>
                  Before(written, spool[i].event, spool[j].event)
    BY DEF IInv, OrderInv
  <2> QED BY <1>1, <1>7, <1>8, <2>1 DEF OrderInv
<1> QED BY <1>1, <1>2, <1>4, <1>5, <1>6, <1>9 DEF e

LEMMA FlushSendStep ==
    ASSUME IInv, NEW p \in Proc, FlushSend(p)
    PROVE  IInv'
<1>1. /\ AtRecord(p) /\ spool[idx[p]].event # None /\ Accepted(spool[idx[p]].event)
      /\ idx' = [idx EXCEPT ![p] = @ + 1]
      /\ sent' = [sent EXCEPT ![p] = @ + 1]
      /\ UNCHANGED <<file, lock, pc, limit, written, acks, evicted>>
  BY DEF FlushSend
<1>2. /\ spool' \in Seq(Line) /\ open' \in BOOLEAN
      /\ written' \in Seq(Event) /\ delivered' \in Seq(Event)
      /\ acked' \subseteq Event /\ glued' \subseteq Event /\ evicted' \subseteq Event
      /\ Range(delivered) \subseteq Range(delivered')
      /\ spool[idx[p]].event \in Range(delivered')
      /\ RoomInv' /\ TornInv' /\ CleanlyKept' /\ OrderInv' /\ WrittenInv'
  BY <1>1, AcceptStep
<1>3. FlushInv' /\ idx' \in [Proc -> Nat]
  BY <1>1, <1>2, Advance
<1>4. TypeOK'
  <2>1. /\ lock' \in Proc \cup {Free} /\ pc' \in [Proc -> {"idle", "flush", "rewrite"}]
        /\ sent' \in [Proc -> Nat] /\ limit' \in [Proc -> Nat \cup {None}]
    BY <1>1 DEF IInv, TypeOK
  <2> QED BY <1>2, <1>3, <2>1, Zenon DEF TypeOK
<1> QED BY <1>2, <1>3, <1>4 DEF IInv

LEMMA FlushSinkRaisesStep ==
    ASSUME IInv, NEW p \in Proc, FlushSinkRaises(p)
    PROVE  IInv'
<1>1. /\ AtRecord(p) /\ spool[idx[p]].event # None
      /\ UNCHANGED delivered \/ Accepted(spool[idx[p]].event)
      /\ pc' = [pc EXCEPT ![p] = "rewrite"]
      /\ UNCHANGED <<file, lock, idx, sent, limit, written, acks, evicted>>
  BY DEF FlushSinkRaises
<1>2. /\ spool' \in Seq(Line) /\ open' \in BOOLEAN
      /\ written' \in Seq(Event) /\ delivered' \in Seq(Event)
      /\ acked' \subseteq Event /\ glued' \subseteq Event /\ evicted' \subseteq Event
      /\ Range(delivered) \subseteq Range(delivered')
      /\ RoomInv' /\ TornInv' /\ CleanlyKept' /\ OrderInv' /\ WrittenInv'
  <2>1. CASE UNCHANGED delivered
    <3>1. UNCHANGED <<file, history>>
      BY <1>1, <2>1
    <3> QED BY <3>1, <2>1, SameFile
  <2>2. CASE Accepted(spool[idx[p]].event)
    BY <1>1, <2>2, AcceptStep
  <2> QED BY <1>1, <2>1, <2>2
<1>3. /\ pc \in [Proc -> {"idle", "flush", "rewrite"}] /\ pc[p] = "flush"
  BY <1>1, AtLine DEF IInv, TypeOK
<1>4. TypeOK'
  <2>1. /\ lock' \in Proc \cup {Free} /\ pc' \in [Proc -> {"idle", "flush", "rewrite"}]
        /\ idx' \in [Proc -> Nat]
        /\ sent' \in [Proc -> Nat] /\ limit' \in [Proc -> Nat \cup {None}]
    BY <1>1, <1>3 DEF IInv, TypeOK
  <2> QED BY <1>2, <2>1, Zenon DEF TypeOK
<1>5. FlushInv'
  <2>1. \A q \in Proc : pc'[q] # "idle" => pc[q] # "idle"
    BY <1>1, <1>3
  <2> QED BY <1>1, <1>2, <2>1 DEF IInv, FlushInv
<1> QED BY <1>2, <1>4, <1>5 DEF IInv

(* The file is replaced by what was not sent: what is dropped from it was  *)
(* delivered, or does not decode, and there is room for the newline.       *)
LEMMA FlushEndStep ==
    ASSUME IInv, NEW p \in Proc, FlushEnd(p)
    PROVE  IInv'
<1>1. /\ pc[p] # "idle"
      /\ spool' = Closed(SubSeq(spool, idx[p], Len(spool))) /\ open' = FALSE
      /\ Leave(p)
      /\ UNCHANGED <<written, acked, glued, evicted, delivered>>
  BY DEF FlushEnd, Remaining
<1>2. /\ spool \in Seq(Line) /\ Len(spool) \in Nat /\ open \in BOOLEAN
  BY DEF IInv, TypeOK
<1>3. /\ idx[p] \in 1..(Len(spool) + 1)
      /\ \A i \in 1..(idx[p] - 1) : spool[i].event \in Range(delivered) \cup {None}
  BY <1>1 DEF IInv, FlushInv
<1>4. PICK k \in 0..Len(spool) : k = idx[p] - 1 /\ idx[p] = k + 1
  BY <1>2, <1>3
<1>5. \A i \in 1..k : spool[i].event \in Range(delivered) \cup {None}
  BY <1>3, <1>4
<1>6. PICK rest : rest = SubSeq(spool, k + 1, Len(spool))
  OBVIOUS
<1>7. /\ rest \in Seq(Line) /\ Len(rest) = Len(spool) - k
      /\ \A i \in 1..Len(rest) : rest[i] = spool[k + i]
      /\ Bytes(rest) <= Bytes(spool)
  BY <1>2, <1>6, SuffixLemma
<1>8. PICK c : c = spool'
  OBVIOUS
<1>9. /\ c \in Seq(Line) /\ Len(c) = Len(rest)
      /\ \A i \in 1..Len(rest) : c[i].event = rest[i].event
      /\ Bytes(c) <= Bytes(rest) + IF open THEN 1 ELSE 0
  <2>1. c = Closed(rest)
    BY <1>1, <1>4, <1>6, <1>8
  <2> QED BY <1>2, <1>7, <2>1, ClosedLemma
<1>10. \A i \in 1..Len(c) : k + i \in 1..Len(spool) /\ c[i].event = spool[k + i].event
  BY <1>2, <1>7, <1>9
<1>11. RoomInv'
  <2>1. Bytes(c) \in Nat /\ Bytes(rest) \in Nat /\ Bytes(spool) \in Nat /\ MaxBytes \in Nat
    BY <1>2, <1>7, <1>9, BytesNat
  <2>2. Bytes(spool) + (IF open THEN 1 ELSE 0) <= MaxBytes
    BY DEF IInv, RoomInv
  <2>3. Bytes(c) <= MaxBytes
    BY <1>7, <1>9, <2>1, <2>2
  <2>4. Bytes(spool') + (IF open' THEN 1 ELSE 0) = Bytes(c)
    BY <1>1, <1>8, <2>1
  <2> QED BY <2>3, <2>4 DEF RoomInv
<1>12. /\ lock' = Free /\ pc' = [pc EXCEPT ![p] = "idle"]
       /\ pc' \in [Proc -> {"idle", "flush", "rewrite"}]
       /\ idx' \in [Proc -> Nat] /\ sent' \in [Proc -> Nat]
       /\ limit' \in [Proc -> Nat \cup {None}]
  BY <1>1, LeaveType DEF IInv
<1>13. TypeOK'
  <2>1. spool' \in Seq(Line) /\ open' \in BOOLEAN /\ lock' \in Proc \cup {Free}
    BY <1>1, <1>8, <1>9, <1>12
  <2>2. /\ written' \in Seq(Event) /\ delivered' \in Seq(Event)
        /\ acked' \subseteq Event /\ glued' \subseteq Event /\ evicted' \subseteq Event
    BY <1>1 DEF IInv, TypeOK
  <2> QED BY <1>12, <2>1, <2>2, Zenon DEF TypeOK
<1>14. FlushInv'
  <2>1. \A q \in Proc : pc'[q] = "idle"
    BY <1>1, <1>12, Alone DEF IInv, TypeOK
  <2> QED BY <2>1 DEF FlushInv
<1>15. TornInv'
  BY <1>1 DEF TornInv
<1>16. \A x : x \in Events(spool) <=> x # None /\ \E i \in 1..Len(spool) : spool[i].event = x
  BY <1>2, EventsLemma
<1>17. \A x : x \in Events(c) <=> x # None /\ \E i \in 1..Len(c) : c[i].event = x
  BY <1>9, EventsLemma
<1>18. ASSUME NEW x \in Events(spool) PROVE x \in Events(c) \cup Range(delivered)
  <2>1. PICK i \in 1..Len(spool) : spool[i].event = x /\ x # None
    BY <1>16
  <2>2. CASE i \in 1..k
    BY <1>5, <2>1, <2>2
  <2>3. CASE ~(i \in 1..k)
    <3>1. i - k \in 1..Len(c) /\ k + (i - k) = i
      BY <1>2, <1>7, <1>9, <2>3
    <3>2. c[i - k].event = x
      BY <1>10, <2>1, <3>1
    <3> QED BY <1>17, <2>1, <3>1, <3>2
  <2> QED BY <2>2, <2>3
<1>19. CleanlyKept'
  <2> SUFFICES ASSUME NEW x \in acked \ glued
               PROVE  x \in Events(c) \cup Range(delivered) \cup evicted
    BY <1>1, <1>8 DEF CleanlyKept, Traceable
  <2>1. x \in Events(spool) \cup Range(delivered) \cup evicted
    BY DEF IInv, CleanlyKept, Traceable
  <2> QED BY <2>1, <1>18
<1>20. WrittenInv'
  <2>1. Events(c) \subseteq Events(spool)
    BY <1>10, <1>16, <1>17
  <2> QED BY <1>1, <1>8, <2>1 DEF IInv, WrittenInv
<1>21. OrderInv'
  <2>1. ASSUME NEW i \in 1..Len(c), NEW j \in 1..Len(c), i < j,
               c[i].event # None, c[j].event # None
        PROVE  Before(written, c[i].event, c[j].event)
    <3>1. k + i < k + j
      BY <2>1, <1>9
    <3> QED BY <1>10, <2>1, <3>1 DEF IInv, OrderInv
  <2>2. ASSUME NEW d \in Range(delivered), NEW i \in 1..Len(c),
               c[i].event \notin Range(delivered) \cup {None}
        PROVE  Before(written, d, c[i].event)
    BY <1>10, <2>2 DEF IInv, OrderInv
  <2>3. /\ \A a, b \in 1..Len(written) : written[a] = written[b] => a = b
        /\ \A i, j \in 1..Len(delivered) :
              i < j => Before(written, delivered[i], delivered[j])
    BY DEF IInv, OrderInv
  <2> QED BY <1>1, <1>8, <2>1, <2>2, <2>3 DEF OrderInv
<1> QED BY <1>11, <1>13, <1>14, <1>15, <1>19, <1>20, <1>21 DEF IInv

(* A killed flush leaves the file and what was delivered as they are.      *)
LEMMA CrashStep ==
    ASSUME IInv, NEW p \in Proc, Crash(p)
    PROVE  IInv'
<1>1. pc[p] # "idle" /\ Leave(p) /\ UNCHANGED <<file, history>>
  BY DEF Crash
<1>2. /\ spool' \in Seq(Line) /\ open' \in BOOLEAN
      /\ written' \in Seq(Event) /\ delivered' \in Seq(Event)
      /\ acked' \subseteq Event /\ glued' \subseteq Event /\ evicted' \subseteq Event
      /\ RoomInv' /\ TornInv' /\ CleanlyKept' /\ OrderInv' /\ WrittenInv'
  BY <1>1, SameFile
<1>3. /\ lock' = Free /\ pc' = [pc EXCEPT ![p] = "idle"]
      /\ pc' \in [Proc -> {"idle", "flush", "rewrite"}]
      /\ idx' \in [Proc -> Nat] /\ sent' \in [Proc -> Nat]
      /\ limit' \in [Proc -> Nat \cup {None}]
  BY <1>1, LeaveType DEF IInv
<1>4. TypeOK'
  BY <1>2, <1>3, Zenon DEF TypeOK
<1>5. FlushInv'
  <2>1. \A q \in Proc : pc'[q] = "idle"
    BY <1>1, <1>3, Alone DEF IInv, TypeOK
  <2> QED BY <2>1 DEF FlushInv
<1> QED BY <1>2, <1>4, <1>5 DEF IInv

-----------------------------------------------------------------------------
(* The inductive invariant and what follows from it                        *)

LEMMA InitIInv == Init => IInv
<1> SUFFICES ASSUME Init PROVE IInv
  OBVIOUS
<1>1. /\ spool = <<>> /\ open = FALSE /\ lock = Free
      /\ pc = [p \in Proc |-> "idle"] /\ idx = [p \in Proc |-> 1]
      /\ sent = [p \in Proc |-> 0] /\ limit = [p \in Proc |-> None]
      /\ written = <<>> /\ delivered = <<>>
      /\ acked = {} /\ glued = {} /\ evicted = {}
  BY DEF Init
<1>2. TypeOK
  <2>1. <<>> \in Seq(Line) /\ <<>> \in Seq(Event)
    OBVIOUS
  <2>2. /\ pc \in [Proc -> {"idle", "flush", "rewrite"}] /\ idx \in [Proc -> Nat]
        /\ sent \in [Proc -> Nat] /\ limit \in [Proc -> Nat \cup {None}]
    BY <1>1
  <2> QED BY <1>1, <2>1, <2>2 DEF TypeOK
<1>3. FlushInv /\ TornInv /\ CleanlyKept
  BY <1>1 DEF FlushInv, TornInv, CleanlyKept
<1>4. RoomInv
  BY <1>1, BytesEmpty DEF RoomInv
<1>5. /\ \A x : x \notin Range(delivered)
      /\ \A x : x \notin Events(spool)
  <2>1. <<>> \in Seq(Event) /\ <<>> \in Seq(Line) /\ Len(<<>>) = 0
    OBVIOUS
  <2>2. 1..0 = {}
    OBVIOUS
  <2>3. \A x : x \notin Range(delivered)
    <3>1. \A x : x \in Range(delivered) <=> \E i \in 1..Len(delivered) : delivered[i] = x
      BY <1>1, <2>1, RangeLemma, ZenonT(60)
    <3>2. Len(delivered) = 0
      BY <1>1
    <3> QED BY <3>1, <3>2, <2>2
  <2>4. \A x : x \notin Events(spool)
    BY <1>1, <2>1, <2>2, EventsLemma
  <2> QED BY <2>3, <2>4
<1>6. OrderInv
  <2>1. Len(written) = 0 /\ Len(spool) = 0 /\ Len(delivered) = 0
    BY <1>1
  <2> QED BY <1>5, <2>1 DEF OrderInv
<1>7. WrittenInv
  BY <1>5 DEF WrittenInv
<1> QED BY <1>2, <1>3, <1>4, <1>6, <1>7 DEF IInv

LEMMA NextIInv == IInv /\ [Next]_vars => IInv'
<1> SUFFICES ASSUME IInv, [Next]_vars PROVE IInv'
  OBVIOUS
<1>1. CASE UNCHANGED vars
  <2>1. UNCHANGED <<file, history>> /\ UNCHANGED <<lock, pc, idx, sent, limit>>
    BY <1>1 DEF vars
  <2>2. /\ spool' \in Seq(Line) /\ open' \in BOOLEAN
        /\ written' \in Seq(Event) /\ delivered' \in Seq(Event)
        /\ acked' \subseteq Event /\ glued' \subseteq Event /\ evicted' \subseteq Event
        /\ RoomInv' /\ TornInv' /\ CleanlyKept' /\ OrderInv' /\ WrittenInv'
    BY <2>1, SameFile
  <2>3. TypeOK' /\ FlushInv'
    BY <2>1 DEF IInv, TypeOK, FlushInv
  <2> QED BY <2>2, <2>3 DEF IInv
<1>2. CASE Next
  <2>1. PICK p \in Proc :
           \/ \E e \in Event : AppendCall(p, e)
           \/ \E e \in Event : \E n \in 1..(Size[e] - 1) : AppendTorn(p, e, n)
           \/ \E max \in {None, 0, 1} : FlushBegin(p, max)
           \/ FlushStep(p)
           \/ Crash(p)
    BY <1>2 DEF Next
  <2>2. CASE \E e \in Event : AppendCall(p, e)
    <3>1. PICK e \in Event : AppendCall(p, e)
      BY <2>2
    <3> QED BY <3>1, AppendDuplicateStep, AppendLineStep, AppendEvictingStep DEF AppendCall
  <2>3. CASE \E e \in Event : \E n \in 1..(Size[e] - 1) : AppendTorn(p, e, n)
    BY <2>3, AppendTornStep
  <2>4. CASE \E max \in {None, 0, 1} : FlushBegin(p, max)
    BY <2>4, FlushBeginStep
  <2>5. CASE FlushStep(p)
    BY <2>5, FlushCorruptStep, FlushSendStep, FlushSinkRaisesStep, FlushEndStep DEF FlushStep
  <2>6. CASE Crash(p)
    BY <2>6, CrashStep
  <2> QED BY <2>1, <2>2, <2>3, <2>4, <2>5, <2>6
<1> QED BY <1>1, <1>2

(* The inductive invariant holds of every behaviour: types, the lines a    *)
(* running flush has passed, room for a torn line's newline, and the order *)
(* of the file and of what was delivered.                                  *)
THEOREM InductiveInvariant == Spec => []IInv
BY InitIInv, NextIInv, PTL DEF Spec

(* REQ-012 for every max_bytes and every record length of at least two     *)
(* bytes: append, eviction, torn writes and the rewrite of a flush never   *)
(* make the spool longer than max_bytes.                                   *)
THEOREM SpoolAlwaysBounded == Spec => []SpoolBounded
<1>1. IInv => SpoolBounded
  <2> SUFFICES ASSUME IInv PROVE Bytes(spool) <= MaxBytes
    BY DEF SpoolBounded
  <2>1. Bytes(spool) \in Nat /\ MaxBytes \in Nat
    BY BytesNat DEF IInv, TypeOK
  <2>2. Bytes(spool) + (IF open THEN 1 ELSE 0) <= MaxBytes
    BY DEF IInv, RoomInv
  <2> QED BY <2>1, <2>2
<1> QED BY <1>1, InductiveInvariant, PTL

(* An event whose append returned True without meeting a torn line can be  *)
(* read from the spool, was delivered or was evicted, whatever write is    *)
(* torn, sink fails or flush is killed later.                              *)
THEOREM CleanlyAlwaysKept == Spec => []CleanlyKept
<1>1. IInv => CleanlyKept
  BY DEF IInv
<1> QED BY <1>1, InductiveInvariant, PTL

(* The sink first sees events in the order of their last write to the      *)
(* file, over any number of flushes, failures and kills.                   *)
THEOREM AlwaysDeliveredInOrder == Spec => []DeliveredInOrder
<1>1. IInv => DeliveredInOrder
  <2> SUFFICES ASSUME IInv PROVE DeliveredInOrder
    OBVIOUS
  <2>1. written \in Seq(Event) /\ delivered \in Seq(Event)
    BY DEF IInv, TypeOK
  <2>2. DOMAIN written = 1..Len(written) /\ DOMAIN delivered = 1..Len(delivered)
    BY <2>1, RangeLemma
  <2>3. \A i, j \in 1..Len(delivered) :
           i < j => Before(written, delivered[i], delivered[j])
    BY DEF IInv, OrderInv
  <2> QED BY <2>2, <2>3 DEF DeliveredInOrder, Before
<1> QED BY <1>1, InductiveInvariant, PTL
=============================================================================
