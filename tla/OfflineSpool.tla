---------------------------- MODULE OfflineSpool ----------------------------
(***************************************************************************)
(* The bounded telemetry spool, src/src/edgeai/telemetry.py: processes     *)
(* append records to one file and flush it to a sink.  append reads and    *)
(* writes under the exclusive file lock and is one step; flush holds the   *)
(* lock across its calls of the sink.  Events are appended with an id of   *)
(* the caller's; a record longer than max_bytes changes nothing and is     *)
(* left out, as are the corrupt and dropped counters.                      *)
(*                                                                         *)
(* A line is the event it decodes to and its length, the newline included. *)
(* A write that is cut short leaves a last line without a newline.         *)
(***************************************************************************)
EXTENDS Naturals, Sequences, SequencesExt

CONSTANTS
    Proc,      \* processes that share the spool
    CrashProc, \* those that may be killed in a flush
    Event,     \* the events callers append
    EventId,   \* the event_id given with each of them
    Size,      \* length of the encoded record of each
    MaxBytes,  \* max_bytes of the spool
    Torn,      \* may a write of _append_line be cut short?
    None, Free

ASSUME ProcAssumption == CrashProc \subseteq Proc /\ Free \notin Proc
ASSUME SizeAssumption ==
    /\ Size \in [Event -> Nat] /\ \A e \in Event : Size[e] >= 2
    /\ MaxBytes \in Nat
ASSUME TornAssumption == Torn \in BOOLEAN /\ None \notin Event

VARIABLES
    spool,     \* the lines of the file
    open,      \* the last line has no newline
    lock,      \* holder of the exclusive lock
    pc, idx, sent, limit, \* locals of each process's flush
    written,   \* history: events by their last write to the file
    acked,     \* history: events whose append returned True
    glued,     \* history: those of them whose append met a torn line
    evicted,   \* history: events dropped to make room
    delivered  \* history: events the sink has accepted, first time first

file == <<spool, open>>
flushVars == <<idx, sent, limit>>
acks == <<acked, glued>>
history == <<written, acks, evicted, delivered>>
vars == <<file, lock, pc, flushVars, history>>

Line == [event : Event \cup {None}, size : Nat]
Record(e) == [event |-> e, size |-> Size[e]]

\* The length of the first n lines, for each n, and of all of them.
Total(lines) ==
    LET total[n \in 0..Len(lines)] ==
            IF n = 0 THEN 0 ELSE total[n - 1] + lines[n].size
    IN  total

Bytes(lines) == Total(lines)[Len(lines)]
Events(lines) == {l.event : l \in Range(lines)} \ {None}

\* Appending to a line without a newline makes one line that decodes to
\* nothing.
Glue(lines, torn, l) ==
    IF torn /\ lines # <<>>
      THEN Append(Front(lines), [event |-> None, size |-> Last(lines).size + l.size])
      ELSE Append(lines, l)

-----------------------------------------------------------------------------
\* append returns True, possibly over a torn last line.
Acknowledge(e) ==
    /\ acked' = acked \cup {e}
    /\ glued' = IF open /\ e \notin acked THEN glued \cup {e} ELSE glued

Written(e) == written' = Append(RemoveFirst(written, e), e)

\* A caller retries an event as long as it is in doubt; one that was
\* delivered or evicted is not appended again.
MayAppend(p, e) ==
    /\ pc[p] = "idle" /\ lock = Free
    /\ Bytes(spool) <= MaxBytes
    /\ e \notin evicted \cup Range(delivered)

Duplicates(e) == {f \in Events(spool) : EventId[f] = EventId[e]}

\* The id is in the spool already: the same content is acknowledged, other
\* content is refused.
AppendDuplicate(p, e) ==
    /\ MayAppend(p, e)
    /\ Duplicates(e) = {e}
    /\ Acknowledge(e)
    /\ UNCHANGED <<file, lock, pc, flushVars, written, evicted, delivered>>

Fits(e) == Bytes(spool) + Size[e] <= MaxBytes

\* _append_line
AppendLine(p, e) ==
    /\ MayAppend(p, e) /\ Duplicates(e) = {} /\ Fits(e)
    /\ spool' = Glue(spool, open, Record(e))
    /\ open' = FALSE
    /\ Acknowledge(e) /\ Written(e)
    /\ UNCHANGED <<lock, pc, flushVars, evicted, delivered>>

\* _append_line is cut short by a full disk or a kill: part of the record, or
\* all of it but the newline, is in the file; append does not return True.
AppendTorn(p, e, n) ==
    /\ Torn
    /\ MayAppend(p, e) /\ Duplicates(e) = {} /\ Fits(e)
    /\ n \in 1..(Size[e] - 1)
    /\ spool' = Glue(spool, open,
                     [event |-> IF n = Size[e] - 1 THEN e ELSE None, size |-> n])
    /\ open' = TRUE
    /\ Written(e)
    /\ UNCHANGED <<lock, pc, flushVars, acks, evicted, delivered>>

\* Mutant of Kept: one line too few is dropped.
Kept_OneMore(lines, room) ==
    LET ok == {k \in 0..Len(lines) : Bytes(SubSeq(lines, k + 2, Len(lines))) <= room}
    IN  SubSeq(lines, 1 + (CHOOSE k \in ok : \A j \in ok : k <= j), Len(lines))

\* The lines left when just enough of the oldest are dropped.
Kept(lines, room) ==
    LET ok == {k \in 0..Len(lines) : Bytes(SubSeq(lines, k + 1, Len(lines))) <= room}
    IN  SubSeq(lines, 1 + (CHOOSE k \in ok : \A j \in ok : k <= j), Len(lines))

\* The spool is full: it is rewritten without its oldest lines.
AppendEvicting(p, e) ==
    /\ MayAppend(p, e) /\ Duplicates(e) = {} /\ ~Fits(e)
    /\ Size[e] <= MaxBytes
    /\ LET kept == Kept(spool, MaxBytes - Size[e])
       IN  /\ spool' = Glue(kept, open, Record(e))
           /\ evicted' = evicted \cup (Events(spool) \ Events(kept))
    /\ open' = FALSE
    /\ Acknowledge(e) /\ Written(e)
    /\ UNCHANGED <<lock, pc, flushVars, delivered>>

-----------------------------------------------------------------------------
\* flush takes the lock and reads the spool; it stops after max sends, or
\* never if max is None.
FlushBegin(p, max) ==
    /\ pc[p] = "idle" /\ lock = Free
    /\ spool # <<>> /\ Bytes(spool) <= MaxBytes
    /\ lock' = p
    /\ pc' = [pc EXCEPT ![p] = "flush"]
    /\ idx' = [idx EXCEPT ![p] = 1]
    /\ sent' = [sent EXCEPT ![p] = 0]
    /\ limit' = [limit EXCEPT ![p] = max]
    /\ UNCHANGED <<file, history>>

\* There is a next record and max_events is not reached.
AtRecord(p) ==
    /\ pc[p] = "flush"
    /\ idx[p] <= Len(spool)
    /\ limit[p] # None => sent[p] < limit[p]

\* Mutant of FlushCorrupt: the flush stops at a line it cannot decode.
FlushCorrupt_Stops(p) ==
    /\ AtRecord(p) /\ spool[idx[p]].event = None
    /\ pc' = [pc EXCEPT ![p] = "rewrite"]
    /\ UNCHANGED <<file, lock, idx, sent, limit, history>>

\* A line that does not decode is counted and left out.
FlushCorrupt(p) ==
    /\ AtRecord(p) /\ spool[idx[p]].event = None
    /\ idx' = [idx EXCEPT ![p] = @ + 1]
    /\ UNCHANGED <<file, lock, pc, sent, limit, history>>

Accepted(e) ==
    delivered' = IF Contains(delivered, e) THEN delivered ELSE Append(delivered, e)

FlushSend(p) ==
    /\ AtRecord(p) /\ spool[idx[p]].event # None
    /\ Accepted(spool[idx[p]].event)
    /\ idx' = [idx EXCEPT ![p] = @ + 1]
    /\ sent' = [sent EXCEPT ![p] = @ + 1]
    /\ UNCHANGED <<file, lock, pc, limit, written, acks, evicted>>

\* Mutant of FlushSinkRaises: a record the sink refuses is skipped.
FlushSinkRaises_Skip(p) ==
    /\ AtRecord(p) /\ spool[idx[p]].event # None
    /\ idx' = [idx EXCEPT ![p] = @ + 1]
    /\ UNCHANGED <<file, lock, pc, sent, limit, history>>

\* The sink raises, before or after it took effect: the record stays.
FlushSinkRaises(p) ==
    /\ AtRecord(p) /\ spool[idx[p]].event # None
    /\ UNCHANGED delivered \/ Accepted(spool[idx[p]].event)
    /\ pc' = [pc EXCEPT ![p] = "rewrite"]
    /\ UNCHANGED <<file, lock, idx, sent, limit, written, acks, evicted>>

\* Every line of the rewritten file gets its newline.
Closed(lines) ==
    IF open /\ lines # <<>>
      THEN Append(Front(lines), [Last(lines) EXCEPT !.size = @ + 1])
      ELSE lines

\* Mutant of Remaining: the record that failed goes behind the others.
Remaining_Requeued(p) ==
    LET rest == Closed(SubSeq(spool, idx[p], Len(spool)))
    IN  IF pc[p] = "rewrite" THEN Append(Tail(rest), Head(rest)) ELSE rest

Remaining(p) == Closed(SubSeq(spool, idx[p], Len(spool)))

\* The lock is released and the locals of the flush are gone.
Leave(p) ==
    /\ lock' = Free
    /\ pc' = [pc EXCEPT ![p] = "idle"]
    /\ idx' = [idx EXCEPT ![p] = 1]
    /\ sent' = [sent EXCEPT ![p] = 0]
    /\ limit' = [limit EXCEPT ![p] = None]

\* The spool is replaced by what was not sent and the lock is released.
FlushEnd(p) ==
    /\ pc[p] = "rewrite" \/ (pc[p] = "flush" /\ ~AtRecord(p))
    /\ spool' = Remaining(p)
    /\ open' = FALSE
    /\ Leave(p)
    /\ UNCHANGED history

\* A kill between the sends and the rewrite.
Crash(p) ==
    /\ p \in CrashProc /\ pc[p] # "idle"
    /\ Leave(p)
    /\ UNCHANGED <<file, history>>

-----------------------------------------------------------------------------
Init ==
    /\ spool = <<>> /\ open = FALSE
    /\ lock = Free
    /\ pc = [p \in Proc |-> "idle"]
    /\ idx = [p \in Proc |-> 1]
    /\ sent = [p \in Proc |-> 0]
    /\ limit = [p \in Proc |-> None]
    /\ written = <<>> /\ delivered = <<>>
    /\ acked = {} /\ glued = {} /\ evicted = {}

AppendCall(p, e) == AppendDuplicate(p, e) \/ AppendLine(p, e) \/ AppendEvicting(p, e)

FlushStep(p) ==
    FlushCorrupt(p) \/ FlushSend(p) \/ FlushSinkRaises(p) \/ FlushEnd(p)

Next ==
    \E p \in Proc :
        \/ \E e \in Event : AppendCall(p, e)
        \/ \E e \in Event : \E n \in 1..(Size[e] - 1) : AppendTorn(p, e, n)
        \/ \E max \in {None, 0, 1} : FlushBegin(p, max)
        \/ FlushStep(p)
        \/ Crash(p)

Spec == Init /\ [][Next]_vars

\* Flushes without a limit are called again and again, a running one goes on,
\* and the sink does not refuse for ever.
Fairness ==
    /\ SF_vars(\E p \in Proc : FlushBegin(p, None))
    /\ WF_vars(\E p \in Proc : FlushStep(p))
    /\ SF_vars(\E p \in Proc : FlushSend(p))

FairSpec == Spec /\ Fairness

-----------------------------------------------------------------------------
\* REQ-012: the spool never exceeds max_bytes, also when a torn line gets its
\* newline back in a flush; past that size every later call would raise.
SpoolBounded == Bytes(spool) <= MaxBytes

Traceable(e) == e \in Events(spool) \cup Range(delivered) \cup evicted

\* REQ-013: an event whose append returned True can still be read from the
\* spool, was delivered, or was evicted by newer ones.
AcknowledgedKept == \A e \in acked : Traceable(e)

\* The same for the events whose append did not meet a torn line: no later
\* torn write, failing sink or killed flush loses them.
CleanlyKept == \A e \in acked \ glued : Traceable(e)

\* Events reach the sink in the order of the file, whatever is torn, fails or
\* is killed between two flushes.
DeliveredInOrder ==
    \A i, j \in DOMAIN delivered :
        i < j => \A a, b \in DOMAIN written :
                    written[a] = delivered[i] /\ written[b] = delivered[j] => a < b

\* REQ-013: no line, torn or not, blocks the spool: once flushes are not
\* killed any more it is emptied again.
SpoolDrains ==
    (<>[][\A p \in Proc : ~Crash(p)]_vars) => (spool # <<>> ~> spool = <<>>)
=============================================================================
