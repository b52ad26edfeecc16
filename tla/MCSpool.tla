------------------------------ MODULE MCSpool ------------------------------
\* Instances of the spool for TLC: e1 and e3 come with the same event_id.
EXTENDS OfflineSpool

CONSTANTS e1, e2, e3, e4

EventIdOf == [e \in Event |-> IF e = e3 THEN e1 ELSE e]
SizeOf == [e \in Event |-> IF e = e2 THEN 3 ELSE 2]
=============================================================================
