------------------------------ MODULE LastOctets ------------------------------
(***************************************************************************)
(* What a diagnostic ring promises: it shows the latest octets, in order,  *)
(* as many as there is room for, and it can be emptied.                    *)
(***************************************************************************)
EXTENDS Naturals, Sequences

CONSTANTS Octet, Room

VARIABLE log

Init == log = <<>>

Full == Len(log) = Room

Add(o) == log' = Append(IF Full THEN Tail(log) ELSE log, o)

Empty == log' = <<>>

Next == Empty \/ \E o \in Octet : Add(o)

Spec == Init /\ [][Next]_log
=============================================================================
