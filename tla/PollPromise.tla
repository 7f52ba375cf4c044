----------------------------- MODULE PollPromise -----------------------------
(***************************************************************************)
(* What the poll task promises to the rest of the firmware, without the    *)
(* serial line: a cycle either gives up before it has read anything, or    *)
(* visits the entries once each, in the order they were registered, and    *)
(* leaves in an entry's slot that entry's own value, a failure mark, or    *)
(* what was there before.                                                  *)
(***************************************************************************)
EXTENDS Naturals

CONSTANT NumObis

VARIABLES
    cursor,  \* 0 between cycles, else the next entry; NumObis + 1 at the end
    slot     \* what each entry's reading holds

Marks == {"unread", "fresh", "stale"}

Init == cursor = 0 /\ slot = [e \in 1 .. NumObis |-> "unread"]

\* A cycle begins: what was fresh is now from an earlier cycle.
Begin ==
    /\ cursor = 0 /\ cursor' = 1
    /\ slot' = [e \in 1 .. NumObis |->
                  IF slot[e] = "fresh" THEN "stale" ELSE slot[e]]

GiveUp == cursor = 1 /\ cursor' = 0 /\ UNCHANGED slot

Visit ==
    /\ cursor \in 1 .. NumObis /\ cursor' = cursor + 1
    /\ \E m \in {"unread", "fresh", slot[cursor]} :
          slot' = [slot EXCEPT ![cursor] = m]

Complete == cursor = NumObis + 1 /\ cursor' = 0 /\ UNCHANGED slot

Next == Begin \/ GiveUp \/ Visit \/ Complete

Spec == Init /\ [][Next]_<<cursor, slot>>
=============================================================================
