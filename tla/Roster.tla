------------------------------- MODULE Roster -------------------------------
(***************************************************************************)
(* What the list of threads promises to the main thread: the connections   *)
(* that are served, in the order in which their threads started.  Each     *)
(* connection is admitted or turned away, once.                            *)
(***************************************************************************)
EXTENDS Integers, Sequences

CONSTANT Threads

VARIABLES roster, decided

Init == roster = <<>> /\ decided = {}

Admit(t) ==
    /\ t \notin decided
    /\ decided' = decided \cup {t}
    /\ roster' = Append(roster, t)

TurnAway(t) ==
    /\ t \notin decided
    /\ decided' = decided \cup {t}
    /\ UNCHANGED roster

Leave(t) ==
    /\ \E i \in DOMAIN roster :
        /\ roster[i] = t
        /\ roster' = SubSeq(roster, 1, i - 1) \o SubSeq(roster, i + 1, Len(roster))
    /\ UNCHANGED decided

Next == \E t \in Threads : Admit(t) \/ TurnAway(t) \/ Leave(t)

Spec == Init /\ [][Next]_<<roster, decided>>
=============================================================================
