----------------------------- MODULE Directory -----------------------------
(***************************************************************************)
(* What the address table promises to the threads of the server: a set of  *)
(* pairs of a userid and the thread that serves it, in which a userid that *)
(* is free is registered at once, and a pair is removed at once.           *)
(* It promises this until two of its users overlap in a way that the mutex *)
(* does not prevent; from then on it promises nothing.                     *)
(* ConnectionHandler uses the table as such a set; AddrTable is the code.  *)
(***************************************************************************)
CONSTANTS Threads, Users

VARIABLES entries, overlapped

vars == <<entries, overlapped>>

Init == entries = {} /\ overlapped = FALSE

Register(id, t) ==
    /\ \A e \in entries : e[1] # id
    /\ entries' = entries \cup {<<id, t>>}
    /\ UNCHANGED overlapped

Remove(e) == entries' = entries \ {e} /\ UNCHANGED overlapped

\* The overlap is no change itself; it makes every later one possible.
Overlap == overlapped' = TRUE /\ (entries' = entries \/ overlapped)

Next ==
    \/ \E id \in Users, t \in Threads : Register(id, t)
    \/ \E e \in entries : Remove(e)
    \/ Overlap

Spec == Init /\ [][Next]_vars
=============================================================================
