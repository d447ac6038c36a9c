----------------------------- MODULE Mailboxes -----------------------------
(***************************************************************************)
(* Where ConnectionHandler keeps the things of MessageService.             *)
(***************************************************************************)
EXTENDS ConnectionHandler

IsMessage(p) == p.type = "MSG"

\* The thread has message pk[t] in its hand, and has not yet placed or sent it.
Carries(t, from) ==
    /\ src[t] = from /\ pk[t] # None /\ IsMessage(pk[t])
    /\ pc[t] \in {"deq", "interp", "insert", "route", "send"}

Service == INSTANCE MessageService WITH
    Conns <- Threads,
    Messages <- [type : {"MSG"}, sender : Users, receiver : Users, msg : {NoUser},
                 conn : Threads, seq : 1..MaxSends],
    Nobody <- NoUser,
    user <- userid,
    hand <- {pk[t] : t \in {u \in Threads : Carries(u, "socket")}},
    box <- [t \in Threads |->
              (IF Carries(t, "queue") THEN <<pk[t]>> ELSE <<>>)
                \o SelectSeq(in_queue[t], IsMessage)],
    stored <- messages,
    shown <- [t \in Threads |-> SelectSeq(out[t], IsMessage)],
    reading <- {t \in Threads : pc[t] = "update"}

\* The threads together do with messages what MessageService allows, and no
\* more: no message is made up, shown to another user, shown again from a
\* box, or taken out of turn, whatever the interleaving of sends, look-ups,
\* logouts and fetches.
ServiceSpec == Service!Spec
=============================================================================
