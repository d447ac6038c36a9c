--------------------------- MODULE MessageService ---------------------------
(***************************************************************************)
(* What the chat service does with messages, seen from its clients: a      *)
(* message that comes in is put at the end of the box of a connection of   *)
(* its receiver, or stored for the receiver, or lost; a box is emptied     *)
(* from its head, each message shown once or lost; stored messages are     *)
(* shown to their receiver on request, and forgotten with the others that  *)
(* are stored for the receiver by the time the request is done.            *)
(*                                                                         *)
(* There are no threads, locks, sockets or database here: Mailboxes says   *)
(* where ConnectionHandler keeps these things, and that its steps are      *)
(* steps of this specification.                                            *)
(***************************************************************************)
EXTENDS Sequences, SequencesExt, FiniteSets

CONSTANTS Conns, Users, Messages, Nobody

VARIABLES
    user,       \* the user a connection belongs to, Nobody before the login
    hand,       \* messages that came in and are not yet placed
    box,        \* what waits at each connection
    stored,     \* messages in the database, unread
    shown,      \* messages each client has been shown
    reading     \* connections that read their stored messages

vars == <<user, hand, box, stored, shown, reading>>

Init ==
    /\ user = [t \in Conns |-> Nobody]
    /\ hand = {} /\ stored = {} /\ reading = {}
    /\ box = [t \in Conns |-> <<>>]
    /\ shown = [t \in Conns |-> <<>>]

Everywhere ==
    hand \cup stored \cup UNION {ToSet(box[t]) \cup ToSet(shown[t]) : t \in Conns}

\* An account is set for a connection once, before its messages.
Identify(t, u) ==
    /\ user[t] = Nobody
    /\ user' = [user EXCEPT ![t] = u]
    /\ UNCHANGED <<hand, box, stored, shown, reading>>

\* A new message.
Submit ==
    /\ UNCHANGED <<user, box, stored, shown, reading>>
    /\ \E m \in Messages \ Everywhere : hand' = hand \cup {m}

\* To a connection of the receiver.
Post(m, t) ==
    /\ m \in hand /\ user[t] = m.receiver
    /\ hand' = hand \ {m}
    /\ box' = [box EXCEPT ![t] = Append(@, m)]
    /\ UNCHANGED <<user, stored, shown, reading>>

\* To the sender itself.
Echo(m, t) ==
    /\ m \in hand /\ user[t] = m.receiver
    /\ hand' = hand \ {m}
    /\ shown' = [shown EXCEPT ![t] = Append(@, m)]
    /\ UNCHANGED <<user, box, stored, reading>>

\* To the database.
Keep(m) ==
    /\ m \in hand
    /\ hand' = hand \ {m} /\ stored' = stored \cup {m}
    /\ UNCHANGED <<user, box, shown, reading>>

\* To nobody: the sender is not logged in, or the receiver leaves.
Drop(m) ==
    /\ m \in hand
    /\ hand' = hand \ {m}
    /\ UNCHANGED <<user, box, stored, shown, reading>>

\* The head of a box is shown to the client of the connection, or lost.
Show(t) ==
    /\ box[t] # <<>>
    /\ box' = [box EXCEPT ![t] = Tail(@)]
    /\ shown' \in {shown, [shown EXCEPT ![t] = Append(@, Head(box[t]))]}
    /\ UNCHANGED <<user, hand, stored, reading>>

\* The connection ends with mail in its box.
Close(t) ==
    /\ box[t] # <<>>
    /\ box' = [box EXCEPT ![t] = <<>>]
    /\ UNCHANGED <<user, hand, stored, shown, reading>>

StoredFor(u) == {m \in stored : m.receiver = u}

\* Some stored messages, each once, are shown to their receiver.
Fetch(t) ==
    /\ user[t] \in Users /\ t \notin reading
    /\ \E rows \in SUBSET StoredFor(user[t]) : \E s \in SetToSeqs(rows) :
           shown' = [shown EXCEPT ![t] = @ \o s]
    /\ reading' = reading \cup {t}
    /\ UNCHANGED <<user, hand, box, stored>>

\* All the messages that are stored for the receiver now are forgotten.
Forget(t) ==
    /\ t \in reading
    /\ stored' = stored \ StoredFor(user[t])
    /\ reading' = reading \ {t}
    /\ UNCHANGED <<user, hand, box, shown>>

Next ==
    \/ \E t \in Conns :
        \/ Show(t) \/ Close(t) \/ Fetch(t) \/ Forget(t)
        \/ \E u \in Users : Identify(t, u)
        \/ \E m \in hand : Post(m, t) \/ Echo(m, t)
    \/ \E m \in hand : Keep(m) \/ Drop(m)
    \/ Submit

Spec == Init /\ [][Next]_vars
=============================================================================
