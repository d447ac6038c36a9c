------------------------ MODULE MCConnectionHandler ------------------------
(* Small instances of ConnectionHandler: what each client may ask.         *)
EXTENDS Mailboxes, TLC

CONSTANTS t1, t2, t3

Ask(type, s, r) == [type |-> type, sender |-> s, receiver |-> r, msg |-> NoUser]
Auth(account)   == [Ask("AUTH", 1, 1) EXCEPT !.msg = account]

\* Two connections that log in to the same account, and a second user.
SharedRequests ==
    (t1 :> {Auth(1), Ask("LOGOUT", 1, 1)})
 @@ (t2 :> {Auth(1), Ask("GET_GEO", 1, 2)})
 @@ (t3 :> {Auth(2), Ask("MSG", 2, 1)})

\* Two users who chat, leave and fetch messages from the database.
ChatRequests ==
    (t1 :> {Auth(1), Ask("MSG", 1, 2), Ask("GET_MSG", 1, 1), Ask("LOGOUT", 1, 1)})
 @@ (t2 :> {Auth(2), Ask("MSG", 2, 1), Ask("GET_MSG", 2, 2), Ask("CLOSE", 2, 2)})

\* A user, and a client that sends anything, also in the user's name, and
\* may never log in.
IntruderRequests ==
    (t1 :> {Auth(1), Ask("MSG", 1, 2)})
 @@ (t2 :> {Auth(2), Auth(NoUser), Ask("GET_GEO", 2, 2), Ask("GET_MSG", 1, 1),
            Ask("CLOSE", 1, 1)} \cup
           {Ask(type, 2, 1) : type \in Types \ {"AUTH", "ACK", "FIN"}})

\* Messages from one to the other, and requests for locations in both
\* directions, between two who stay.
StayRequests ==
    (t1 :> {Auth(1), Ask("MSG", 1, 2), Ask("GET_GEO", 1, 2)})
 @@ (t2 :> {Auth(2), Ask("GET_GEO", 2, 1)})

\* One writes, the other leaves or fetches.
WriteRequests ==
    (t1 :> {Auth(1), Ask("MSG", 1, 2)})
 @@ (t2 :> {Auth(2), Ask("GET_MSG", 2, 2), Ask("LOGOUT", 2, 2)})
=============================================================================
