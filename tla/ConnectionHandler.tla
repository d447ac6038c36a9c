------------------------- MODULE ConnectionHandler -------------------------
(***************************************************************************)
(* The threads of the chat server and what they share.  Every connection   *)
(* is served by one thread running connection_handler (connect_handler.c). *)
(* It polls its socket, interprets the packet it read, then takes at most  *)
(* one packet from its message queue and interprets that one.  A packet    *)
(* for a user who is online is put straight into the queue of the thread   *)
(* that serves that user, found through the address table; a message for   *)
(* a user who is not is a row of the database.                             *)
(*                                                                         *)
(* The model keeps every branch and every point where another thread, a    *)
(* pending cancellation or a failing call can come between two steps.  The *)
(* text of a packet is abstracted to the fields the code branches on and   *)
(* to the identity <<conn, seq>> of the packet the client sent.  REG and   *)
(* GET_ALL_USERS, which touch the users table only, and the accept and     *)
(* shutdown loops of the main thread are not part of this module.          *)
(***************************************************************************)
EXTENDS Integers, FiniteSets, Sequences

CONSTANTS
    Threads,        \* the connections, each with its thread and thread_block
    Users,          \* the userids of the accounts in the users table
    None,           \* the NULL pointer
    Requests,       \* [Threads -> SUBSET Request]: what each client may ask
    MaxSends,       \* bound: packets a client sends on one connection
    MaxBurst,       \* bound: packets that one recv may return together
    AuthFirst,      \* clients send one AUTH, and send it first
    Debug,          \* built with SERVER_DEBUG, as the Makefile does
    DbMayFail,      \* a mysql_query may return an error
    MemMayFail,     \* malloc may return NULL
    SendMayFail,    \* a send may find the socket buffer full
    MayDisconnect   \* a client may close without LOGOUT

NoUser == -1        \* the userid of a block that has not authenticated

Types == {"AUTH", "LOGOUT", "CLOSE", "MSG", "GET_MSG",
          "GET_GEO", "SET_GEO", "GEO", "OTHER", "ACK", "FIN"}

\* What a client may ask; msg is the account that the name and password of
\* an AUTH packet select, NoUser when there is no such account.
Request == [type : Types \ {"ACK", "FIN"}, sender : Users,
            receiver : Users, msg : Users \cup {NoUser}]

ASSUME ConnectionAssumption ==
    /\ IsFiniteSet(Threads)
    /\ Users \subseteq Nat \ {0}
    /\ None \notin Threads
    /\ Requests \in [Threads -> SUBSET Request]
    /\ MaxSends \in Nat
    /\ MaxBurst \in Nat \ {0}
    /\ {AuthFirst, Debug, DbMayFail, MemMayFail, SendMayFail, MayDisconnect}
            \subseteq BOOLEAN

\* struct packet.  conn and seq stand for the DATA field: they say which
\* packet of which client the text came from.
Packet == [type : Types, sender : Users \cup {NoUser},
           receiver : Users \cup {NoUser}, msg : Users \cup {NoUser},
           conn : Threads, seq : 0..MaxSends]

VARIABLES
    connected,      \* the client has its end open
    sent,           \* how many packets the client has sent
    sock,           \* bytes in the socket: the packets not yet read
    out,            \* what the client has been sent
    userid, user_auth, in_queue, queue_lock,    \* struct thread_block
    pc,             \* where the thread is
    cancel,         \* a cancellation is pending
    pk, src,        \* the packet being interpreted, and where it is from
    node, pckt,     \* the block and the packet about to be enqueued or sent
    addrs,          \* the address table: pairs <<userid, thread>>
    number_of_users,
    messages,       \* rows of the messages table with time_received = -1
    destroyed,      \* packets whose memory has been freed
    block,          \* whose block is now in the memory that was got for n's
    fault,          \* the first undefined behaviour or fatal signal
    strays          \* history, read by properties only: the packets appended
                    \* to a queue that had come to lie in a freed block's memory

clientVars == <<connected, sent, sock, out>>
blockVars  == <<userid, user_auth, in_queue, queue_lock>>
handVars   == <<pk, src, node, pckt>>
sharedVars == <<addrs, number_of_users, messages, destroyed, block, fault, strays>>
vars == <<clientVars, blockVars, pc, cancel, handVars, sharedVars>>

Places == {"start", "recv", "interp", "login", "route", "trace", "insert",
           "update", "send", "queue", "deq", "end", "cleanup", "drain", "freed"}

Init ==
    /\ connected = [t \in Threads |-> TRUE]
    /\ sent = [t \in Threads |-> 0]
    /\ sock = [t \in Threads |-> <<>>]
    /\ out = [t \in Threads |-> <<>>]
    /\ userid = [t \in Threads |-> NoUser]
    /\ user_auth = [t \in Threads |-> "USER_NOT_AUTH"]
    /\ in_queue = [t \in Threads |-> <<>>]
    /\ queue_lock = [t \in Threads |-> FALSE]
    /\ pc = [t \in Threads |-> "start"]
    /\ cancel = [t \in Threads |-> FALSE]
    /\ pk = [t \in Threads |-> None]
    /\ src = [t \in Threads |-> "socket"]
    /\ node = [t \in Threads |-> None]
    /\ pckt = [t \in Threads |-> None]
    /\ addrs = {}
    /\ number_of_users = 0
    /\ messages = {}
    /\ destroyed = {}
    /\ block = [t \in Threads |-> t]
    /\ fault = "none"
    /\ strays = {}

-----------------------------------------------------------------------------
(* The client and the socket.                                              *)

\* The client puts one more packet on its connection.
ClientSend(t) ==
    /\ connected[t] /\ sent[t] < MaxSends
    /\ pc[t] \notin {"start", "drain", "freed"}
    /\ \E r \in Requests[t] :
        /\ AuthFirst => (r.type = "AUTH" <=> sent[t] = 0)
        /\ LET p == [type |-> r.type, sender |-> r.sender, receiver |-> r.receiver,
                     msg |-> r.msg, conn |-> t, seq |-> sent[t] + 1]
           IN  sock' = [sock EXCEPT ![t] = Append(@, p)]
    /\ sent' = [sent EXCEPT ![t] = @ + 1]
    /\ UNCHANGED <<connected, out, blockVars, pc, cancel, handVars, sharedVars>>

\* The client goes away without LOGOUT.  recv then returns 0, which the loop
\* takes for "nothing to read".
Disconnect(t) ==
    /\ MayDisconnect /\ connected[t] /\ pc[t] # "start"
    /\ connected' = [connected EXCEPT ![t] = FALSE]
    /\ UNCHANGED <<sent, sock, out, blockVars, pc, cancel, handVars, sharedVars>>

\* send(..., MSG_DONTWAIT) with its result ignored: a full buffer drops the
\* text; on a connection the client has closed the text is dropped too, or,
\* once the reset has come back, SIGPIPE kills the process.
SendAll(t, ps) ==
    \/ connected[t] /\ out' = [out EXCEPT ![t] = @ \o ps] /\ UNCHANGED fault
    \/ (SendMayFail \/ ~connected[t]) /\ UNCHANGED <<out, fault>>
    \/ ~connected[t] /\ ps # <<>> /\ fault' = "sigpipe" /\ UNCHANGED out

\* Mutant of Reply: the unused receiver field is 0.
ReplyToZero(t, type, id) == [type |-> type, sender |-> id, receiver |-> 0,
                             msg |-> NoUser, conn |-> t, seq |-> 0]

\* The one-line answers |ACK|id|-1|-1|ACK| and |FIN|-1|-1|-1|FIN|.
Reply(t, type, id) == [type |-> type, sender |-> id, receiver |-> NoUser,
                       msg |-> NoUser, conn |-> t, seq |-> 0]

-----------------------------------------------------------------------------
(* The message queue of a block: enqueue and dequeue.                      *)

\* Mutants of Enqueue: put at the head; not put at all.
EnqueueFirst(Q, data) == <<data>> \o Q
EnqueueNothing(Q, data) == Q

Enqueue(Q, data) == Append(Q, data)

\* Mutants of Rest: the head stays; the tail is lost.
RestKeepsHead(Q) == Q
RestLost(Q) == <<>>

\* What dequeue leaves.
Rest(Q) == Tail(Q)

-----------------------------------------------------------------------------
(* Where the thread is, and what cancels it.                               *)

Goto(t, place) == pc' = [pc EXCEPT ![t] = place]

\* Mutant of Return: the loop destroys the packet, wherever it came from.
ReturnAndDestroy(t) ==
    /\ Goto(t, "end")
    /\ node' = [node EXCEPT ![t] = None]
    /\ pckt' = [pckt EXCEPT ![t] = None]
    /\ UNCHANGED <<pk, src>>

\* interpret_packets returns to the loop.  A packet from the socket is not
\* used again; one from the queue is destroyed by the loop.
Return(t) ==
    /\ Goto(t, IF src[t] = "socket" THEN "queue" ELSE "end")
    /\ pk' = [pk EXCEPT ![t] = IF src[t] = "socket" THEN None ELSE @]
    /\ node' = [node EXCEPT ![t] = None]
    /\ pckt' = [pckt EXCEPT ![t] = None]
    /\ UNCHANGED src

\* pthread_cancel(pthread_self()) under PTHREAD_CANCEL_DEFERRED marks the
\* thread; it goes on until its next call that is a cancellation point: a
\* send, a query, or (in the debug build) an fprintf to stderr.
AtCancellationPoint(t) ==
    \/ pc[t] \in {"send", "insert"}
    \/ Debug /\ pc[t] \in {"deq", "end", "trace"}
    \/ Debug /\ pc[t] = "route" /\ pckt[t].type = "GEO"

Cancelled(t) ==
    /\ cancel[t] /\ AtCancellationPoint(t)
    /\ Goto(t, "cleanup")
    /\ pk' = [pk EXCEPT ![t] = None]
    /\ node' = [node EXCEPT ![t] = None]
    /\ pckt' = [pckt EXCEPT ![t] = None]
    /\ UNCHANGED <<clientVars, blockVars, cancel, src, sharedVars>>

Runs(t, place) == pc[t] = place /\ ~(cancel[t] /\ AtCancellationPoint(t))

\* getAddrFromaddrTable: a block registered for the id, if there is one.
Registered(id) == {t \in Threads : <<id, t>> \in addrs}

-----------------------------------------------------------------------------
(* connection_handler: start, read the socket.                             *)

\* The memory of n's block is free.
Freed(n) == pc[block[n]] = "freed"

\* create_thread_node: malloc gives fresh memory, or that of a block which
\* was freed; a pointer to the old block then points to the new one.
Accept(t) ==
    /\ pc[t] = "start"
    /\ \E old \in {n \in Threads : Freed(n)} \cup {t} :
        block' = [n \in Threads |-> IF block[n] = block[old] THEN t ELSE block[n]]
    /\ Goto(t, "recv")
    /\ UNCHANGED <<clientVars, blockVars, cancel, handVars, addrs,
                   number_of_users, messages, destroyed, fault, strays>>

RecvNothing(t) ==
    /\ pc[t] = "recv" /\ sock[t] = <<>>
    /\ Goto(t, "queue")
    /\ UNCHANGED <<clientVars, blockVars, cancel, handVars, sharedVars>>

\* One recv may return the text of several packets; string_to_packet parses
\* the first and the buffer is then cleared.
RecvPacket(t) ==
    /\ pc[t] = "recv" /\ sock[t] # <<>>
    /\ \E n \in 1..MaxBurst :
        /\ n <= Len(sock[t])
        /\ sock' = [sock EXCEPT ![t] = SubSeq(@, n + 1, Len(@))]
    /\ pk' = [pk EXCEPT ![t] = Head(sock[t])]
    /\ src' = [src EXCEPT ![t] = "socket"]
    /\ Goto(t, "interp")
    /\ UNCHANGED <<connected, sent, out, blockVars, cancel, node, pckt, sharedVars>>

-----------------------------------------------------------------------------
(* interpret_packets.                                                      *)

Interprets(t, types) == pc[t] = "interp" /\ pk[t].type \in types

\* Mutant of Authenticated: the test of NOT_YET_AUTHENTICATED_EXIT is left out.
AuthenticatedAlways(t) == TRUE

Authenticated(t) == user_auth[t] # "USER_NOT_AUTH"

\* authenticate_user and authenticator up to the look-up of the userid.  The
\* block gets its userid before the look-up, and a refused client is sent
\* FIN and its thread cancelled.
AuthFind(t) ==
    /\ Interprets(t, {"AUTH"})
    /\ destroyed' = destroyed \cup {pk[t]}
    /\ LET id == pk[t].msg
           known == id \in Users
           refused == ~known \/ Registered(id) # {}
       IN  /\ userid' = [userid EXCEPT ![t] = IF known THEN id ELSE @]
           /\ \/ /\ refused
                 /\ SendAll(t, <<Reply(t, "FIN", NoUser)>>)
                 /\ user_auth' = [user_auth EXCEPT ![t] = "USER_TO_EXIT"]
                 /\ cancel' = [cancel EXCEPT ![t] = TRUE]
                 /\ Return(t)
              \/ /\ ~refused
                 /\ Goto(t, "login")
                 /\ UNCHANGED <<out, fault, user_auth, cancel, handVars>>
    /\ UNCHANGED <<connected, sent, sock, in_queue, queue_lock, addrs,
                   number_of_users, messages, block, strays>>

\* A failed query makes log_errors destroy the block and return to
\* authenticator, which goes on to use the block.
AuthQueryFails(t) ==
    /\ Interprets(t, {"AUTH"}) /\ DbMayFail
    /\ fault' = "dead_block"
    /\ UNCHANGED <<clientVars, blockVars, pc, cancel, handVars, addrs,
                   number_of_users, messages, destroyed, block, strays>>

\* The rest of authenticator, and the ACK.
LogIn(t) ==
    /\ pc[t] = "login"
    /\ number_of_users' = number_of_users + 1
    /\ addrs' = addrs \cup {<<userid[t], t>>}
    /\ user_auth' = [user_auth EXCEPT ![t] = "USER_AUTH"]
    /\ SendAll(t, <<Reply(t, "ACK", userid[t])>>)
    /\ Return(t)
    /\ UNCHANGED <<connected, sent, sock, userid, in_queue, queue_lock, cancel,
                   messages, destroyed, block, strays>>

\* NOT_YET_AUTHENTICATED_EXIT destroys the packet, marks the thread and
\* returns.  What the caller then does with the freed packet: its ids match
\* no user, so MSG and GEO reach a query or a send, where the thread ends,
\* and most others return to the loop.  GET_MSG destroys the packet a second
\* time, and SET_GEO scans the freed text, which may crash or may reach the
\* debug print and end there.
RefuseUnauthenticated(t) ==
    /\ Interprets(t, Types \ {"AUTH"}) /\ ~Authenticated(t)
    /\ destroyed' = destroyed \cup {pk[t]}
    /\ cancel' = [cancel EXCEPT ![t] = TRUE]
    /\ \/ /\ pk[t].type \in {"MSG", "GEO"} \/ (Debug /\ pk[t].type = "SET_GEO")
          /\ Goto(t, "cleanup")
          /\ pk' = [pk EXCEPT ![t] = None] /\ UNCHANGED <<src, node, pckt, fault>>
       \/ /\ pk[t].type \notin {"MSG", "GEO", "GET_MSG", "SET_GEO"}
          /\ Return(t) /\ UNCHANGED fault
       \/ /\ pk[t].type = "GET_MSG"
          /\ fault' = "double_free" /\ UNCHANGED <<pc, handVars>>
       \/ /\ pk[t].type = "SET_GEO"
          /\ fault' = "use_after_free" /\ UNCHANGED <<pc, handVars>>
    /\ UNCHANGED <<clientVars, blockVars, addrs, number_of_users, messages,
                   block, strays>>

Logout(t) ==
    /\ Interprets(t, {"LOGOUT", "CLOSE"}) /\ Authenticated(t)
    /\ \/ /\ userid[t] = pk[t].sender
          /\ user_auth' = [user_auth EXCEPT ![t] = "USER_TO_EXIT"]
          /\ cancel' = [cancel EXCEPT ![t] = TRUE]
       \/ /\ userid[t] # pk[t].sender
          /\ UNCHANGED <<user_auth, cancel>>
    /\ Return(t)
    /\ UNCHANGED <<clientVars, userid, in_queue, queue_lock, sharedVars>>

Ignore(t) ==
    /\ Interprets(t, {"OTHER", "ACK", "FIN"}) /\ Authenticated(t)
    /\ Return(t)
    /\ UNCHANGED <<clientVars, blockVars, cancel, sharedVars>>

\* A packet is about to go out on this thread's own socket.
PrepareSend(t, p) ==
    /\ pckt' = [pckt EXCEPT ![t] = p]
    /\ Goto(t, "send")
    /\ UNCHANGED <<pk, src, node>>

\* Look id up; with a block found, p is about to be put into its queue.
Forward(t, id, p) ==
    /\ node' \in {[node EXCEPT ![t] = n] : n \in Registered(id)}
    /\ pckt' = [pckt EXCEPT ![t] = p]
    /\ Goto(t, "route")
    /\ UNCHANGED <<pk, src>>

\* MSG for this user, a GEO answer: written to the client.
PassOn(t) ==
    /\ Authenticated(t)
    /\ \/ Interprets(t, {"MSG"}) /\ pk[t].receiver = userid[t]
       \/ Interprets(t, {"GEO"})
    /\ PrepareSend(t, pk[t])
    /\ UNCHANGED <<clientVars, blockVars, cancel, sharedVars>>

\* MSG for another user: the look-up, under the lock of the table.  The lock
\* is released before the block found is used.
FindReceiver(t) ==
    /\ Interprets(t, {"MSG"}) /\ Authenticated(t) /\ pk[t].receiver # userid[t]
    /\ \/ Forward(t, pk[t].receiver, pk[t])
       \/ /\ Registered(pk[t].receiver) = {}
          /\ Goto(t, "insert") /\ UNCHANGED handVars
    /\ UNCHANGED <<clientVars, blockVars, cancel, sharedVars>>

\* The receiver is not online: a row is written to the database.
InsertMessage(t) ==
    /\ Runs(t, "insert")
    /\ messages' \in {messages \cup {pk[t]}}
                     \cup (IF DbMayFail THEN {messages} ELSE {})
    /\ Return(t)
    /\ UNCHANGED <<clientVars, blockVars, cancel, addrs, number_of_users,
                   destroyed, fault, block, strays>>

\* The block found at the look-up is used: lock its queue, append, unlock.
\* The block may have been freed since.  The write then goes to dead memory,
\* which kills the process or loses the packet, or to the block that another
\* connection has got in that memory.
Deliver(t) ==
    /\ Runs(t, "route")
    /\ LET n == block[node[t]]
       IN  \/ /\ pc[n] # "freed" /\ ~queue_lock[n]
              /\ in_queue' = [in_queue EXCEPT ![n] = Enqueue(@, pckt[t])]
              /\ strays' = IF n = node[t] THEN strays ELSE strays \cup {pckt[t]}
              /\ UNCHANGED fault
           \/ /\ pc[n] = "freed"
              /\ fault' \in {"dead_block", fault}
              /\ UNCHANGED <<in_queue, strays>>
    /\ IF Debug /\ pckt[t].type = "GET_GEO"
       THEN Goto(t, "trace") /\ UNCHANGED handVars
       ELSE Return(t)
    /\ UNCHANGED <<clientVars, userid, user_auth, queue_lock, cancel, addrs,
                   number_of_users, messages, destroyed, block>>

\* The debug print after the hand-over reads the packet that now belongs to
\* the receiving thread.
TraceAfterHandOver(t) ==
    /\ Runs(t, "trace")
    /\ fault' \in IF pckt[t] \in destroyed THEN {"late_print", fault} ELSE {fault}
    /\ Return(t)
    /\ UNCHANGED <<clientVars, blockVars, cancel, addrs, number_of_users,
                   messages, destroyed, block, strays>>

\* All the orders in which SELECT may return a set of rows: they are sorted
\* by a time in seconds, which does not separate them.
Orders(rows) ==
    {f \in [1..Cardinality(rows) -> rows] :
        \A i, j \in 1..Cardinality(rows) : f[i] = f[j] => i = j}

\* The rows that SELECT and UPDATE of GET_MSG choose.
Unread(id) == {m \in messages : m.receiver = id}

\* GET_MSG: SELECT the unread rows and send them, each send on its own.  A
\* query that fails leaves a NULL result; where the client library returns no
\* rows for it, the code goes on to UPDATE all the same.
SelectMessages(t) ==
    /\ Interprets(t, {"GET_MSG"}) /\ Authenticated(t) /\ userid[t] = pk[t].sender
    /\ \E taken \in SUBSET Unread(userid[t]) :
        /\ taken # Unread(userid[t]) => SendMayFail \/ (DbMayFail /\ taken = {})
        /\ \E rows \in Orders(taken) : SendAll(t, rows)
    /\ Goto(t, "update")
    /\ UNCHANGED <<connected, sent, sock, blockVars, cancel, handVars, addrs,
                   number_of_users, messages, destroyed, block, strays>>

\* ... or follows the NULL.
SelectFails(t) ==
    /\ Interprets(t, {"GET_MSG"}) /\ Authenticated(t) /\ userid[t] = pk[t].sender
    /\ DbMayFail
    /\ fault' = "null_dereference"
    /\ UNCHANGED <<clientVars, blockVars, pc, cancel, handVars, addrs,
                   number_of_users, messages, destroyed, block, strays>>

\* Mutant of Marked: the UPDATE is forgotten.
MarkedNone(id) == {messages}

\* The messages that an UPDATE leaves unread.
Marked(id) ==
    {messages \ Unread(id)} \cup (IF DbMayFail THEN {messages} ELSE {})

\* ... then UPDATE what is unread by now, and destroy the packet.
MarkReceived(t) ==
    /\ pc[t] = "update"
    /\ messages' \in Marked(userid[t])
    /\ destroyed' = destroyed \cup {pk[t]}
    /\ Return(t)
    /\ UNCHANGED <<clientVars, blockVars, cancel, addrs, number_of_users, fault,
                   block, strays>>

\* GET_MSG in another user's name, and SET_GEO: the packet is destroyed.
\* (The stored location is not distinguished.)
DestroyOnly(t) ==
    /\ Authenticated(t)
    /\ \/ Interprets(t, {"GET_MSG"}) /\ userid[t] # pk[t].sender
       \/ Interprets(t, {"SET_GEO"})
    /\ destroyed' = destroyed \cup {pk[t]}
    /\ Return(t)
    /\ UNCHANGED <<clientVars, blockVars, cancel, addrs, number_of_users,
                   messages, fault, block, strays>>

\* GET_GEO with sender = receiver: my own location.
OwnLocation(t) ==
    /\ Interprets(t, {"GET_GEO"}) /\ Authenticated(t)
    /\ pk[t].receiver = pk[t].sender
    /\ PrepareSend(t, [pk[t] EXCEPT !.type = "GEO"])
    /\ UNCHANGED <<clientVars, blockVars, cancel, sharedVars>>

\* Mutant of AnswerTo: sender and receiver are not swapped.
AnswerToNobody(p) == [p EXCEPT !.type = "GEO"]

\* The location packet that answers the request p.
AnswerTo(p) == [p EXCEPT !.type = "GEO", !.sender = p.receiver, !.receiver = p.sender]

\* GET_GEO and I am the receiver: somebody asks for my location.  The answer
\* is a new packet for the queue of the one who asks; without memory for it
\* there is no answer.
AnswerLocation(t) ==
    /\ Interprets(t, {"GET_GEO"}) /\ Authenticated(t)
    /\ userid[t] = pk[t].receiver /\ pk[t].sender # pk[t].receiver
    /\ \/ Forward(t, pk[t].sender, AnswerTo(pk[t]))
       \/ /\ Registered(pk[t].sender) # {} /\ MemMayFail
          /\ Return(t)
       \/ /\ Registered(pk[t].sender) = {}
          /\ PrepareSend(t, Reply(t, "ACK", NoUser))
    /\ UNCHANGED <<clientVars, blockVars, cancel, sharedVars>>

\* GET_GEO and I am the sender: the question goes to the queue of the one
\* who is asked.
AskLocation(t) ==
    /\ Interprets(t, {"GET_GEO"}) /\ Authenticated(t)
    /\ userid[t] = pk[t].sender /\ pk[t].sender # pk[t].receiver
    /\ \/ Forward(t, pk[t].receiver, pk[t]) /\ UNCHANGED destroyed
       \/ /\ Registered(pk[t].receiver) = {}
          /\ destroyed' = destroyed \cup {pk[t]}
          /\ PrepareSend(t, Reply(t, "ACK", NoUser))
    /\ UNCHANGED <<clientVars, blockVars, cancel, addrs, number_of_users,
                   messages, fault, block, strays>>

\* GET_GEO between two others.
IgnoreLocation(t) ==
    /\ Interprets(t, {"GET_GEO"}) /\ Authenticated(t)
    /\ userid[t] \notin {pk[t].sender, pk[t].receiver}
    /\ pk[t].sender # pk[t].receiver
    /\ Return(t)
    /\ UNCHANGED <<clientVars, blockVars, cancel, sharedVars>>

SendPacket(t) ==
    /\ Runs(t, "send")
    /\ SendAll(t, <<pckt[t]>>)
    /\ Return(t)
    /\ UNCHANGED <<connected, sent, sock, blockVars, cancel, addrs,
                   number_of_users, messages, destroyed, block, strays>>

-----------------------------------------------------------------------------
(* connection_handler: the queue and the end of the turn.                  *)

\* Mutant of NextTurn: neither test is made.
NextTurnAlways(t) == Goto(t, "recv")

\* pthread_testcancel at the foot of the loop and the test at its head.
NextTurn(t) ==
    Goto(t, IF cancel[t] \/ user_auth[t] = "USER_TO_EXIT" THEN "cleanup" ELSE "recv")

QueueEmpty(t) ==
    /\ pc[t] = "queue" /\ ~queue_lock[t] /\ in_queue[t] = <<>>
    /\ NextTurn(t)
    /\ UNCHANGED <<clientVars, blockVars, cancel, handVars, sharedVars>>

\* Lock the queue and dequeue.  The print that follows reads the packet
\* with the lock held.
Dequeue(t) ==
    /\ pc[t] = "queue" /\ ~queue_lock[t] /\ in_queue[t] # <<>>
    /\ queue_lock' = [queue_lock EXCEPT ![t] = TRUE]
    /\ in_queue' = [in_queue EXCEPT ![t] = Rest(@)]
    /\ pk' = [pk EXCEPT ![t] = Head(in_queue[t])]
    /\ src' = [src EXCEPT ![t] = "queue"]
    /\ Goto(t, "deq")
    /\ UNCHANGED <<clientVars, userid, user_auth, cancel, node, pckt, sharedVars>>

Unlock(t) ==
    /\ Runs(t, "deq")
    /\ queue_lock' = [queue_lock EXCEPT ![t] = FALSE]
    /\ fault' = IF pk[t] \in destroyed THEN "use_after_free" ELSE fault
    /\ Goto(t, "interp")
    /\ UNCHANGED <<clientVars, userid, user_auth, in_queue, cancel, handVars,
                   addrs, number_of_users, messages, destroyed, block, strays>>

EndOfTurn(t) ==
    /\ Runs(t, "end")
    /\ destroyed' = destroyed \cup {pk[t]}
    /\ fault' = IF pk[t] \in destroyed THEN "double_free" ELSE fault
    /\ pk' = [pk EXCEPT ![t] = None]
    /\ NextTurn(t)
    /\ UNCHANGED <<clientVars, blockVars, cancel, src, node, pckt, addrs,
                   number_of_users, messages, block, strays>>

\* malloc returns NULL to string_to_packet, whose caller follows the NULL, or
\* to enqueue, which does so itself.
NoMemory(t) ==
    /\ MemMayFail
    /\ (pc[t] = "recv" /\ sock[t] # <<>>) \/ Runs(t, "route")
    /\ fault' = "null_dereference"
    /\ UNCHANGED <<clientVars, blockVars, pc, cancel, handVars, addrs,
                   number_of_users, messages, destroyed, block, strays>>

-----------------------------------------------------------------------------
(* destroy_handlers_block, the cleanup handler of the thread.              *)

\* Mutants of Removal: nothing is removed; the entry of another is removed.
RemovalOfNone(id) == {addrs}
RemovalOfAny(id) == IF id = NoUser THEN {addrs} ELSE {addrs \ {e} : e \in addrs}

\* removeFromAddrTable: one entry of this userid goes, whichever the search
\* finds.
Removal(id) ==
    IF Registered(id) = {} THEN {addrs} ELSE {addrs \ {<<id, n>>} : n \in Registered(id)}

\* The entry is removed under the lock of the table, then the socket closed.
Cleanup(t) ==
    /\ pc[t] = "cleanup"
    /\ addrs' \in Removal(userid[t])
    /\ user_auth' = [user_auth EXCEPT ![t] = "USER_TO_EXIT"]
    /\ sock' = [sock EXCEPT ![t] = <<>>]
    /\ Goto(t, "drain")
    /\ UNCHANGED <<connected, sent, out, userid, in_queue, queue_lock, cancel,
                   handVars, number_of_users, messages, destroyed, fault, block,
                   strays>>

\* destroy_queue takes the queue lock and drops the packets still there, then
\* the block is freed.
DestroyBlock(t) ==
    /\ pc[t] = "drain" /\ ~queue_lock[t]
    /\ LET left == {in_queue[t][i] : i \in DOMAIN in_queue[t]}
       IN  /\ destroyed' = destroyed \cup left
           /\ fault' = IF left \cap destroyed # {} THEN "double_free" ELSE fault
    /\ in_queue' = [in_queue EXCEPT ![t] = <<>>]
    /\ Goto(t, "freed")
    /\ UNCHANGED <<clientVars, userid, user_auth, queue_lock, cancel, handVars,
                   addrs, number_of_users, messages, block, strays>>

-----------------------------------------------------------------------------
Interpret(t) ==
    \/ AuthFind(t) \/ AuthQueryFails(t) \/ LogIn(t) \/ RefuseUnauthenticated(t)
    \/ Logout(t) \/ Ignore(t) \/ PassOn(t) \/ SendPacket(t)
    \/ FindReceiver(t) \/ InsertMessage(t) \/ Deliver(t) \/ TraceAfterHandOver(t)
    \/ SelectMessages(t) \/ SelectFails(t) \/ MarkReceived(t) \/ DestroyOnly(t)
    \/ OwnLocation(t) \/ AnswerLocation(t) \/ AskLocation(t) \/ IgnoreLocation(t)

\* A step of the thread that serves connection t.
Step(t) ==
    /\ fault = "none"
    /\ \/ RecvNothing(t) \/ RecvPacket(t) \/ Interpret(t)
       \/ QueueEmpty(t) \/ Dequeue(t) \/ Unlock(t) \/ EndOfTurn(t)
       \/ NoMemory(t) \/ Cancelled(t) \/ Cleanup(t) \/ DestroyBlock(t)

\* A step of the environment: the accept of the main thread, the client.
Environment(t) == fault = "none" /\ (Accept(t) \/ ClientSend(t) \/ Disconnect(t))

\* Nothing runs any more: the process died, or every thread has ended.
Stopped ==
    /\ fault # "none" \/ \A t \in Threads : pc[t] = "freed"
    /\ UNCHANGED vars

Next == (\E t \in Threads : Step(t) \/ Environment(t)) \/ Stopped

Spec == Init /\ [][Next]_vars

\* The scheduler runs every thread that can run.
FairSpec == Spec /\ \A t \in Threads : WF_vars(Step(t))
-----------------------------------------------------------------------------
(* Properties.                                                             *)

Queued(t) == {in_queue[t][i] : i \in DOMAIN in_queue[t]}

ClientTypes ==
    /\ connected \in [Threads -> BOOLEAN]
    /\ sent \in [Threads -> 0..MaxSends]
    /\ sock \in [Threads -> Seq(Packet)]
    /\ out \in [Threads -> Seq(Packet)]

BlockTypes ==
    /\ userid \in [Threads -> Users \cup {NoUser}]
    /\ user_auth \in [Threads -> {"USER_NOT_AUTH", "USER_AUTH", "USER_TO_EXIT"}]
    /\ in_queue \in [Threads -> Seq(Packet)]
    /\ queue_lock \in [Threads -> BOOLEAN]

ThreadTypes ==
    /\ pc \in [Threads -> Places]
    /\ cancel \in [Threads -> BOOLEAN]
    /\ pk \in [Threads -> Packet \cup {None}]
    /\ src \in [Threads -> {"socket", "queue"}]
    /\ node \in [Threads -> Threads \cup {None}]
    /\ pckt \in [Threads -> Packet \cup {None}]

SharedTypes ==
    /\ addrs \subseteq Users \X Threads
    /\ number_of_users \in Nat
    /\ messages \subseteq Packet /\ IsFiniteSet(messages)
    /\ destroyed \subseteq Packet
    /\ block \in [Threads -> Threads]
    /\ fault \in {"none", "use_after_free", "double_free", "dead_block",
                  "late_print", "null_dereference", "sigpipe"}
    /\ strays \subseteq Packet

\* The variables have their types.
TypeOK == ClientTypes /\ BlockTypes /\ ThreadTypes /\ SharedTypes

\* The packets in a message queue are addressed to the user its thread
\* serves, but for those appended through a pointer to a block that had been
\* freed and whose memory another connection had got: neither a second login
\* to the account, nor a refused one, nor a logout misleads the sender's
\* look-up otherwise.
MailForOwner ==
    \A t \in Threads : \A p \in Queued(t) : p.receiver = userid[t] \/ p \in strays

\* A packet is in one place: in one queue, once, or in the database, or
\* freed, unless one went astray.  The thread that interprets a packet gives
\* it up when it enqueues it, and the thread that dequeues it destroys it
\* after use.
OnePlace == strays = {} =>
    /\ \A t \in Threads :
        /\ Queued(t) \cap (destroyed \cup messages) = {}
        /\ \A i, j \in DOMAIN in_queue[t] : in_queue[t][i] = in_queue[t][j] => i = j
    /\ \A t, u \in Threads : t # u => Queued(t) \cap Queued(u) = {}

\* What a connection has put in a queue or in the database it sent after the
\* server acknowledged its login: NOT_YET_AUTHENTICATED_EXIT only marks the
\* thread and returns, and still nothing of it reaches another user.
EffectsNeedLogin ==
    \A p \in messages \cup UNION {Queued(t) : t \in Threads} :
        \E i \in DOMAIN out[p.conn] : out[p.conn][i].type = "ACK"

\* The address table names live threads that serve the user of the entry.
TableLive ==
    \A e \in addrs : userid[e[2]] = e[1] /\ pc[e[2]] # "freed"

\* A thread whose client is logged in is found under its userid.
OnlineIsRegistered ==
    \A t \in Threads : user_auth[t] = "USER_AUTH" => <<userid[t], t>> \in addrs

\* No client is sent the same message twice, and no two clients are.
AtMostOnce ==
    \A t, u \in Threads : \A i \in DOMAIN out[t], j \in DOMAIN out[u] :
        out[t][i].type = "MSG" /\ out[t][i] = out[u][j] => t = u /\ i = j

\* The messages that one client is sent from another arrive in the order in
\* which the other sent them (as long as none of them goes by the database).
InOrder ==
    \A t \in Threads : \A i, j \in DOMAIN out[t] :
        /\ i < j /\ out[t][i].type = "MSG" /\ out[t][j].type = "MSG"
        /\ out[t][i].conn = out[t][j].conn
        => out[t][i].seq < out[t][j].seq

\* No packet is used after it was freed, nor freed twice, unless one went
\* astray: whatever becomes of the blocks, the branches that destroy a packet,
\* hand it on or leave it to the loop agree on whose it is.  (What is touched
\* when dead is the block of a receiver who left, the block that a failed
\* query destroyed, and the packet that the debug build prints too late.)
NoMemoryFault == strays = {} => fault \notin {"use_after_free", "double_free"}

\* A block about to be used as that of an online receiver is not freed.
ReceiverIsOnline ==
    \A t \in Threads : pc[t] = "route" => pc[node[t]] # "freed"

\* A connection told to exit ends: its thread runs its cleanup and frees the
\* block.
ExitEnds ==
    \A t \in Threads : user_auth[t] = "USER_TO_EXIT" ~> pc[t] = "freed"

IsIn(s, type, c, n) ==
    \E i \in DOMAIN s : s[i].type = type /\ s[i].conn = c /\ s[i].seq = n

\* A message in the queue of a thread is in the end sent to its client.
QueuedIsSent ==
    \A t, c \in Threads : \A n \in 1..MaxSends :
        IsIn(in_queue[t], "MSG", c, n) ~> IsIn(out[t], "MSG", c, n)

\* Whoever asks for a location is sent the location, or the ACK that says the
\* one asked is not online.
LocationAnswered ==
    \A t \in Threads : \A n \in 1..MaxSends :
        IsIn(sock[t], "GET_GEO", t, n)
            ~> (IsIn(out[t], "GEO", t, n)
                \/ \E i \in DOMAIN out[t] : out[t][i] = Reply(t, "ACK", NoUser))
=============================================================================
