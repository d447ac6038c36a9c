------------------------ MODULE ConnectionLoginProofs ------------------------
(***************************************************************************)
(* Theorems about ConnectionHandler: what it means to be logged in.        *)
(*                                                                         *)
(* TableLiveAlways, OnlineAlways: the address table names the threads of   *)
(* the users who are online, and no other.  Both follow from TableInv,     *)
(* which adds to them that the only userid a block can get is one that its *)
(* own client can log in to (OnlyMine): the cleanup handler removes some   *)
(* entry of its userid, and that this is its own entry rests on no other   *)
(* connection having an account with that userid (OwnAccounts).  In the    *)
(* code two connections can log in to one account at the same time; the    *)
(* runs on such requests show what happens then.                           *)
(*                                                                         *)
(* EffectsNeedLoginAlways: no packet of a client that has not been sent    *)
(* the ACK of its login reaches a queue or the database.  LoginInv follows *)
(* the packets of every client through the hands of the threads, and says  *)
(* where the thread of a client without ACK can be.                        *)
(***************************************************************************)
EXTENDS ConnectionHandlerProofs

-----------------------------------------------------------------------------
(* The address table.                                                      *)

\* Client t can log in to the account id.
Account(t, id) == \E r \in Requests[t] : r.type = "AUTH" /\ r.msg = id

\* No two connections log in to the same account.
OwnAccounts ==
    \A t, u \in Threads : \A id \in Users : Account(t, id) /\ Account(u, id) => t = u

\* The userid of a block, and every userid it can get from an AUTH on its
\* way to it, is that of an account of its client.
OnlyMine ==
    \A t \in Threads :
        /\ userid[t] \in Users => Account(t, userid[t])
        /\ \A i \in DOMAIN sock[t] : sock[t][i].type = "AUTH" => Account(t, sock[t][i].msg)
        /\ HasAuth(t) => Account(t, pk[t].msg)

\* A registered block is still there: its cleanup has not begun.
Present == \A e \in addrs : pc[e[2]] \notin {"drain", "freed"}

TableInv == OnlyMine /\ Present /\ OnlineIsRegistered

\* A step that leaves userids, sockets and the table alone, logs nobody in,
\* and takes its thread to no place where TableInv asks for something.
LEMMA QuietTableKeeps ==
  ASSUME TableInv, TypeInv, NEW t \in Threads,
         UNCHANGED <<userid, sock, addrs>>,
         \A u \in Threads : u # t =>
            pc'[u] = pc[u] /\ pk'[u] = pk[u] /\ user_auth'[u] = user_auth[u],
         user_auth'[t] = "USER_AUTH" => user_auth[t] = "USER_AUTH",
         \/ pc'[t] \notin {"interp", "drain", "freed"}
         \/ UNCHANGED <<pc, pk>>
  PROVE  TableInv'
<1>1. OnlyMine'
  BY DEF TableInv, OnlyMine, HasAuth, Account
<1>2. Present'
  <2>1. \A e \in addrs : e[2] \in Threads
    BY DEF TypeInv, TypeOK, SharedTypes
  <2> QED
    BY <2>1 DEF TableInv, Present
<1>3. OnlineIsRegistered'
  BY DEF TableInv, OnlineIsRegistered
<1> QED
  BY <1>1, <1>2, <1>3 DEF TableInv

LEMMA QuietTable ==
  ASSUME TableInv, TypeInv, NEW t \in Threads,
         \/ Accept(t) \/ RecvNothing(t) \/ AuthQueryFails(t) \/ RefuseUnauthenticated(t)
         \/ Logout(t) \/ Ignore(t) \/ PassOn(t) \/ InsertMessage(t)
         \/ TraceAfterHandOver(t) \/ SelectMessages(t) \/ SelectFails(t)
         \/ MarkReceived(t) \/ DestroyOnly(t) \/ OwnLocation(t) \/ IgnoreLocation(t)
         \/ SendPacket(t) \/ NoMemory(t) \/ QueueEmpty(t) \/ EndOfTurn(t) \/ Cancelled(t) \/ Disconnect(t)
         \/ FindReceiver(t) \/ AnswerLocation(t) \/ AskLocation(t) \/ Deliver(t)
         \/ Dequeue(t)
  PROVE  TableInv'
<1> USE DEF TypeInv, TypeOK, ThreadTypes, BlockTypes, Goto,
            clientVars, blockVars, handVars, sharedVars
<1>1. CASE Accept(t)
  BY <1>1, QuietTableKeeps DEF Accept
<1>2. CASE RecvNothing(t)
  BY <1>2, QuietTableKeeps DEF RecvNothing
<1>3. CASE AuthQueryFails(t)
  BY <1>3, QuietTableKeeps DEF AuthQueryFails
<1>4. CASE RefuseUnauthenticated(t)
  BY <1>4, QuietTableKeeps DEF RefuseUnauthenticated, Interprets, Return
<1>5. CASE Logout(t)
  BY <1>5, QuietTableKeeps DEF Logout, Return
<1>6. CASE Ignore(t)
  BY <1>6, QuietTableKeeps DEF Ignore, Return
<1>7. CASE PassOn(t)
  BY <1>7, QuietTableKeeps DEF PassOn, PrepareSend
<1>8. CASE InsertMessage(t)
  BY <1>8, QuietTableKeeps DEF InsertMessage, Return
<1>9. CASE TraceAfterHandOver(t)
  BY <1>9, QuietTableKeeps DEF TraceAfterHandOver, Return
<1>10. CASE SelectMessages(t)
  BY <1>10, QuietTableKeeps DEF SelectMessages
<1>11. CASE MarkReceived(t)
  BY <1>11, QuietTableKeeps DEF MarkReceived, Return
<1>12. CASE DestroyOnly(t)
  BY <1>12, QuietTableKeeps DEF DestroyOnly, Return
<1>13. CASE OwnLocation(t)
  BY <1>13, QuietTableKeeps DEF OwnLocation, PrepareSend
<1>14. CASE IgnoreLocation(t)
  BY <1>14, QuietTableKeeps DEF IgnoreLocation, Return
<1>15. CASE SendPacket(t)
  BY <1>15, QuietTableKeeps DEF SendPacket, Return
<1>16. CASE QueueEmpty(t)
  BY <1>16, QuietTableKeeps DEF QueueEmpty, NextTurn
<1>17. CASE EndOfTurn(t)
  BY <1>17, QuietTableKeeps DEF EndOfTurn, NextTurn
<1>18. CASE Cancelled(t)
  BY <1>18, QuietTableKeeps DEF Cancelled
<1>19. CASE Disconnect(t)
  BY <1>19, QuietTableKeeps DEF Disconnect
<1>20. CASE FindReceiver(t)
  BY <1>20, QuietTableKeeps DEF FindReceiver, Forward
<1>21. CASE AnswerLocation(t)
  BY <1>21, QuietTableKeeps DEF AnswerLocation, Forward, PrepareSend, Return
<1>22. CASE AskLocation(t)
  BY <1>22, QuietTableKeeps DEF AskLocation, Forward, PrepareSend
<1>23. CASE Deliver(t)
  <2>1. CASE Goto(t, "trace") /\ UNCHANGED handVars
    BY <1>23, <2>1, QuietTableKeeps DEF Deliver
  <2>2. CASE Return(t)
    BY <1>23, <2>2, QuietTableKeeps DEF Deliver, Return
  <2> QED
    BY <1>23, <2>1, <2>2 DEF Deliver
<1>24. CASE Dequeue(t)
  BY <1>24, QuietTableKeeps DEF Dequeue
<1>25. CASE SelectFails(t)
  BY <1>25, QuietTableKeeps DEF SelectFails
<1>26. CASE NoMemory(t)
  BY <1>26, QuietTableKeeps DEF NoMemory
<1> QED
  BY <1>25, <1>26, <1>1, <1>2, <1>3, <1>4, <1>5, <1>6, <1>7, <1>8, <1>9, <1>10, <1>11, <1>12, <1>13,
     <1>14, <1>15, <1>16, <1>17, <1>18, <1>19, <1>20, <1>21, <1>22, <1>23, <1>24

\* An AUTH that is sent is one of the requests of its client.
LEMMA ClientSendTable ==
  ASSUME TableInv, TypeInv, NEW t \in Threads, ClientSend(t)
  PROVE  TableInv'
<1> USE DEF TypeInv, TypeOK, ClientTypes, blockVars, handVars, sharedVars, ClientSend
<1>1. PICK r \in Requests[t] : sock' = [sock EXCEPT ![t] = Append(@,
              [type |-> r.type, sender |-> r.sender, receiver |-> r.receiver,
               msg |-> r.msg, conn |-> t, seq |-> sent[t] + 1])]
  OBVIOUS
<1> DEFINE p == [type |-> r.type, sender |-> r.sender, receiver |-> r.receiver,
                 msg |-> r.msg, conn |-> t, seq |-> sent[t] + 1]
<1>2. p.type = "AUTH" => Account(t, p.msg)
  BY DEF Account
<1>3. sock' = [sock EXCEPT ![t] = Append(sock[t], p)]
  BY <1>1
<1> HIDE DEF p
<1>4. ASSUME NEW u \in Threads, NEW i \in DOMAIN sock'[u], sock'[u][i].type = "AUTH"
      PROVE  Account(u, sock'[u][i].msg)
  <2>1. CASE i \in DOMAIN sock[u] /\ sock'[u][i] = sock[u][i]
    BY <1>4, <2>1 DEF TableInv, OnlyMine
  <2>2. CASE u = t /\ sock'[u][i] = p
    BY <1>2, <1>4, <2>2
  <2> QED
    BY <1>3, <1>4, <2>1, <2>2
<1>5. OnlyMine'
  BY <1>4 DEF TableInv, OnlyMine, HasAuth, Account
<1> QED
  BY <1>5 DEF TableInv, Present, OnlineIsRegistered

LEMMA RecvPacketTable ==
  ASSUME TableInv, TypeInv, NEW t \in Threads, RecvPacket(t)
  PROVE  TableInv'
<1> USE DEF TypeInv, TypeOK, ClientTypes, ThreadTypes, SharedTypes, blockVars, sharedVars,
            RecvPacket, Goto
<1>1. PICK n \in 1..MaxBurst : /\ n <= Len(sock[t])
                               /\ sock' = [sock EXCEPT ![t] = SubSeq(@, n + 1, Len(@))]
  OBVIOUS
<1>2. ASSUME NEW i \in DOMAIN sock'[t]
      PROVE  n + i \in DOMAIN sock[t] /\ sock'[t][i] = sock[t][n + i]
  <2>1. n \in Nat \ {0} /\ Len(sock[t]) \in Nat
    BY ConnectionAssumption
  <2>2. i \in 1..(Len(sock[t]) - n) /\ sock'[t][i] = sock[t][n + i]
    BY <1>1, <1>2, <2>1, SubSeqProperties
  <2> QED
    BY <2>1, <2>2
<1>3. HasAuth(t)' => Account(t, pk'[t].msg)
  <2>1. 1 \in DOMAIN sock[t] /\ Head(sock[t]) = sock[t][1]
    BY HeadTailProperties
  <2> QED
    BY <2>1 DEF TableInv, OnlyMine, HasAuth
<1>4. OnlyMine'
  BY <1>1, <1>2, <1>3 DEF TableInv, OnlyMine, HasAuth, Account
<1>5. Present' /\ OnlineIsRegistered'
  BY DEF TableInv, Present, OnlineIsRegistered
<1> QED
  BY <1>4, <1>5 DEF TableInv

\* A packet from a queue is not an AUTH.
LEMMA UnlockTable ==
  ASSUME TableInv, MailInv, TypeInv, NEW t \in Threads, Unlock(t)
  PROVE  TableInv'
<1> USE DEF TypeInv, TypeOK, ThreadTypes, SharedTypes, clientVars, handVars, Unlock, Goto, Runs
<1>1. OnlyMine'
  BY DEF TableInv, OnlyMine, HasAuth, Account, MailInv, AuthOnce
<1>2. Present' /\ OnlineIsRegistered'
  BY DEF TableInv, Present, OnlineIsRegistered
<1> QED
  BY <1>1, <1>2 DEF TableInv

\* A thread that interprets an AUTH has no userid, and so no entry.
LEMMA AuthFindTable ==
  ASSUME TableInv, MailInv, TypeInv, NEW t \in Threads, AuthFind(t)
  PROVE  TableInv'
<1> USE DEF TypeInv, TypeOK, BlockTypes, ThreadTypes, SharedTypes
<1>1. HasAuth(t) /\ userid[t] = NoUser
  BY DEF AuthFind, Interprets, HasAuth, MailInv, AuthOnce
<1>2. /\ UNCHANGED <<sock, addrs>>
      /\ userid'[t] \in {userid[t], pk[t].msg}
      /\ user_auth'[t] \in {user_auth[t], "USER_TO_EXIT"}
      /\ \A u \in Threads : u # t =>
            /\ userid'[u] = userid[u] /\ user_auth'[u] = user_auth[u]
            /\ pc'[u] = pc[u] /\ pk'[u] = pk[u]
      /\ pc'[t] \in {"queue", "end", "login"}
  BY DEF AuthFind, Return, Goto, handVars
<1>3. OnlyMine'
  <2>1. \A u \in Threads : HasAuth(u)' => u # t /\ HasAuth(u) /\ pk'[u] = pk[u]
    BY <1>2 DEF HasAuth
  <2>2. userid'[t] \in Users => Account(t, userid'[t])
    BY <1>1, <1>2, NoUserIsNone DEF TableInv, OnlyMine
  <2>3. \A u \in Threads : userid'[u] \in Users => Account(u, userid'[u])
    BY <1>2, <2>2 DEF TableInv, OnlyMine
  <2>4. \A u \in Threads : HasAuth(u)' => Account(u, pk'[u].msg)
    BY <2>1 DEF TableInv, OnlyMine
  <2>5. \A u \in Threads : \A i \in DOMAIN sock'[u] :
            sock'[u][i].type = "AUTH" => Account(u, sock'[u][i].msg)
    BY <1>2 DEF TableInv, OnlyMine
  <2> QED
    BY <2>3, <2>4, <2>5 DEF OnlyMine, Account
<1>4. Present'
  BY <1>2 DEF TableInv, Present
<1>5. user_auth[t] # "USER_AUTH"
  BY <1>1, NoUserIsNone DEF TableInv, OnlineIsRegistered
<1>6. OnlineIsRegistered'
  BY <1>2, <1>5 DEF TableInv, OnlineIsRegistered
<1> QED
  BY <1>3, <1>4, <1>6 DEF TableInv

LEMMA LogInTable ==
  ASSUME TableInv, TypeInv, NEW t \in Threads, LogIn(t)
  PROVE  TableInv'
<1> USE DEF TypeInv, TypeOK, BlockTypes, ThreadTypes, SharedTypes
<1>1. /\ UNCHANGED <<sock, userid>>
      /\ \A u \in Threads : u # t =>
            pc'[u] = pc[u] /\ pk'[u] = pk[u] /\ user_auth'[u] = user_auth[u]
      /\ pc'[t] \in {"queue", "end"}
      /\ addrs' = addrs \cup {<<userid[t], t>>}
  BY DEF LogIn, Return, Goto
<1>2. OnlyMine'
  <2>1. \A u \in Threads : HasAuth(u)' => HasAuth(u) /\ pk'[u] = pk[u]
    BY <1>1 DEF HasAuth
  <2>2. \A u \in Threads : HasAuth(u)' => Account(u, pk'[u].msg)
    BY <2>1 DEF TableInv, OnlyMine
  <2> QED
    BY <1>1, <2>2 DEF TableInv, OnlyMine, Account
<1>3. Present' /\ OnlineIsRegistered'
  BY <1>1 DEF TableInv, Present, OnlineIsRegistered
<1> QED
  BY <1>2, <1>3 DEF TableInv

\* The entry that the cleanup of t removes is that of t, and t has no other.
LEMMA OwnEntryRemoved ==
  ASSUME OwnAccounts, TableInv, MailInv, TypeInv, NEW t \in Threads, Cleanup(t)
  PROVE  addrs' = {e \in addrs : e[2] # t}
<1> USE DEF TypeInv, TypeOK, SharedTypes
<1>1. ASSUME NEW n \in Registered(userid[t]) PROVE n = t
  <2>1. n \in Threads /\ <<userid[t], n>> \in addrs
    BY DEF Registered
  <2>2. userid[n] = userid[t] /\ userid[t] \in Users
    BY <2>1 DEF MailInv, TableRight
  <2> QED
    BY <2>1, <2>2 DEF TableInv, OnlyMine, OwnAccounts
<1>2. \A e \in addrs : e = <<e[1], e[2]>> /\ e[2] \in Threads /\ e[1] = userid[e[2]]
  BY DEF MailInv, TableRight
<1>3. CASE Registered(userid[t]) = {}
  <2>1. addrs' = addrs
    BY <1>3 DEF Cleanup, Removal
  <2>2. \A e \in addrs : e[2] # t
    BY <1>2, <1>3 DEF Registered
  <2> QED
    BY <2>1, <2>2
<1>4. CASE Registered(userid[t]) # {}
  <2>1. addrs' = addrs \ {<<userid[t], t>>}
    BY <1>1, <1>4 DEF Cleanup, Removal
  <2> QED
    BY <1>2, <2>1
<1> QED
  BY <1>3, <1>4

LEMMA CleanupTable ==
  ASSUME OwnAccounts, TableInv, MailInv, TypeInv, NEW t \in Threads, Cleanup(t)
  PROVE  TableInv'
<1> USE DEF TypeInv, TypeOK, ClientTypes, BlockTypes, ThreadTypes, SharedTypes
<1>1. addrs' = {e \in addrs : e[2] # t}
  BY OwnEntryRemoved
<1>2. /\ UNCHANGED <<userid, pk>>
      /\ sock' = [sock EXCEPT ![t] = <<>>]
      /\ user_auth' = [user_auth EXCEPT ![t] = "USER_TO_EXIT"]
      /\ pc' = [pc EXCEPT ![t] = "drain"]
  BY DEF Cleanup, Goto, handVars
<1>3. OnlyMine'
  BY <1>2 DEF TableInv, OnlyMine, HasAuth, Account
<1>4. Present'
  BY <1>1, <1>2 DEF TableInv, Present
<1>5. OnlineIsRegistered'
  BY <1>1, <1>2 DEF TableInv, OnlineIsRegistered
<1> QED
  BY <1>3, <1>4, <1>5 DEF TableInv

LEMMA DestroyBlockTable ==
  ASSUME TableInv, TypeInv, NEW t \in Threads, DestroyBlock(t)
  PROVE  TableInv'
<1> USE DEF TypeInv, TypeOK, ThreadTypes, SharedTypes, clientVars, handVars, DestroyBlock, Goto
<1>1. OnlyMine'
  BY DEF TableInv, OnlyMine, HasAuth, Account
<1>2. Present' /\ OnlineIsRegistered'
  BY DEF TableInv, Present, OnlineIsRegistered
<1> QED
  BY <1>1, <1>2 DEF TableInv

LEMMA NextTable ==
  ASSUME OwnAccounts, TableInv, MailInv, TypeInv, [Next]_vars PROVE TableInv'
<1>1. CASE UNCHANGED vars
  BY <1>1 DEF TableInv, OnlyMine, Present, OnlineIsRegistered, HasAuth, Account,
      vars, clientVars, blockVars, handVars, sharedVars
<1>2. ASSUME NEW t \in Threads, Step(t) PROVE TableInv'
  BY <1>2, QuietTable, RecvPacketTable, UnlockTable, AuthFindTable, LogInTable,
     CleanupTable, DestroyBlockTable DEF Step, Interpret
<1>3. ASSUME NEW t \in Threads, Environment(t) PROVE TableInv'
  BY <1>3, QuietTable, ClientSendTable DEF Environment
<1> QED
  BY <1>1, <1>2, <1>3 DEF Next, Stopped

LEMMA TableInvAlways ==
  ASSUME AuthFirst, OwnAccounts
  PROVE  Spec => [](TypeInv /\ MailInv /\ TableInv)
<1>1. Init => TypeInv /\ MailInv
  BY InitType, InitMail
<1>2. Init => TableInv
  BY NoUserIsNone DEF Init, TableInv, OnlyMine, Present, OnlineIsRegistered, HasAuth
<1>3. TypeInv /\ MailInv /\ TableInv /\ [Next]_vars => (TypeInv /\ MailInv /\ TableInv)'
  BY NextType, NextMail, NextTable
<1> QED
  BY <1>1, <1>2, <1>3, PTL DEF Spec

\* The address table names live threads that serve the user of the entry:
\* the cleanup handler takes a block out of the table before it frees it, and
\* it is its own entry that it takes out.  For clients that authenticate once
\* and first, each to its own accounts, whatever fails.
THEOREM TableLiveAlways == ASSUME AuthFirst, OwnAccounts PROVE Spec => []TableLive
<1>1. TypeInv /\ MailInv /\ TableInv => TableLive
  BY DEF MailInv, TableRight, TableInv, Present, TableLive
<1> QED
  BY <1>1, TableInvAlways, PTL

\* A thread whose client is logged in is found under its userid, so that
\* messages for that client go to its queue and not to the database.
THEOREM OnlineAlways == ASSUME AuthFirst, OwnAccounts PROVE Spec => []OnlineIsRegistered
<1>1. TypeInv /\ MailInv /\ TableInv => OnlineIsRegistered
  BY DEF TableInv
<1> QED
  BY <1>1, TableInvAlways, PTL

-----------------------------------------------------------------------------
(* Effects need a login.                                                   *)

\* The clients that have been sent an ACK, that of their login first.
Acked == {t \in Threads : \E i \in DOMAIN out[t] : out[t][i].type = "ACK"}

AllOpen == \A t \in Threads : connected[t]

\* The places where a thread may still put its packet somewhere.
HasPacket(t) == pc[t] \in {"deq", "interp", "insert"}

\* The packets a thread reads from its socket are its client's.
OwnText ==
    \A t \in Threads :
        /\ \A i \in DOMAIN sock[t] : sock[t][i].conn = t
        /\ src[t] = "socket" /\ HasPacket(t) => pk[t].conn = t

\* Where the thread of a client without ACK can be.  A refused login leaves
\* it with USER_TO_EXIT, which NOT_YET_AUTHENTICATED_EXIT lets pass: it must
\* not interpret another packet.
OutsidePlaces == {"start", "recv", "interp", "login", "queue", "cleanup", "drain", "freed"}

Outside(t) ==
    /\ user_auth[t] # "USER_AUTH" /\ pc[t] \in OutsidePlaces
    /\ pc[t] \in {"start", "recv", "interp", "login"} => user_auth[t] = "USER_NOT_AUTH"

Outsiders ==
    \A t \in Threads : t \notin Acked => in_queue[t] = <<>> /\ src[t] = "socket" /\ Outside(t)

\* Who can be reached has been sent its ACK.
ReachAcked ==
    /\ \A e \in addrs : e[2] \in Acked
    /\ \A t \in Threads : pc[t] = "route" => node[t] \in Acked

\* What is in a queue, or on its way to or from one, or in the database, is
\* from a client that has been sent its ACK.
FromAcked ==
    /\ \A p \in messages : p.conn \in Acked
    /\ \A t \in Threads :
        /\ \A i \in DOMAIN in_queue[t] : in_queue[t][i].conn \in Acked
        /\ src[t] = "queue" /\ HasPacket(t) => pk[t].conn \in Acked
        /\ pc[t] = "route" => pckt[t].conn \in Acked

LoginInv == AllOpen /\ OwnText /\ Outsiders /\ ReachAcked /\ FromAcked

LEMMA PacketConn == ASSUME NEW p \in Packet PROVE p.conn \in Threads
BY DEF Packet

\* While no send fails, what a client has been sent only grows.
LEMMA SendGrows ==
  ASSUME ~SendMayFail, AllOpen, TypeInv, NEW t \in Threads, NEW ps \in Seq(Packet),
         SendAll(t, ps)
  PROVE  /\ Acked \subseteq Acked'
         /\ (\E i \in DOMAIN ps : ps[i].type = "ACK") => t \in Acked'
<1>1. out' = [out EXCEPT ![t] = out[t] \o ps]
  BY DEF SendAll, AllOpen
<1>2. out[t] \in Seq(Packet) /\ out \in [Threads -> Seq(Packet)]
  BY DEF TypeInv, TypeOK, ClientTypes
<1>3. /\ Len(out[t] \o ps) = Len(out[t]) + Len(ps)
      /\ \A i \in 1..Len(out[t]) : (out[t] \o ps)[i] = out[t][i]
      /\ \A i \in 1..Len(ps) : (out[t] \o ps)[Len(out[t]) + i] = ps[i]
  BY <1>2
<1>4. Len(out[t]) \in Nat /\ Len(ps) \in Nat
  BY <1>2
<1>5. t \in Acked => t \in Acked'
  <2>1. ASSUME NEW i \in DOMAIN out[t], out[t][i].type = "ACK"
        PROVE  i \in DOMAIN out'[t] /\ out'[t][i].type = "ACK"
    BY <1>1, <1>2, <1>3, <1>4, <2>1
  <2> QED
    BY <2>1 DEF Acked
<1>6. ASSUME NEW i \in DOMAIN ps, ps[i].type = "ACK" PROVE t \in Acked'
  <2>1. Len(out[t]) + i \in DOMAIN out'[t] /\ out'[t][Len(out[t]) + i] = ps[i]
    BY <1>1, <1>2, <1>3, <1>4, <1>6
  <2> QED
    BY <1>6, <2>1 DEF Acked
<1>7. \A u \in Threads : u # t => out'[u] = out[u]
  BY <1>1, <1>2
<1> QED
  BY <1>5, <1>6, <1>7 DEF Acked

LEMMA SameAcks ==
  ASSUME UNCHANGED out
  PROVE  Acked \subseteq Acked'
BY DEF Acked

\* A client whose thread is at one of the other places has its ACK.
LEMMA InsideAcked ==
  ASSUME LoginInv, NEW t \in Threads,
         \/ pc[t] \notin OutsidePlaces
         \/ pc[t] = "interp" /\ Authenticated(t)
         \/ src[t] = "queue" \/ in_queue[t] # <<>>
  PROVE  t \in Acked
BY DEF LoginInv, Outsiders, Outside, Authenticated

\* A step that puts nothing anywhere, and keeps the thread of a client
\* without ACK where it may be.
LEMMA QuietLoginKeeps ==
  ASSUME LoginInv, TypeInv, NEW t \in Threads, Acked \subseteq Acked',
         UNCHANGED <<connected, sock, in_queue, src>>,
         \A u \in Threads : u # t =>
            /\ pc'[u] = pc[u] /\ pk'[u] = pk[u] /\ pckt'[u] = pckt[u] /\ node'[u] = node[u]
            /\ user_auth'[u] = user_auth[u],
         addrs' \subseteq addrs, messages' \subseteq messages,
         pc'[t] # "route" \/ UNCHANGED <<pc, node, pckt>>,
         HasPacket(t)' => HasPacket(t) /\ pk'[t] = pk[t],
         t \in Acked \/ Outside(t)'
  PROVE  LoginInv'
<1> USE DEF TypeInv, TypeOK, ThreadTypes, BlockTypes, SharedTypes
<1>1. \A u \in Threads : HasPacket(u)' => HasPacket(u) /\ pk'[u] = pk[u]
  BY DEF HasPacket
<1>2. AllOpen' /\ OwnText'
  <2>1. AllOpen'
    BY DEF LoginInv, AllOpen
  <2>2. \A u \in Threads : src'[u] = "socket" /\ HasPacket(u)' => pk'[u].conn = u
    BY <1>1 DEF LoginInv, OwnText
  <2> QED
    BY <2>1, <2>2 DEF LoginInv, OwnText
<1>3. Outsiders'
  <2>1. \A u \in Threads : u \notin Acked' => u \notin Acked
    OBVIOUS
  <2>2. \A u \in Threads : u # t => (Outside(u)' <=> Outside(u))
    BY DEF Outside
  <2> QED
    BY <2>1, <2>2 DEF LoginInv, Outsiders
<1>4. ReachAcked'
  BY DEF LoginInv, ReachAcked
<1>5. FromAcked'
  <2>1. \A p \in messages' : p.conn \in Acked'
    BY DEF LoginInv, FromAcked
  <2>2. ASSUME NEW u \in Threads
        PROVE  /\ \A i \in DOMAIN in_queue'[u] : in_queue'[u][i].conn \in Acked'
               /\ src'[u] = "queue" /\ HasPacket(u)' => pk'[u].conn \in Acked'
               /\ pc'[u] = "route" => pckt'[u].conn \in Acked'
    BY <1>1, <2>2 DEF LoginInv, FromAcked
  <2> QED
    BY <2>1, <2>2 DEF FromAcked
<1> QED
  BY <1>2, <1>3, <1>4, <1>5 DEF LoginInv

\* The rows that a SELECT returns, in any order, are packets.
LEMMA RowsArePackets ==
  ASSUME messages \subseteq Packet, IsFiniteSet(messages), NEW id,
         NEW taken \in SUBSET Unread(id), NEW rows \in Orders(taken)
  PROVE  rows \in Seq(Packet) /\ \A i \in DOMAIN rows : rows[i] \in messages
<1>1. taken \subseteq messages /\ IsFiniteSet(taken)
  BY FS_Subset DEF Unread
<1>2. Cardinality(taken) \in Nat
  BY <1>1, FS_CardinalityType
<1>3. rows \in [1..Cardinality(taken) -> messages]
  BY <1>1 DEF Orders
<1>4. rows \in [1..Cardinality(taken) -> Packet]
  BY <1>3
<1>5. rows \in Seq(Packet)
  BY ONLY <1>2, <1>4, SeqDef
<1> QED
  BY <1>3, <1>5

LEMMA QuietLogin ==
  ASSUME ~SendMayFail, ~MayDisconnect, LoginInv, TypeInv, NEW t \in Threads,
         \/ Accept(t) \/ RecvNothing(t) \/ AuthFind(t) \/ AuthQueryFails(t)
         \/ RefuseUnauthenticated(t) \/ Logout(t) \/ Ignore(t) \/ PassOn(t)
         \/ TraceAfterHandOver(t) \/ SelectMessages(t) \/ SelectFails(t)
         \/ MarkReceived(t) \/ DestroyOnly(t) \/ OwnLocation(t) \/ IgnoreLocation(t)
         \/ SendPacket(t) \/ NoMemory(t) \/ QueueEmpty(t) \/ Unlock(t) \/ EndOfTurn(t) \/ Cancelled(t) \/ Disconnect(t)
  PROVE  LoginInv'
<1> USE DEF TypeInv, TypeOK, ClientTypes, ThreadTypes, BlockTypes, SharedTypes, Goto, Outside,
            HasPacket, clientVars, blockVars, handVars, sharedVars
<1>o. AllOpen /\ (t \in Acked \/ Outside(t))
  BY DEF LoginInv, Outsiders
<1>1. CASE Accept(t)
  BY <1>o, <1>1, SameAcks, QuietLoginKeeps DEF Accept, OutsidePlaces
<1>2. CASE RecvNothing(t)
  BY <1>o, <1>2, SameAcks, QuietLoginKeeps DEF RecvNothing, OutsidePlaces
<1>3. CASE AuthFind(t)
  <2>1. CASE SendAll(t, <<Reply(t, "FIN", NoUser)>>) /\ Return(t)
             /\ user_auth' = [user_auth EXCEPT ![t] = "USER_TO_EXIT"]
    <3>1. <<Reply(t, "FIN", NoUser)>> \in Seq(Packet)
      BY ReplySeq DEF Types
    <3>2. Acked \subseteq Acked'
      BY <1>o, <2>1, <3>1, SendGrows DEF TypeInv, TypeOK
    <3>3. t \in Acked \/ src[t] = "socket"
      BY InsideAcked
    <3> QED
      BY <1>o, <1>3, <2>1, <3>2, <3>3, QuietLoginKeeps
      DEF AuthFind, Interprets, Return, OutsidePlaces
  <2>2. CASE Goto(t, "login") /\ UNCHANGED <<out, user_auth, handVars>>
    BY <1>o, <1>3, <2>2, SameAcks, QuietLoginKeeps DEF AuthFind, Interprets, OutsidePlaces
  <2> QED
    BY <1>3, <2>1, <2>2 DEF AuthFind
<1>4. CASE AuthQueryFails(t)
  BY <1>o, <1>4, SameAcks, QuietLoginKeeps DEF AuthQueryFails, Interprets
<1>5. CASE RefuseUnauthenticated(t)
  BY <1>o, <1>5, SameAcks, QuietLoginKeeps, InsideAcked
  DEF RefuseUnauthenticated, Interprets, OutsidePlaces, Return
<1>6. CASE Logout(t)
  BY <1>6, SameAcks, InsideAcked, QuietLoginKeeps DEF Logout, Interprets, Return
<1>7. CASE Ignore(t)
  BY <1>7, SameAcks, InsideAcked, QuietLoginKeeps DEF Ignore, Interprets, Return
<1>8. CASE PassOn(t)
  BY <1>8, SameAcks, InsideAcked, QuietLoginKeeps DEF PassOn, Interprets, PrepareSend
<1>9. CASE TraceAfterHandOver(t)
  BY <1>9, SameAcks, InsideAcked, QuietLoginKeeps
  DEF TraceAfterHandOver, Runs, Return, OutsidePlaces
<1>10. CASE SelectMessages(t)
  <2>1. PICK taken \in SUBSET Unread(userid[t]) : \E rows \in Orders(taken) : SendAll(t, rows)
    BY <1>10 DEF SelectMessages
  <2>2. PICK rows \in Orders(taken) : SendAll(t, rows)
    BY <2>1
  <2>3. rows \in Seq(Packet)
    BY RowsArePackets DEF TypeInv, TypeOK, SharedTypes
  <2>4. Acked \subseteq Acked'
    BY <1>o, <2>2, <2>3, SendGrows
  <2> QED
    BY <1>10, <2>4, InsideAcked, QuietLoginKeeps DEF SelectMessages, Interprets
<1>11. CASE MarkReceived(t)
  <2>1. messages' \subseteq messages
    BY <1>11 DEF MarkReceived, Marked
  <2> QED
    BY <1>11, <2>1, SameAcks, InsideAcked, QuietLoginKeeps
    DEF MarkReceived, Return, OutsidePlaces
<1>12. CASE DestroyOnly(t)
  BY <1>12, SameAcks, InsideAcked, QuietLoginKeeps DEF DestroyOnly, Interprets, Return
<1>13. CASE OwnLocation(t)
  BY <1>13, SameAcks, InsideAcked, QuietLoginKeeps DEF OwnLocation, Interprets, PrepareSend
<1>14. CASE IgnoreLocation(t)
  BY <1>14, SameAcks, InsideAcked, QuietLoginKeeps DEF IgnoreLocation, Interprets, Return
<1>15. CASE SendPacket(t)
  <2>1. pc[t] = "send" /\ pckt[t] \in Packet
    BY <1>15 DEF SendPacket, Runs, HandsFull
  <2>2. <<pckt[t]>> \in Seq(Packet) /\ SendAll(t, <<pckt[t]>>)
    BY <1>15, <2>1 DEF SendPacket
  <2>3. Acked \subseteq Acked'
    BY <1>o, <2>2, SendGrows
  <2> QED
    BY <1>15, <2>1, <2>3, InsideAcked, QuietLoginKeeps DEF SendPacket, Return, OutsidePlaces
<1>16. CASE QueueEmpty(t)
  BY <1>o, <1>16, SameAcks, QuietLoginKeeps DEF QueueEmpty, NextTurn, OutsidePlaces
<1>17. CASE Unlock(t)
  BY <1>17, SameAcks, InsideAcked, QuietLoginKeeps DEF Unlock, Runs, OutsidePlaces
<1>18. CASE EndOfTurn(t)
  BY <1>18, SameAcks, InsideAcked, QuietLoginKeeps DEF EndOfTurn, Runs, NextTurn, OutsidePlaces
<1>19. CASE Cancelled(t)
  BY <1>19, SameAcks, InsideAcked, QuietLoginKeeps
  DEF Cancelled, AtCancellationPoint, OutsidePlaces
<1>20. CASE Disconnect(t)
  BY <1>20 DEF Disconnect
<1>21. CASE SelectFails(t)
  BY <1>o, <1>21, SameAcks, QuietLoginKeeps DEF SelectFails, Interprets
<1>22. CASE NoMemory(t)
  BY <1>o, <1>22, SameAcks, InsideAcked, QuietLoginKeeps DEF NoMemory, Runs, OutsidePlaces
<1> QED
  BY <1>21, <1>22, <1>1, <1>2, <1>3, <1>4, <1>5, <1>6, <1>7, <1>8, <1>9, <1>10, <1>11, <1>12, <1>13,
     <1>14, <1>15, <1>16, <1>17, <1>18, <1>19, <1>20

\* The parts of LoginInv that a step which sends nothing, and leaves the
\* queues, the database and the table alone, disturbs for t only.
LEMMA ClientSendLogin ==
  ASSUME LoginInv, TypeInv, NEW t \in Threads, ClientSend(t)
  PROVE  LoginInv'
<1> USE DEF TypeInv, TypeOK, ClientTypes, blockVars, handVars, sharedVars, ClientSend
<1>1. Acked \subseteq Acked'
  BY SameAcks
<1>2. PICK p : p.conn = t /\ sock' = [sock EXCEPT ![t] = Append(sock[t], p)]
  <2>1. PICK r \in Requests[t] : sock' = [sock EXCEPT ![t] = Append(@,
              [type |-> r.type, sender |-> r.sender, receiver |-> r.receiver,
               msg |-> r.msg, conn |-> t, seq |-> sent[t] + 1])]
    OBVIOUS
  <2> DEFINE q == [type |-> r.type, sender |-> r.sender, receiver |-> r.receiver,
                   msg |-> r.msg, conn |-> t, seq |-> sent[t] + 1]
  <2>2. q.conn = t /\ sock' = [sock EXCEPT ![t] = Append(sock[t], q)]
    BY <2>1
  <2> QED
    BY <2>2
<1>3. ASSUME NEW u \in Threads, NEW i \in DOMAIN sock'[u] PROVE sock'[u][i].conn = u
  <2>1. CASE i \in DOMAIN sock[u] /\ sock'[u][i] = sock[u][i]
    BY <2>1 DEF LoginInv, OwnText, HasPacket
  <2>2. CASE u = t /\ sock'[u][i] = p
    BY <1>2, <2>2
  <2> QED
    BY <1>2, <1>3, <2>1, <2>2
<1>4. AllOpen' /\ OwnText'
  BY <1>3 DEF LoginInv, AllOpen, OwnText, HasPacket
<1>5. Outsiders'
  BY <1>1 DEF LoginInv, Outsiders, Outside
<1>6. ReachAcked' /\ FromAcked'
  BY <1>1 DEF LoginInv, ReachAcked, FromAcked, HasPacket
<1> QED
  BY <1>4, <1>5, <1>6 DEF LoginInv

LEMMA RecvPacketLogin ==
  ASSUME LoginInv, TypeInv, NEW t \in Threads, RecvPacket(t)
  PROVE  LoginInv'
<1> USE DEF TypeInv, TypeOK, ClientTypes, ThreadTypes, blockVars, sharedVars, RecvPacket, Goto
<1>1. PICK n \in 1..MaxBurst : /\ n <= Len(sock[t])
                               /\ sock' = [sock EXCEPT ![t] = SubSeq(@, n + 1, Len(@))]
  OBVIOUS
<1>2. ASSUME NEW i \in DOMAIN sock'[t] PROVE sock'[t][i].conn = t
  <2>1. n \in Nat \ {0} /\ Len(sock[t]) \in Nat
    BY ConnectionAssumption
  <2>2. i \in 1..(Len(sock[t]) - n) /\ sock'[t][i] = sock[t][n + i]
    BY <1>1, <1>2, <2>1, SubSeqProperties
  <2>3. n + i \in DOMAIN sock[t]
    BY <2>1, <2>2
  <2> QED
    BY <2>2, <2>3 DEF LoginInv, OwnText, HasPacket
<1>3. 1 \in DOMAIN sock[t] /\ Head(sock[t]) = sock[t][1]
  BY HeadTailProperties
<1>4. OwnText'
  BY <1>1, <1>2, <1>3 DEF LoginInv, OwnText, HasPacket
<1>5. AllOpen' /\ Outsiders'
  BY SameAcks DEF LoginInv, AllOpen, Outsiders, Outside, OutsidePlaces
<1>6. ReachAcked'
  BY SameAcks DEF LoginInv, ReachAcked
<1>7. FromAcked'
  BY SameAcks DEF LoginInv, FromAcked, HasPacket
<1> QED
  BY <1>4, <1>5, <1>6, <1>7 DEF LoginInv

\* The ACK goes out before the client can be found in the table by anybody.
LEMMA LogInLogin ==
  ASSUME ~SendMayFail, LoginInv, TypeInv, NEW t \in Threads, LogIn(t)
  PROVE  LoginInv'
<1> USE DEF TypeInv, TypeOK, ThreadTypes, BlockTypes, SharedTypes
<1>1. <<Reply(t, "ACK", userid[t])>> \in Seq(Packet)
  BY ReplySeq DEF Types, LogIn, HandsFull
<1>2. Acked \subseteq Acked' /\ t \in Acked'
  <2>1. 1 \in DOMAIN <<Reply(t, "ACK", userid[t])>>
    OBVIOUS
  <2>2. <<Reply(t, "ACK", userid[t])>>[1].type = "ACK"
    BY DEF Reply
  <2> QED
    BY <1>1, <2>1, <2>2, SendGrows DEF LogIn, LoginInv
<1>3. /\ UNCHANGED <<connected, sock, in_queue, src, messages>>
      /\ \A u \in Threads : u # t =>
            /\ pc'[u] = pc[u] /\ pk'[u] = pk[u] /\ pckt'[u] = pckt[u] /\ node'[u] = node[u]
            /\ user_auth'[u] = user_auth[u]
      /\ pc'[t] \in {"queue", "end"}
      /\ addrs' = addrs \cup {<<userid[t], t>>}
  BY DEF LogIn, Return, Goto
<1>4. AllOpen' /\ OwnText'
  <2>1. \A u \in Threads : HasPacket(u)' => HasPacket(u) /\ pk'[u] = pk[u]
    BY <1>3 DEF HasPacket
  <2>2. \A u \in Threads : src'[u] = "socket" /\ HasPacket(u)' => pk'[u].conn = u
    BY <1>3, <2>1 DEF LoginInv, OwnText, HasPacket
  <2> QED
    BY <1>3, <2>2 DEF LoginInv, AllOpen, OwnText, HasPacket
<1>5. Outsiders'
  <2>1. \A u \in Threads : u \notin Acked' => u \notin Acked /\ u # t
    BY <1>2
  <2> QED
    BY <1>3, <2>1 DEF LoginInv, Outsiders, Outside
<1>6. ReachAcked'
  <2>1. \A u \in Threads : pc'[u] = "route" => pc[u] = "route" /\ node'[u] = node[u]
    BY <1>3
  <2> QED
    BY <1>2, <1>3, <2>1 DEF LoginInv, ReachAcked
<1>7. FromAcked'
  <2>1. ASSUME NEW u \in Threads
        PROVE  /\ \A i \in DOMAIN in_queue'[u] : in_queue'[u][i].conn \in Acked'
               /\ src'[u] = "queue" /\ HasPacket(u)' => pk'[u].conn \in Acked'
               /\ pc'[u] = "route" => pckt'[u].conn \in Acked'
    BY <1>2, <1>3, <2>1 DEF LoginInv, FromAcked, HasPacket
  <2> QED
    BY <1>2, <1>3, <2>1 DEF LoginInv, FromAcked, HasPacket
<1> QED
  BY <1>4, <1>5, <1>6, <1>7 DEF LoginInv

\* The packet in the hand of a thread that interprets packets for a client
\* which is logged in is from a client with its ACK.
LEMMA HandFromAcked ==
  ASSUME LoginInv, TypeInv, NEW t \in Threads, t \in Acked, HasPacket(t)
  PROVE  pk[t].conn \in Acked
BY DEF TypeInv, TypeOK, ThreadTypes, LoginInv, OwnText, FromAcked

LEMMA ForwardLogin ==
  ASSUME LoginInv, TypeInv, NEW t \in Threads, NEW id, NEW p \in Packet,
         Forward(t, id, p), t \in Acked, p.conn \in Acked,
         UNCHANGED <<connected, sock, out, in_queue, user_auth, addrs, messages>>
  PROVE  LoginInv'
<1> USE DEF TypeInv, TypeOK, ThreadTypes, SharedTypes
<1>1. PICK n \in Registered(id) : node' = [node EXCEPT ![t] = n]
  BY DEF Forward
<1>2. n \in Threads /\ n \in Acked
  BY <1>1 DEF Registered, LoginInv, ReachAcked
<1>3. Acked' = Acked
  BY DEF Acked
<1>4. /\ pc' = [pc EXCEPT ![t] = "route"] /\ pckt' = [pckt EXCEPT ![t] = p]
      /\ UNCHANGED <<pk, src>>
  BY DEF Forward, Goto
<1>5. AllOpen' /\ OwnText'
  BY <1>4 DEF LoginInv, AllOpen, OwnText, HasPacket
<1>6. Outsiders'
  BY <1>3, <1>4 DEF LoginInv, Outsiders, Outside
<1>7. ReachAcked'
  BY <1>1, <1>2, <1>3, <1>4 DEF LoginInv, ReachAcked
<1>8. FromAcked'
  BY <1>3, <1>4 DEF LoginInv, FromAcked, HasPacket
<1> QED
  BY <1>5, <1>6, <1>7, <1>8 DEF LoginInv

LEMMA LookUpLogin ==
  ASSUME LoginInv, TypeInv, NEW t \in Threads,
         FindReceiver(t) \/ AnswerLocation(t) \/ AskLocation(t)
  PROVE  LoginInv'
<1> USE DEF TypeInv, TypeOK, ThreadTypes, clientVars, blockVars, handVars, sharedVars
<1>1. pc[t] = "interp" /\ pk[t] \in Packet /\ Authenticated(t)
  BY DEF HandsFull, FindReceiver, AnswerLocation, AskLocation, Interprets
<1>2. UNCHANGED <<connected, sock, out, in_queue, user_auth, addrs, messages>>
  BY DEF FindReceiver, AnswerLocation, AskLocation
<1>3. t \in Acked /\ pk[t].conn \in Acked
  BY <1>1, InsideAcked, HandFromAcked DEF HasPacket
<1>4. Acked \subseteq Acked'
  BY <1>2, SameAcks
<1>5. CASE Forward(t, pk[t].receiver, pk[t])
  BY <1>1, <1>2, <1>3, <1>5, ForwardLogin
<1>6. CASE Forward(t, pk[t].sender, AnswerTo(pk[t]))
  <2>1. AnswerTo(pk[t]) \in Packet /\ AnswerTo(pk[t]).conn = pk[t].conn
    BY <1>1, AnswerIsPacket DEF AnswerTo, Packet
  <2> QED
    BY <1>2, <1>3, <1>6, <2>1, ForwardLogin
<1>7. CASE Goto(t, "insert") /\ UNCHANGED handVars
  BY <1>1, <1>2, <1>3, <1>4, <1>7, QuietLoginKeeps DEF Goto, HasPacket
<1>8. CASE PrepareSend(t, Reply(t, "ACK", NoUser))
  BY <1>2, <1>3, <1>4, <1>8, QuietLoginKeeps DEF PrepareSend, Goto, HasPacket
<1>9. CASE Return(t)
  BY <1>2, <1>3, <1>4, <1>9, QuietLoginKeeps DEF Return, Goto, HasPacket
<1> QED
  BY <1>5, <1>6, <1>7, <1>8, <1>9 DEF FindReceiver, AnswerLocation, AskLocation

LEMMA InsertMessageLogin ==
  ASSUME LoginInv, TypeInv, NEW t \in Threads, InsertMessage(t)
  PROVE  LoginInv'
<1> USE DEF TypeInv, TypeOK, ThreadTypes, SharedTypes, clientVars, blockVars
<1>1. pc[t] = "insert" /\ HasPacket(t)
  BY DEF InsertMessage, Runs, HasPacket
<1>2. t \in Acked /\ pk[t].conn \in Acked
  BY <1>1, InsideAcked, HandFromAcked DEF OutsidePlaces
<1>3. /\ UNCHANGED <<connected, sock, out, in_queue, user_auth, src, addrs>>
      /\ \A u \in Threads : u # t =>
            pc'[u] = pc[u] /\ pk'[u] = pk[u] /\ pckt'[u] = pckt[u] /\ node'[u] = node[u]
      /\ pc'[t] \in {"queue", "end"}
      /\ messages' \in {messages \cup {pk[t]}, messages}
  BY DEF InsertMessage, Return, Goto
<1>4. Acked' = Acked
  BY <1>3 DEF Acked
<1>5. AllOpen' /\ OwnText'
  BY <1>3 DEF LoginInv, AllOpen, OwnText, HasPacket
<1>6. Outsiders'
  BY <1>2, <1>3, <1>4 DEF LoginInv, Outsiders, Outside
<1>7. ReachAcked'
  BY <1>3, <1>4 DEF LoginInv, ReachAcked
<1>8. FromAcked'
  <2>1. \A p \in messages' : p.conn \in Acked
    BY <1>2, <1>3 DEF LoginInv, FromAcked
  <2>2. \A u \in Threads : HasPacket(u)' => HasPacket(u) /\ pk'[u] = pk[u]
    BY <1>3 DEF HasPacket
  <2> QED
    BY <1>3, <1>4, <2>1, <2>2 DEF LoginInv, FromAcked
<1> QED
  BY <1>5, <1>6, <1>7, <1>8 DEF LoginInv

LEMMA DeliverLogin ==
  ASSUME LoginInv, TypeInv, NEW t \in Threads, Deliver(t), strays' = {}
  PROVE  LoginInv'
<1> USE DEF TypeInv, TypeOK, ThreadTypes, BlockTypes, SharedTypes, clientVars
<1>1. pc[t] = "route" /\ node[t] \in Threads
  BY DEF Deliver, Runs, HandsFull
<1>2. t \in Acked /\ node[t] \in Acked /\ pckt[t].conn \in Acked
  BY <1>1, InsideAcked DEF OutsidePlaces, LoginInv, ReachAcked, FromAcked
<1>3. /\ UNCHANGED <<connected, sock, out, user_auth, src, addrs, messages>>
      /\ \A u \in Threads : u # t =>
            pc'[u] = pc[u] /\ pk'[u] = pk[u] /\ pckt'[u] = pckt[u] /\ node'[u] = node[u]
      /\ pc'[t] \in {"trace", "queue", "end"}
  BY DEF Deliver, Return, Goto, handVars
<1>4. Acked' = Acked
  BY <1>3 DEF Acked
<1>5. ASSUME NEW u \in Threads, NEW i \in DOMAIN in_queue'[u]
      PROVE  in_queue'[u][i].conn \in Acked
  <2>1. CASE in_queue' = [in_queue EXCEPT ![node[t]] = Append(@, pckt[t])]
    <3>1. \/ i \in DOMAIN in_queue[u] /\ in_queue'[u][i] = in_queue[u][i]
          \/ in_queue'[u][i] = pckt[t]
      BY <1>1, <1>5, <2>1
    <3> QED
      BY <1>2, <3>1 DEF LoginInv, FromAcked
  <2>2. CASE UNCHANGED in_queue
    BY <1>5, <2>2 DEF LoginInv, FromAcked
  <2> QED
    BY <2>1, <2>2, DeliverAstray
<1>6. \A u \in Threads : in_queue'[u] # in_queue[u] => u \in Acked
  BY <1>1, <1>2, DeliverAstray
<1>7. AllOpen' /\ OwnText'
  <2>1. \A u \in Threads : HasPacket(u)' => HasPacket(u) /\ pk'[u] = pk[u]
    BY <1>3 DEF HasPacket
  <2> QED
    BY <1>3, <2>1 DEF LoginInv, AllOpen, OwnText
<1>8. Outsiders'
  BY <1>2, <1>3, <1>4, <1>6 DEF LoginInv, Outsiders, Outside
<1>9. ReachAcked'
  BY <1>3, <1>4 DEF LoginInv, ReachAcked
<1>10. FromAcked'
  <2>1. \A u \in Threads : HasPacket(u)' => HasPacket(u) /\ pk'[u] = pk[u]
    BY <1>3 DEF HasPacket
  <2> QED
    BY <1>3, <1>4, <1>5, <2>1 DEF LoginInv, FromAcked
<1> QED
  BY <1>7, <1>8, <1>9, <1>10 DEF LoginInv

LEMMA DequeueLogin ==
  ASSUME LoginInv, TypeInv, NEW t \in Threads, Dequeue(t)
  PROVE  LoginInv'
<1> USE DEF TypeInv, TypeOK, ThreadTypes, BlockTypes, SharedTypes, clientVars, sharedVars,
            Dequeue, Rest, Goto
<1>1. 1 \in DOMAIN in_queue[t] /\ Head(in_queue[t]) = in_queue[t][1]
  BY HeadTailProperties
<1>2. ASSUME NEW i \in DOMAIN in_queue'[t]
      PROVE  i + 1 \in DOMAIN in_queue[t] /\ in_queue'[t][i] = in_queue[t][i + 1]
  BY <1>2, HeadTailProperties
<1>3. t \in Acked /\ Acked' = Acked
  BY InsideAcked DEF Acked
<1>4. AllOpen' /\ OwnText'
  BY DEF LoginInv, AllOpen, OwnText, HasPacket
<1>5. Outsiders'
  BY <1>3 DEF LoginInv, Outsiders, Outside
<1>6. ReachAcked'
  BY <1>3 DEF LoginInv, ReachAcked
<1>7. FromAcked'
  BY <1>1, <1>2, <1>3 DEF LoginInv, FromAcked, HasPacket
<1> QED
  BY <1>4, <1>5, <1>6, <1>7 DEF LoginInv

LEMMA ExitLogin ==
  ASSUME LoginInv, TypeInv, NEW t \in Threads, Cleanup(t) \/ DestroyBlock(t)
  PROVE  LoginInv'
<1> USE DEF TypeInv, TypeOK, ThreadTypes, ClientTypes, BlockTypes, SharedTypes,
            clientVars, handVars, Goto
<1>1. /\ UNCHANGED <<connected, out, src, pk, pckt, node, messages>> /\ addrs' \subseteq addrs
      /\ \A u \in Threads : sock'[u] \in {sock[u], <<>>} /\ in_queue'[u] \in {in_queue[u], <<>>}
      /\ \A u \in Threads : u # t => pc'[u] = pc[u] /\ user_auth'[u] = user_auth[u]
      /\ pc'[t] \in {"drain", "freed"} /\ user_auth'[t] \in {user_auth[t], "USER_TO_EXIT"}
  BY DEF Cleanup, DestroyBlock, Removal
<1>2. Acked' = Acked
  BY <1>1 DEF Acked
<1>3. ASSUME NEW u \in Threads
      PROVE  /\ \A i \in DOMAIN sock'[u] : sock'[u][i].conn = u
             /\ \A i \in DOMAIN in_queue'[u] : in_queue'[u][i].conn \in Acked
  <2>1. \A i \in DOMAIN sock'[u] : sock'[u] = sock[u]
    BY <1>1, <1>3
  <2>2. \A i \in DOMAIN in_queue'[u] : in_queue'[u] = in_queue[u]
    BY <1>1, <1>3
  <2> QED
    BY <2>1, <2>2 DEF LoginInv, OwnText, FromAcked
<1>4. \A u \in Threads : HasPacket(u)' => HasPacket(u)
  BY <1>1 DEF HasPacket
<1>5. AllOpen' /\ OwnText'
  BY <1>1, <1>3, <1>4 DEF LoginInv, AllOpen, OwnText
<1>6. Outsiders'
  <2>1. \A u \in Threads : in_queue[u] = <<>> => in_queue'[u] = <<>>
    BY <1>1
  <2> QED
    BY <1>1, <1>2, <2>1 DEF LoginInv, Outsiders, Outside, OutsidePlaces
<1>7. ReachAcked'
  BY <1>1, <1>2 DEF LoginInv, ReachAcked
<1>8. FromAcked'
  BY <1>1, <1>2, <1>3, <1>4 DEF LoginInv, FromAcked
<1> QED
  BY <1>5, <1>6, <1>7, <1>8 DEF LoginInv

LEMMA NextLogin ==
  ASSUME ~SendMayFail, ~MayDisconnect, LoginInv, TypeInv, [Next]_vars, strays' = {}
  PROVE  LoginInv'
<1>1. CASE UNCHANGED vars
  BY <1>1 DEF LoginInv, AllOpen, OwnText, HasPacket, Outsiders, Outside, ReachAcked,
      FromAcked, Acked, vars, clientVars, blockVars, handVars, sharedVars
<1>2. ASSUME NEW t \in Threads, Step(t) PROVE LoginInv'
  BY <1>2, QuietLogin, RecvPacketLogin, LogInLogin, LookUpLogin, InsertMessageLogin,
     DeliverLogin, DequeueLogin, ExitLogin DEF Step, Interpret
<1>3. ASSUME NEW t \in Threads, Environment(t) PROVE LoginInv'
  BY <1>3, QuietLogin, ClientSendLogin DEF Environment
<1> QED
  BY <1>1, <1>2, <1>3 DEF Next, Stopped

LEMMA InitLogin == ASSUME Init PROVE LoginInv
BY DEF Init, LoginInv, AllOpen, OwnText, HasPacket, Outsiders, Outside, OutsidePlaces,
       ReachAcked, FromAcked

\* What a connection has put in a queue or in the database it sent after the
\* server acknowledged its login, whatever it sends and in whatever order:
\* NOT_YET_AUTHENTICATED_EXIT only marks the thread and returns, and a
\* refused login leaves a block that counts as authenticated, but nothing of
\* either reaches another user.  Stated where an ACK that is sent arrives,
\* and as long as no packet went astray.
THEOREM EffectsNeedLoginAlways ==
  ASSUME ~SendMayFail, ~MayDisconnect PROVE Spec => [](strays = {} => EffectsNeedLogin)
<1> DEFINE Inv == TypeInv /\ (strays = {} => LoginInv)
<1>1. Init => Inv
  BY InitType, InitLogin
<1>2. Inv /\ [Next]_vars => Inv'
  <2> SUFFICES ASSUME Inv, [Next]_vars, strays' = {} PROVE LoginInv'
    BY NextType
  <2>1. strays = {}
    BY StraysGrow
  <2> QED
    BY <2>1, NextLogin
<1>3. Inv => (strays = {} => EffectsNeedLogin)
  <2>1. SUFFICES ASSUME LoginInv,
                        NEW p \in messages \cup UNION {Queued(t) : t \in Threads}
                 PROVE  p.conn \in Acked
    BY DEF EffectsNeedLogin, Acked
  <2>2. CASE p \in messages
    BY <2>1, <2>2 DEF LoginInv, FromAcked
  <2>3. ASSUME NEW t \in Threads, p \in Queued(t) PROVE p.conn \in Acked
    BY <2>1, <2>3 DEF LoginInv, FromAcked, Queued
  <2> QED
    BY <2>1, <2>2, <2>3
<1> HIDE DEF Inv
<1> QED
  BY <1>1, <1>2, <1>3, PTL DEF Spec
=============================================================================
