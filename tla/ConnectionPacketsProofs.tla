----------------------- MODULE ConnectionPacketsProofs -----------------------
(***************************************************************************)
(* Theorems about ConnectionHandler: what becomes of a packet.             *)
(*                                                                         *)
(* OnePlaceAlways: a packet is in one queue, once, or in the database, or  *)
(* freed.  The invariant PacketInv follows a packet, named by its          *)
(* connection and its number on it, from the socket through the hand of a  *)
(* thread to a queue and to the hand of the receiving thread: in all these *)
(* places together there is at most one packet of a name, and none of the  *)
(* packets that have been used up has that name, except that the answer to *)
(* a GET_GEO has the name of the request it answers.  FromQueue says that  *)
(* a packet from a queue is for the user who is served by the thread that  *)
(* took it, so that it is not put in a queue or in the database again; it  *)
(* rests on MailInv.                                                       *)
(*                                                                         *)
(* NoMemoryFaultAlways: the memory of a packet is not touched after it has *)
(* been freed.  SpentInv says that the packet a thread has used and will   *)
(* destroy is not freed, and is nobody else's; StrangersInv that the       *)
(* thread of a client which has not logged in cannot be reached.           *)
(*                                                                         *)
(* All of it holds until a packet goes astray (strays): the block of the   *)
(* receiver was freed after the look-up, and its memory is another's.      *)
(***************************************************************************)
EXTENDS ConnectionLoginProofs

SameName(p, q) == p.conn = q.conn /\ p.seq = q.seq

\* The thread has a packet in its hand that it may still put somewhere.
Holds(t) == fault = "none" /\ pc[t] \in {"deq", "interp", "route"}
Held(t)  == IF pc[t] = "route" THEN pckt[t] ELSE pk[t]

\* The thread has done with pk[t] what it does, or is about to write it to
\* the database, and will destroy it.
Spent(t) ==
    \/ pc[t] \in {"insert", "update", "end"}
    \/ src[t] = "queue" /\ pc[t] \in {"route", "trace", "send"}

Used == destroyed \cup messages \cup {pk[t] : t \in {u \in Threads : Spent(u)}}

\* The packet is not one that is still in the socket, or to be sent.
Past(p) ==
    /\ p.seq <= sent[p.conn]
    /\ \A i \in DOMAIN sock[p.conn] : p.seq < sock[p.conn][i].seq

\* p is an answer, d the request it answers.
Answers(p, d) == p.type = "GEO" /\ d.type # "GEO"

SockOrder ==
    \A t \in Threads : \A i \in DOMAIN sock[t] :
        /\ sock[t][i].conn = t /\ sock[t][i].seq <= sent[t]
        /\ \A j \in DOMAIN sock[t] : i < j => sock[t][i].seq < sock[t][j].seq

AllPast ==
    /\ \A d \in Used : Past(d)
    /\ \A t \in Threads : Holds(t) => Past(Held(t))
    /\ \A t \in Threads : \A i \in DOMAIN in_queue[t] : Past(in_queue[t][i])

QueuesApart ==
    \A t, u \in Threads : \A i \in DOMAIN in_queue[t], j \in DOMAIN in_queue[u] :
        SameName(in_queue[t][i], in_queue[u][j]) => t = u /\ i = j

HandsApart ==
    \A t, u \in Threads : Holds(t) /\ Holds(u) /\ SameName(Held(t), Held(u)) => t = u

HandOrQueue ==
    \A t, u \in Threads : Holds(t) =>
        \A i \in DOMAIN in_queue[u] : ~SameName(Held(t), in_queue[u][i])

HandUnused ==
    \A t \in Threads : Holds(t) =>
        \A d \in Used : SameName(Held(t), d) => Answers(Held(t), d)

QueueUnused ==
    \A t \in Threads : \A i \in DOMAIN in_queue[t] :
        \A d \in Used : SameName(in_queue[t][i], d) => Answers(in_queue[t][i], d)

PacketInv == /\ SockOrder /\ AllPast
             /\ QueuesApart /\ HandsApart /\ HandOrQueue /\ HandUnused /\ QueueUnused

\* What goes through a queue, and who takes it out.
Mailed == {"MSG", "GEO", "GET_GEO"}

FromQueue ==
    \A t \in Threads :
        /\ \A i \in DOMAIN in_queue[t] : in_queue[t][i].type \in Mailed
        /\ pc[t] = "route" => pckt[t].type \in Mailed
        /\ src[t] = "queue" /\ pc[t] \in {"deq", "interp"}
            => pk[t].type \in Mailed /\ pk[t].receiver = userid[t]
        /\ pc[t] = "login" => src[t] = "socket"

-----------------------------------------------------------------------------
(* Lemmas about names and hands.                                           *)

LEMMA NameTypes ==
  ASSUME NEW p \in Packet
  PROVE  p.conn \in Threads /\ p.seq \in Nat
BY ConnectionAssumption DEF Packet

LEMMA HeldIsPacket ==
  ASSUME TypeInv, NEW t \in Threads, Holds(t)
  PROVE  Held(t) \in Packet
BY DEF TypeInv, HandsFull, Holds, Held

LEMMA SpentIsPacket ==
  ASSUME TypeInv, NEW t \in Threads, Spent(t)
  PROVE  pk[t] \in Packet
BY DEF TypeInv, HandsFull, Spent

LEMMA UsedArePackets == ASSUME TypeInv PROVE Used \subseteq Packet
BY SpentIsPacket DEF Used, TypeInv, TypeOK, SharedTypes

LEMMA SamePast ==
  ASSUME UNCHANGED <<sent, sock>>, NEW p, Past(p)
  PROVE  Past(p)'
BY DEF Past

\* The used packets after a step of t: those of before, what the step adds
\* to the database or frees, and what t has come to the end of.
LEMMA UsedAfter ==
  ASSUME NEW t \in Threads,
         \A u \in Threads : u # t => pc'[u] = pc[u] /\ pk'[u] = pk[u] /\ src'[u] = src[u],
         NEW S, destroyed' \cup messages' \subseteq destroyed \cup messages \cup S,
         Spent(t)' => pk'[t] \in S \/ (Spent(t) /\ pk'[t] = pk[t])
  PROVE  Used' \subseteq Used \cup S
<1>1. \A u \in Threads : u # t => (Spent(u)' <=> Spent(u))
  BY DEF Spent
<1> QED
  BY <1>1 DEF Used

\* A step that moves no packet but the one in the hand of t, which it may
\* use up, or turn into the answer to it.
LEMMA HandsKeep ==
  ASSUME PacketInv, TypeInv, NEW t \in Threads, UNCHANGED <<sock, sent, in_queue>>,
         \A u \in Threads : u # t /\ Holds(u)' => Holds(u) /\ Held(u)' = Held(u),
         Holds(t)' => /\ Holds(t) /\ SameName(Held(t)', Held(t))
                      /\ Held(t)' = Held(t) \/ Answers(Held(t)', Held(t)),
         \A d \in Used' : d \in Used \/ (Holds(t) /\ d = Held(t)),
         Holds(t)' /\ Held(t) \in Used' /\ Held(t) \notin Used => Answers(Held(t)', Held(t))
  PROVE  PacketInv'
<1> USE DEF TypeInv, TypeOK, ClientTypes, BlockTypes
<1>1. \A u \in Threads : Holds(u)' => Holds(u) /\ SameName(Held(u)', Held(u))
  BY DEF SameName
<1>2. SockOrder'
  BY DEF PacketInv, SockOrder
<1>3. AllPast'
  <2>2. \A d \in Used' : Past(d)'
    BY SamePast DEF PacketInv, AllPast
  <2>3. ASSUME NEW u \in Threads, Holds(u)' PROVE Past(Held(u))'
    BY <1>1, <2>3 DEF PacketInv, AllPast, SameName, Past
  <2>4. \A u \in Threads : \A i \in DOMAIN in_queue[u] : Past(in_queue[u][i])'
    BY SamePast DEF PacketInv, AllPast
  <2> QED
    BY <2>2, <2>3, <2>4 DEF AllPast, Past
<1>4. QueuesApart'
  BY DEF PacketInv, QueuesApart, SameName
<1>5. HandsApart'
  BY <1>1 DEF PacketInv, HandsApart, SameName
<1>6. HandOrQueue'
  BY <1>1 DEF PacketInv, HandOrQueue, SameName
<1>7. QueueUnused'
  BY DEF PacketInv, QueueUnused, HandOrQueue, SameName, Answers
<1>8. HandUnused'
  <2>1. SUFFICES ASSUME NEW u \in Threads, Holds(u)', NEW d \in Used',
                        SameName(Held(u)', d)
                 PROVE  Answers(Held(u)', d)
    BY DEF HandUnused, SameName, Answers
  <2>2. Holds(u) /\ SameName(Held(u), d)
    BY <1>1, <2>1 DEF SameName
  <2>3. CASE d \in Used
    <3>1. Answers(Held(u), d)
      BY <2>2, <2>3 DEF PacketInv, HandUnused
    <3>2. Held(u)' = Held(u) \/ Answers(Held(u)', Held(u))
      BY <2>1
    <3> QED
      BY <3>1, <3>2 DEF Answers
  <2>4. CASE d \notin Used /\ Holds(t) /\ d = Held(t)
    <3>1. u = t
      BY <2>2, <2>4 DEF PacketInv, HandsApart
    <3> QED
      BY <2>1, <2>4, <3>1
  <2> QED
    BY <2>1, <2>3, <2>4
<1> QED
  BY <1>2, <1>3, <1>4, <1>5, <1>6, <1>7, <1>8 DEF PacketInv

\* A step of t after which it has nothing in its hand: what it had is used
\* up, or lost.
LEMMA DropKeeps ==
  ASSUME PacketInv, TypeInv, fault = "none", NEW t \in Threads,
         UNCHANGED <<sock, sent, in_queue>>,
         \A u \in Threads : u # t =>
            pc'[u] = pc[u] /\ pk'[u] = pk[u] /\ src'[u] = src[u] /\ pckt'[u] = pckt[u],
         ~Holds(t)',
         \/ pc[t] \in {"deq", "interp"}
         \/ Spent(t)
         \/ destroyed' \cup messages' \subseteq destroyed \cup messages /\ ~Spent(t)',
         destroyed' \cup messages' \subseteq destroyed \cup messages \cup {pk[t]},
         Spent(t)' => pk'[t] = pk[t]
  PROVE  PacketInv'
<1>1. \A u \in Threads : u # t /\ Holds(u)' => Holds(u) /\ Held(u)' = Held(u)
  BY DEF Holds, Held
<1>2. \A d \in Used' : d \in Used \/ (Holds(t) /\ d = Held(t))
  <2>1. CASE destroyed' \cup messages' \subseteq destroyed \cup messages /\ ~Spent(t)'
    <3>1. Used' \subseteq Used \cup {}
      BY <2>1, UsedAfter
    <3> QED
      BY <3>1
  <2>2. CASE pc[t] \in {"deq", "interp"} \/ Spent(t)
    <3>1. Used' \subseteq Used \cup {pk[t]}
      BY UsedAfter
    <3>2. CASE pc[t] \in {"deq", "interp"}
      BY <3>1, <3>2 DEF Holds, Held
    <3>3. CASE Spent(t)
      BY <3>1, <3>3 DEF Used
    <3> QED
      BY <2>2, <3>2, <3>3
  <2> QED
    BY <2>1, <2>2
<1> QED
  BY <1>1, <1>2, HandsKeep

LEMMA DropPackets ==
  ASSUME PacketInv, TypeInv, FromQueue, fault = "none", NEW t \in Threads,
         \/ Accept(t) \/ RecvNothing(t) \/ AuthFind(t) \/ LogIn(t)
         \/ RefuseUnauthenticated(t) \/ Logout(t) \/ Ignore(t) \/ PassOn(t)
         \/ InsertMessage(t) \/ TraceAfterHandOver(t) \/ SelectMessages(t)
         \/ MarkReceived(t) \/ DestroyOnly(t) \/ OwnLocation(t) \/ IgnoreLocation(t)
         \/ SendPacket(t) \/ QueueEmpty(t) \/ EndOfTurn(t) \/ Cancelled(t)
         \/ SelectFails(t) \/ NoMemory(t)
  PROVE  PacketInv'
<1> USE DEF TypeInv, TypeOK, ClientTypes, ThreadTypes, BlockTypes, Goto, Holds, Spent,
            clientVars, blockVars, handVars, sharedVars
<1>1. CASE Accept(t)
  BY <1>1, DropKeeps DEF Accept
<1>2. CASE RecvNothing(t)
  BY <1>2, DropKeeps DEF RecvNothing
<1>3. CASE AuthFind(t)
  <2>1. CASE Return(t)
    BY <1>3, <2>1, DropKeeps DEF AuthFind, Interprets, Return
  <2>2. CASE Goto(t, "login") /\ UNCHANGED handVars
    BY <1>3, <2>2, DropKeeps DEF AuthFind, Interprets
  <2> QED
    BY <1>3, <2>1, <2>2 DEF AuthFind
<1>4. CASE LogIn(t)
  <2>1. src[t] = "socket"
    BY <1>4 DEF LogIn, FromQueue
  <2> QED
    BY <1>4, <2>1, DropKeeps DEF LogIn, Return
<1>5. CASE RefuseUnauthenticated(t)
  BY <1>5, DropKeeps DEF RefuseUnauthenticated, Interprets, Return
<1>6. CASE Logout(t)
  BY <1>6, DropKeeps DEF Logout, Interprets, Return
<1>7. CASE Ignore(t)
  BY <1>7, DropKeeps DEF Ignore, Interprets, Return
<1>8. CASE PassOn(t)
  BY <1>8, DropKeeps DEF PassOn, Interprets, PrepareSend
<1>9. CASE InsertMessage(t)
  BY <1>9, DropKeeps DEF InsertMessage, Runs, Return
<1>10. CASE TraceAfterHandOver(t)
  BY <1>10, DropKeeps DEF TraceAfterHandOver, Runs, Return
<1>11. CASE SelectMessages(t)
  BY <1>11, DropKeeps DEF SelectMessages, Interprets
<1>12. CASE MarkReceived(t)
  <2>1. messages' \subseteq messages
    BY <1>12 DEF MarkReceived, Marked
  <2> QED
    BY <1>12, <2>1, DropKeeps DEF MarkReceived, Return
<1>13. CASE DestroyOnly(t)
  BY <1>13, DropKeeps DEF DestroyOnly, Interprets, Return
<1>14. CASE OwnLocation(t)
  BY <1>14, DropKeeps DEF OwnLocation, Interprets, PrepareSend
<1>15. CASE IgnoreLocation(t)
  BY <1>15, DropKeeps DEF IgnoreLocation, Interprets, Return
<1>16. CASE SendPacket(t)
  BY <1>16, DropKeeps DEF SendPacket, Runs, Return
<1>17. CASE QueueEmpty(t)
  BY <1>17, DropKeeps DEF QueueEmpty, NextTurn
<1>18. CASE EndOfTurn(t)
  BY <1>18, DropKeeps DEF EndOfTurn, Runs, NextTurn
<1>19. CASE Cancelled(t)
  BY <1>19, DropKeeps DEF Cancelled
<1>20. CASE SelectFails(t)
  BY <1>20, DropKeeps DEF SelectFails, Interprets
<1>21. CASE NoMemory(t)
  BY <1>21, DropKeeps DEF NoMemory, Runs
<1> QED
  BY <1>20, <1>21, <1>1, <1>2, <1>3, <1>4, <1>5, <1>6, <1>7, <1>8, <1>9, <1>10, <1>11, <1>12, <1>13,
     <1>14, <1>15, <1>16, <1>17, <1>18, <1>19

\* The packet in the hand of t stays there, or goes to the hand with which t
\* is about to enqueue.
LEMMA CarryKeeps ==
  ASSUME PacketInv, TypeInv, fault = "none", NEW t \in Threads,
         UNCHANGED <<sock, sent, in_queue, src>>,
         \A u \in Threads : u # t =>
            pc'[u] = pc[u] /\ pk'[u] = pk[u] /\ pckt'[u] = pckt[u],
         pk'[t] = pk[t], pc[t] \in {"deq", "interp"},
         \/ pc'[t] \in {"deq", "interp"}
         \/ pc'[t] = "route" /\ pckt'[t] = pk[t] /\ src[t] = "socket",
         destroyed' = destroyed, messages' = messages
  PROVE  PacketInv'
<1>1. \A u \in Threads : u # t /\ Holds(u)' => Holds(u) /\ Held(u)' = Held(u)
  BY DEF Holds, Held
<1>2. Holds(t) /\ Held(t)' = Held(t)
  BY DEF Holds, Held
<1>3. Used' \subseteq Used \cup {}
  <2>1. ~Spent(t)'
    BY DEF Spent
  <2> QED
    BY <2>1, UsedAfter
<1> QED
  BY <1>1, <1>2, <1>3, HandsKeep DEF SameName

LEMMA CarryPackets ==
  ASSUME PacketInv, TypeInv, fault = "none", NEW t \in Threads,
         AuthQueryFails(t) \/ Unlock(t)
  PROVE  PacketInv'
<1> USE DEF TypeInv, TypeOK, ThreadTypes, Goto, clientVars, blockVars, handVars
<1>1. CASE AuthQueryFails(t)
  BY <1>1, CarryKeeps DEF AuthQueryFails, Interprets
<1>2. CASE Unlock(t)
  BY <1>2, CarryKeeps DEF Unlock, Runs
<1> QED
  BY <1>1, <1>2

\* The answer to a request takes the name of the request over.
LEMMA AnswerPackets ==
  ASSUME PacketInv, TypeInv, fault = "none", NEW t \in Threads,
         Interprets(t, {"GET_GEO"}), NEW id, Forward(t, id, AnswerTo(pk[t])),
         UNCHANGED <<clientVars, blockVars, cancel, sharedVars>>
  PROVE  PacketInv'
<1> USE DEF TypeInv, TypeOK, ThreadTypes, clientVars, blockVars, sharedVars
<1>1. pc[t] = "interp" /\ pk[t] \in Packet /\ pk[t].type = "GET_GEO"
  BY DEF Interprets, HandsFull
<1>2. /\ pc' = [pc EXCEPT ![t] = "route"] /\ pckt' = [pckt EXCEPT ![t] = AnswerTo(pk[t])]
      /\ UNCHANGED <<pk, src>>
  BY DEF Forward, Goto
<1>3. SameName(AnswerTo(pk[t]), pk[t]) /\ Answers(AnswerTo(pk[t]), pk[t])
  BY <1>1 DEF SameName, Answers, AnswerTo, Packet
<1>4. \A u \in Threads : u # t /\ Holds(u)' => Holds(u) /\ Held(u)' = Held(u)
  BY <1>2 DEF Holds, Held
<1>5. Holds(t) /\ Held(t) = pk[t] /\ Held(t)' = AnswerTo(pk[t])
  BY <1>1, <1>2 DEF Holds, Held
<1>6. Used' \subseteq Used \cup {pk[t]}
  BY <1>2, UsedAfter
<1> QED
  BY <1>3, <1>4, <1>5, <1>6, HandsKeep

LEMMA LookUpPackets ==
  ASSUME PacketInv, TypeInv, FromQueue, fault = "none", NEW t \in Threads,
         FindReceiver(t) \/ AnswerLocation(t) \/ AskLocation(t)
  PROVE  PacketInv'
<1> USE DEF TypeInv, TypeOK, ThreadTypes, clientVars, blockVars, handVars, sharedVars
<1>1. pc[t] = "interp" /\ pk[t] \in Packet
  BY DEF HandsFull, FindReceiver, AnswerLocation, AskLocation, Interprets
<1>2. CASE AnswerLocation(t) /\ Forward(t, pk[t].sender, AnswerTo(pk[t]))
  BY <1>2, AnswerPackets DEF AnswerLocation
<1>3. CASE /\ Forward(t, pk[t].receiver, pk[t]) /\ pk[t].receiver # userid[t]
           /\ UNCHANGED <<sock, sent, in_queue, destroyed, messages>>
  <2>1. src[t] = "socket"
    BY <1>1, <1>3 DEF FromQueue
  <2> QED
    BY <1>1, <1>3, <2>1, CarryKeeps DEF Forward, Goto
<1>4. CASE /\ Goto(t, "insert") /\ UNCHANGED handVars
           /\ UNCHANGED <<sock, sent, in_queue, destroyed, messages>>
  BY <1>1, <1>4, DropKeeps DEF Goto, Holds, Spent
<1>5. CASE /\ PrepareSend(t, Reply(t, "ACK", NoUser))
           /\ destroyed' \in {destroyed, destroyed \cup {pk[t]}}
           /\ UNCHANGED <<sock, sent, in_queue, messages>>
  BY <1>1, <1>5, DropKeeps DEF PrepareSend, Goto, Holds, Spent
<1>6. CASE Return(t) /\ UNCHANGED <<sock, sent, in_queue, destroyed, messages>>
  BY <1>1, <1>6, DropKeeps DEF Return, Goto, Holds, Spent
<1> QED
  BY <1>2, <1>3, <1>4, <1>5, <1>6 DEF FindReceiver, AnswerLocation, AskLocation

-----------------------------------------------------------------------------
(* The steps that move packets between the socket, the hands and the       *)
(* queues.                                                                 *)

\* A step that changes the sockets, and neither queues nor what is used.
LEMMA SocketKeeps ==
  ASSUME PacketInv, TypeInv, UNCHANGED in_queue, Used' \subseteq Used,
         \A u \in Threads : Holds(u)' => Holds(u) /\ Held(u)' = Held(u),
         \A p \in Packet : Past(p) => Past(p)', SockOrder'
  PROVE  PacketInv'
<1> USE DEF TypeInv, TypeOK, BlockTypes
<1>1. AllPast'
  <2>1. \A d \in Used' : Past(d)'
    BY UsedArePackets DEF PacketInv, AllPast
  <2>2. ASSUME NEW u \in Threads, Holds(u)' PROVE Past(Held(u))'
    <3>1. Held(u) \in Packet /\ Past(Held(u)) /\ Held(u)' = Held(u)
      BY <2>2, HeldIsPacket DEF PacketInv, AllPast
    <3> DEFINE h == Held(u)
    <3>2. PICK q \in Packet : q = Held(u) /\ Past(q)
      BY <3>1
    <3>3. Past(q)' /\ Held(u)' = q
      BY <3>1, <3>2
    <3> QED
      BY <3>3 DEF Past
  <2>3. ASSUME NEW u \in Threads, NEW i \in DOMAIN in_queue[u]
        PROVE  Past(in_queue[u][i])'
    <3>1. PICK q \in Packet : q = in_queue[u][i]
      BY ElementOfSeq
    <3>2. Past(q)' /\ in_queue'[u][i] = q
      BY <3>1 DEF PacketInv, AllPast
    <3> QED
      BY <3>2 DEF Past
  <2> QED
    BY <2>1, <2>2, <2>3 DEF AllPast, Past
<1>2. QueuesApart'
  BY DEF PacketInv, QueuesApart, SameName
<1>3. HandsApart' /\ HandOrQueue'
  BY DEF PacketInv, HandsApart, HandOrQueue, SameName
<1>4. HandUnused' /\ QueueUnused'
  BY DEF PacketInv, HandUnused, QueueUnused, SameName, Answers
<1> QED
  BY <1>1, <1>2, <1>3, <1>4 DEF PacketInv

\* The packet that the client sends, and what is in the sockets then.
LEMMA ClientSendSocks ==
  ASSUME TypeInv, NEW t \in Threads, ClientSend(t)
  PROVE  \E p : /\ p.conn = t /\ p.seq = sent[t] + 1
                /\ sock' = [sock EXCEPT ![t] = Append(sock[t], p)]
                /\ \A u \in Threads : \A i \in DOMAIN sock'[u] :
                      \/ i \in DOMAIN sock[u] /\ sock'[u][i] = sock[u][i]
                      \/ u = t /\ i = Len(sock[t]) + 1 /\ sock'[u][i] = p
<1> USE DEF TypeInv, TypeOK, ClientTypes, ClientSend
<1>1. PICK p : p.conn = t /\ p.seq = sent[t] + 1
               /\ sock' = [sock EXCEPT ![t] = Append(sock[t], p)]
  <2>1. PICK r \in Requests[t] : sock' = [sock EXCEPT ![t] = Append(@,
              [type |-> r.type, sender |-> r.sender, receiver |-> r.receiver,
               msg |-> r.msg, conn |-> t, seq |-> sent[t] + 1])]
    OBVIOUS
  <2> DEFINE q == [type |-> r.type, sender |-> r.sender, receiver |-> r.receiver,
                   msg |-> r.msg, conn |-> t, seq |-> sent[t] + 1]
  <2>2. /\ q.conn = t /\ q.seq = sent[t] + 1
        /\ sock' = [sock EXCEPT ![t] = Append(sock[t], q)]
    BY <2>1
  <2> QED
    BY <2>2
<1>2. ASSUME NEW u \in Threads, NEW i \in DOMAIN sock'[u]
      PROVE  \/ i \in DOMAIN sock[u] /\ sock'[u][i] = sock[u][i]
             \/ u = t /\ i = Len(sock[t]) + 1 /\ sock'[u][i] = p
  BY <1>1, <1>2
<1> QED
  BY <1>1, <1>2

LEMMA ClientSendPast ==
  ASSUME TypeInv, NEW t \in Threads, ClientSend(t), NEW q \in Packet, Past(q)
  PROVE  Past(q)'
<1> USE DEF TypeInv, TypeOK, ClientTypes, ClientSend
<1>1. PICK p : /\ p.conn = t /\ p.seq = sent[t] + 1
               /\ sock' = [sock EXCEPT ![t] = Append(sock[t], p)]
               /\ \A u \in Threads : \A i \in DOMAIN sock'[u] :
                     \/ i \in DOMAIN sock[u] /\ sock'[u][i] = sock[u][i]
                     \/ u = t /\ i = Len(sock[t]) + 1 /\ sock'[u][i] = p
  BY ClientSendSocks
<1>2. sent[t] \in Nat /\ sent' = [sent EXCEPT ![t] = sent[t] + 1]
  BY ConnectionAssumption
<1>3. q.conn \in Threads /\ q.seq \in Nat /\ sent[q.conn] \in Nat
  BY NameTypes, ConnectionAssumption
<1>4. q.seq <= sent'[q.conn]
  BY <1>2, <1>3 DEF Past
<1>5. ASSUME NEW i \in DOMAIN sock'[q.conn] PROVE q.seq < sock'[q.conn][i].seq
  BY <1>1, <1>2, <1>3, <1>5 DEF Past
<1> QED
  BY <1>4, <1>5 DEF Past

LEMMA ClientSendPackets ==
  ASSUME PacketInv, TypeInv, NEW t \in Threads, ClientSend(t)
  PROVE  PacketInv'
<1> USE DEF TypeInv, TypeOK, ClientTypes, blockVars, handVars, sharedVars, ClientSend
<1>1. PICK p : /\ p.conn = t /\ p.seq = sent[t] + 1
               /\ sock' = [sock EXCEPT ![t] = Append(sock[t], p)]
               /\ \A u \in Threads : \A i \in DOMAIN sock'[u] :
                     \/ i \in DOMAIN sock[u] /\ sock'[u][i] = sock[u][i]
                     \/ u = t /\ i = Len(sock[t]) + 1 /\ sock'[u][i] = p
  BY ClientSendSocks
<1>2. sent[t] \in Nat /\ sent' = [sent EXCEPT ![t] = sent[t] + 1]
  BY ConnectionAssumption
<1>3. Used' \subseteq Used
  BY DEF Used, Spent
<1>4. \A u \in Threads : Holds(u)' => Holds(u) /\ Held(u)' = Held(u)
  BY DEF Holds, Held
<1>6. \A q \in Packet : Past(q) => Past(q)'
  BY ClientSendPast
<1>7. SockOrder'
  <2>1. SUFFICES ASSUME NEW u \in Threads, NEW i \in DOMAIN sock'[u]
                 PROVE  /\ sock'[u][i].conn = u /\ sock'[u][i].seq <= sent'[u]
                        /\ \A j \in DOMAIN sock'[u] : i < j => sock'[u][i].seq < sock'[u][j].seq
    BY DEF SockOrder
  <2>2. CASE u # t
    BY <1>1, <1>2, <2>1, <2>2 DEF PacketInv, SockOrder
  <2>3. CASE u = t
    <3>1. Len(sock[t]) \in Nat /\ DOMAIN sock[t] = 1..Len(sock[t])
      BY DEF Packet
    <3>2. \A k \in DOMAIN sock[t] : sock[t][k] \in Packet /\ sock[t][k].seq \in Nat
      BY ElementOfSeq, NameTypes
    <3>3. \A k \in DOMAIN sock[t] : sock[t][k].seq < p.seq
      BY <1>1, <1>2, <3>2 DEF PacketInv, SockOrder
    <3>4. \A j \in DOMAIN sock'[t] :
              \/ j \in DOMAIN sock[t] /\ sock'[t][j] = sock[t][j]
              \/ j = Len(sock[t]) + 1 /\ sock'[t][j] = p
      BY <1>1
    <3>5. CASE i \in DOMAIN sock[t] /\ sock'[t][i] = sock[t][i]
      <4>1. sock[t][i].conn = t /\ sock[t][i].seq <= sent[t]
        BY <3>5 DEF PacketInv, SockOrder
      <4>2. sock[t][i].seq <= sent'[t]
        BY <1>2, <3>2, <3>5, <4>1
      <4>3. \A j \in DOMAIN sock[t] : i < j => sock[t][i].seq < sock[t][j].seq
        BY <3>5 DEF PacketInv, SockOrder
      <4> QED
        BY <2>3, <3>3, <3>4, <3>5, <4>1, <4>2, <4>3
    <3>6. CASE i = Len(sock[t]) + 1 /\ sock'[t][i] = p
      BY <1>1, <1>2, <2>3, <3>1, <3>4, <3>6
    <3> QED
      BY <2>1, <2>3, <3>4, <3>5, <3>6
  <2> QED
    BY <2>2, <2>3
<1> QED
  BY <1>3, <1>4, <1>6, <1>7, SocketKeeps

LEMMA CleanupPast ==
  ASSUME TypeInv, NEW t \in Threads, Cleanup(t), NEW q \in Packet, Past(q)
  PROVE  Past(q)'
<1>1. \A u \in Threads : \A i \in DOMAIN sock'[u] : sock'[u] = sock[u]
  BY DEF TypeInv, TypeOK, ClientTypes, Cleanup
<1> QED
  BY <1>1, NameTypes DEF Past, Cleanup

LEMMA CleanupPackets ==
  ASSUME PacketInv, TypeInv, NEW t \in Threads, Cleanup(t)
  PROVE  PacketInv'
<1> USE DEF TypeInv, TypeOK, ClientTypes, ThreadTypes, handVars, Cleanup, Goto
<1>1. Used' \subseteq Used
  BY DEF Used, Spent
<1>2. \A u \in Threads : Holds(u)' => Holds(u) /\ Held(u)' = Held(u)
  BY DEF Holds, Held
<1>3. \A u \in Threads : \A i \in DOMAIN sock'[u] : u # t /\ sock'[u] = sock[u]
  OBVIOUS
<1>4. \A q \in Packet : Past(q) => Past(q)'
  BY CleanupPast
<1>5. SockOrder'
  BY <1>3 DEF PacketInv, SockOrder
<1> QED
  BY <1>1, <1>2, <1>4, <1>5, SocketKeeps

LEMMA DisconnectPackets ==
  ASSUME PacketInv, TypeInv, NEW t \in Threads, Disconnect(t)
  PROVE  PacketInv'
<1> USE DEF blockVars, handVars, sharedVars, Disconnect
<1>1. Used' \subseteq Used
  BY DEF Used, Spent
<1>2. \A u \in Threads : Holds(u)' => Holds(u) /\ Held(u)' = Held(u)
  BY DEF Holds, Held
<1>3. (\A q \in Packet : Past(q) => Past(q)') /\ SockOrder'
  BY DEF Past, PacketInv, SockOrder
<1> QED
  BY <1>1, <1>2, <1>3, SocketKeeps

\* What recv leaves in the socket: a burst is gone, the packet read with it.
LEMMA RecvPacketSocks ==
  ASSUME TypeInv, NEW t \in Threads, RecvPacket(t)
  PROVE  /\ 1 \in DOMAIN sock[t] /\ Head(sock[t]) = sock[t][1] /\ sock[t][1] \in Packet
         /\ \A u \in Threads : u # t => sock'[u] = sock[u]
         /\ \E n \in Nat :
               /\ \A i \in DOMAIN sock'[t] :
                     n + i \in DOMAIN sock[t] /\ n + i > 1 /\ sock'[t][i] = sock[t][n + i]
               /\ \A i, j \in DOMAIN sock'[t] : i < j => n + i < n + j
<1> USE DEF TypeInv, TypeOK, ClientTypes, RecvPacket
<1>1. PICK n \in 1..MaxBurst : /\ n <= Len(sock[t])
                               /\ sock' = [sock EXCEPT ![t] = SubSeq(@, n + 1, Len(@))]
  OBVIOUS
<1>2. 1 \in DOMAIN sock[t] /\ Head(sock[t]) = sock[t][1] /\ sock[t][1] \in Packet
  BY HeadTailProperties
<1>3. n \in Nat \ {0} /\ Len(sock[t]) \in Nat
  BY ConnectionAssumption
<1>4. ASSUME NEW i \in DOMAIN sock'[t]
      PROVE  n + i \in DOMAIN sock[t] /\ n + i > 1 /\ sock'[t][i] = sock[t][n + i]
  <2>1. i \in 1..(Len(sock[t]) - n) /\ sock'[t][i] = sock[t][n + i]
    BY <1>1, <1>3, <1>4, SubSeqProperties
  <2> QED
    BY <1>3, <2>1
<1>5. \A i, j \in DOMAIN sock'[t] : i < j => n + i < n + j
  BY <1>1, <1>3, SubSeqProperties
<1>6. \A u \in Threads : u # t => sock'[u] = sock[u]
  BY <1>1
<1> QED
  BY <1>2, <1>3, <1>4, <1>5, <1>6

\* The packet read has a name that nothing read before has.
LEMMA RecvPacketPast ==
  ASSUME PacketInv, TypeInv, NEW t \in Threads, RecvPacket(t), NEW h, h = Head(sock[t])
  PROVE  /\ h \in Packet /\ Past(h)'
         /\ \A q \in Packet :
               Past(q) => Past(q)' /\ ~SameName(q, h) /\ ~SameName(h, q)
<1> USE DEF TypeInv, TypeOK, ClientTypes, RecvPacket
<1>3. 1 \in DOMAIN sock[t] /\ h = sock[t][1] /\ h \in Packet
  BY RecvPacketSocks
<1>4. PICK n \in Nat : \A i \in DOMAIN sock'[t] :
          n + i \in DOMAIN sock[t] /\ n + i > 1 /\ sock'[t][i] = sock[t][n + i]
  BY RecvPacketSocks
<1>6. \A u \in Threads : u # t => sock'[u] = sock[u]
  BY RecvPacketSocks
<1>7. ASSUME NEW q \in Packet, Past(q) PROVE Past(q)' /\ ~SameName(q, h) /\ ~SameName(h, q)
  <2>1. q.conn \in Threads /\ q.seq \in Nat /\ h.seq \in Nat
    BY <1>3, NameTypes
  <2>2. Past(q)'
    <3>1. ASSUME NEW i \in DOMAIN sock'[q.conn] PROVE q.seq < sock'[q.conn][i].seq
      <4>1. CASE q.conn = t
        <5>1. i \in DOMAIN sock'[t] /\ sock'[q.conn][i] = sock'[t][i]
          BY <3>1, <4>1
        <5>2. n + i \in DOMAIN sock[t] /\ sock'[t][i] = sock[t][n + i]
          BY <1>4, <5>1
        <5>3. q.seq < sock[t][n + i].seq
          BY <1>7, <4>1, <5>2 DEF Past
        <5> QED
          BY <5>1, <5>2, <5>3
      <4>2. CASE q.conn # t
        BY <1>6, <1>7, <2>1, <3>1, <4>2 DEF Past
      <4> QED
        BY <4>1, <4>2
    <3> QED
      BY <1>7, <3>1 DEF Past
  <2>3. q.conn = t => q.seq < h.seq
    BY <1>3, <1>7 DEF Past
  <2>4. h.conn = t
    BY <1>3 DEF PacketInv, SockOrder
  <2> QED
    BY <2>1, <2>2, <2>3, <2>4 DEF SameName
<1>8. Past(h)'
  <2>1. h.conn = t /\ h.seq <= sent[t]
    BY <1>3 DEF PacketInv, SockOrder
  <2>2. \A i \in DOMAIN sock'[t] : h.seq < sock'[t][i].seq
    BY <1>3, <1>4 DEF PacketInv, SockOrder
  <2> QED
    BY <2>1, <2>2 DEF Past
<1> QED
  BY <1>3, <1>7, <1>8

LEMMA RecvPacketPackets ==
  ASSUME PacketInv, TypeInv, NEW t \in Threads, RecvPacket(t)
  PROVE  PacketInv'
<1> USE DEF TypeInv, TypeOK, ClientTypes, BlockTypes, ThreadTypes, blockVars, sharedVars,
            RecvPacket, Goto
<1>2. PICK h : h = Head(sock[t])
  OBVIOUS
<1>4. PICK n \in Nat :
          /\ \A i \in DOMAIN sock'[t] :
                n + i \in DOMAIN sock[t] /\ n + i > 1 /\ sock'[t][i] = sock[t][n + i]
          /\ \A i, j \in DOMAIN sock'[t] : i < j => n + i < n + j
  BY RecvPacketSocks
<1>6. \A u \in Threads : u # t => sock'[u] = sock[u]
  BY RecvPacketSocks
<1>7. /\ Past(h)'
      /\ \A q \in Packet : Past(q) => Past(q)' /\ ~SameName(q, h) /\ ~SameName(h, q)
  BY <1>2, RecvPacketPast
<1>8. SockOrder'
  <2>2. ASSUME NEW i \in DOMAIN sock'[t], NEW j \in DOMAIN sock'[t], i < j
        PROVE  sock'[t][i].seq < sock'[t][j].seq
    <3>1. /\ n + i \in DOMAIN sock[t] /\ sock'[t][i] = sock[t][n + i]
          /\ n + j \in DOMAIN sock[t] /\ sock'[t][j] = sock[t][n + j] /\ n + i < n + j
      BY <1>4, <2>2
    <3>2. \A a, b \in DOMAIN sock[t] : a < b => sock[t][a].seq < sock[t][b].seq
      BY DEF PacketInv, SockOrder
    <3> QED
      BY <3>1, <3>2
  <2>3. \A i \in DOMAIN sock'[t] : sock'[t][i].conn = t /\ sock'[t][i].seq <= sent[t]
    BY <1>4 DEF PacketInv, SockOrder
  <2> QED
    BY <1>6, <2>2, <2>3 DEF PacketInv, SockOrder
<1>9. Used' \subseteq Used
  BY DEF Used, Spent
<1>10. \A u \in Threads : u # t /\ Holds(u)' =>
          /\ Holds(u) /\ Held(u)' = Held(u)
          /\ Held(u) \in Packet /\ Past(Held(u))
  BY HeldIsPacket DEF Holds, Held, PacketInv, AllPast
<1>11. Held(t)' = h
  BY <1>2 DEF Held
<1>12. \A u \in Threads : \A i \in DOMAIN in_queue[u] :
          in_queue[u][i] \in Packet /\ Past(in_queue[u][i])
  BY ElementOfSeq DEF PacketInv, AllPast
<1>13. \A d \in Used' : d \in Packet /\ Past(d)
  BY <1>9, UsedArePackets DEF PacketInv, AllPast
<1>14. AllPast'
  <2>1. \A d \in Used' : Past(d)'
    BY <1>7, <1>13
  <2>2. ASSUME NEW u \in Threads, Holds(u)' PROVE Past(Held(u))'
    <3>1. CASE u = t
      BY <1>7, <1>11, <3>1 DEF Past
    <3>2. CASE u # t
      <4>1. PICK q \in Packet : q = Held(u) /\ Past(q)
        BY <1>10, <2>2, <3>2
      <4>2. Past(q)' /\ Held(u)' = q
        BY <1>7, <1>10, <2>2, <3>2, <4>1
      <4> QED
        BY <4>2 DEF Past
    <3> QED
      BY <3>1, <3>2
  <2>3. ASSUME NEW u \in Threads, NEW i \in DOMAIN in_queue[u] PROVE Past(in_queue[u][i])'
    <3>1. PICK q \in Packet : q = in_queue[u][i] /\ Past(q)
      BY <1>12
    <3>2. Past(q)' /\ in_queue'[u][i] = q
      BY <1>7, <3>1
    <3> QED
      BY <3>2 DEF Past
  <2> QED
    BY <2>1, <2>2, <2>3 DEF AllPast, Past
<1>15. QueuesApart' /\ QueueUnused'
  BY <1>9 DEF PacketInv, QueuesApart, QueueUnused, SameName, Answers
<1>16. HandsApart'
  <2>1. ASSUME NEW u \in Threads, NEW v \in Threads, Holds(u)', Holds(v)',
               SameName(Held(u)', Held(v)')
        PROVE  u = v
    BY <1>7, <1>10, <1>11, <2>1 DEF PacketInv, HandsApart
  <2> QED
    BY <2>1 DEF HandsApart, SameName
<1>17. HandOrQueue'
  <2>1. ASSUME NEW u \in Threads, NEW v \in Threads, Holds(u)', NEW i \in DOMAIN in_queue[v]
        PROVE  ~SameName(Held(u)', in_queue[v][i])
    <3>1. CASE u = t
      BY <1>7, <1>11, <1>12, <2>1, <3>1
    <3>2. CASE u # t
      BY <1>10, <2>1, <3>2 DEF PacketInv, HandOrQueue
    <3> QED
      BY <3>1, <3>2
  <2> QED
    BY <2>1 DEF HandOrQueue, SameName
<1>18. HandUnused'
  <2>1. ASSUME NEW u \in Threads, Holds(u)', NEW d \in Used', SameName(Held(u)', d)
        PROVE  Answers(Held(u)', d)
    <3>1. CASE u = t
      BY <1>7, <1>11, <1>13, <2>1, <3>1
    <3>2. CASE u # t
      BY <1>9, <1>10, <2>1, <3>2 DEF PacketInv, HandUnused
    <3> QED
      BY <3>1, <3>2
  <2> QED
    BY <2>1 DEF HandUnused, SameName, Answers
<1> QED
  BY <1>8, <1>14, <1>15, <1>16, <1>17, <1>18 DEF PacketInv

\* A step that changes the queues, moving packets between them and hands.
\* Every packet of a queue after the step was in a queue or a hand before it.
LEMMA DequeuePackets ==
  ASSUME PacketInv, TypeInv, fault = "none", NEW t \in Threads, Dequeue(t)
  PROVE  PacketInv'
<1> USE DEF TypeInv, TypeOK, BlockTypes, ThreadTypes, clientVars, sharedVars,
            Dequeue, Rest, Goto
<1>1. PICK h : h = Head(in_queue[t])
  OBVIOUS
<1>2. 1 \in DOMAIN in_queue[t] /\ h = in_queue[t][1]
  BY <1>1, HeadTailProperties
<1>3. ASSUME NEW i \in DOMAIN in_queue'[t]
      PROVE  /\ i \in Nat /\ i + 1 \in DOMAIN in_queue[t] /\ i + 1 # 1
             /\ in_queue'[t][i] = in_queue[t][i + 1]
  BY <1>3, HeadTailProperties
<1>4. \A u \in Threads : u # t => in_queue'[u] = in_queue[u]
  OBVIOUS
<1>5. Used' \subseteq Used
  BY DEF Used, Spent
<1>6. \A u \in Threads : u # t /\ Holds(u)' => Holds(u) /\ Held(u)' = Held(u)
  BY DEF Holds, Held
<1>7. Held(t)' = h
  BY <1>1 DEF Held
<1>8. SockOrder'
  BY DEF PacketInv, SockOrder
<1>9. AllPast'
  <2>1. \A d \in Used' : Past(d)'
    BY <1>5, SamePast DEF PacketInv, AllPast
  <2>2. \A u \in Threads : Holds(u)' => Past(Held(u))'
    BY <1>2, <1>6, <1>7 DEF PacketInv, AllPast, Past
  <2>3. ASSUME NEW u \in Threads, NEW i \in DOMAIN in_queue'[u]
        PROVE  Past(in_queue[u][i])'
    <3>1. PICK j \in DOMAIN in_queue[u] : in_queue'[u][i] = in_queue[u][j]
      BY <1>3, <1>4, <2>3
    <3>2. Past(in_queue[u][j])
      BY DEF PacketInv, AllPast
    <3> QED
      BY <3>1, <3>2 DEF Past
  <2> QED
    BY <2>1, <2>2, <2>3 DEF AllPast, Past
<1>10. QueuesApart'
  <2>1. ASSUME NEW u \in Threads, NEW v \in Threads,
               NEW i \in DOMAIN in_queue'[u], NEW j \in DOMAIN in_queue'[v],
               SameName(in_queue'[u][i], in_queue'[v][j])
        PROVE  u = v /\ i = j
    <3>1. CASE u = t /\ v = t
      <4>1. i + 1 = j + 1
        BY <1>3, <2>1, <3>1 DEF PacketInv, QueuesApart
      <4> QED
        BY <1>3, <3>1, <4>1
    <3>2. CASE u # t /\ v # t
      BY <1>4, <2>1, <3>2 DEF PacketInv, QueuesApart
    <3>3. CASE u = t /\ v # t
      BY <1>3, <1>4, <2>1, <3>3 DEF PacketInv, QueuesApart
    <3>4. CASE u # t /\ v = t
      BY <1>3, <1>4, <2>1, <3>4 DEF PacketInv, QueuesApart
    <3> QED
      BY <3>1, <3>2, <3>3, <3>4
  <2> QED
    BY <2>1 DEF QueuesApart, SameName
<1>11. HandsApart'
  <2>1. ASSUME NEW u \in Threads, NEW v \in Threads, Holds(u)', Holds(v)',
               SameName(Held(u)', Held(v)')
        PROVE  u = v
    <3>1. \A w \in Threads : w # t /\ Holds(w) => ~SameName(Held(w), h) /\ ~SameName(h, Held(w))
      BY <1>2 DEF PacketInv, HandOrQueue, SameName
    <3> QED
      BY <1>6, <1>7, <2>1, <3>1 DEF PacketInv, HandsApart
  <2> QED
    BY <2>1 DEF HandsApart, SameName
<1>12. HandOrQueue'
  <2>1. ASSUME NEW u \in Threads, Holds(u)', NEW v \in Threads, NEW i \in DOMAIN in_queue'[v]
        PROVE  ~SameName(Held(u)', in_queue'[v][i])
    <3>1. PICK j \in DOMAIN in_queue[v] :
              in_queue'[v][i] = in_queue[v][j] /\ (v = t => j # 1)
      BY <1>3, <1>4, <2>1
    <3>2. CASE u = t
      BY <1>2, <1>7, <3>1, <3>2 DEF PacketInv, QueuesApart
    <3>3. CASE u # t
      BY <1>6, <2>1, <3>1, <3>3 DEF PacketInv, HandOrQueue
    <3> QED
      BY <3>2, <3>3
  <2> QED
    BY <2>1 DEF HandOrQueue, SameName
<1>13. HandUnused'
  <2>1. ASSUME NEW u \in Threads, Holds(u)', NEW d \in Used', SameName(Held(u)', d)
        PROVE  Answers(Held(u)', d)
    BY <1>2, <1>5, <1>6, <1>7, <2>1 DEF PacketInv, HandUnused, QueueUnused
  <2> QED
    BY <2>1 DEF HandUnused, SameName, Answers
<1>14. QueueUnused'
  <2>1. ASSUME NEW u \in Threads, NEW i \in DOMAIN in_queue'[u], NEW d \in Used',
               SameName(in_queue'[u][i], d)
        PROVE  Answers(in_queue'[u][i], d)
    BY <1>3, <1>4, <1>5, <2>1 DEF PacketInv, QueueUnused
  <2> QED
    BY <2>1 DEF QueueUnused, SameName, Answers
<1> QED
  BY <1>8, <1>9, <1>10, <1>11, <1>12, <1>13, <1>14 DEF PacketInv

LEMMA DeliverPackets ==
  ASSUME PacketInv, TypeInv, fault = "none", NEW t \in Threads, Deliver(t)
  PROVE  PacketInv'
<1> USE DEF TypeInv, TypeOK, BlockTypes, ThreadTypes, clientVars
<1>1. pc[t] = "route" /\ block[node[t]] \in Threads /\ pckt[t] \in Packet
  BY DEF Deliver, Runs, HandsFull, SharedTypes
<1>2. PICK p : p = pckt[t]
  OBVIOUS
<1>3. PICK n \in Threads : n = block[node[t]]
  BY <1>1
<1>4. /\ UNCHANGED <<sock, sent, src, destroyed, messages>>
      /\ \A u \in Threads : u # t =>
            pc'[u] = pc[u] /\ pk'[u] = pk[u] /\ pckt'[u] = pckt[u] /\ src'[u] = src[u]
      /\ pc'[t] \in {"trace", "queue", "end"}
      /\ pc'[t] \in {"trace", "end"} => pk'[t] = pk[t]
      /\ pc'[t] = "end" => src[t] = "queue"
  BY DEF Deliver, Return, Goto, handVars
<1>5. Holds(t) /\ Held(t) = p /\ ~Holds(t)'
  BY <1>1, <1>2, <1>4 DEF Holds, Held
<1>6. \A u \in Threads : Holds(u)' => u # t /\ Holds(u) /\ Held(u)' = Held(u)
  BY <1>4, <1>5 DEF Holds, Held
<1>7. Used' \subseteq Used \cup {}
  <2>1. Spent(t)' => Spent(t) /\ pk'[t] = pk[t]
    BY <1>1, <1>4 DEF Spent
  <2> QED
    BY <1>4, <2>1, UsedAfter
<1>8. \/ in_queue' = [in_queue EXCEPT ![n] = Append(@, p)]
      \/ in_queue' = in_queue
  BY <1>2, <1>3 DEF Deliver, Enqueue
<1>9. ASSUME NEW u \in Threads, NEW i \in DOMAIN in_queue'[u]
      PROVE  \/ i \in DOMAIN in_queue[u] /\ in_queue'[u][i] = in_queue[u][i]
             \/ u = n /\ i = Len(in_queue[n]) + 1 /\ in_queue'[u][i] = p
  <2>1. CASE in_queue' = [in_queue EXCEPT ![n] = Append(in_queue[n], p)]
    <3>1. CASE u = n
      BY <1>9, <2>1, <3>1
    <3>2. CASE u # n
      BY <1>9, <2>1, <3>2
    <3> QED
      BY <3>1, <3>2
  <2>2. CASE in_queue' = in_queue
    BY <1>9, <2>2
  <2> QED
    BY <1>8, <2>1, <2>2
<1>10. \A u \in Threads : \A i \in DOMAIN in_queue[u] :
          ~SameName(p, in_queue[u][i]) /\ ~SameName(in_queue[u][i], p)
  BY <1>5 DEF PacketInv, HandOrQueue, SameName
<1>11. SockOrder'
  BY <1>4 DEF PacketInv, SockOrder
<1>12. AllPast'
  <2>1. \A d \in Used' : Past(d)'
    BY <1>4, <1>7, SamePast DEF PacketInv, AllPast
  <2>2. \A u \in Threads : Holds(u)' => Past(Held(u))'
    BY <1>4, <1>6 DEF PacketInv, AllPast, Past
  <2>3. Past(p)
    BY <1>5 DEF PacketInv, AllPast
  <2>4. ASSUME NEW u \in Threads, NEW i \in DOMAIN in_queue'[u]
        PROVE  Past(in_queue[u][i])'
    <3>1. PICK q : q = in_queue'[u][i]
      OBVIOUS
    <3>2. Past(q)
      BY <1>9, <2>3, <2>4, <3>1 DEF PacketInv, AllPast
    <3> QED
      BY <1>4, <3>1, <3>2 DEF Past
  <2> QED
    BY <2>1, <2>2, <2>4 DEF AllPast, Past
<1>13. QueuesApart'
  <2>1. ASSUME NEW u \in Threads, NEW v \in Threads,
               NEW i \in DOMAIN in_queue'[u], NEW j \in DOMAIN in_queue'[v],
               SameName(in_queue'[u][i], in_queue'[v][j])
        PROVE  u = v /\ i = j
    <3>1. CASE in_queue'[u][i] = p /\ u = n /\ i = Len(in_queue[n]) + 1
      BY <1>9, <1>10, <2>1, <3>1
    <3>2. CASE i \in DOMAIN in_queue[u] /\ in_queue'[u][i] = in_queue[u][i]
      <4>1. CASE j \in DOMAIN in_queue[v] /\ in_queue'[v][j] = in_queue[v][j]
        BY <2>1, <3>2, <4>1 DEF PacketInv, QueuesApart
      <4>2. CASE in_queue'[v][j] = p
        BY <1>10, <2>1, <3>2, <4>2
      <4> QED
        BY <1>9, <4>1, <4>2
    <3> QED
      BY <1>9, <2>1, <3>1, <3>2
  <2> QED
    BY <2>1 DEF QueuesApart, SameName
<1>14. HandsApart'
  BY <1>6 DEF PacketInv, HandsApart, SameName
<1>15. HandOrQueue'
  <2>1. ASSUME NEW u \in Threads, Holds(u)', NEW v \in Threads, NEW i \in DOMAIN in_queue'[v]
        PROVE  ~SameName(Held(u)', in_queue'[v][i])
    <3>1. CASE i \in DOMAIN in_queue[v] /\ in_queue'[v][i] = in_queue[v][i]
      BY <1>6, <2>1, <3>1 DEF PacketInv, HandOrQueue
    <3>2. CASE in_queue'[v][i] = p
      BY <1>5, <1>6, <2>1, <3>2 DEF PacketInv, HandsApart
    <3> QED
      BY <1>9, <3>1, <3>2
  <2> QED
    BY <2>1 DEF HandOrQueue, SameName
<1>16. HandUnused'
  BY <1>6, <1>7 DEF PacketInv, HandUnused, SameName, Answers
<1>17. QueueUnused'
  <2>1. ASSUME NEW u \in Threads, NEW i \in DOMAIN in_queue'[u], NEW d \in Used',
               SameName(in_queue'[u][i], d)
        PROVE  Answers(in_queue'[u][i], d)
    <3>1. CASE i \in DOMAIN in_queue[u] /\ in_queue'[u][i] = in_queue[u][i]
      BY <1>7, <2>1, <3>1 DEF PacketInv, QueueUnused
    <3>2. CASE in_queue'[u][i] = p
      BY <1>5, <1>7, <2>1, <3>2 DEF PacketInv, HandUnused
    <3> QED
      BY <1>9, <3>1, <3>2
  <2> QED
    BY <2>1 DEF QueueUnused, SameName, Answers
<1> QED
  BY <1>11, <1>12, <1>13, <1>14, <1>15, <1>16, <1>17 DEF PacketInv

\* The packets left in a queue are destroyed with it.
LEMMA DestroyBlockPackets ==
  ASSUME PacketInv, TypeInv, NEW t \in Threads, DestroyBlock(t)
  PROVE  PacketInv'
<1> USE DEF TypeInv, TypeOK, BlockTypes, ThreadTypes, clientVars, handVars, DestroyBlock, Goto
<1>1. \A u \in Threads : \A i \in DOMAIN in_queue'[u] : u # t /\ in_queue'[u] = in_queue[u]
  OBVIOUS
<1>2. \A u \in Threads : Holds(u)' => Holds(u) /\ Held(u)' = Held(u)
  BY DEF Holds, Held
<1>3. ASSUME NEW d \in Used'
      PROVE  d \in Used \/ \E i \in DOMAIN in_queue[t] : d = in_queue[t][i]
  BY <1>3 DEF Used, Spent
<1>4. SockOrder'
  BY DEF PacketInv, SockOrder
<1>5. AllPast'
  <2>1. \A d \in Used' : Past(d)'
    BY <1>3, SamePast DEF PacketInv, AllPast
  <2>2. \A u \in Threads : Holds(u)' => Past(Held(u))'
    BY <1>2 DEF PacketInv, AllPast, Past
  <2>3. \A u \in Threads : \A i \in DOMAIN in_queue'[u] : Past(in_queue[u][i])'
    BY <1>1 DEF PacketInv, AllPast, Past
  <2> QED
    BY <2>1, <2>2, <2>3 DEF AllPast, Past
<1>6. QueuesApart'
  BY <1>1 DEF PacketInv, QueuesApart, SameName
<1>7. HandsApart' /\ HandOrQueue'
  <2>1. HandsApart'
    BY <1>2 DEF PacketInv, HandsApart, SameName
  <2>2. ASSUME NEW u \in Threads, Holds(u)', NEW v \in Threads, NEW i \in DOMAIN in_queue'[v]
        PROVE  ~SameName(Held(u)', in_queue'[v][i])
    <3>1. i \in DOMAIN in_queue[v] /\ in_queue'[v] = in_queue[v]
      BY <1>1, <2>2
    <3> QED
      BY <1>2, <2>2, <3>1 DEF PacketInv, HandOrQueue
  <2> QED
    BY <2>1, <2>2 DEF HandOrQueue, SameName
<1>8. HandUnused'
  <2>1. ASSUME NEW u \in Threads, Holds(u)', NEW d \in Used', SameName(Held(u)', d)
        PROVE  Answers(Held(u)', d)
    BY <1>2, <1>3, <2>1 DEF PacketInv, HandUnused, HandOrQueue
  <2> QED
    BY <2>1 DEF HandUnused, SameName, Answers
<1>9. QueueUnused'
  <2>1. ASSUME NEW u \in Threads, NEW i \in DOMAIN in_queue'[u], NEW d \in Used',
               SameName(in_queue'[u][i], d)
        PROVE  Answers(in_queue'[u][i], d)
    <3>1. u # t /\ in_queue'[u] = in_queue[u]
      BY <1>1, <2>1
    <3>2. d \in Used
      BY <1>3, <2>1, <3>1 DEF PacketInv, QueuesApart
    <3> QED
      BY <2>1, <3>1, <3>2 DEF PacketInv, QueueUnused
  <2> QED
    BY <2>1 DEF QueueUnused, SameName, Answers
<1> QED
  BY <1>4, <1>5, <1>6, <1>7, <1>8, <1>9 DEF PacketInv

-----------------------------------------------------------------------------
(* What comes from a queue.                                                *)

\* A step of t that leaves the queues and the userids alone, and takes t to
\* no place where FromQueue asks for something.
LEMMA QuietFromQueue ==
  ASSUME FromQueue, TypeInv, NEW t \in Threads,
         UNCHANGED <<in_queue, userid>>,
         \A u \in Threads : u # t =>
            pc'[u] = pc[u] /\ pk'[u] = pk[u] /\ src'[u] = src[u] /\ pckt'[u] = pckt[u],
         \/ pc'[t] \notin {"route", "deq", "interp", "login"}
         \/ UNCHANGED <<pc, pk, src, pckt>>
  PROVE  FromQueue'
BY DEF FromQueue

LEMMA QuietQueue ==
  ASSUME FromQueue, TypeInv, NEW t \in Threads,
         \/ Accept(t) \/ RecvNothing(t) \/ AuthQueryFails(t) \/ RefuseUnauthenticated(t)
         \/ LogIn(t) \/ Logout(t) \/ Ignore(t) \/ PassOn(t) \/ InsertMessage(t)
         \/ TraceAfterHandOver(t) \/ SelectMessages(t) \/ MarkReceived(t)
         \/ DestroyOnly(t) \/ OwnLocation(t) \/ IgnoreLocation(t) \/ SendPacket(t)
         \/ QueueEmpty(t) \/ EndOfTurn(t) \/ Cancelled(t) \/ Disconnect(t)
         \/ ClientSend(t) \/ Cleanup(t) \/ SelectFails(t) \/ NoMemory(t)
  PROVE  FromQueue'
<1> USE DEF TypeInv, TypeOK, ThreadTypes, Goto, clientVars, blockVars, handVars, sharedVars
<1>1. CASE Accept(t)
  BY <1>1, QuietFromQueue DEF Accept
<1>2. CASE RecvNothing(t)
  BY <1>2, QuietFromQueue DEF RecvNothing
<1>3. CASE AuthQueryFails(t)
  BY <1>3, QuietFromQueue DEF AuthQueryFails
<1>4. CASE RefuseUnauthenticated(t)
  BY <1>4, QuietFromQueue DEF RefuseUnauthenticated, Return
<1>5. CASE LogIn(t)
  BY <1>5, QuietFromQueue DEF LogIn, Return
<1>6. CASE Logout(t)
  BY <1>6, QuietFromQueue DEF Logout, Return
<1>7. CASE Ignore(t)
  BY <1>7, QuietFromQueue DEF Ignore, Return
<1>8. CASE PassOn(t)
  BY <1>8, QuietFromQueue DEF PassOn, PrepareSend
<1>9. CASE InsertMessage(t)
  BY <1>9, QuietFromQueue DEF InsertMessage, Return
<1>10. CASE TraceAfterHandOver(t)
  BY <1>10, QuietFromQueue DEF TraceAfterHandOver, Return
<1>11. CASE SelectMessages(t)
  BY <1>11, QuietFromQueue DEF SelectMessages
<1>12. CASE MarkReceived(t)
  BY <1>12, QuietFromQueue DEF MarkReceived, Return
<1>13. CASE DestroyOnly(t)
  BY <1>13, QuietFromQueue DEF DestroyOnly, Return
<1>14. CASE OwnLocation(t)
  BY <1>14, QuietFromQueue DEF OwnLocation, PrepareSend
<1>15. CASE IgnoreLocation(t)
  BY <1>15, QuietFromQueue DEF IgnoreLocation, Return
<1>16. CASE SendPacket(t)
  BY <1>16, QuietFromQueue DEF SendPacket, Return
<1>17. CASE QueueEmpty(t)
  BY <1>17, QuietFromQueue DEF QueueEmpty, NextTurn
<1>18. CASE EndOfTurn(t)
  BY <1>18, QuietFromQueue DEF EndOfTurn, NextTurn
<1>19. CASE Cancelled(t)
  BY <1>19, QuietFromQueue DEF Cancelled
<1>20. CASE Disconnect(t)
  BY <1>20, QuietFromQueue DEF Disconnect
<1>21. CASE ClientSend(t)
  BY <1>21, QuietFromQueue DEF ClientSend
<1>22. CASE Cleanup(t)
  BY <1>22, QuietFromQueue DEF Cleanup
<1>23. CASE SelectFails(t)
  BY <1>23, QuietFromQueue DEF SelectFails
<1>24. CASE NoMemory(t)
  BY <1>24, QuietFromQueue DEF NoMemory
<1> QED
  BY <1>23, <1>24, <1>1, <1>2, <1>3, <1>4, <1>5, <1>6, <1>7, <1>8, <1>9, <1>10, <1>11, <1>12, <1>13,
     <1>14, <1>15, <1>16, <1>17, <1>18, <1>19, <1>20, <1>21, <1>22

LEMMA HandFromQueue ==
  ASSUME FromQueue, TypeInv, NEW t \in Threads,
         \/ RecvPacket(t) \/ AuthFind(t) \/ Unlock(t)
         \/ FindReceiver(t) \/ AnswerLocation(t) \/ AskLocation(t)
  PROVE  FromQueue'
<1> USE DEF TypeInv, TypeOK, ThreadTypes, BlockTypes, Goto,
            clientVars, blockVars, handVars, sharedVars
<1>1. CASE RecvPacket(t)
  BY <1>1 DEF RecvPacket, FromQueue
<1>2. CASE AuthFind(t)
  <2>1. /\ UNCHANGED in_queue
        /\ \A u \in Threads : u # t =>
              /\ pc'[u] = pc[u] /\ pk'[u] = pk[u] /\ src'[u] = src[u] /\ pckt'[u] = pckt[u]
              /\ userid'[u] = userid[u]
        /\ pc'[t] \in {"queue", "end", "login"} /\ src'[t] = src[t]
    BY <1>2 DEF AuthFind, Return
  <2>2. src[t] = "socket"
    BY <1>2 DEF AuthFind, Interprets, FromQueue, Mailed
  <2> QED
    BY <2>1, <2>2 DEF FromQueue
<1>3. CASE Unlock(t)
  BY <1>3 DEF Unlock, Runs, FromQueue
<1>4. ASSUME NEW id, NEW p, p.type \in Mailed, Forward(t, id, p),
             UNCHANGED <<in_queue, userid>>
      PROVE  FromQueue'
  BY <1>4 DEF Forward, FromQueue
<1>5. CASE FindReceiver(t)
  <2>1. CASE Forward(t, pk[t].receiver, pk[t])
    BY <1>4, <1>5, <2>1 DEF FindReceiver, Interprets, Mailed
  <2>2. CASE Goto(t, "insert") /\ UNCHANGED handVars
    BY <1>5, <2>2, QuietFromQueue DEF FindReceiver
  <2> QED
    BY <1>5, <2>1, <2>2 DEF FindReceiver
<1>6. CASE AnswerLocation(t)
  <2>1. CASE Forward(t, pk[t].sender, AnswerTo(pk[t]))
    <3>1. AnswerTo(pk[t]).type = "GEO"
      BY <1>6 DEF AnswerLocation, Interprets, HandsFull, AnswerTo, Packet
    <3> QED
      BY <1>4, <1>6, <2>1, <3>1 DEF AnswerLocation, Mailed
  <2>2. CASE PrepareSend(t, Reply(t, "ACK", NoUser))
    BY <1>6, <2>2, QuietFromQueue DEF AnswerLocation, PrepareSend
  <2>3. CASE Return(t)
    BY <1>6, <2>3, QuietFromQueue DEF AnswerLocation, Return
  <2> QED
    BY <1>6, <2>1, <2>2, <2>3 DEF AnswerLocation
<1>7. CASE AskLocation(t)
  <2>1. CASE Forward(t, pk[t].receiver, pk[t])
    BY <1>4, <1>7, <2>1 DEF AskLocation, Interprets, Mailed
  <2>2. CASE PrepareSend(t, Reply(t, "ACK", NoUser))
    BY <1>7, <2>2, QuietFromQueue DEF AskLocation, PrepareSend
  <2> QED
    BY <1>7, <2>1, <2>2 DEF AskLocation
<1> QED
  BY <1>1, <1>2, <1>3, <1>5, <1>6, <1>7

LEMMA MoveFromQueue ==
  ASSUME FromQueue, MailInv, TypeInv, NEW t \in Threads,
         Deliver(t) \/ Dequeue(t) \/ DestroyBlock(t), strays = {}
  PROVE  FromQueue'
<1> USE DEF TypeInv, TypeOK, ThreadTypes, BlockTypes, Goto,
            clientVars, blockVars, handVars, sharedVars
<1>1. CASE Deliver(t)
  <2>1. pc[t] = "route" /\ block[node[t]] \in Threads /\ pckt[t].type \in Mailed
    BY <1>1 DEF Deliver, Runs, HandsFull, FromQueue, SharedTypes
  <2>2. /\ UNCHANGED <<userid, src>>
        /\ \A u \in Threads : u # t =>
              pc'[u] = pc[u] /\ pk'[u] = pk[u] /\ pckt'[u] = pckt[u]
        /\ pc'[t] \in {"trace", "queue", "end"}
    BY <1>1 DEF Deliver, Return
  <2>3. ASSUME NEW u \in Threads, NEW i \in DOMAIN in_queue'[u]
        PROVE  in_queue'[u][i].type \in Mailed
    <3>1. \/ i \in DOMAIN in_queue[u] /\ in_queue'[u][i] = in_queue[u][i]
          \/ in_queue'[u][i] = pckt[t]
      <4>1. CASE in_queue' = [in_queue EXCEPT ![block[node[t]]] = Append(@, pckt[t])]
        BY <2>1, <2>3, <4>1
      <4>2. CASE UNCHANGED in_queue
        BY <2>3, <4>2
      <4> QED
        BY <1>1, <4>1, <4>2 DEF Deliver, Enqueue
    <3> QED
      BY <2>1, <3>1 DEF FromQueue
  <2> QED
    BY <2>2, <2>3 DEF FromQueue
<1>2. CASE Dequeue(t)
  <2>1. 1 \in DOMAIN in_queue[t] /\ Head(in_queue[t]) = in_queue[t][1]
    BY <1>2, HeadTailProperties DEF Dequeue
  <2>2. ASSUME NEW i \in DOMAIN in_queue'[t]
        PROVE  i + 1 \in DOMAIN in_queue[t] /\ in_queue'[t][i] = in_queue[t][i + 1]
    BY <1>2, <2>2, HeadTailProperties DEF Dequeue, Rest
  <2>3. in_queue[t][1].receiver = userid[t]
    BY <2>1 DEF MailInv, QueueRight, Serves
  <2> QED
    BY <1>2, <2>1, <2>2, <2>3 DEF Dequeue, FromQueue
<1>3. CASE DestroyBlock(t)
  <2>1. \A u \in Threads : \A i \in DOMAIN in_queue'[u] : in_queue'[u] = in_queue[u]
    BY <1>3 DEF DestroyBlock
  <2> QED
    BY <1>3, <2>1 DEF DestroyBlock, FromQueue
<1> QED
  BY <1>1, <1>2, <1>3

LEMMA NextFromQueue ==
  ASSUME FromQueue, MailInv, TypeInv, [Next]_vars, strays = {} PROVE FromQueue'
<1>1. CASE UNCHANGED vars
  BY <1>1 DEF FromQueue, vars, clientVars, blockVars, handVars, sharedVars
<1>2. ASSUME NEW t \in Threads, Step(t) PROVE FromQueue'
  BY <1>2, QuietQueue, HandFromQueue, MoveFromQueue DEF Step, Interpret
<1>3. ASSUME NEW t \in Threads, Environment(t) PROVE FromQueue'
  BY <1>3, QuietQueue DEF Environment
<1> QED
  BY <1>1, <1>2, <1>3 DEF Next, Stopped

LEMMA NextPackets ==
  ASSUME PacketInv, FromQueue, TypeInv, [Next]_vars PROVE PacketInv'
<1>1. CASE UNCHANGED vars
  BY <1>1 DEF PacketInv, SockOrder, AllPast, QueuesApart, HandsApart, HandOrQueue,
      HandUnused, QueueUnused, Used, Spent, Holds, Held, Past, SameName, Answers,
      vars, clientVars, blockVars, handVars, sharedVars
<1>2. ASSUME NEW t \in Threads, Step(t) PROVE PacketInv'
  BY <1>2, DropPackets, CarryPackets, LookUpPackets, RecvPacketPackets, DequeuePackets,
     DeliverPackets, CleanupPackets, DestroyBlockPackets DEF Step, Interpret
<1>3. ASSUME NEW t \in Threads, Environment(t) PROVE PacketInv'
  BY <1>3, DropPackets, ClientSendPackets, DisconnectPackets DEF Environment
<1> QED
  BY <1>1, <1>2, <1>3 DEF Next, Stopped

LEMMA InitPackets == ASSUME Init PROVE PacketInv /\ FromQueue
BY DEF Init, PacketInv, SockOrder, AllPast, QueuesApart, HandsApart, HandOrQueue,
       HandUnused, QueueUnused, Used, Spent, Holds, Past, FromQueue

LEMMA PacketInvAlways ==
  ASSUME AuthFirst
  PROVE  Spec => [](TypeInv /\ MailInv /\ (strays = {} => FromQueue /\ PacketInv))
<1> DEFINE Inv == TypeInv /\ MailInv /\ (strays = {} => FromQueue /\ PacketInv)
<1>1. Init => Inv
  BY InitType, InitMail, InitPackets
<1>2. Inv /\ [Next]_vars => Inv'
  <2> SUFFICES ASSUME Inv, [Next]_vars, strays' = {} PROVE (FromQueue /\ PacketInv)'
    BY NextType, NextMail
  <2>1. strays = {}
    BY StraysGrow
  <2> QED
    BY <2>1, NextFromQueue, NextPackets
<1> HIDE DEF Inv
<1>3. Spec => []Inv
  BY <1>1, <1>2, PTL DEF Spec
<1> QED
  BY <1>3 DEF Inv

\* As long as none goes astray, a packet is in one place: in one queue, once,
\* or in the database, or freed.  The thread that interprets a packet gives it up when it enqueues
\* it, and the thread that dequeues it destroys it after use, whatever fails
\* and however many threads serve the same account, provided that a client
\* authenticates once and first.
THEOREM OnePlaceAlways == ASSUME AuthFirst PROVE Spec => []OnePlace
<1>1. QueueUnused => \A t \in Threads : Queued(t) \cap (destroyed \cup messages) = {}
  <2>1. ASSUME QueueUnused, NEW t \in Threads, NEW i \in DOMAIN in_queue[t],
               in_queue[t][i] \in destroyed \cup messages
        PROVE  FALSE
    BY <2>1 DEF QueueUnused, Used, SameName, Answers
  <2> QED
    BY <2>1 DEF Queued
<1>2. QueuesApart => \A t, u \in Threads :
          \A i \in DOMAIN in_queue[t], j \in DOMAIN in_queue[u] :
              in_queue[t][i] = in_queue[u][j] => t = u /\ i = j
  BY DEF QueuesApart, SameName
<1>3. (strays = {} => PacketInv) => OnePlace
  BY <1>1, <1>2 DEF PacketInv, OnePlace, Queued
<1> QED
  BY <1>3, PacketInvAlways, PTL

-----------------------------------------------------------------------------
(* What a thread reads from its socket is what its client may ask.         *)

Asked(t, p) == \E r \in Requests[t] : p.type = r.type /\ p.sender = r.sender /\ p.msg = r.msg

\* ... so that stored messages are fetched by a thread that serves a user.
RequestInv ==
    \A t \in Threads :
        /\ \A i \in DOMAIN sock[t] : Asked(t, sock[t][i])
        /\ pc[t] = "interp" /\ src[t] = "socket" => Asked(t, pk[t])
        /\ pc[t] = "deq" => src[t] = "queue"
        /\ pc[t] = "update" => src[t] = "socket" /\ userid[t] \in Users

LEMMA SenderIsUser ==
  ASSUME NEW t \in Threads, NEW p, Asked(t, p) PROVE p.sender \in Users
BY ConnectionAssumption DEF Asked, Request

LEMMA QuietRequestKeeps ==
  ASSUME RequestInv, NEW t \in Threads, UNCHANGED sock,
         \A u \in Threads : u # t =>
            /\ pc'[u] = pc[u] /\ pk'[u] = pk[u] /\ src'[u] = src[u]
            /\ userid'[u] = userid[u],
         \/ pc'[t] \notin {"interp", "deq", "update"}
         \/ pc'[t] \in {"interp", "deq"} /\ src'[t] = "queue"
         \/ UNCHANGED <<pc, pk, src, userid>>
  PROVE  RequestInv'
BY DEF RequestInv

LEMMA QuietRequest ==
  ASSUME RequestInv, TypeInv, NEW t \in Threads,
         \/ Accept(t) \/ RecvNothing(t) \/ AuthFind(t) \/ AuthQueryFails(t)
         \/ RefuseUnauthenticated(t) \/ LogIn(t) \/ Logout(t) \/ Ignore(t) \/ PassOn(t)
         \/ InsertMessage(t) \/ TraceAfterHandOver(t) \/ MarkReceived(t) \/ DestroyOnly(t)
         \/ OwnLocation(t) \/ IgnoreLocation(t) \/ SendPacket(t) \/ QueueEmpty(t)
         \/ EndOfTurn(t) \/ Cancelled(t) \/ Disconnect(t) \/ DestroyBlock(t)
         \/ FindReceiver(t) \/ AnswerLocation(t) \/ AskLocation(t) \/ Deliver(t)
         \/ Dequeue(t) \/ Unlock(t) \/ SelectFails(t) \/ NoMemory(t)
  PROVE  RequestInv'
<1> USE DEF TypeInv, TypeOK, ThreadTypes, BlockTypes, Goto, Return,
            clientVars, blockVars, handVars, sharedVars
<1>1. CASE Accept(t)
  BY <1>1, QuietRequestKeeps DEF Accept
<1>2. CASE RecvNothing(t)
  BY <1>2, QuietRequestKeeps DEF RecvNothing
<1>3. CASE AuthFind(t)
  BY <1>3, QuietRequestKeeps DEF AuthFind
<1>4. CASE AuthQueryFails(t)
  BY <1>4, QuietRequestKeeps DEF AuthQueryFails
<1>5. CASE RefuseUnauthenticated(t)
  BY <1>5, QuietRequestKeeps DEF RefuseUnauthenticated
<1>6. CASE LogIn(t)
  BY <1>6, QuietRequestKeeps DEF LogIn
<1>7. CASE Logout(t)
  BY <1>7, QuietRequestKeeps DEF Logout
<1>8. CASE Ignore(t)
  BY <1>8, QuietRequestKeeps DEF Ignore
<1>9. CASE PassOn(t)
  BY <1>9, QuietRequestKeeps DEF PassOn, PrepareSend
<1>10. CASE InsertMessage(t)
  BY <1>10, QuietRequestKeeps DEF InsertMessage
<1>11. CASE TraceAfterHandOver(t)
  BY <1>11, QuietRequestKeeps DEF TraceAfterHandOver
<1>12. CASE MarkReceived(t)
  BY <1>12, QuietRequestKeeps DEF MarkReceived
<1>13. CASE DestroyOnly(t)
  BY <1>13, QuietRequestKeeps DEF DestroyOnly
<1>14. CASE OwnLocation(t)
  BY <1>14, QuietRequestKeeps DEF OwnLocation, PrepareSend
<1>15. CASE IgnoreLocation(t)
  BY <1>15, QuietRequestKeeps DEF IgnoreLocation
<1>16. CASE SendPacket(t)
  BY <1>16, QuietRequestKeeps DEF SendPacket
<1>17. CASE QueueEmpty(t)
  BY <1>17, QuietRequestKeeps DEF QueueEmpty, NextTurn
<1>18. CASE EndOfTurn(t)
  BY <1>18, QuietRequestKeeps DEF EndOfTurn, NextTurn
<1>19. CASE Cancelled(t)
  BY <1>19, QuietRequestKeeps DEF Cancelled
<1>20. CASE Disconnect(t)
  BY <1>20, QuietRequestKeeps DEF Disconnect
<1>21. CASE DestroyBlock(t)
  BY <1>21, QuietRequestKeeps DEF DestroyBlock
<1>22. CASE FindReceiver(t)
  BY <1>22, QuietRequestKeeps DEF FindReceiver, Forward
<1>23. CASE AnswerLocation(t)
  BY <1>23, QuietRequestKeeps DEF AnswerLocation, Forward, PrepareSend
<1>24. CASE AskLocation(t)
  BY <1>24, QuietRequestKeeps DEF AskLocation, Forward, PrepareSend
<1>25. CASE Deliver(t)
  <2>1. CASE Goto(t, "trace") /\ UNCHANGED handVars
    BY <1>25, <2>1, QuietRequestKeeps DEF Deliver
  <2>2. CASE Return(t)
    BY <1>25, <2>2, QuietRequestKeeps DEF Deliver
  <2> QED
    BY <1>25, <2>1, <2>2 DEF Deliver
<1>26. CASE Dequeue(t)
  BY <1>26, QuietRequestKeeps DEF Dequeue
<1>27. CASE Unlock(t)
  <2>1. src'[t] = "queue"
    BY <1>27 DEF Unlock, Runs, RequestInv
  <2> QED
    BY <1>27, <2>1, QuietRequestKeeps DEF Unlock
<1>28. CASE SelectFails(t)
  BY <1>28, QuietRequestKeeps DEF SelectFails
<1>29. CASE NoMemory(t)
  BY <1>29, QuietRequestKeeps DEF NoMemory
<1> QED
  BY <1>28, <1>29, <1>1, <1>2, <1>3, <1>4, <1>5, <1>6, <1>7, <1>8, <1>9, <1>10, <1>11, <1>12, <1>13,
     <1>14, <1>15, <1>16, <1>17, <1>18, <1>19, <1>20, <1>21, <1>22, <1>23, <1>24, <1>25,
     <1>26, <1>27

\* The sender of a packet is an account; a packet from a queue is no GET_MSG.
LEMMA OtherRequest ==
  ASSUME RequestInv, FromQueue, PacketInv, TypeInv, NEW t \in Threads,
         ClientSend(t) \/ RecvPacket(t) \/ Cleanup(t) \/ SelectMessages(t)
  PROVE  RequestInv'
<1> USE DEF TypeInv, TypeOK, ClientTypes, ThreadTypes, Goto,
            clientVars, blockVars, handVars, sharedVars
<1>1. CASE ClientSend(t)
  <2>1. PICK r \in Requests[t] : sock' = [sock EXCEPT ![t] = Append(@,
              [type |-> r.type, sender |-> r.sender, receiver |-> r.receiver,
               msg |-> r.msg, conn |-> t, seq |-> sent[t] + 1])]
    BY <1>1 DEF ClientSend
  <2> DEFINE p == [type |-> r.type, sender |-> r.sender, receiver |-> r.receiver,
                   msg |-> r.msg, conn |-> t, seq |-> sent[t] + 1]
  <2>2. Asked(t, p)
    BY DEF Asked
  <2>3. sock' = [sock EXCEPT ![t] = Append(sock[t], p)]
    BY <2>1
  <2> HIDE DEF p
  <2>4. ASSUME NEW u \in Threads, NEW i \in DOMAIN sock'[u]
        PROVE  Asked(u, sock'[u][i])
    <3>1. \/ i \in DOMAIN sock[u] /\ sock'[u][i] = sock[u][i]
          \/ u = t /\ sock'[u][i] = p
      BY <2>3, <2>4
    <3> QED
      BY <2>2, <3>1 DEF RequestInv
  <2>5. UNCHANGED <<pc, pk, src, userid>>
    BY <1>1 DEF ClientSend
  <2> QED
    BY <2>4, <2>5 DEF RequestInv
<1>2. CASE RecvPacket(t)
  <2>1. 1 \in DOMAIN sock[t] /\ Head(sock[t]) = sock[t][1]
    BY <1>2, RecvPacketSocks
  <2>2. ASSUME NEW u \in Threads, NEW i \in DOMAIN sock'[u]
        PROVE  Asked(u, sock'[u][i])
    <3>1. CASE u = t
      <4>1. \E j \in DOMAIN sock[t] : sock'[t][i] = sock[t][j]
        BY <1>2, <2>2, <3>1, RecvPacketSocks
      <4> QED
        BY <3>1, <4>1 DEF RequestInv
    <3>2. CASE u # t
      BY <1>2, <2>2, <3>2, RecvPacketSocks DEF RequestInv
    <3> QED
      BY <3>1, <3>2
  <2>3. Asked(t, pk'[t])
    BY <1>2, <2>1 DEF RecvPacket, RequestInv
  <2>4. /\ \A u \in Threads : u # t => pc'[u] = pc[u] /\ pk'[u] = pk[u] /\ src'[u] = src[u]
        /\ pc'[t] = "interp" /\ UNCHANGED userid
    BY <1>2 DEF RecvPacket
  <2> QED
    BY <2>2, <2>3, <2>4 DEF RequestInv
<1>3. CASE Cleanup(t)
  <2>1. \A u \in Threads : \A i \in DOMAIN sock'[u] : sock'[u] = sock[u]
    BY <1>3 DEF Cleanup
  <2>2. /\ UNCHANGED <<pk, src, userid>> /\ pc' = [pc EXCEPT ![t] = "drain"]
    BY <1>3 DEF Cleanup
  <2> QED
    BY <2>1, <2>2 DEF RequestInv
<1>4. CASE SelectMessages(t)
  <2>1. pc[t] = "interp" /\ pk[t].type = "GET_MSG" /\ userid[t] = pk[t].sender
    BY <1>4 DEF SelectMessages, Interprets
  <2>2. src[t] = "socket"
    BY <2>1 DEF FromQueue, Mailed
  <2>3. userid[t] \in Users
    BY <2>1, <2>2, SenderIsUser DEF RequestInv
  <2>4. UNCHANGED <<sock, pk, src, userid>> /\ pc' = [pc EXCEPT ![t] = "update"]
    BY <1>4 DEF SelectMessages
  <2> QED
    BY <2>2, <2>3, <2>4 DEF RequestInv
<1> QED
  BY <1>1, <1>2, <1>3, <1>4

LEMMA NextRequest ==
  ASSUME RequestInv, FromQueue, PacketInv, TypeInv, [Next]_vars PROVE RequestInv'
<1>1. CASE UNCHANGED vars
  BY <1>1 DEF RequestInv, vars, clientVars, blockVars, handVars
<1>2. ASSUME NEW t \in Threads, Step(t) PROVE RequestInv'
  BY <1>2, QuietRequest, OtherRequest DEF Step, Interpret
<1>3. ASSUME NEW t \in Threads, Environment(t) PROVE RequestInv'
  BY <1>3, QuietRequest, OtherRequest DEF Environment
<1> QED
  BY <1>1, <1>2, <1>3 DEF Next, Stopped

LEMMA InitRequest == ASSUME Init PROVE RequestInv
BY DEF Init, RequestInv

-----------------------------------------------------------------------------
(***************************************************************************)
(* Memory.  A thread destroys the packet it took from its queue at the end *)
(* of its turn, and the one it read from its socket in the branches that   *)
(* do so.  PacketInv says that neither a packet in a hand nor one in a     *)
(* queue has been freed.  SpentInv says the same of what has been used but *)
(* not yet destroyed, and that no other thread is about to destroy it.     *)
(***************************************************************************)

SpentInv ==
    \A t \in Threads : Spent(t) =>
        /\ pk[t] \notin destroyed
        /\ \A u \in Threads : Spent(u) /\ pk[u] = pk[t] => u = t

\* Where the thread of a client that has not logged in can be, if an AUTH is
\* the first it sends.  NOT_YET_AUTHENTICATED_EXIT is then never met.
Stranger(t) ==
    /\ in_queue[t] = <<>> /\ ~cancel[t]
    /\ pc[t] \in {"start", "recv", "interp", "login", "queue"}
    /\ pc[t] = "interp" => pk[t].type = "AUTH"
    /\ pc[t] \in {"start", "recv", "queue"} =>
        IF sock[t] = <<>> THEN sent[t] = 0 ELSE sock[t][1].type = "AUTH"

\* Nobody can reach such a thread.
StrangersInv ==
    /\ \A t \in Threads : ~Authenticated(t) => Stranger(t)
    /\ \A e \in addrs : Authenticated(e[2])
    /\ \A t \in Threads : pc[t] = "route" => Authenticated(node[t])

-----------------------------------------------------------------------------
(* Who has not logged in.                                                  *)

LEMMA StrangerPlaces ==
  ASSUME StrangersInv, NEW t \in Threads,
         \/ pc[t] \notin {"start", "recv", "interp", "login", "queue"}
         \/ pc[t] = "interp" /\ pk[t].type # "AUTH"
         \/ in_queue[t] # <<>>
  PROVE  Authenticated(t)
BY DEF StrangersInv, Stranger

\* A step of a thread that has logged in, or been refused.
LEMMA StrangersKeep ==
  ASSUME StrangersInv, TypeInv, NEW t \in Threads,
         Authenticated(t), Authenticated(t)',
         \A u \in Threads : u # t =>
            /\ pc'[u] = pc[u] /\ pk'[u] = pk[u] /\ node'[u] = node[u]
            /\ user_auth'[u] = user_auth[u] /\ cancel'[u] = cancel[u]
            /\ in_queue'[u] = in_queue[u] /\ sock'[u] = sock[u] /\ sent'[u] = sent[u],
         addrs' \subseteq addrs,
         pc'[t] = "route" =>
            \/ pc[t] = "route" /\ node'[t] = node[t]
            \/ \E e \in addrs : e[2] = node'[t]
  PROVE  StrangersInv'
<1> USE DEF TypeInv, TypeOK, ThreadTypes, SharedTypes, Authenticated
<1>1. ASSUME NEW u \in Threads, ~Authenticated(u)' PROVE Stranger(u)'
  BY <1>1 DEF StrangersInv, Stranger
<1>2. ASSUME NEW e \in addrs' PROVE Authenticated(e[2])'
  BY <1>2 DEF StrangersInv
<1>3. ASSUME NEW u \in Threads, pc'[u] = "route" PROVE Authenticated(node[u])'
  <2>1. \E n \in Threads : n = node'[u] /\ Authenticated(n)
    BY <1>3 DEF StrangersInv, HandsFull
  <2>2. \A n \in Threads : Authenticated(n) => user_auth'[n] # "USER_NOT_AUTH"
    OBVIOUS
  <2> QED
    BY <2>1, <2>2
<1> QED
  BY <1>1, <1>2, <1>3 DEF StrangersInv, Authenticated

LEMMA KnownStrangers ==
  ASSUME StrangersInv, TypeInv, NEW t \in Threads,
         \/ Logout(t) \/ Ignore(t) \/ PassOn(t) \/ SendPacket(t)
         \/ FindReceiver(t) \/ InsertMessage(t) \/ TraceAfterHandOver(t)
         \/ SelectMessages(t) \/ MarkReceived(t) \/ DestroyOnly(t)
         \/ OwnLocation(t) \/ AnswerLocation(t) \/ AskLocation(t) \/ IgnoreLocation(t)
         \/ Dequeue(t) \/ Unlock(t) \/ EndOfTurn(t)
         \/ Cancelled(t) \/ Cleanup(t) \/ DestroyBlock(t) \/ SelectFails(t)
  PROVE  StrangersInv'
<1> USE StrangerPlaces, StrangersKeep
    DEF TypeInv, TypeOK, ThreadTypes, BlockTypes, ClientTypes, Goto, Authenticated,
        clientVars, blockVars, handVars, sharedVars
<1>1. CASE Logout(t)
  BY <1>1 DEF Logout, Return
<1>2. CASE Ignore(t)
  BY <1>2 DEF Ignore, Return
<1>3. CASE PassOn(t)
  BY <1>3 DEF PassOn, PrepareSend
<1>4. CASE SendPacket(t)
  BY <1>4 DEF SendPacket, Runs, Return
<1>5. ASSUME NEW id, NEW p, Forward(t, id, p), Authenticated(t),
             UNCHANGED <<clientVars, blockVars, cancel, addrs>>
      PROVE  StrangersInv'
  <2>1. \E e \in addrs : e[2] = node'[t]
    BY <1>5 DEF Forward, Registered
  <2> QED
    BY <1>5, <2>1 DEF Forward
<1>6. CASE FindReceiver(t)
  BY <1>5, <1>6 DEF FindReceiver
<1>7. CASE InsertMessage(t)
  BY <1>7 DEF InsertMessage, Runs, Return
<1>8. CASE TraceAfterHandOver(t)
  BY <1>8 DEF TraceAfterHandOver, Runs, Return
<1>9. CASE SelectMessages(t)
  BY <1>9 DEF SelectMessages
<1>10. CASE MarkReceived(t)
  BY <1>10 DEF MarkReceived, Return
<1>11. CASE DestroyOnly(t)
  BY <1>11 DEF DestroyOnly, Return
<1>12. CASE OwnLocation(t)
  BY <1>12 DEF OwnLocation, PrepareSend
<1>13. CASE AnswerLocation(t)
  BY <1>5, <1>13 DEF AnswerLocation, PrepareSend, Return
<1>14. CASE AskLocation(t)
  BY <1>5, <1>14 DEF AskLocation, PrepareSend
<1>15. CASE IgnoreLocation(t)
  BY <1>15 DEF IgnoreLocation, Return
<1>16. CASE Dequeue(t)
  BY <1>16 DEF Dequeue
<1>17. CASE Unlock(t)
  BY <1>17 DEF Unlock, Runs
<1>18. CASE EndOfTurn(t)
  BY <1>18 DEF EndOfTurn, Runs, NextTurn
<1>19. CASE Cancelled(t)
  <2>1. Authenticated(t)
    BY <1>19 DEF Cancelled, StrangersInv, Stranger
  <2> QED
    BY <1>19, <2>1 DEF Cancelled
<1>20. CASE Cleanup(t)
  <2>1. addrs' \subseteq addrs
    BY <1>20 DEF Cleanup, Removal
  <2> QED
    BY <1>20, <2>1 DEF Cleanup
<1>21. CASE DestroyBlock(t)
  BY <1>21 DEF DestroyBlock
<1>22. CASE SelectFails(t)
  BY <1>22 DEF SelectFails
<1> QED
  BY <1>22, <1>1, <1>2, <1>3, <1>4, <1>6, <1>7, <1>8, <1>9, <1>10, <1>11, <1>12, <1>13, <1>14,
     <1>15, <1>16, <1>17, <1>18, <1>19, <1>20, <1>21

\* A step of a thread that may not have logged in, after which it has, or is
\* where it may be before.
LEMMA StrangerMoves ==
  ASSUME StrangersInv, TypeInv, NEW t \in Threads,
         \A u \in Threads : u # t =>
            /\ pc'[u] = pc[u] /\ pk'[u] = pk[u] /\ sock'[u] = sock[u] /\ sent'[u] = sent[u]
            /\ user_auth'[u] = user_auth[u] /\ cancel'[u] = cancel[u],
         UNCHANGED <<node, in_queue>>,
         Authenticated(t) => Authenticated(t)',
         Authenticated(t)' \/ Stranger(t)',
         \A e \in addrs' : e \in addrs \/ (e[2] = t /\ Authenticated(t)'),
         pc'[t] = "route" => pc[t] = "route"
  PROVE  StrangersInv'
<1> USE DEF TypeInv, TypeOK, ThreadTypes, SharedTypes, Authenticated
<1>1. ASSUME NEW u \in Threads, ~Authenticated(u)' PROVE Stranger(u)'
  BY <1>1 DEF StrangersInv, Stranger
<1>2. ASSUME NEW e \in addrs' PROVE Authenticated(e[2])'
  BY <1>2 DEF StrangersInv
<1>3. ASSUME NEW u \in Threads, pc'[u] = "route" PROVE Authenticated(node[u])'
  BY <1>3 DEF StrangersInv, HandsFull
<1> QED
  BY <1>1, <1>2, <1>3 DEF StrangersInv, Authenticated

LEMMA MoveStrangers ==
  ASSUME AuthFirst, StrangersInv, FromQueue, TypeInv, NEW t \in Threads,
         \/ Accept(t) \/ RecvNothing(t) \/ RecvPacket(t) \/ AuthFind(t) \/ AuthQueryFails(t)
         \/ LogIn(t) \/ QueueEmpty(t) \/ ClientSend(t) \/ Disconnect(t)
  PROVE  StrangersInv'
<1> USE DEF TypeInv, TypeOK, ThreadTypes, BlockTypes, ClientTypes, Goto,
            clientVars, blockVars, handVars, sharedVars
<1> DEFINE Known == Authenticated(t)
<1>0. ~Known => Stranger(t)
  BY DEF StrangersInv
<1>1. CASE Accept(t)
  <2>1. ~Known => Stranger(t)'
    BY <1>0, <1>1 DEF Accept, Stranger
  <2> QED
    BY <1>1, <2>1, StrangerMoves DEF Accept, Authenticated
<1>2. CASE RecvNothing(t)
  <2>1. ~Known => Stranger(t)'
    BY <1>0, <1>2 DEF RecvNothing, Stranger
  <2> QED
    BY <1>2, <2>1, StrangerMoves DEF RecvNothing, Authenticated
<1>3. CASE RecvPacket(t)
  <2>1. Head(sock[t]) = sock[t][1]
    BY <1>3, RecvPacketSocks
  <2>2. ~Known => Stranger(t)'
    BY <1>0, <1>3, <2>1 DEF RecvPacket, Stranger
  <2> QED
    BY <1>3, <2>2, StrangerMoves DEF RecvPacket, Authenticated
<1>4. CASE AuthFind(t)
  <2>1. CASE user_auth' = [user_auth EXCEPT ![t] = "USER_TO_EXIT"] /\ Return(t)
             /\ cancel' = [cancel EXCEPT ![t] = TRUE]
    <3>1. \A u \in Threads : u # t => node'[u] = node[u]
      BY <2>1 DEF Return
    <3>2. \A u \in Threads : pc'[u] = "route" => u # t
      BY <2>1 DEF Return
    <3>3. \A u \in Threads : u # t =>
            /\ pc'[u] = pc[u] /\ pk'[u] = pk[u] /\ user_auth'[u] = user_auth[u]
            /\ cancel'[u] = cancel[u]
      BY <2>1 DEF Return
    <3>4. UNCHANGED <<sock, sent, in_queue, addrs>>
      BY <1>4 DEF AuthFind
    <3>5. ASSUME NEW u \in Threads, ~Authenticated(u)' PROVE Stranger(u)'
      BY <2>1, <3>3, <3>4, <3>5 DEF StrangersInv, Stranger, Authenticated
    <3>6. ASSUME NEW e \in addrs' PROVE Authenticated(e[2])'
      BY <2>1, <3>4, <3>6 DEF StrangersInv, Authenticated, SharedTypes
    <3>7. ASSUME NEW u \in Threads, pc'[u] = "route" PROVE Authenticated(node[u])'
      <4>1. \E n \in Threads : n = node'[u] /\ Authenticated(n)
        BY <3>1, <3>2, <3>3, <3>7 DEF StrangersInv, HandsFull
      <4>2. \A n \in Threads : Authenticated(n) => user_auth'[n] # "USER_NOT_AUTH"
        BY <2>1 DEF Authenticated
      <4> QED
        BY <4>1, <4>2 DEF Authenticated
    <3> QED
      BY <3>5, <3>6, <3>7 DEF StrangersInv, Authenticated
  <2>2. CASE Goto(t, "login") /\ UNCHANGED <<user_auth, cancel, handVars>>
    <3>1. ~Known => Stranger(t)'
      BY <1>0, <1>4, <2>2 DEF AuthFind, Stranger
    <3> QED
      BY <1>4, <2>2, <3>1, StrangerMoves DEF AuthFind, Authenticated
  <2> QED
    BY <1>4, <2>1, <2>2 DEF AuthFind
<1>5. CASE AuthQueryFails(t)
  <2>1. ~Known => Stranger(t)'
    BY <1>0, <1>5 DEF AuthQueryFails, Stranger
  <2> QED
    BY <1>5, <2>1, StrangerMoves DEF AuthQueryFails, Authenticated
<1>6. CASE LogIn(t)
  <2>1. Authenticated(t)'
    BY <1>6 DEF LogIn, Authenticated
  <2>2. /\ \A u \in Threads : u # t =>
            /\ pc'[u] = pc[u] /\ pk'[u] = pk[u] /\ user_auth'[u] = user_auth[u]
            /\ node'[u] = node[u]
        /\ pc'[t] # "route" /\ UNCHANGED <<sock, sent, in_queue, cancel>>
        /\ addrs' = addrs \cup {<<userid[t], t>>}
    BY <1>6 DEF LogIn, Return
  <2>3. ASSUME NEW u \in Threads, ~Authenticated(u)' PROVE Stranger(u)'
    BY <2>1, <2>2, <2>3 DEF StrangersInv, Stranger, Authenticated
  <2>4. ASSUME NEW e \in addrs' PROVE Authenticated(e[2])'
    <3>1. CASE e \in addrs
      BY <2>1, <2>2, <3>1 DEF StrangersInv, Authenticated, SharedTypes
    <3>2. CASE e = <<userid[t], t>>
      BY <2>1, <3>2 DEF Authenticated
    <3> QED
      BY <2>2, <2>4, <3>1, <3>2
  <2>5. ASSUME NEW u \in Threads, pc'[u] = "route" PROVE Authenticated(node[u])'
    BY <2>1, <2>2, <2>5 DEF StrangersInv, Authenticated, HandsFull
  <2> QED
    BY <2>3, <2>4, <2>5 DEF StrangersInv, Authenticated
<1>7. CASE QueueEmpty(t)
  <2>1. ~Known => Stranger(t)'
    BY <1>0, <1>7 DEF QueueEmpty, NextTurn, Stranger, Authenticated
  <2> QED
    BY <1>7, <2>1, StrangerMoves DEF QueueEmpty, NextTurn, Authenticated
<1>8. CASE ClientSend(t)
  <2>1. PICK r \in Requests[t] :
            /\ r.type = "AUTH" <=> sent[t] = 0
            /\ sock' = [sock EXCEPT ![t] = Append(@,
                  [type |-> r.type, sender |-> r.sender, receiver |-> r.receiver,
                   msg |-> r.msg, conn |-> t, seq |-> sent[t] + 1])]
    BY <1>8 DEF ClientSend
  <2> DEFINE p == [type |-> r.type, sender |-> r.sender, receiver |-> r.receiver,
                   msg |-> r.msg, conn |-> t, seq |-> sent[t] + 1]
  <2>2. sock' = [sock EXCEPT ![t] = Append(sock[t], p)] /\ p.type = r.type
    BY <2>1
  <2> HIDE DEF p
  <2>3. /\ sock'[t] # <<>>
        /\ sock[t] = <<>> => sock'[t][1] = p
        /\ sock[t] # <<>> => sock'[t][1] = sock[t][1]
    <3>1. sock[t] \in Seq(Packet) /\ sock'[t] = Append(sock[t], p)
      BY <2>2
    <3>2. /\ Len(sock[t]) \in Nat /\ sock[t] = <<>> <=> Len(sock[t]) = 0
          /\ DOMAIN sock'[t] = 1..(Len(sock[t]) + 1)
          /\ sock'[t][Len(sock[t]) + 1] = p
          /\ \A i \in 1..Len(sock[t]) : sock'[t][i] = sock[t][i]
      BY <3>1
    <3>3. sock'[t] # <<>> /\ (Len(sock[t]) # 0 => 1 \in 1..Len(sock[t]))
      BY <3>2
    <3> QED
      BY <3>2, <3>3
  <2>4. ~Known => Stranger(t)'
    BY <1>0, <1>8, <2>1, <2>2, <2>3 DEF ClientSend, Stranger
  <2> QED
    BY <1>8, <2>4, StrangerMoves DEF ClientSend, Authenticated
<1>9. CASE Disconnect(t)
  <2>1. ~Known => Stranger(t)'
    BY <1>0, <1>9 DEF Disconnect, Stranger
  <2> QED
    BY <1>9, <2>1, StrangerMoves DEF Disconnect, Authenticated
<1> QED
  BY <1>1, <1>2, <1>3, <1>4, <1>5, <1>6, <1>7, <1>8, <1>9

LEMMA NoMemoryStrangers ==
  ASSUME StrangersInv, TypeInv, NEW t \in Threads, NoMemory(t)
  PROVE  StrangersInv'
BY DEF NoMemory, StrangersInv, Stranger, Authenticated, clientVars, blockVars, handVars

LEMMA DeliverStrangers ==
  ASSUME StrangersInv, TypeInv, NEW t \in Threads, Deliver(t), strays' = {}
  PROVE  StrangersInv'
<1> USE DEF TypeInv, TypeOK, ThreadTypes, BlockTypes, SharedTypes
<1>1. pc[t] = "route" /\ node[t] \in Threads
  BY DEF Deliver, Runs, HandsFull
<1>2. Authenticated(node[t]) /\ Authenticated(t)
  BY <1>1, StrangerPlaces DEF StrangersInv
<1>3. /\ UNCHANGED <<sock, sent, user_auth, cancel, addrs>>
      /\ \A u \in Threads : u # t => pc'[u] = pc[u] /\ pk'[u] = pk[u] /\ node'[u] = node[u]
      /\ pc'[t] # "route"
      /\ \A u \in Threads : u # node[t] => in_queue'[u] = in_queue[u]
  <2>1. \A u \in Threads : u # node[t] => in_queue'[u] = in_queue[u]
    BY <1>1, DeliverAstray
  <2>2. UNCHANGED <<sock, sent, user_auth, cancel, addrs>>
    BY DEF Deliver, clientVars
  <2>3. /\ \A u \in Threads : u # t => pc'[u] = pc[u] /\ pk'[u] = pk[u] /\ node'[u] = node[u]
        /\ pc'[t] # "route"
    BY DEF Deliver, Return, Goto, handVars
  <2> QED
    BY <2>1, <2>2, <2>3
<1>4. ASSUME NEW u \in Threads, ~Authenticated(u)' PROVE Stranger(u)'
  BY <1>2, <1>3, <1>4 DEF StrangersInv, Stranger, Authenticated
<1>5. \A e \in addrs' : Authenticated(e[2])'
  BY <1>3 DEF StrangersInv, Authenticated
<1>6. ASSUME NEW u \in Threads, pc'[u] = "route" PROVE Authenticated(node[u])'
  BY <1>3, <1>6 DEF StrangersInv, Authenticated
<1> QED
  BY <1>4, <1>5, <1>6 DEF StrangersInv, Authenticated

LEMMA NextStrangers ==
  ASSUME AuthFirst, StrangersInv, FromQueue, TypeInv, [Next]_vars, strays' = {}
  PROVE  StrangersInv'
<1>1. CASE UNCHANGED vars
  BY <1>1 DEF StrangersInv, Stranger, Authenticated, vars, clientVars, blockVars,
      handVars, sharedVars
<1>2. ASSUME NEW t \in Threads, Step(t) PROVE StrangersInv'
  <2>1. ~RefuseUnauthenticated(t)
    BY StrangerPlaces DEF RefuseUnauthenticated, Interprets
  <2> QED
    BY <1>2, <2>1, KnownStrangers, MoveStrangers, NoMemoryStrangers, DeliverStrangers
    DEF Step, Interpret
<1>3. ASSUME NEW t \in Threads, Environment(t) PROVE StrangersInv'
  BY <1>3, MoveStrangers DEF Environment
<1> QED
  BY <1>1, <1>2, <1>3 DEF Next, Stopped

-----------------------------------------------------------------------------
(* What has been used and not yet destroyed.                               *)

LEMMA HandNotUsed ==
  ASSUME PacketInv, fault = "none", NEW t \in Threads, pc[t] \in {"deq", "interp"}
  PROVE  pk[t] \notin Used
BY DEF PacketInv, HandUnused, Holds, Held, SameName, Answers

LEMMA QueuedNotUsed ==
  ASSUME PacketInv, NEW t \in Threads, NEW i \in DOMAIN in_queue[t]
  PROVE  in_queue[t][i] \notin Used
BY DEF PacketInv, QueueUnused, SameName, Answers

\* A step of t that uses the packet in its hand, or destroys it.
LEMMA SpentKeeps ==
  ASSUME SpentInv, PacketInv, fault = "none", NEW t \in Threads,
         \A u \in Threads : u # t => pc'[u] = pc[u] /\ pk'[u] = pk[u] /\ src'[u] = src[u],
         \/ /\ destroyed' = destroyed
            /\ Spent(t)' => pk'[t] = pk[t] /\ (Spent(t) \/ pc[t] \in {"deq", "interp"})
         \/ /\ destroyed' = destroyed \cup {pk[t]}
            /\ ~Spent(t)' /\ (Spent(t) \/ pc[t] \in {"deq", "interp"})
  PROVE  SpentInv'
<1>1. \A u \in Threads : u # t => (Spent(u)' <=> Spent(u))
  BY DEF Spent
<1>2. pc[t] \in {"deq", "interp"} =>
        pk[t] \notin destroyed /\ \A u \in Threads : Spent(u) => pk[u] # pk[t]
  BY HandNotUsed DEF Used
<1>3. Spent(t) =>
        pk[t] \notin destroyed /\ \A u \in Threads : Spent(u) /\ pk[u] = pk[t] => u = t
  BY DEF SpentInv
<1>4. ASSUME NEW u \in Threads, Spent(u)'
      PROVE  /\ pk'[u] \notin destroyed'
             /\ \A v \in Threads : Spent(v)' /\ pk'[v] = pk'[u] => v = u
  <2>1. CASE u = t
    BY <1>1, <1>2, <1>3, <1>4, <2>1
  <2>2. CASE u # t
    <3>1. /\ Spent(u) /\ pk'[u] = pk[u] /\ pk[u] \notin destroyed
          /\ \A v \in Threads : Spent(v) /\ pk[v] = pk[u] => v = u
      BY <1>1, <1>4, <2>2 DEF SpentInv
    <3> QED
      BY <1>1, <1>2, <1>3, <2>2, <3>1
  <2> QED
    BY <2>1, <2>2
<1> QED
  BY <1>4 DEF SpentInv

LEMMA UseSpent ==
  ASSUME SpentInv, PacketInv, TypeInv, FromQueue, RequestInv, fault = "none",
         NEW t \in Threads,
         \/ Accept(t) \/ RecvNothing(t) \/ RecvPacket(t) \/ AuthQueryFails(t) \/ LogIn(t)
         \/ Logout(t) \/ Ignore(t) \/ PassOn(t) \/ SendPacket(t) \/ FindReceiver(t)
         \/ InsertMessage(t) \/ Deliver(t) \/ TraceAfterHandOver(t) \/ SelectMessages(t)
         \/ OwnLocation(t) \/ AnswerLocation(t) \/ IgnoreLocation(t) \/ QueueEmpty(t)
         \/ Dequeue(t) \/ Unlock(t) \/ Cancelled(t) \/ Cleanup(t) \/ ClientSend(t)
         \/ Disconnect(t) \/ SelectFails(t) \/ NoMemory(t)
  PROVE  SpentInv'
<1> USE SpentKeeps
    DEF TypeInv, TypeOK, ThreadTypes, Goto, Spent, Return,
        clientVars, blockVars, handVars, sharedVars
<1>1. CASE Accept(t)
  BY <1>1 DEF Accept
<1>2. CASE RecvNothing(t)
  BY <1>2 DEF RecvNothing
<1>3. CASE RecvPacket(t)
  BY <1>3 DEF RecvPacket
<1>4. CASE AuthQueryFails(t)
  BY <1>4 DEF AuthQueryFails
<1>5. CASE LogIn(t)
  BY <1>5 DEF LogIn, FromQueue
<1>6. CASE Logout(t)
  BY <1>6 DEF Logout, Interprets
<1>7. CASE Ignore(t)
  BY <1>7 DEF Ignore, Interprets
<1>8. CASE PassOn(t)
  BY <1>8 DEF PassOn, Interprets, PrepareSend
<1>9. CASE SendPacket(t)
  BY <1>9 DEF SendPacket, Runs
<1>10. CASE FindReceiver(t)
  BY <1>10 DEF FindReceiver, Interprets, Forward
<1>11. CASE InsertMessage(t)
  BY <1>11 DEF InsertMessage, Runs
<1>12. CASE Deliver(t)
  <2>1. CASE Goto(t, "trace") /\ UNCHANGED handVars
    BY <1>12, <2>1 DEF Deliver, Runs
  <2>2. CASE Return(t)
    BY <1>12, <2>2 DEF Deliver, Runs
  <2> QED
    BY <1>12, <2>1, <2>2 DEF Deliver
<1>13. CASE TraceAfterHandOver(t)
  BY <1>13 DEF TraceAfterHandOver, Runs
<1>14. CASE SelectMessages(t)
  BY <1>14 DEF SelectMessages, Interprets
<1>15. CASE OwnLocation(t)
  BY <1>15 DEF OwnLocation, Interprets, PrepareSend
<1>16. CASE AnswerLocation(t)
  BY <1>16 DEF AnswerLocation, Interprets, PrepareSend, Forward
<1>17. CASE IgnoreLocation(t)
  BY <1>17 DEF IgnoreLocation, Interprets
<1>18. CASE QueueEmpty(t)
  BY <1>18 DEF QueueEmpty, NextTurn
<1>19. CASE Dequeue(t)
  BY <1>19 DEF Dequeue
<1>20. CASE Unlock(t)
  BY <1>20 DEF Unlock
<1>21. CASE Cancelled(t)
  BY <1>21 DEF Cancelled
<1>22. CASE Cleanup(t)
  BY <1>22 DEF Cleanup
<1>23. CASE ClientSend(t)
  BY <1>23 DEF ClientSend
<1>24. CASE Disconnect(t)
  BY <1>24 DEF Disconnect
<1>25. CASE SelectFails(t)
  BY <1>25 DEF SelectFails
<1>26. CASE NoMemory(t)
  BY <1>26 DEF NoMemory
<1> QED
  BY <1>25, <1>26, <1>1, <1>2, <1>3, <1>4, <1>5, <1>6, <1>7, <1>8, <1>9, <1>10, <1>11, <1>12, <1>13,
     <1>14, <1>15, <1>16, <1>17, <1>18, <1>19, <1>20, <1>21, <1>22, <1>23, <1>24

\* The branches that destroy a packet do so with one from the socket, which
\* the loop does not destroy again.
LEMMA DestroySpent ==
  ASSUME SpentInv, PacketInv, TypeInv, FromQueue, RequestInv, fault = "none",
         NEW t \in Threads,
         \/ AuthFind(t) \/ MarkReceived(t) \/ DestroyOnly(t) \/ AskLocation(t) \/ EndOfTurn(t)
  PROVE  SpentInv'
<1> USE SpentKeeps
    DEF TypeInv, TypeOK, ThreadTypes, Goto, Spent, Return,
        clientVars, blockVars, handVars, sharedVars
<1>1. ASSUME Interprets(t, {"AUTH", "GET_MSG", "SET_GEO"}) PROVE src[t] = "socket"
  BY <1>1 DEF Interprets, FromQueue, Mailed
<1>2. CASE AuthFind(t)
  <2>1. src[t] = "socket" /\ pc[t] = "interp"
    BY <1>1, <1>2 DEF AuthFind, Interprets
  <2>2. CASE Return(t)
    BY <1>2, <2>1, <2>2 DEF AuthFind
  <2>3. CASE Goto(t, "login") /\ UNCHANGED handVars
    BY <1>2, <2>1, <2>3 DEF AuthFind
  <2> QED
    BY <1>2, <2>2, <2>3 DEF AuthFind
<1>3. CASE MarkReceived(t)
  BY <1>3 DEF MarkReceived, RequestInv
<1>4. CASE DestroyOnly(t)
  <2>1. src[t] = "socket" /\ pc[t] = "interp"
    BY <1>1, <1>4 DEF DestroyOnly, Interprets
  <2> QED
    BY <1>4, <2>1 DEF DestroyOnly
<1>5. CASE AskLocation(t)
  <2>1. src[t] = "socket" /\ pc[t] = "interp"
    BY <1>5 DEF AskLocation, Interprets, FromQueue
  <2> QED
    BY <1>5, <2>1 DEF AskLocation, Forward, PrepareSend
<1>6. CASE EndOfTurn(t)
  BY <1>6 DEF EndOfTurn, Runs, NextTurn
<1> QED
  BY <1>2, <1>3, <1>4, <1>5, <1>6

\* What is in the queue of a block when it is destroyed is nobody else's.
LEMMA DestroyBlockSpent ==
  ASSUME SpentInv, PacketInv, TypeInv, fault = "none", NEW t \in Threads, DestroyBlock(t)
  PROVE  SpentInv' /\ fault' = fault
<1> USE DEF DestroyBlock, TypeInv, TypeOK, ThreadTypes
<1> DEFINE left == {in_queue[t][i] : i \in DOMAIN in_queue[t]}
<1>1. left \cap Used = {}
  BY QueuedNotUsed
<1>2. left \cap destroyed = {} /\ \A u \in Threads : Spent(u) => pk[u] \notin left
  BY <1>1 DEF Used
<1>3. destroyed' = destroyed \cup left /\ fault' = fault
  BY <1>2
<1> HIDE DEF left
<1>4. \A u \in Threads : Spent(u)' => Spent(u) /\ pk'[u] = pk[u]
  BY DEF Spent, Goto, handVars
<1> QED
  BY <1>2, <1>3, <1>4 DEF SpentInv

LEMMA NextSpent ==
  ASSUME StrangersInv, SpentInv, PacketInv, TypeInv, FromQueue, RequestInv, [Next]_vars
  PROVE  SpentInv'
<1>1. CASE UNCHANGED vars
  BY <1>1 DEF SpentInv, Spent, vars, handVars, sharedVars
<1>2. ASSUME NEW t \in Threads, Step(t) PROVE SpentInv'
  <2>1. ~RefuseUnauthenticated(t)
    BY StrangerPlaces DEF RefuseUnauthenticated, Interprets
  <2> QED
    BY <1>2, <2>1, UseSpent, DestroySpent, DestroyBlockSpent DEF Step, Interpret
<1>3. ASSUME NEW t \in Threads, Environment(t) PROVE SpentInv'
  BY <1>3, UseSpent DEF Environment
<1> QED
  BY <1>1, <1>2, <1>3 DEF Next, Stopped

\* The steps that use or free a packet.
LEMMA NextNoMemoryFault ==
  ASSUME StrangersInv, SpentInv, PacketInv, TypeInv, [Next]_vars,
         fault \notin {"use_after_free", "double_free"}
  PROVE  fault' \notin {"use_after_free", "double_free"}
<1> USE DEF SendAll, clientVars, sharedVars
<1> DEFINE Good == fault' \notin {"use_after_free", "double_free"}
<1>1. CASE UNCHANGED vars
  BY <1>1 DEF vars
<1>2. ASSUME NEW t \in Threads, Step(t) PROVE Good
  <2>1. ~RefuseUnauthenticated(t)
    BY StrangerPlaces DEF RefuseUnauthenticated, Interprets
  <2>2. CASE EndOfTurn(t)
    BY <2>2 DEF EndOfTurn, Runs, SpentInv, Spent
  <2>3. CASE DestroyBlock(t)
    BY <1>2, <2>3, DestroyBlockSpent DEF Step
  <2>4. CASE Unlock(t)
    <3>1. pk[t] \notin destroyed
      BY <1>2, <2>4, HandNotUsed DEF Step, Unlock, Runs, Used
    <3> QED
      BY <2>4, <3>1 DEF Unlock
  <2>5. CASE /\ ~EndOfTurn(t) /\ ~DestroyBlock(t) /\ ~Unlock(t) /\ ~Interpret(t)
    BY <1>2, <2>5 DEF Step, RecvNothing, RecvPacket, QueueEmpty, Dequeue, NoMemory,
       Cancelled, Cleanup
  <2>6. CASE Interpret(t)
    BY <2>1, <2>6
    DEF Interpret, AuthFind, AuthQueryFails, LogIn, Logout, Ignore, PassOn, SendPacket,
        FindReceiver, InsertMessage, Deliver, TraceAfterHandOver, SelectMessages,
        SelectFails, MarkReceived, DestroyOnly, OwnLocation, AnswerLocation, AskLocation,
        IgnoreLocation
  <2> QED
    BY <2>2, <2>3, <2>4, <2>5, <2>6
<1>3. ASSUME NEW t \in Threads, Environment(t) PROVE Good
  BY <1>3 DEF Environment, Accept, ClientSend, Disconnect
<1> QED
  BY <1>1, <1>2, <1>3 DEF Next, Stopped

LEMMA InitMemory == ASSUME Init PROVE StrangersInv /\ SpentInv
BY DEF Init, StrangersInv, Stranger, Authenticated, SpentInv, Spent

MemoryInv ==
    /\ TypeInv /\ MailInv
    /\ strays = {} =>
        FromQueue /\ PacketInv /\ RequestInv /\ StrangersInv /\ SpentInv

LEMMA MemoryInvAlways == ASSUME AuthFirst PROVE Spec => []MemoryInv
<1>1. Init => MemoryInv
  BY InitType, InitMail, InitPackets, InitRequest, InitMemory DEF MemoryInv
<1>2. MemoryInv /\ [Next]_vars => MemoryInv'
  <2> SUFFICES ASSUME MemoryInv, [Next]_vars, strays' = {}
               PROVE  (FromQueue /\ PacketInv /\ RequestInv /\ StrangersInv /\ SpentInv)'
    BY NextType, NextMail DEF MemoryInv
  <2>1. strays = {}
    BY StraysGrow
  <2> QED
    BY <2>1, NextFromQueue, NextPackets, NextRequest, NextStrangers, NextSpent
    DEF MemoryInv
<1> QED
  BY <1>1, <1>2, PTL DEF Spec

\* No packet is used after it was freed, nor freed twice: not by two threads,
\* and not by one in a branch of interpret_packets and again at the end of the
\* turn or in the cleanup.  In every build, whatever fails, and with clients
\* that leave, or share an account, while others write to them; as long as no
\* packet went astray, and with clients that authenticate first (a GET_MSG
\* before AUTH is freed twice).
THEOREM NoMemoryFaultAlways == ASSUME AuthFirst PROVE Spec => []NoMemoryFault
<1>1. Init => NoMemoryFault
  BY DEF Init, NoMemoryFault
<1>2. MemoryInv /\ NoMemoryFault /\ [Next]_vars => NoMemoryFault'
  <2> SUFFICES ASSUME MemoryInv, NoMemoryFault, [Next]_vars, strays' = {}
               PROVE  fault' \notin {"use_after_free", "double_free"}
    BY DEF NoMemoryFault
  <2>1. strays = {}
    BY StraysGrow
  <2> QED
    BY <2>1, NextNoMemoryFault DEF MemoryInv, NoMemoryFault
<1> QED
  BY <1>1, <1>2, MemoryInvAlways, PTL DEF Spec
=============================================================================
