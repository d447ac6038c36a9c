---------------------- MODULE ConnectionMessagesProofs ----------------------
(***************************************************************************)
(* Theorems about ConnectionHandler: what the clients are sent.            *)
(*                                                                         *)
(* AtMostOnceAlways: no client is sent the same message twice, and no two  *)
(* clients are.  MessageInv follows a message from the hand that read it   *)
(* to a queue, to the database and out to the clients.                     *)
(*                                                                         *)
(* InOrderAlways: the messages from one client to another arrive in the    *)
(* order in which they were sent.  OrderInv follows them along their line. *)
(***************************************************************************)
EXTENDS ConnectionPacketsProofs

-----------------------------------------------------------------------------
(***************************************************************************)
(* AtMostOnce.  PacketInv does not follow a packet out to the client and   *)
(* into the database.  MessageInv does, for messages: a name is in one     *)
(* hand, in one queue, once among the rows or once among what the clients  *)
(* have been sent.  Only a message that a thread has just sent from the    *)
(* database, between its SELECT and its UPDATE, is in two places, and then *)
(* no other thread may SELECT it: its client would be logged in to the     *)
(* same account.                                                           *)
(***************************************************************************)

\* A packet that the thread has in its hand, read from its socket or taken
\* from its queue, and has not yet put anywhere or sent.
Busy(t) == fault = "none" /\ pc[t] \in {"deq", "interp", "route", "send", "insert"}
Item(t) == IF pc[t] \in {"route", "send"} THEN pckt[t] ELSE pk[t]

HasMessage(t) == Busy(t) /\ Item(t).type = "MSG"

\* The positions of the messages that clients have been sent.
Shown == {s \in Threads \X Nat : s[2] \in DOMAIN out[s[1]] /\ out[s[1]][s[2]].type = "MSG"}
At(s) == out[s[1]][s[2]]

ItemsPast == \A t \in Threads : HasMessage(t) => Past(Item(t))

ShownPast == \A s \in Shown : Past(At(s))

ItemsApart ==
    \A t, u \in Threads :
        HasMessage(t) /\ HasMessage(u) /\ SameName(Item(t), Item(u)) => t = u

ItemOrQueue ==
    \A t, u \in Threads : HasMessage(t) =>
        \A i \in DOMAIN in_queue[u] :
            in_queue[u][i].type = "MSG" => ~SameName(Item(t), in_queue[u][i])

ItemOrShown ==
    \A t \in Threads : HasMessage(t) => \A s \in Shown : ~SameName(Item(t), At(s))

ItemOrStored ==
    \A t \in Threads : HasMessage(t) => \A m \in messages : ~SameName(Item(t), m)

QueueOrShown ==
    \A t \in Threads : \A i \in DOMAIN in_queue[t] : in_queue[t][i].type = "MSG" =>
        \A s \in Shown : ~SameName(in_queue[t][i], At(s))

ShownApart == \A s, r \in Shown : SameName(At(s), At(r)) => s = r

StoredApart == \A m, k \in messages : SameName(m, k) => m = k

\* A message that has been sent and is still stored is about to be marked.
ShownOrStored ==
    \A s \in Shown : \A m \in messages : SameName(At(s), m) =>
        pc[s[1]] = "update" /\ m.receiver = userid[s[1]]

OnlyMessagesStored == \A t \in Threads : pc[t] = "insert" => pk[t].type = "MSG"

MessageInv == /\ ItemsPast /\ ShownPast /\ ItemsApart /\ ItemOrQueue /\ ItemOrShown
              /\ ItemOrStored /\ QueueOrShown /\ ShownApart /\ StoredApart
              /\ ShownOrStored /\ OnlyMessagesStored

LEMMA ItemIsPacket ==
  ASSUME TypeInv, NEW t \in Threads, HasMessage(t)
  PROVE  Item(t) \in Packet
BY DEF TypeInv, HandsFull, HasMessage, Busy, Item

LEMMA ShownArePackets ==
  ASSUME TypeInv, NEW s \in Shown
  PROVE  s[1] \in Threads /\ At(s) \in Packet
BY ElementOfSeq DEF Shown, At, TypeInv, TypeOK, ClientTypes

\* What the clients have been sent after a send.
LEMMA ShownAfter ==
  ASSUME TypeInv, NEW t \in Threads, NEW ps \in Seq(Packet), SendAll(t, ps)
  PROVE  \A s \in Shown' :
            \/ s \in Shown /\ At(s)' = At(s)
            \/ \E k \in DOMAIN ps : s = <<t, Len(out[t]) + k>> /\ At(s)' = ps[k]
<1> USE DEF TypeInv, TypeOK, ClientTypes
<1>1. SUFFICES ASSUME NEW s \in Shown'
               PROVE  \/ s \in Shown /\ At(s)' = At(s)
                      \/ \E k \in DOMAIN ps : s = <<t, Len(out[t]) + k>> /\ At(s)' = ps[k]
  OBVIOUS
<1>2. /\ s = <<s[1], s[2]>> /\ s[1] \in Threads /\ s[2] \in Nat
      /\ s[2] \in DOMAIN out'[s[1]] /\ out'[s[1]][s[2]].type = "MSG"
  BY DEF Shown
<1>3. CASE out' = out
  BY <1>2, <1>3 DEF Shown, At
<1>4. CASE out' = [out EXCEPT ![t] = out[t] \o ps]
  <2>1. CASE s[1] # t
    BY <1>2, <1>4, <2>1 DEF Shown, At
  <2>2. CASE s[1] = t
    <3>1. out[t] \in Seq(Packet) /\ out'[t] = out[t] \o ps
      BY <1>4
    <3>2. Len(out[t]) \in Nat /\ Len(ps) \in Nat
      BY <3>1
    <3>3. s[2] \in 1..(Len(out[t]) + Len(ps))
      BY <1>2, <2>2, <3>1
    <3>4. CASE s[2] <= Len(out[t])
      <4>1. s[2] \in DOMAIN out[t] /\ out'[t][s[2]] = out[t][s[2]]
        BY <3>1, <3>2, <3>3, <3>4
      <4> QED
        BY <1>2, <2>2, <4>1 DEF Shown, At
    <3>5. CASE s[2] > Len(out[t])
      <4>1. PICK k \in 1..Len(ps) : s[2] = Len(out[t]) + k
        <5>1. s[2] - Len(out[t]) \in 1..Len(ps) /\ s[2] = Len(out[t]) + (s[2] - Len(out[t]))
          BY <3>2, <3>3, <3>5
        <5> QED
          BY <5>1
      <4>2. out'[t][s[2]] = ps[k]
        BY <3>1, <3>2, <4>1
      <4> QED
        BY <1>2, <2>2, <4>1, <4>2 DEF At
    <3> QED
      BY <1>2, <3>2, <3>4, <3>5
  <2> QED
    BY <2>1, <2>2
<1> QED
  BY <1>3, <1>4 DEF SendAll

\* A step after which no client has been sent a message more.
NothingShown == \A s \in Shown' : s \in Shown /\ At(s)' = At(s)

LEMMA SameShown == ASSUME UNCHANGED out PROVE NothingShown
BY DEF NothingShown, Shown, At

LEMMA ReplyShowsNothing ==
  ASSUME TypeInv, NEW t \in Threads, NEW p \in Packet, p.type # "MSG", SendAll(t, <<p>>)
  PROVE  NothingShown
<1>1. \A k \in DOMAIN <<p>> : <<p>>[k] = p
  OBVIOUS
<1>2. <<p>> \in Seq(Packet)
  OBVIOUS
<1>3. ASSUME NEW s \in Shown' PROVE At(s)'.type = "MSG"
  BY DEF Shown, At
<1> QED
  BY <1>1, <1>2, <1>3, ShownAfter DEF NothingShown

\* A step that neither sends nor stores a message, nor puts one in a queue or
\* takes one out of it or the socket.
LEMMA MessagesKeep ==
  ASSUME MessageInv, TypeInv, NothingShown,
         \A p \in Packet : Past(p) => Past(p)',
         \A u \in Threads : HasMessage(u)' => HasMessage(u) /\ Item(u)' = Item(u),
         \A u \in Threads : \A i \in DOMAIN in_queue'[u] :
            \E j \in DOMAIN in_queue[u] : in_queue'[u][i] = in_queue[u][j],
         messages' \subseteq messages,
         \A u \in Threads : pc[u] = "update" =>
            \/ pc'[u] = "update" /\ userid'[u] = userid[u]
            \/ \A m \in messages' : m.receiver # userid[u],
         \A u \in Threads : pc'[u] = "insert" => pk'[u].type = "MSG"
  PROVE  MessageInv'
<1>1. ItemsPast'
  <2>1. ASSUME NEW u \in Threads, HasMessage(u)' PROVE Past(Item(u))'
    <3>1. PICK q \in Packet : q = Item(u) /\ Past(q)
      BY <2>1, ItemIsPacket DEF MessageInv, ItemsPast
    <3>2. Past(q)' /\ Item(u)' = q
      BY <2>1, <3>1
    <3> QED
      BY <3>2 DEF Past
  <2> QED
    BY <2>1 DEF ItemsPast, Past
<1>2. ShownPast'
  <2>1. ASSUME NEW s \in Shown' PROVE Past(At(s))'
    <3>1. PICK q \in Packet : q = At(s) /\ Past(q)
      BY ShownArePackets DEF NothingShown, MessageInv, ShownPast
    <3>2. Past(q)' /\ At(s)' = q
      BY <3>1 DEF NothingShown
    <3> QED
      BY <3>2 DEF Past
  <2> QED
    BY <2>1 DEF ShownPast, Past
<1>3. ItemsApart'
  BY DEF MessageInv, ItemsApart, SameName
<1>4. ItemOrQueue'
  <2>1. ASSUME NEW t \in Threads, NEW u \in Threads, HasMessage(t)',
               NEW i \in DOMAIN in_queue'[u], in_queue'[u][i].type = "MSG"
        PROVE  ~SameName(Item(t)', in_queue'[u][i])
    <3>1. PICK j \in DOMAIN in_queue[u] : in_queue'[u][i] = in_queue[u][j]
      BY <2>1
    <3> QED
      BY <2>1, <3>1 DEF MessageInv, ItemOrQueue
  <2> QED
    BY <2>1 DEF ItemOrQueue, SameName
<1>5. ItemOrShown' /\ ItemOrStored'
  BY DEF NothingShown, MessageInv, ItemOrShown, ItemOrStored, SameName
<1>6. QueueOrShown'
  <2>1. ASSUME NEW u \in Threads, NEW i \in DOMAIN in_queue'[u], in_queue'[u][i].type = "MSG",
               NEW s \in Shown'
        PROVE  ~SameName(in_queue'[u][i], At(s)')
    <3>1. PICK j \in DOMAIN in_queue[u] : in_queue'[u][i] = in_queue[u][j]
      BY <2>1
    <3> QED
      BY <2>1, <3>1 DEF NothingShown, MessageInv, QueueOrShown
  <2> QED
    BY <2>1 DEF QueueOrShown, SameName
<1>7. ShownApart' /\ StoredApart'
  BY DEF NothingShown, MessageInv, ShownApart, StoredApart, SameName
<1>8. ShownOrStored'
  <2>1. ASSUME NEW s \in Shown', NEW m \in messages', SameName(At(s)', m)
        PROVE  pc'[s[1]] = "update" /\ m.receiver = userid'[s[1]]
    BY <2>1, ShownArePackets DEF NothingShown, MessageInv, ShownOrStored
  <2> QED
    BY <2>1 DEF ShownOrStored, SameName
<1>9. OnlyMessagesStored'
  BY DEF OnlyMessagesStored
<1> QED
  BY <1>1, <1>2, <1>3, <1>4, <1>5, <1>6, <1>7, <1>8, <1>9 DEF MessageInv

\* A step of t that puts and takes no packet anywhere and sends no message,
\* and after which t has the message it had in its hand before, or none.
Quiet(t) ==
    /\ NothingShown
    /\ UNCHANGED <<sock, sent, in_queue, messages>>
    /\ \A u \in Threads : u # t =>
          /\ pc'[u] = pc[u] /\ pk'[u] = pk[u] /\ pckt'[u] = pckt[u]
          /\ userid'[u] = userid[u] /\ src'[u] = src[u]
    /\ HasMessage(t)' => Busy(t) /\ Item(t)' = Item(t) /\ src'[t] = src[t]
    /\ \/ UNCHANGED <<pc, pk, userid>>
       \/ pc[t] # "update" /\ (pc'[t] = "insert" => pk'[t].type = "MSG")

LEMMA QuietMessages ==
  ASSUME MessageInv, TypeInv, fault = "none", NEW t \in Threads, Quiet(t)
  PROVE  MessageInv'
<1>1. \A u \in Threads : HasMessage(u)' => HasMessage(u) /\ Item(u)' = Item(u)
  BY DEF Quiet, HasMessage, Busy, Item
<1>2. \A u \in Threads : pc'[u] = "insert" => pk'[u].type = "MSG"
  BY DEF Quiet, MessageInv, OnlyMessagesStored
<1>3. \A p \in Packet : Past(p) => Past(p)'
  BY SamePast DEF Quiet
<1>4. \A u \in Threads : pc[u] = "update" => pc'[u] = "update" /\ userid'[u] = userid[u]
  BY DEF Quiet
<1>5. /\ NothingShown /\ messages' = messages
      /\ \A u \in Threads : \A i \in DOMAIN in_queue'[u] : in_queue'[u][i] = in_queue[u][i]
  BY DEF Quiet
<1>6. in_queue' = in_queue
  BY DEF Quiet
<1> QED
  BY <1>1, <1>2, <1>3, <1>4, <1>5, <1>6, MessagesKeep

LEMMA QuietSteps ==
  ASSUME TypeInv, fault = "none", NEW t \in Threads,
         \/ Accept(t) \/ RecvNothing(t) \/ AuthFind(t) \/ AuthQueryFails(t) \/ LogIn(t)
         \/ RefuseUnauthenticated(t) \/ Logout(t) \/ Ignore(t) \/ PassOn(t)
         \/ TraceAfterHandOver(t) \/ DestroyOnly(t) \/ OwnLocation(t) \/ IgnoreLocation(t)
         \/ QueueEmpty(t) \/ Unlock(t) \/ EndOfTurn(t) \/ Cancelled(t) \/ Disconnect(t)
         \/ FindReceiver(t) \/ AnswerLocation(t) \/ AskLocation(t)
         \/ SelectFails(t) \/ NoMemory(t)
  PROVE  Quiet(t)
<1> USE DEF TypeInv, TypeOK, ThreadTypes, BlockTypes, Goto, HasMessage, Busy, Item,
            Quiet, clientVars, blockVars, handVars, sharedVars
<1>1. CASE Accept(t)
  BY <1>1, SameShown DEF Accept
<1>2. CASE RecvNothing(t)
  BY <1>2, SameShown DEF RecvNothing
<1>3. CASE AuthFind(t)
  <2>1. CASE SendAll(t, <<Reply(t, "FIN", NoUser)>>) /\ Return(t)
    <3>1. Reply(t, "FIN", NoUser) \in Packet /\ Reply(t, "FIN", NoUser).type # "MSG"
      BY ReplyIsPacket DEF Types, Reply
    <3>2. NothingShown
      BY <2>1, <3>1, ReplyShowsNothing DEF TypeInv, TypeOK
    <3> QED
      BY <1>3, <2>1, <3>2 DEF AuthFind, Interprets, Return
  <2>2. CASE Goto(t, "login") /\ UNCHANGED <<out, handVars>>
    BY <1>3, <2>2, SameShown DEF AuthFind, Interprets
  <2> QED
    BY <1>3, <2>1, <2>2 DEF AuthFind
<1>4. CASE AuthQueryFails(t)
  BY <1>4, SameShown DEF AuthQueryFails, Interprets
<1>5. CASE LogIn(t)
  <2>1. userid[t] \in Users
    BY <1>5 DEF LogIn, HandsFull
  <2>2. Reply(t, "ACK", userid[t]) \in Packet /\ Reply(t, "ACK", userid[t]).type # "MSG"
    BY <2>1, ReplyIsPacket DEF Types, Reply
  <2>3. NothingShown
    BY <1>5, <2>2, ReplyShowsNothing DEF LogIn
  <2> QED
    BY <1>5, <2>3 DEF LogIn, Return
<1>6. CASE RefuseUnauthenticated(t)
  BY <1>6, SameShown DEF RefuseUnauthenticated, Interprets, Return
<1>7. CASE Logout(t)
  BY <1>7, SameShown DEF Logout, Interprets, Return
<1>8. CASE Ignore(t)
  BY <1>8, SameShown DEF Ignore, Interprets, Return
<1>9. CASE PassOn(t)
  BY <1>9, SameShown DEF PassOn, Interprets, PrepareSend
<1>10. CASE TraceAfterHandOver(t)
  BY <1>10, SameShown DEF TraceAfterHandOver, Runs, Return
<1>11. CASE DestroyOnly(t)
  BY <1>11, SameShown DEF DestroyOnly, Interprets, Return
<1>12. CASE OwnLocation(t)
  <2>1. pk[t] \in Packet /\ pc[t] = "interp"
    BY <1>12 DEF OwnLocation, Interprets, HandsFull
  <2>2. [pk[t] EXCEPT !.type = "GEO"].type = "GEO"
    BY <2>1 DEF Packet
  <2>3. ~HasMessage(t)'
    BY <1>12, <2>2 DEF OwnLocation, PrepareSend
  <2> QED
    BY <1>12, <2>1, <2>3, SameShown DEF OwnLocation, PrepareSend
<1>13. CASE IgnoreLocation(t)
  BY <1>13, SameShown DEF IgnoreLocation, Interprets, Return
<1>14. CASE QueueEmpty(t)
  BY <1>14, SameShown DEF QueueEmpty, NextTurn
<1>15. CASE Unlock(t)
  BY <1>15, SameShown DEF Unlock, Runs
<1>16. CASE EndOfTurn(t)
  BY <1>16, SameShown DEF EndOfTurn, Runs, NextTurn
<1>17. CASE Cancelled(t)
  <2>1. pc[t] # "update"
    BY <1>17 DEF Cancelled, AtCancellationPoint
  <2> QED
    BY <1>17, <2>1, SameShown DEF Cancelled
<1>18. CASE Disconnect(t)
  BY <1>18, SameShown DEF Disconnect
<1>19. CASE FindReceiver(t)
  BY <1>19, SameShown DEF FindReceiver, Interprets, Forward
<1>20. ASSUME PrepareSend(t, Reply(t, "ACK", NoUser)) PROVE ~HasMessage(t)'
  BY <1>20 DEF PrepareSend, Reply
<1>21. CASE AnswerLocation(t)
  <2>1. pk[t] \in Packet /\ pc[t] = "interp"
    BY <1>21 DEF AnswerLocation, Interprets, HandsFull
  <2>2. AnswerTo(pk[t]).type = "GEO"
    BY <2>1 DEF Packet, AnswerTo
  <2>3. ~HasMessage(t)' /\ pc'[t] # "insert"
    BY <1>20, <1>21, <2>2 DEF AnswerLocation, PrepareSend, Forward, Return
  <2> QED
    BY <1>21, <2>1, <2>3, SameShown
    DEF AnswerLocation, PrepareSend, Forward, Return
<1>22. CASE AskLocation(t)
  <2>1. pk[t].type = "GET_GEO" /\ pc[t] = "interp"
    BY <1>22 DEF AskLocation, Interprets
  <2>2. ~HasMessage(t)' /\ pc'[t] # "insert"
    BY <1>20, <1>22, <2>1 DEF AskLocation, PrepareSend, Forward
  <2> QED
    BY <1>22, <2>1, <2>2, SameShown
    DEF AskLocation, PrepareSend, Forward
<1>23. CASE SelectFails(t)
  BY <1>23, SameShown DEF SelectFails, Interprets
<1>24. CASE NoMemory(t)
  BY <1>24, SameShown DEF NoMemory
<1> QED
  BY <1>1, <1>2, <1>3, <1>4, <1>5, <1>6, <1>7, <1>8, <1>9, <1>10, <1>11, <1>12, <1>13,
     <1>14, <1>15, <1>16, <1>17, <1>18, <1>19, <1>21, <1>22, <1>23, <1>24

\* The steps that only take packets away: from the socket, the database, the
\* queue.  And the one that adds to the socket.
LEMMA AwayMessages ==
  ASSUME MessageInv, TypeInv, ~DbMayFail, NEW t \in Threads,
         ClientSend(t) \/ Cleanup(t) \/ MarkReceived(t) \/ DestroyBlock(t)
  PROVE  MessageInv'
<1> USE DEF TypeInv, TypeOK, ThreadTypes, BlockTypes, Goto, HasMessage, Busy, Item,
            clientVars, blockVars, handVars, sharedVars
<1>1. CASE ClientSend(t)
  <2>1. \A p \in Packet : Past(p) => Past(p)'
    BY <1>1, ClientSendPast
  <2>2. UNCHANGED <<out, in_queue, pc, pk, pckt, fault, userid, messages>>
    BY <1>1 DEF ClientSend
  <2> QED
    BY <2>1, <2>2, SameShown, MessagesKeep DEF MessageInv, OnlyMessagesStored
<1>2. CASE Cleanup(t)
  <2>1. \A p \in Packet : Past(p) => Past(p)'
    BY <1>2, CleanupPast
  <2>2. /\ UNCHANGED <<out, in_queue, pk, pckt, fault, userid, messages>>
        /\ pc[t] = "cleanup" /\ pc' = [pc EXCEPT ![t] = "drain"]
    BY <1>2 DEF Cleanup
  <2> QED
    BY <2>1, <2>2, SameShown, MessagesKeep DEF MessageInv, OnlyMessagesStored
<1>3. CASE MarkReceived(t)
  <2>1. \A p \in Packet : Past(p) => Past(p)'
    BY <1>3, SamePast DEF MarkReceived
  <2>2. messages' = messages \ Unread(userid[t])
    BY <1>3 DEF MarkReceived, Marked
  <2>3. messages' \subseteq messages /\ \A m \in messages' : m.receiver # userid[t]
    BY <2>2 DEF Unread
  <2>4. /\ UNCHANGED <<out, in_queue, fault, userid>>
        /\ pc'[t] \in {"queue", "end"}
        /\ \A u \in Threads : u # t =>
              pc'[u] = pc[u] /\ pk'[u] = pk[u] /\ pckt'[u] = pckt[u]
    BY <1>3 DEF MarkReceived, Return
  <2>5. \A u \in Threads : HasMessage(u)' => HasMessage(u) /\ Item(u)' = Item(u)
    BY <2>4
  <2>6. \A u \in Threads : pc[u] = "update" =>
            \/ pc'[u] = "update" /\ userid'[u] = userid[u]
            \/ \A m \in messages' : m.receiver # userid[u]
    BY <2>3, <2>4
  <2>7. \A u \in Threads : pc'[u] = "insert" => pk'[u].type = "MSG"
    BY <2>4 DEF MessageInv, OnlyMessagesStored
  <2> QED
    BY <2>1, <2>3, <2>4, <2>5, <2>6, <2>7, SameShown, MessagesKeep
<1>4. CASE DestroyBlock(t)
  <2>1. \A p \in Packet : Past(p) => Past(p)'
    BY <1>4, SamePast DEF DestroyBlock
  <2>2. /\ UNCHANGED <<out, pk, pckt, userid, messages>>
        /\ fault' \in {"double_free", fault}
        /\ pc[t] = "drain" /\ pc' = [pc EXCEPT ![t] = "freed"]
    BY <1>4 DEF DestroyBlock
  <2>3. \A u \in Threads : \A i \in DOMAIN in_queue'[u] : in_queue'[u] = in_queue[u]
    BY <1>4 DEF DestroyBlock
  <2>4. \A u \in Threads : HasMessage(u)' => HasMessage(u) /\ Item(u)' = Item(u)
    BY <2>2
  <2>5. \A u \in Threads : pc[u] = "update" => pc'[u] = "update" /\ userid'[u] = userid[u]
    BY <2>2
  <2>6. \A u \in Threads : pc'[u] = "insert" => pk'[u].type = "MSG"
    BY <2>2 DEF MessageInv, OnlyMessagesStored
  <2> QED
    BY <2>1, <2>2, <2>3, <2>4, <2>5, <2>6, SameShown, MessagesKeep
<1> QED
  BY <1>1, <1>2, <1>3, <1>4

LEMMA InsertMessages ==
  ASSUME MessageInv, TypeInv, fault = "none", NEW t \in Threads, InsertMessage(t)
  PROVE  MessageInv'
<1> USE DEF TypeInv, TypeOK, ThreadTypes, BlockTypes
<1>1. pc[t] = "insert" /\ pk[t].type = "MSG"
  BY DEF InsertMessage, Runs, MessageInv, OnlyMessagesStored
<1>2. HasMessage(t) /\ Item(t) = pk[t]
  BY <1>1 DEF HasMessage, Busy, Item
<1>3. /\ UNCHANGED <<sent, sock, out, in_queue, userid>>
      /\ pc'[t] \in {"queue", "end"}
      /\ \A u \in Threads : u # t => pc'[u] = pc[u] /\ pk'[u] = pk[u] /\ pckt'[u] = pckt[u]
      /\ UNCHANGED fault
  BY DEF InsertMessage, Return, Goto, clientVars, blockVars
<1>4. messages' \subseteq messages \cup {pk[t]}
  BY DEF InsertMessage
<1>5. \A u \in Threads : HasMessage(u)' => u # t /\ HasMessage(u) /\ Item(u)' = Item(u)
  BY <1>3 DEF HasMessage, Busy, Item
<1>6. NothingShown
  BY <1>3, SameShown
<1>7. ItemsPast' /\ ShownPast'
  <2>1. ASSUME NEW u \in Threads, HasMessage(u)' PROVE Past(Item(u))'
    BY <1>3, <1>5, <2>1 DEF MessageInv, ItemsPast, Past
  <2>2. ASSUME NEW s \in Shown' PROVE Past(At(s))'
    BY <1>3, <1>6, <2>2 DEF NothingShown, MessageInv, ShownPast, Past
  <2> QED
    BY <2>1, <2>2 DEF ItemsPast, ShownPast, Past
<1>8. ItemsApart'
  <2>1. ASSUME NEW u \in Threads, NEW v \in Threads, HasMessage(u)', HasMessage(v)',
               SameName(Item(u)', Item(v)')
        PROVE  u = v
    BY <1>5, <2>1 DEF MessageInv, ItemsApart
  <2> QED
    BY <2>1 DEF ItemsApart, SameName
<1>9. ItemOrQueue'
  <2>1. ASSUME NEW u \in Threads, NEW v \in Threads, HasMessage(u)',
               NEW i \in DOMAIN in_queue[v], in_queue[v][i].type = "MSG"
        PROVE  ~SameName(Item(u)', in_queue[v][i])
    BY <1>5, <2>1 DEF MessageInv, ItemOrQueue
  <2> QED
    BY <1>3, <2>1 DEF ItemOrQueue, SameName
<1>14. ItemOrShown' /\ QueueOrShown' /\ ShownApart'
  <2>1. ASSUME NEW u \in Threads, HasMessage(u)', NEW s \in Shown'
        PROVE  ~SameName(Item(u)', At(s)')
    BY <1>5, <1>6, <2>1 DEF NothingShown, MessageInv, ItemOrShown
  <2>2. ASSUME NEW u \in Threads, NEW i \in DOMAIN in_queue[u], in_queue[u][i].type = "MSG",
               NEW s \in Shown'
        PROVE  ~SameName(in_queue[u][i], At(s)')
    BY <1>6, <2>2 DEF NothingShown, MessageInv, QueueOrShown
  <2>3. ASSUME NEW s \in Shown', NEW r \in Shown', SameName(At(s)', At(r)')
        PROVE  s = r
    BY <1>6, <2>3 DEF NothingShown, MessageInv, ShownApart
  <2> QED
    BY <1>3, <2>1, <2>2, <2>3 DEF ItemOrShown, QueueOrShown, ShownApart, SameName
<1>10. ItemOrStored'
  <2>1. ASSUME NEW u \in Threads, HasMessage(u)', NEW m \in messages'
        PROVE  ~SameName(Item(u)', m)
    BY <1>2, <1>4, <1>5, <2>1 DEF MessageInv, ItemOrStored, ItemsApart
  <2> QED
    BY <2>1 DEF ItemOrStored, SameName
<1>11. StoredApart'
  <2>1. \A m \in messages : ~SameName(pk[t], m) /\ ~SameName(m, pk[t])
    BY <1>2 DEF MessageInv, ItemOrStored, SameName
  <2> QED
    BY <1>4, <2>1 DEF MessageInv, StoredApart, SameName
<1>12. ShownOrStored'
  <2>1. ASSUME NEW s \in Shown', NEW m \in messages', SameName(At(s)', m)
        PROVE  pc'[s[1]] = "update" /\ m.receiver = userid'[s[1]]
    <3>1. s \in Shown /\ s[1] \in Threads /\ SameName(At(s), m)
      BY <1>6, <2>1, ShownArePackets DEF NothingShown
    <3>2. ~SameName(At(s), pk[t])
      BY <1>2, <3>1 DEF MessageInv, ItemOrShown, SameName
    <3>3. pc[s[1]] = "update" /\ m.receiver = userid[s[1]]
      BY <1>4, <2>1, <3>1, <3>2 DEF MessageInv, ShownOrStored
    <3> QED
      BY <1>1, <1>3, <3>1, <3>3
  <2> QED
    BY <2>1 DEF ShownOrStored, SameName
<1>13. OnlyMessagesStored'
  BY <1>3 DEF MessageInv, OnlyMessagesStored
<1> QED
  BY <1>7, <1>8, <1>9, <1>10, <1>11, <1>12, <1>13, <1>14 DEF MessageInv

\* A message goes from the hand that enqueues it to the queue.
LEMMA DeliverMessages ==
  ASSUME MessageInv, TypeInv, fault = "none", NEW t \in Threads, Deliver(t),
         strays' = {}
  PROVE  MessageInv'
<1> USE DEF TypeInv, TypeOK, BlockTypes, ThreadTypes
<1>1. pc[t] = "route" /\ node[t] \in Threads /\ pckt[t] \in Packet
  BY DEF Deliver, Runs, HandsFull
<1>2. PICK p : p = pckt[t]
  OBVIOUS
<1>3. /\ UNCHANGED <<sock, sent, out, messages, userid>>
      /\ \A u \in Threads : u # t => pc'[u] = pc[u] /\ pk'[u] = pk[u] /\ pckt'[u] = pckt[u]
      /\ pc'[t] \in {"trace", "queue", "end"}
  BY DEF Deliver, Return, Goto, handVars, clientVars
<1>4. p.type = "MSG" => HasMessage(t) /\ Item(t) = p
  BY <1>1, <1>2 DEF HasMessage, Busy, Item
<1>5. \A u \in Threads : HasMessage(u)' => u # t /\ HasMessage(u) /\ Item(u)' = Item(u)
  BY <1>3 DEF HasMessage, Busy, Item
<1>6. \/ in_queue' = [in_queue EXCEPT ![node[t]] = Append(@, p)]
      \/ in_queue' = in_queue
  BY <1>2, DeliverAstray
<1>7. ASSUME NEW u \in Threads, NEW i \in DOMAIN in_queue'[u]
      PROVE  \/ i \in DOMAIN in_queue[u] /\ in_queue'[u][i] = in_queue[u][i]
             \/ in_queue'[u][i] = p
  <2>1. CASE in_queue' = [in_queue EXCEPT ![node[t]] = Append(in_queue[node[t]], p)]
    <3>1. CASE u = node[t]
      BY <1>7, <2>1, <3>1
    <3>2. CASE u # node[t]
      BY <1>7, <2>1, <3>2
    <3> QED
      BY <3>1, <3>2
  <2>2. CASE in_queue' = in_queue
    BY <1>7, <2>2
  <2> QED
    BY <1>6, <2>1, <2>2
<1>8. NothingShown
  BY <1>3, SameShown
<1>9. ItemsPast' /\ ShownPast'
  <2>1. ASSUME NEW u \in Threads, HasMessage(u)' PROVE Past(Item(u))'
    BY <1>3, <1>5, <2>1 DEF MessageInv, ItemsPast, Past
  <2>2. ASSUME NEW s \in Shown' PROVE Past(At(s))'
    BY <1>3, <1>8, <2>2 DEF NothingShown, MessageInv, ShownPast, Past
  <2> QED
    BY <2>1, <2>2 DEF ItemsPast, ShownPast, Past
<1>10. ItemsApart' /\ ItemOrShown' /\ ItemOrStored'
  <2>1. ASSUME NEW u \in Threads, NEW v \in Threads, HasMessage(u)', HasMessage(v)',
               SameName(Item(u)', Item(v)')
        PROVE  u = v
    BY <1>5, <2>1 DEF MessageInv, ItemsApart
  <2>2. ASSUME NEW u \in Threads, HasMessage(u)', NEW s \in Shown'
        PROVE  ~SameName(Item(u)', At(s)')
    BY <1>5, <1>8, <2>2 DEF NothingShown, MessageInv, ItemOrShown
  <2>3. ASSUME NEW u \in Threads, HasMessage(u)', NEW m \in messages
        PROVE  ~SameName(Item(u)', m)
    BY <1>5, <2>3 DEF MessageInv, ItemOrStored
  <2> QED
    BY <1>3, <2>1, <2>2, <2>3 DEF ItemsApart, ItemOrShown, ItemOrStored, SameName
<1>11. ItemOrQueue'
  <2>1. ASSUME NEW u \in Threads, NEW v \in Threads, HasMessage(u)',
               NEW i \in DOMAIN in_queue'[v], in_queue'[v][i].type = "MSG"
        PROVE  ~SameName(Item(u)', in_queue'[v][i])
    <3>1. CASE i \in DOMAIN in_queue[v] /\ in_queue'[v][i] = in_queue[v][i]
      BY <1>5, <2>1, <3>1 DEF MessageInv, ItemOrQueue
    <3>2. CASE in_queue'[v][i] = p
      BY <1>4, <1>5, <2>1, <3>2 DEF MessageInv, ItemsApart
    <3> QED
      BY <1>7, <3>1, <3>2
  <2> QED
    BY <2>1 DEF ItemOrQueue, SameName
<1>12. QueueOrShown'
  <2>1. ASSUME NEW v \in Threads, NEW i \in DOMAIN in_queue'[v], in_queue'[v][i].type = "MSG",
               NEW s \in Shown'
        PROVE  ~SameName(in_queue'[v][i], At(s)')
    <3>1. CASE i \in DOMAIN in_queue[v] /\ in_queue'[v][i] = in_queue[v][i]
      BY <1>8, <2>1, <3>1 DEF NothingShown, MessageInv, QueueOrShown
    <3>2. CASE in_queue'[v][i] = p
      BY <1>4, <1>8, <2>1, <3>2 DEF NothingShown, MessageInv, ItemOrShown
    <3> QED
      BY <1>7, <3>1, <3>2
  <2> QED
    BY <2>1 DEF QueueOrShown, SameName
<1>13. ShownApart' /\ StoredApart'
  <2>1. ASSUME NEW s \in Shown', NEW r \in Shown', SameName(At(s)', At(r)')
        PROVE  s = r
    BY <1>8, <2>1 DEF NothingShown, MessageInv, ShownApart
  <2> QED
    BY <1>3, <2>1 DEF MessageInv, ShownApart, StoredApart, SameName
<1>14. ShownOrStored'
  <2>1. ASSUME NEW s \in Shown', NEW m \in messages, SameName(At(s)', m)
        PROVE  pc'[s[1]] = "update" /\ m.receiver = userid'[s[1]]
    <3>1. s \in Shown /\ s[1] \in Threads /\ SameName(At(s), m)
      BY <1>8, <2>1, ShownArePackets DEF NothingShown
    <3>2. pc[s[1]] = "update" /\ m.receiver = userid[s[1]]
      BY <3>1 DEF MessageInv, ShownOrStored
    <3> QED
      BY <1>1, <1>3, <3>1, <3>2
  <2> QED
    BY <1>3, <2>1 DEF ShownOrStored, SameName
<1>15. OnlyMessagesStored'
  BY <1>3 DEF MessageInv, OnlyMessagesStored
<1> QED
  BY <1>9, <1>10, <1>11, <1>12, <1>13, <1>14, <1>15 DEF MessageInv

LEMMA DequeueMessages ==
  ASSUME MessageInv, PacketInv, TypeInv, fault = "none", NEW t \in Threads, Dequeue(t)
  PROVE  MessageInv'
<1>1. PICK h : h = Head(in_queue[t])
  OBVIOUS
<1>2. 1 \in DOMAIN in_queue[t] /\ h = in_queue[t][1]
  BY <1>1, HeadTailProperties DEF Dequeue, TypeInv, TypeOK, BlockTypes
<1>3. ASSUME NEW i \in DOMAIN in_queue'[t]
      PROVE  /\ i \in Nat /\ i + 1 \in DOMAIN in_queue[t] /\ i + 1 # 1
             /\ in_queue'[t][i] = in_queue[t][i + 1]
  BY <1>3, HeadTailProperties DEF Dequeue, Rest, TypeInv, TypeOK, BlockTypes
<1>4. /\ \A u \in Threads : u # t => in_queue'[u] = in_queue[u]
      /\ UNCHANGED <<sock, sent, out, messages, userid, fault>>
      /\ \A u \in Threads : u # t => pc'[u] = pc[u] /\ pk'[u] = pk[u] /\ pckt'[u] = pckt[u]
      /\ pc[t] = "queue" /\ pc'[t] = "deq" /\ pk'[t] = h
  BY <1>1 DEF Dequeue, Goto, clientVars, sharedVars, TypeInv, TypeOK, BlockTypes, ThreadTypes
<1>5. \A u \in Threads : u # t /\ HasMessage(u)' => HasMessage(u) /\ Item(u)' = Item(u)
  BY <1>4 DEF HasMessage, Busy, Item
<1>6. Item(t)' = h /\ (HasMessage(t)' => in_queue[t][1].type = "MSG")
  BY <1>2, <1>4 DEF HasMessage, Item
<1>7. \A u \in Threads : \A i \in DOMAIN in_queue'[u] :
          \E j \in DOMAIN in_queue[u] :
              in_queue'[u][i] = in_queue[u][j] /\ (u = t => j # 1)
  BY <1>3, <1>4
<1>8. NothingShown
  BY <1>4, SameShown
<1>9. ItemsPast' /\ ShownPast'
  <2>1. ASSUME NEW u \in Threads, HasMessage(u)' PROVE Past(Item(u))'
    <3>1. CASE u = t
      <4>1. Past(h)
        BY <1>2 DEF PacketInv, AllPast
      <4> QED
        BY <1>4, <1>6, <3>1, <4>1 DEF Past
    <3>2. CASE u # t
      BY <1>4, <1>5, <2>1, <3>2 DEF MessageInv, ItemsPast, Past
    <3> QED
      BY <3>1, <3>2
  <2>2. ASSUME NEW s \in Shown' PROVE Past(At(s))'
    BY <1>4, <1>8, <2>2 DEF NothingShown, MessageInv, ShownPast, Past
  <2> QED
    BY <2>1, <2>2 DEF ItemsPast, ShownPast, Past
<1>10. ItemsApart'
  <2>1. \A u \in Threads : HasMessage(u)' /\ HasMessage(t)' /\ u # t =>
            ~SameName(Item(u), h) /\ ~SameName(h, Item(u))
    BY <1>2, <1>5, <1>6 DEF MessageInv, ItemOrQueue, SameName
  <2>2. ASSUME NEW u \in Threads, NEW v \in Threads, HasMessage(u)', HasMessage(v)',
               SameName(Item(u)', Item(v)')
        PROVE  u = v
    BY <1>5, <1>6, <2>1, <2>2 DEF MessageInv, ItemsApart
  <2> QED
    BY <2>2 DEF ItemsApart, SameName
<1>11. ItemOrQueue'
  <2>1. ASSUME NEW u \in Threads, NEW v \in Threads, HasMessage(u)',
               NEW i \in DOMAIN in_queue'[v], in_queue'[v][i].type = "MSG"
        PROVE  ~SameName(Item(u)', in_queue'[v][i])
    <3>1. PICK j \in DOMAIN in_queue[v] :
              in_queue'[v][i] = in_queue[v][j] /\ (v = t => j # 1)
      BY <1>7
    <3>2. CASE u = t
      BY <1>2, <1>6, <3>1, <3>2 DEF PacketInv, QueuesApart
    <3>3. CASE u # t
      BY <1>5, <2>1, <3>1, <3>3 DEF MessageInv, ItemOrQueue
    <3> QED
      BY <3>2, <3>3
  <2> QED
    BY <2>1 DEF ItemOrQueue, SameName
<1>12. ItemOrShown'
  <2>1. ASSUME NEW u \in Threads, HasMessage(u)', NEW s \in Shown'
        PROVE  ~SameName(Item(u)', At(s)')
    <3>1. CASE u = t
      BY <1>2, <1>6, <1>8, <2>1, <3>1 DEF NothingShown, MessageInv, QueueOrShown
    <3>2. CASE u # t
      BY <1>5, <1>8, <2>1, <3>2 DEF NothingShown, MessageInv, ItemOrShown
    <3> QED
      BY <3>1, <3>2
  <2> QED
    BY <2>1 DEF ItemOrShown, SameName
<1>13. ItemOrStored'
  <2>1. ASSUME NEW u \in Threads, HasMessage(u)', NEW m \in messages
        PROVE  ~SameName(Item(u)', m)
    <3>1. CASE u = t
      <4>1. in_queue[t][1].type = "MSG" /\ m \in Used
        BY <1>6, <2>1, <3>1 DEF Used
      <4>2. ~SameName(in_queue[t][1], m)
        BY <1>2, <4>1 DEF PacketInv, QueueUnused, Answers
      <4> QED
        BY <1>2, <1>6, <3>1, <4>2
    <3>2. CASE u # t
      BY <1>5, <2>1, <3>2 DEF MessageInv, ItemOrStored
    <3> QED
      BY <3>1, <3>2
  <2> QED
    BY <1>4, <2>1 DEF ItemOrStored, SameName
<1>14. QueueOrShown'
  <2>1. ASSUME NEW u \in Threads, NEW i \in DOMAIN in_queue'[u], in_queue'[u][i].type = "MSG",
               NEW s \in Shown'
        PROVE  ~SameName(in_queue'[u][i], At(s)')
    <3>1. PICK j \in DOMAIN in_queue[u] : in_queue'[u][i] = in_queue[u][j]
      BY <1>7
    <3> QED
      BY <1>8, <2>1, <3>1 DEF NothingShown, MessageInv, QueueOrShown
  <2> QED
    BY <2>1 DEF QueueOrShown, SameName
<1>15. ShownApart' /\ StoredApart'
  <2>1. ASSUME NEW s \in Shown', NEW r \in Shown', SameName(At(s)', At(r)')
        PROVE  s = r
    BY <1>8, <2>1 DEF NothingShown, MessageInv, ShownApart
  <2> QED
    BY <1>4, <2>1 DEF MessageInv, ShownApart, StoredApart, SameName
<1>16. ShownOrStored'
  <2>1. ASSUME NEW s \in Shown', NEW m \in messages, SameName(At(s)', m)
        PROVE  pc'[s[1]] = "update" /\ m.receiver = userid'[s[1]]
    <3>1. s \in Shown /\ s[1] \in Threads /\ SameName(At(s), m)
      BY <1>8, <2>1, ShownArePackets DEF NothingShown
    <3>2. pc[s[1]] = "update" /\ m.receiver = userid[s[1]]
      BY <3>1 DEF MessageInv, ShownOrStored
    <3> QED
      BY <1>4, <3>1, <3>2
  <2> QED
    BY <1>4, <2>1 DEF ShownOrStored, SameName
<1>17. OnlyMessagesStored'
  BY <1>4 DEF MessageInv, OnlyMessagesStored
<1> QED
  BY <1>9, <1>10, <1>11, <1>12, <1>13, <1>14, <1>15, <1>16, <1>17 DEF MessageInv

\* The packet read has a name that is nowhere yet.
LEMMA RecvPacketMessages ==
  ASSUME MessageInv, PacketInv, TypeInv, fault = "none", NEW t \in Threads, RecvPacket(t)
  PROVE  MessageInv'
<1>1. PICK h : h = Head(sock[t])
  OBVIOUS
<1>2. /\ h \in Packet /\ Past(h)'
      /\ \A q \in Packet : Past(q) => Past(q)' /\ ~SameName(q, h) /\ ~SameName(h, q)
  BY <1>1, RecvPacketPast
<1>3. /\ UNCHANGED <<sent, out, in_queue, messages, userid, fault>>
      /\ \A u \in Threads : u # t => pc'[u] = pc[u] /\ pk'[u] = pk[u] /\ pckt'[u] = pckt[u]
      /\ pc[t] = "recv" /\ pc'[t] = "interp" /\ pk'[t] = h
  BY <1>1 DEF RecvPacket, Goto, blockVars, sharedVars, TypeInv, TypeOK, ThreadTypes
<1>4. Item(t)' = h
  BY <1>3 DEF Item
<1>5. \A u \in Threads : u # t /\ HasMessage(u)' =>
          /\ HasMessage(u) /\ Item(u)' = Item(u)
          /\ Item(u) \in Packet /\ Past(Item(u))
  BY <1>3, ItemIsPacket DEF HasMessage, Busy, Item, MessageInv, ItemsPast
<1>6. \A u \in Threads : \A i \in DOMAIN in_queue[u] :
          in_queue[u][i] \in Packet /\ Past(in_queue[u][i])
  BY ElementOfSeq DEF PacketInv, AllPast, TypeInv, TypeOK, BlockTypes
<1>7. \A m \in messages : m \in Packet /\ Past(m)
  BY DEF PacketInv, AllPast, Used, TypeInv, TypeOK, SharedTypes
<1>8. \A s \in Shown' : /\ s \in Shown /\ s[1] \in Threads /\ At(s)' = At(s)
                        /\ At(s) \in Packet /\ Past(At(s))
  BY <1>3, SameShown, ShownArePackets DEF NothingShown, MessageInv, ShownPast
<1>9. ItemsPast' /\ ShownPast'
  <2>1. ASSUME NEW u \in Threads, HasMessage(u)' PROVE Past(Item(u))'
    <3>1. CASE u = t
      BY <1>2, <1>4, <3>1 DEF Past
    <3>2. CASE u # t
      <4>1. PICK q \in Packet : q = Item(u) /\ Past(q)
        BY <1>5, <2>1, <3>2
      <4>2. Past(q)' /\ Item(u)' = q
        BY <1>2, <1>5, <2>1, <3>2, <4>1
      <4> QED
        BY <4>2 DEF Past
    <3> QED
      BY <3>1, <3>2
  <2>2. ASSUME NEW s \in Shown' PROVE Past(At(s))'
    <3>1. PICK q \in Packet : q = At(s) /\ Past(q)
      BY <1>8, <2>2
    <3>2. Past(q)' /\ At(s)' = q
      BY <1>2, <1>8, <2>2, <3>1
    <3> QED
      BY <3>2 DEF Past
  <2> QED
    BY <2>1, <2>2 DEF ItemsPast, ShownPast, Past
<1>10. ItemsApart'
  <2>1. ASSUME NEW u \in Threads, NEW v \in Threads, HasMessage(u)', HasMessage(v)',
               SameName(Item(u)', Item(v)')
        PROVE  u = v
    BY <1>2, <1>4, <1>5, <2>1 DEF MessageInv, ItemsApart
  <2> QED
    BY <2>1 DEF ItemsApart, SameName
<1>11. ItemOrQueue'
  <2>1. ASSUME NEW u \in Threads, NEW v \in Threads, HasMessage(u)',
               NEW i \in DOMAIN in_queue[v], in_queue[v][i].type = "MSG"
        PROVE  ~SameName(Item(u)', in_queue[v][i])
    <3>1. CASE u = t
      BY <1>2, <1>4, <1>6, <3>1
    <3>2. CASE u # t
      BY <1>5, <2>1, <3>2 DEF MessageInv, ItemOrQueue
    <3> QED
      BY <3>1, <3>2
  <2> QED
    BY <1>3, <2>1 DEF ItemOrQueue, SameName
<1>12. ItemOrShown' /\ ItemOrStored'
  <2>1. ASSUME NEW u \in Threads, HasMessage(u)', NEW s \in Shown'
        PROVE  ~SameName(Item(u)', At(s)')
    <3>1. CASE u = t
      BY <1>2, <1>4, <1>8, <3>1
    <3>2. CASE u # t
      BY <1>5, <1>8, <2>1, <3>2 DEF MessageInv, ItemOrShown
    <3> QED
      BY <3>1, <3>2
  <2>2. ASSUME NEW u \in Threads, HasMessage(u)', NEW m \in messages
        PROVE  ~SameName(Item(u)', m)
    <3>1. CASE u = t
      BY <1>2, <1>4, <1>7, <3>1
    <3>2. CASE u # t
      BY <1>5, <2>2, <3>2 DEF MessageInv, ItemOrStored
    <3> QED
      BY <3>1, <3>2
  <2> QED
    BY <1>3, <2>1, <2>2 DEF ItemOrShown, ItemOrStored, SameName
<1>13. QueueOrShown' /\ ShownApart' /\ StoredApart'
  <2>1. ASSUME NEW u \in Threads, NEW i \in DOMAIN in_queue[u], in_queue[u][i].type = "MSG",
               NEW s \in Shown'
        PROVE  ~SameName(in_queue[u][i], At(s)')
    BY <1>8, <2>1 DEF MessageInv, QueueOrShown
  <2>2. ASSUME NEW s \in Shown', NEW r \in Shown', SameName(At(s)', At(r)')
        PROVE  s = r
    BY <1>8, <2>2 DEF MessageInv, ShownApart
  <2> QED
    BY <1>3, <2>1, <2>2 DEF MessageInv, QueueOrShown, ShownApart, StoredApart, SameName
<1>14. ShownOrStored'
  <2>1. ASSUME NEW s \in Shown', NEW m \in messages, SameName(At(s)', m)
        PROVE  pc'[s[1]] = "update" /\ m.receiver = userid'[s[1]]
    <3>1. pc[s[1]] = "update" /\ m.receiver = userid[s[1]]
      BY <1>8, <2>1 DEF MessageInv, ShownOrStored
    <3> QED
      BY <1>3, <1>8, <3>1
  <2> QED
    BY <1>3, <2>1 DEF ShownOrStored, SameName
<1>15. OnlyMessagesStored'
  BY <1>3 DEF MessageInv, OnlyMessagesStored
<1> QED
  BY <1>9, <1>10, <1>11, <1>12, <1>13, <1>14, <1>15 DEF MessageInv

\* A step in which t sends packets whose names are neither in a hand or a
\* queue nor have been sent, and are among the rows only if t will mark them.
LEMMA SendMessages ==
  ASSUME MessageInv, TypeInv, fault = "none", NEW t \in Threads,
         UNCHANGED <<sent, sock, in_queue, messages, userid>>,
         \A u \in Threads : u # t => pc'[u] = pc[u] /\ pk'[u] = pk[u] /\ pckt'[u] = pckt[u],
         pc[t] # "update", pc'[t] # "insert", ~HasMessage(t)',
         NEW ps \in Seq(Packet), SendAll(t, ps),
         \A k \in DOMAIN ps :
            /\ Past(ps[k])
            /\ \A u \in Threads : u # t /\ HasMessage(u) => ~SameName(Item(u), ps[k])
            /\ \A u \in Threads : \A i \in DOMAIN in_queue[u] :
                  in_queue[u][i].type = "MSG" => ~SameName(in_queue[u][i], ps[k])
            /\ \A s \in Shown : ~SameName(At(s), ps[k])
            /\ \A m \in messages : SameName(ps[k], m) =>
                  pc'[t] = "update" /\ m.receiver = userid[t],
         \A k, l \in DOMAIN ps : SameName(ps[k], ps[l]) => k = l
  PROVE  MessageInv'
<1>1. \A s \in Shown' :
          \/ s \in Shown /\ At(s)' = At(s)
          \/ \E k \in DOMAIN ps : s = <<t, Len(out[t]) + k>> /\ At(s)' = ps[k]
  BY ShownAfter
<1>2. \A u \in Threads : HasMessage(u)' => u # t /\ HasMessage(u) /\ Item(u)' = Item(u)
  BY DEF HasMessage, Busy, Item
<1>3. ItemsPast' /\ ShownPast'
  <2>1. ASSUME NEW u \in Threads, HasMessage(u)' PROVE Past(Item(u))'
    BY <1>2, <2>1 DEF MessageInv, ItemsPast, Past
  <2>2. ASSUME NEW s \in Shown' PROVE Past(At(s))'
    <3>1. PICK q : q = At(s)' /\ Past(q)
      BY <1>1, <2>2 DEF MessageInv, ShownPast
    <3> QED
      BY <3>1 DEF Past
  <2> QED
    BY <2>1, <2>2 DEF ItemsPast, ShownPast, Past
<1>4. ItemsApart'
  <2>1. ASSUME NEW u \in Threads, NEW v \in Threads, HasMessage(u)', HasMessage(v)',
               SameName(Item(u)', Item(v)')
        PROVE  u = v
    BY <1>2, <2>1 DEF MessageInv, ItemsApart
  <2> QED
    BY <2>1 DEF ItemsApart, SameName
<1>5. ItemOrQueue' /\ ItemOrStored'
  <2>1. ASSUME NEW u \in Threads, NEW v \in Threads, HasMessage(u)',
               NEW i \in DOMAIN in_queue[v], in_queue[v][i].type = "MSG"
        PROVE  ~SameName(Item(u)', in_queue[v][i])
    BY <1>2, <2>1 DEF MessageInv, ItemOrQueue
  <2>2. ASSUME NEW u \in Threads, HasMessage(u)', NEW m \in messages
        PROVE  ~SameName(Item(u)', m)
    BY <1>2, <2>2 DEF MessageInv, ItemOrStored
  <2> QED
    BY <2>1, <2>2 DEF ItemOrQueue, ItemOrStored, SameName
<1>6. ItemOrShown' /\ QueueOrShown'
  <2>1. ASSUME NEW u \in Threads, HasMessage(u)', NEW s \in Shown'
        PROVE  ~SameName(Item(u)', At(s)')
    <3>1. CASE s \in Shown /\ At(s)' = At(s)
      BY <1>2, <2>1, <3>1 DEF MessageInv, ItemOrShown
    <3>2. CASE \E k \in DOMAIN ps : At(s)' = ps[k]
      BY <1>2, <2>1, <3>2
    <3> QED
      BY <1>1, <3>1, <3>2
  <2>2. ASSUME NEW u \in Threads, NEW i \in DOMAIN in_queue[u], in_queue[u][i].type = "MSG",
               NEW s \in Shown'
        PROVE  ~SameName(in_queue[u][i], At(s)')
    <3>1. CASE s \in Shown /\ At(s)' = At(s)
      BY <2>2, <3>1 DEF MessageInv, QueueOrShown
    <3>2. CASE \E k \in DOMAIN ps : At(s)' = ps[k]
      BY <2>2, <3>2
    <3> QED
      BY <1>1, <3>1, <3>2
  <2> QED
    BY <2>1, <2>2 DEF ItemOrShown, QueueOrShown, SameName
<1>7. ShownApart'
  <2>1. ASSUME NEW s \in Shown', NEW r \in Shown', SameName(At(s)', At(r)')
        PROVE  s = r
    <3>1. CASE s \in Shown /\ At(s)' = At(s) /\ r \in Shown /\ At(r)' = At(r)
      BY <2>1, <3>1 DEF MessageInv, ShownApart
    <3>2. ASSUME NEW k \in DOMAIN ps, NEW x \in Shown
          PROVE  ~SameName(At(x), ps[k]) /\ ~SameName(ps[k], At(x))
      BY DEF SameName
    <3> QED
      BY <1>1, <2>1, <3>1, <3>2
  <2> QED
    BY <2>1 DEF ShownApart, SameName
<1>8. StoredApart' /\ OnlyMessagesStored'
  BY DEF MessageInv, StoredApart, OnlyMessagesStored, SameName
<1>9. ShownOrStored'
  <2>1. ASSUME NEW s \in Shown', NEW m \in messages, SameName(At(s)', m)
        PROVE  pc'[s[1]] = "update" /\ m.receiver = userid'[s[1]]
    <3>1. CASE s \in Shown /\ At(s)' = At(s)
      <4>1. s[1] \in Threads /\ pc[s[1]] = "update" /\ m.receiver = userid[s[1]]
        BY <2>1, <3>1, ShownArePackets DEF MessageInv, ShownOrStored
      <4> QED
        BY <4>1
    <3>2. ASSUME NEW k \in DOMAIN ps, s = <<t, Len(out[t]) + k>>, At(s)' = ps[k]
          PROVE  pc'[s[1]] = "update" /\ m.receiver = userid'[s[1]]
      BY <2>1, <3>2
    <3> QED
      BY <1>1, <3>1, <3>2
  <2> QED
    BY <2>1 DEF ShownOrStored, SameName
<1> QED
  BY <1>3, <1>4, <1>5, <1>6, <1>7, <1>8, <1>9 DEF MessageInv

LEMMA SendPacketMessages ==
  ASSUME MessageInv, TypeInv, fault = "none", NEW t \in Threads, SendPacket(t)
  PROVE  MessageInv'
<1>1. pc[t] = "send" /\ pckt[t] \in Packet /\ SendAll(t, <<pckt[t]>>)
  BY DEF SendPacket, Runs, TypeInv, HandsFull
<1>2. /\ UNCHANGED <<sent, sock, in_queue, messages, userid>>
      /\ \A u \in Threads : u # t => pc'[u] = pc[u] /\ pk'[u] = pk[u] /\ pckt'[u] = pckt[u]
      /\ pc'[t] \in {"queue", "end"}
  BY DEF SendPacket, Return, Goto, blockVars, TypeInv, TypeOK, ThreadTypes
<1>3. ~HasMessage(t)'
  BY <1>2 DEF HasMessage, Busy
<1>4. CASE pckt[t].type = "MSG"
  <2>1. HasMessage(t) /\ Item(t) = pckt[t]
    BY <1>1, <1>4 DEF HasMessage, Busy, Item
  <2>2. PICK p \in Packet : p = Item(t) /\ p = pckt[t]
    BY <1>1, <2>1
  <2>3. Past(p)
    BY <2>1, <2>2 DEF MessageInv, ItemsPast
  <2>4. \A u \in Threads : u # t /\ HasMessage(u) => ~SameName(Item(u), p)
    BY <2>1, <2>2 DEF MessageInv, ItemsApart
  <2>5. \A u \in Threads : \A i \in DOMAIN in_queue[u] :
            in_queue[u][i].type = "MSG" => ~SameName(in_queue[u][i], p)
    BY <2>1, <2>2 DEF MessageInv, ItemOrQueue, SameName
  <2>6. \A s \in Shown : ~SameName(At(s), p)
    BY <2>1, <2>2 DEF MessageInv, ItemOrShown, SameName
  <2>7. \A m \in messages : ~SameName(p, m)
    BY <2>1, <2>2 DEF MessageInv, ItemOrStored
  <2>8. <<p>> \in Seq(Packet) /\ SendAll(t, <<p>>)
    BY <1>1, <2>2
  <2>9. DOMAIN <<p>> = {1} /\ <<p>>[1] = p
    OBVIOUS
  <2>10. pc'[t] # "insert" /\ pc[t] # "update"
    BY <1>1, <1>2
  <2> QED
    BY <1>2, <1>3, <2>3, <2>4, <2>5, <2>6, <2>7, <2>8, <2>9, <2>10, SendMessages
<1>5. CASE pckt[t].type # "MSG"
  <2>1. NothingShown
    BY <1>1, <1>5, ReplyShowsNothing
  <2>2. MessageInv'
    <3>1. src' = src
      BY DEF SendPacket, Return
    <3>2. Quiet(t)
      BY <1>1, <1>2, <1>3, <2>1, <3>1 DEF Quiet
    <3> QED
      BY <3>2, QuietMessages
  <2> QED
    BY <2>2
<1> QED
  BY <1>4, <1>5

\* The rows that t sends are those of its own user: whoever has been sent one
\* of them before it is marked is about to mark it, so it serves the same user
\* and is t itself, which is not about to mark anything.
LEMMA SelectMessagesMessages ==
  ASSUME MessageInv, PacketInv, TypeInv, FromQueue, RequestInv, OnlyMine, OwnAccounts,
         fault = "none", NEW t \in Threads, SelectMessages(t)
  PROVE  MessageInv'
<1>1. pc[t] = "interp" /\ pk[t].type = "GET_MSG" /\ userid[t] = pk[t].sender
  BY DEF SelectMessages, Interprets
<1>2. userid[t] \in Users
  <2>1. src[t] = "socket"
    BY <1>1 DEF FromQueue, Mailed, TypeInv, TypeOK, ThreadTypes
  <2> QED
    BY <1>1, <2>1, SenderIsUser DEF RequestInv
<1>3. /\ UNCHANGED <<sent, sock, in_queue, messages, userid>>
      /\ \A u \in Threads : u # t => pc'[u] = pc[u] /\ pk'[u] = pk[u] /\ pckt'[u] = pckt[u]
      /\ pc'[t] = "update"
  BY DEF SelectMessages, Goto, blockVars, handVars, TypeInv, TypeOK, ThreadTypes
<1>4. ~HasMessage(t)'
  BY <1>3 DEF HasMessage, Busy
<1>5. PICK taken \in SUBSET Unread(userid[t]) : \E rows \in Orders(taken) : SendAll(t, rows)
  BY DEF SelectMessages
<1>6. PICK rows \in Orders(taken) : SendAll(t, rows)
  BY <1>5
<1>7. rows \in Seq(Packet) /\ \A k \in DOMAIN rows : rows[k] \in messages
  BY RowsArePackets DEF TypeInv, TypeOK, SharedTypes
<1>8. \A k \in DOMAIN rows : rows[k].receiver = userid[t]
  BY DEF Orders, Unread
<1>9. \A k, l \in DOMAIN rows : rows[k] = rows[l] => k = l
  BY DEF Orders
<1>10. ASSUME NEW m \in messages, m.receiver = userid[t]
       PROVE  /\ Past(m)
              /\ \A u \in Threads : u # t /\ HasMessage(u) => ~SameName(Item(u), m)
              /\ \A u \in Threads : \A i \in DOMAIN in_queue[u] :
                    in_queue[u][i].type = "MSG" => ~SameName(in_queue[u][i], m)
              /\ \A s \in Shown : ~SameName(At(s), m)
              /\ \A k \in messages : SameName(m, k) => k.receiver = userid[t]
  <2>1. Past(m)
    BY DEF PacketInv, AllPast, Used
  <2>2. \A u \in Threads : HasMessage(u) => ~SameName(Item(u), m)
    BY DEF MessageInv, ItemOrStored
  <2>3. \A u \in Threads : \A i \in DOMAIN in_queue[u] :
            in_queue[u][i].type = "MSG" => ~SameName(in_queue[u][i], m)
    BY DEF PacketInv, QueueUnused, Used, Answers
  <2>4. ASSUME NEW s \in Shown, SameName(At(s), m) PROVE FALSE
    <3>1. s[1] \in Threads /\ pc[s[1]] = "update" /\ userid[s[1]] = userid[t]
      BY <1>10, <2>4, ShownArePackets DEF MessageInv, ShownOrStored
    <3>2. s[1] = t
      BY <1>2, <3>1 DEF OnlyMine, OwnAccounts
    <3> QED
      BY <1>1, <3>1, <3>2
  <2>5. \A k \in messages : SameName(m, k) => k.receiver = userid[t]
    BY <1>10 DEF MessageInv, StoredApart
  <2> QED
    BY <2>1, <2>2, <2>3, <2>4, <2>5
<1>11. \A k, l \in DOMAIN rows : SameName(rows[k], rows[l]) => k = l
  BY <1>7, <1>9 DEF MessageInv, StoredApart
<1>12. pc[t] # "update" /\ pc'[t] # "insert"
  BY <1>1, <1>3
<1> QED
  BY <1>3, <1>4, <1>6, <1>7, <1>8, <1>10, <1>11, <1>12, SendMessages

LEMMA NextMessages ==
  ASSUME ~DbMayFail, OwnAccounts, MessageInv, PacketInv, FromQueue, RequestInv, OnlyMine,
         TypeInv, [Next]_vars, strays' = {}
  PROVE  MessageInv'
<1>1. CASE UNCHANGED vars
  <2>1. NothingShown /\ UNCHANGED <<in_queue, messages, pc, userid, pk>>
    BY <1>1, SameShown DEF vars, clientVars, blockVars, handVars, sharedVars
  <2>2. \A p \in Packet : Past(p) => Past(p)'
    BY <1>1, SamePast DEF vars, clientVars
  <2>3. \A u \in Threads : HasMessage(u)' => HasMessage(u) /\ Item(u)' = Item(u)
    BY <1>1 DEF HasMessage, Busy, Item, vars, handVars, sharedVars
  <2>4. \A u \in Threads : pc'[u] = "insert" => pk'[u].type = "MSG"
    BY <2>1 DEF MessageInv, OnlyMessagesStored
  <2> QED
    BY <2>1, <2>2, <2>3, <2>4, MessagesKeep
<1>2. ASSUME NEW t \in Threads, Step(t) PROVE MessageInv'
  BY <1>2, QuietSteps, QuietMessages, AwayMessages, InsertMessages, DeliverMessages, DequeueMessages,
     RecvPacketMessages, SendPacketMessages, SelectMessagesMessages DEF Step, Interpret
<1>3. ASSUME NEW t \in Threads, Environment(t) PROVE MessageInv'
  BY <1>3, QuietSteps, QuietMessages, AwayMessages DEF Environment
<1> QED
  BY <1>1, <1>2, <1>3 DEF Next, Stopped

LEMMA InitMessages == ASSUME Init PROVE MessageInv
<1>1. Shown = {}
  BY DEF Init, Shown
<1>2. \A t \in Threads : ~HasMessage(t)
  BY DEF Init, HasMessage, Busy
<1> QED
  BY <1>1, <1>2 DEF Init, MessageInv, ItemsPast, ShownPast, ItemsApart, ItemOrQueue,
     ItemOrShown, ItemOrStored, QueueOrShown, ShownApart, StoredApart, ShownOrStored,
     OnlyMessagesStored

\* No client is sent the same message twice, and no two clients are: not from
\* a queue and from the database, not from the database twice, whatever the
\* interleaving, whichever sends fail and whoever disconnects.  As long as no
\* packet went astray, for clients that authenticate once and first, each to
\* its own accounts, and queries that do not fail: when the UPDATE of GET_MSG
\* fails, what has been sent is sent again.
THEOREM AtMostOnceAlways ==
  ASSUME AuthFirst, OwnAccounts, ~DbMayFail
  PROVE  Spec => [](strays = {} => AtMostOnce)
<1> DEFINE IInv == /\ TypeInv /\ MailInv /\ TableInv
                   /\ strays = {} => FromQueue /\ PacketInv /\ RequestInv /\ MessageInv
<1>1. Init => IInv
  <2>1. Init => TableInv
    BY NoUserIsNone DEF Init, TableInv, OnlyMine, Present, OnlineIsRegistered, HasAuth
  <2> QED
    BY <2>1, InitType, InitMail, InitPackets, InitRequest, InitMessages
<1>2. IInv /\ [Next]_vars => IInv'
  <2>1. ASSUME IInv, [Next]_vars PROVE TypeInv' /\ MailInv' /\ TableInv'
    BY <2>1, NextType, NextMail, NextTable
  <2>2. ASSUME IInv, [Next]_vars, strays' = {}
        PROVE  FromQueue' /\ PacketInv' /\ RequestInv' /\ MessageInv'
    <3>1. strays = {}
      BY <2>2, StraysGrow
    <3> QED
      BY <2>2, <3>1, NextFromQueue, NextPackets, NextRequest, NextMessages DEF TableInv
  <2> QED
    BY <2>1, <2>2
<1>3. IInv => (strays = {} => AtMostOnce)
  <2>1. ASSUME TypeInv, ShownApart, NEW t \in Threads, NEW u \in Threads,
               NEW i \in DOMAIN out[t], NEW j \in DOMAIN out[u],
               out[t][i].type = "MSG", out[t][i] = out[u][j]
        PROVE  t = u /\ i = j
    <3>1. i \in Nat /\ j \in Nat
      BY <2>1 DEF TypeInv, TypeOK, ClientTypes
    <3>2. <<t, i>> \in Shown /\ <<u, j>> \in Shown
      BY <2>1, <3>1 DEF Shown
    <3>3. <<t, i>> = <<u, j>>
      BY <2>1, <3>2 DEF ShownApart, SameName, At
    <3> QED
      BY <3>3
  <2> QED
    BY <2>1 DEF MessageInv, AtMostOnce
<1> QED
  BY <1>1, <1>2, <1>3, PTL DEF Spec

-----------------------------------------------------------------------------
(***************************************************************************)
(* InOrder.  The messages of one client that another is to be sent are in  *)
(* one line: those that it has been sent, the one that its thread has      *)
(* taken from its queue, those in its queue, and the one in the hand of    *)
(* the thread of the sender.  OrderInv says that their numbers increase    *)
(* along this line.  A message that a client sends to itself does not go   *)
(* through its queue.                                                      *)
(***************************************************************************)

\* Nobody fetches messages from the database.
NoFetch == \A t \in Threads : \A r \in Requests[t] : r.type # "GET_MSG"

Before(p, q) == p.conn = q.conn => p.seq < q.seq

\* The thread has a message of its own client in its hand, or one that has
\* been enqueued for its client.
Own(t)    == HasMessage(t) /\ src[t] = "socket"
Passed(t) == HasMessage(t) /\ src[t] = "queue"

\* What is about to be enqueued comes from the socket, and is for another.
RouteInv ==
    \A t \in Threads : pc[t] = "route" /\ pckt[t].type = "MSG" =>
        src[t] = "socket" /\ pckt[t].receiver # userid[t]

ShownInLine ==
    \A s, r \in Shown : s[1] = r[1] /\ s[2] < r[2] => Before(At(s), At(r))

PassedInLine ==
    \A t \in Threads : Passed(t) => \A s \in Shown : s[1] = t => Before(At(s), Item(t))

QueueInLine ==
    \A t \in Threads : \A i \in DOMAIN in_queue[t] : in_queue[t][i].type = "MSG" =>
        /\ in_queue[t][i].conn # t
        /\ \A s \in Shown : s[1] = t => Before(At(s), in_queue[t][i])
        /\ Passed(t) => Before(Item(t), in_queue[t][i])
        /\ \A j \in DOMAIN in_queue[t] : j < i /\ in_queue[t][j].type = "MSG" =>
              Before(in_queue[t][j], in_queue[t][i])

OwnInLine ==
    \A t \in Threads : Own(t) =>
        /\ Item(t).conn = t
        /\ \A s \in Shown : Before(At(s), Item(t))
        /\ \A u \in Threads : Passed(u) => Before(Item(u), Item(t))
        /\ \A u \in Threads : \A i \in DOMAIN in_queue[u] : in_queue[u][i].type = "MSG" =>
              Before(in_queue[u][i], Item(t))

OrderInv == /\ ItemsPast /\ ShownPast
            /\ ShownInLine /\ PassedInLine /\ QueueInLine /\ OwnInLine

LEMMA RouteKeeps ==
  ASSUME RouteInv, NEW t \in Threads,
         \A u \in Threads : u # t =>
            /\ pc'[u] = pc[u] /\ pckt'[u] = pckt[u] /\ src'[u] = src[u]
            /\ userid'[u] = userid[u],
         \/ pc'[t] # "route" \/ pckt'[t].type # "MSG"
         \/ UNCHANGED <<pc, pckt, src, userid>>
         \/ src'[t] = "socket" /\ pckt'[t].receiver # userid'[t]
  PROVE  RouteInv'
BY DEF RouteInv

LEMMA NextRoute ==
  ASSUME RouteInv, FromQueue, TypeInv, [Next]_vars PROVE RouteInv'
<1> USE RouteKeeps
    DEF TypeInv, TypeOK, ThreadTypes, BlockTypes, Goto, Return,
        clientVars, blockVars, handVars, sharedVars
<1>1. CASE UNCHANGED vars
  BY <1>1 DEF RouteInv, vars
<1>2. ASSUME NEW t \in Threads, Step(t) PROVE RouteInv'
  <2>1. CASE RecvNothing(t)
    BY <2>1 DEF RecvNothing
  <2>2. CASE RecvPacket(t)
    BY <2>2 DEF RecvPacket
  <2>3. CASE AuthFind(t)
    BY <2>3 DEF AuthFind
  <2>4. CASE AuthQueryFails(t)
    BY <2>4 DEF AuthQueryFails
  <2>5. CASE LogIn(t)
    BY <2>5 DEF LogIn
  <2>6. CASE RefuseUnauthenticated(t)
    BY <2>6 DEF RefuseUnauthenticated, Interprets
  <2>7. CASE Logout(t)
    BY <2>7 DEF Logout
  <2>8. CASE Ignore(t)
    BY <2>8 DEF Ignore
  <2>9. CASE PassOn(t)
    BY <2>9 DEF PassOn, PrepareSend
  <2>10. CASE SendPacket(t)
    BY <2>10 DEF SendPacket
  <2>11. CASE FindReceiver(t)
    <3>1. pc[t] = "interp" /\ pk[t].receiver # userid[t] /\ src[t] = "socket"
      BY <2>11 DEF FindReceiver, Interprets, FromQueue
    <3> QED
      BY <2>11, <3>1 DEF FindReceiver, Forward
  <2>12. CASE InsertMessage(t)
    BY <2>12 DEF InsertMessage
  <2>13. CASE Deliver(t)
    <3>1. pc'[t] # "route"
      BY <2>13 DEF Deliver
    <3>2. \A u \in Threads : u # t =>
            /\ pc'[u] = pc[u] /\ pckt'[u] = pckt[u] /\ src'[u] = src[u]
            /\ userid'[u] = userid[u]
      BY <2>13 DEF Deliver
    <3> QED
      BY <3>1, <3>2
  <2>14. CASE TraceAfterHandOver(t)
    BY <2>14 DEF TraceAfterHandOver
  <2>15. CASE SelectMessages(t)
    BY <2>15 DEF SelectMessages
  <2>16. CASE MarkReceived(t)
    BY <2>16 DEF MarkReceived
  <2>17. CASE DestroyOnly(t)
    BY <2>17 DEF DestroyOnly
  <2>18. CASE OwnLocation(t)
    BY <2>18 DEF OwnLocation, PrepareSend
  <2>19. CASE AnswerLocation(t)
    <3>1. AnswerTo(pk[t]).type = "GEO"
      BY <2>19 DEF AnswerLocation, Interprets, HandsFull, Packet, AnswerTo
    <3> QED
      BY <2>19, <3>1 DEF AnswerLocation, PrepareSend, Forward
  <2>20. CASE AskLocation(t)
    BY <2>20 DEF AskLocation, Interprets, PrepareSend, Forward
  <2>21. CASE IgnoreLocation(t)
    BY <2>21 DEF IgnoreLocation
  <2>22. CASE QueueEmpty(t)
    BY <2>22 DEF QueueEmpty, NextTurn
  <2>23. CASE Dequeue(t)
    BY <2>23 DEF Dequeue
  <2>24. CASE Unlock(t)
    BY <2>24 DEF Unlock
  <2>25. CASE EndOfTurn(t)
    BY <2>25 DEF EndOfTurn, NextTurn
  <2>26. CASE Cancelled(t)
    BY <2>26 DEF Cancelled
  <2>27. CASE Cleanup(t)
    BY <2>27 DEF Cleanup
  <2>28. CASE DestroyBlock(t)
    BY <2>28 DEF DestroyBlock
  <2>29. CASE SelectFails(t)
    BY <2>29 DEF SelectFails
  <2>30. CASE NoMemory(t)
    BY <2>30 DEF NoMemory
  <2> QED
    BY <1>2, <2>1, <2>2, <2>3, <2>4, <2>5, <2>6, <2>7, <2>8, <2>9, <2>10, <2>11, <2>12,
       <2>13, <2>14, <2>15, <2>16, <2>17, <2>18, <2>19, <2>20, <2>21, <2>22, <2>23, <2>24,
       <2>25, <2>26, <2>27, <2>28, <2>29, <2>30
    DEF Step, Interpret
<1>3. ASSUME NEW t \in Threads, Environment(t) PROVE RouteInv'
  BY <1>3 DEF Environment, Accept, ClientSend, Disconnect
<1> QED
  BY <1>1, <1>2, <1>3 DEF Next, Stopped

\* A step that sends no message, and puts none in a queue or a hand.
LEMMA OrderKeeps ==
  ASSUME OrderInv, TypeInv, NothingShown,
         \A p \in Packet : Past(p) => Past(p)',
         \A u \in Threads : HasMessage(u)' =>
            HasMessage(u) /\ Item(u)' = Item(u) /\ src'[u] = src[u],
         \A u \in Threads : in_queue'[u] \in {in_queue[u], <<>>}
  PROVE  OrderInv'
<1>1. ItemsPast'
  <2>1. ASSUME NEW u \in Threads, HasMessage(u)' PROVE Past(Item(u))'
    <3>1. PICK q \in Packet : q = Item(u) /\ Past(q)
      BY <2>1, ItemIsPacket DEF OrderInv, ItemsPast
    <3>2. Past(q)' /\ Item(u)' = q
      BY <2>1, <3>1
    <3> QED
      BY <3>2 DEF Past
  <2> QED
    BY <2>1 DEF ItemsPast, Past
<1>2. ShownPast'
  <2>1. ASSUME NEW s \in Shown' PROVE Past(At(s))'
    <3>1. PICK q \in Packet : q = At(s) /\ Past(q)
      BY ShownArePackets DEF NothingShown, OrderInv, ShownPast
    <3>2. Past(q)' /\ At(s)' = q
      BY <3>1 DEF NothingShown
    <3> QED
      BY <3>2 DEF Past
  <2> QED
    BY <2>1 DEF ShownPast, Past
<1>3. \A u \in Threads : (Own(u)' => Own(u)) /\ (Passed(u)' => Passed(u))
  BY DEF Own, Passed
<1>4. ShownInLine'
  <2>1. ASSUME NEW s \in Shown', NEW r \in Shown', s[1] = r[1], s[2] < r[2]
        PROVE  Before(At(s)', At(r)')
    BY <2>1 DEF NothingShown, OrderInv, ShownInLine
  <2> QED
    BY <2>1 DEF ShownInLine, Before
<1>5. PassedInLine'
  <2>1. ASSUME NEW u \in Threads, Passed(u)', NEW s \in Shown', s[1] = u
        PROVE  Before(At(s)', Item(u)')
    BY <1>3, <2>1 DEF NothingShown, Passed, OrderInv, PassedInLine
  <2> QED
    BY <2>1 DEF PassedInLine, Before
<1>6. \A u \in Threads : \A i \in DOMAIN in_queue'[u] : in_queue'[u] = in_queue[u]
  OBVIOUS
<1>7. QueueInLine'
  <2>1. ASSUME NEW u \in Threads, NEW i \in DOMAIN in_queue'[u], in_queue'[u][i].type = "MSG"
        PROVE  /\ in_queue'[u][i].conn # u
               /\ \A s \in Shown' : s[1] = u => Before(At(s)', in_queue'[u][i])
               /\ Passed(u)' => Before(Item(u)', in_queue'[u][i])
               /\ \A j \in DOMAIN in_queue'[u] : j < i /\ in_queue'[u][j].type = "MSG" =>
                     Before(in_queue'[u][j], in_queue'[u][i])
    <3>1. in_queue'[u] = in_queue[u]
      BY <1>6, <2>1
    <3>2. Passed(u)' => Passed(u) /\ Item(u)' = Item(u)
      BY <1>3 DEF Passed
    <3> QED
      BY <2>1, <3>1, <3>2 DEF NothingShown, OrderInv, QueueInLine
  <2> QED
    BY <2>1 DEF QueueInLine, Before
<1>8. OwnInLine'
  <2>1. ASSUME NEW t \in Threads, Own(t)'
        PROVE  /\ Item(t)'.conn = t
               /\ \A s \in Shown' : Before(At(s)', Item(t)')
               /\ \A u \in Threads : Passed(u)' => Before(Item(u)', Item(t)')
               /\ \A u \in Threads : \A i \in DOMAIN in_queue'[u] :
                     in_queue'[u][i].type = "MSG" => Before(in_queue'[u][i], Item(t)')
    <3>1. Own(t) /\ Item(t)' = Item(t)
      BY <1>3, <2>1 DEF Own
    <3>2. \A u \in Threads : Passed(u)' => Passed(u) /\ Item(u)' = Item(u)
      BY <1>3 DEF Passed
    <3> QED
      BY <1>6, <3>1, <3>2 DEF NothingShown, OrderInv, OwnInLine
  <2> QED
    BY <2>1 DEF OwnInLine, Before
<1> QED
  BY <1>1, <1>2, <1>4, <1>5, <1>7, <1>8 DEF OrderInv

LEMMA QuietOrder ==
  ASSUME OrderInv, TypeInv, fault = "none", NEW t \in Threads, Quiet(t)
  PROVE  OrderInv'
<1>1. \A u \in Threads : HasMessage(u)' =>
          HasMessage(u) /\ Item(u)' = Item(u) /\ src'[u] = src[u]
  BY DEF Quiet, HasMessage, Busy, Item
<1>2. \A p \in Packet : Past(p) => Past(p)'
  BY SamePast DEF Quiet
<1>3. NothingShown /\ in_queue' = in_queue
  BY DEF Quiet
<1> QED
  BY <1>1, <1>2, <1>3, OrderKeeps

\* The steps that take packets away from the socket or the queue, the one that
\* puts one in the socket, and those of the database.
LEMMA AwayOrder ==
  ASSUME OrderInv, TypeInv, fault = "none", NEW t \in Threads,
         \/ ClientSend(t) \/ Cleanup(t) \/ InsertMessage(t) \/ MarkReceived(t)
         \/ DestroyBlock(t)
  PROVE  OrderInv'
<1> USE DEF TypeInv, TypeOK, ThreadTypes, BlockTypes, Goto, HasMessage, Busy, Item, Return,
            clientVars, blockVars, handVars, sharedVars
<1>1. CASE ClientSend(t)
  <2>1. \A p \in Packet : Past(p) => Past(p)'
    BY <1>1, ClientSendPast
  <2>2. UNCHANGED <<out, in_queue, pc, pk, pckt, src, fault>>
    BY <1>1 DEF ClientSend
  <2> QED
    BY <2>1, <2>2, SameShown, OrderKeeps
<1>2. CASE Cleanup(t)
  <2>1. \A p \in Packet : Past(p) => Past(p)'
    BY <1>2, CleanupPast
  <2>2. /\ UNCHANGED <<out, in_queue, pk, pckt, src, fault>>
        /\ pc' = [pc EXCEPT ![t] = "drain"]
    BY <1>2 DEF Cleanup
  <2> QED
    BY <2>1, <2>2, SameShown, OrderKeeps
<1>3. CASE InsertMessage(t) \/ MarkReceived(t)
  <2>1. \A p \in Packet : Past(p) => Past(p)'
    BY <1>3, SamePast DEF InsertMessage, MarkReceived
  <2>2. /\ UNCHANGED <<out, in_queue, fault, src>>
        /\ pc'[t] \in {"queue", "end"}
        /\ \A u \in Threads : u # t =>
              pc'[u] = pc[u] /\ pk'[u] = pk[u] /\ pckt'[u] = pckt[u]
    BY <1>3 DEF InsertMessage, MarkReceived
  <2>3. \A u \in Threads : HasMessage(u)' =>
            HasMessage(u) /\ Item(u)' = Item(u) /\ src'[u] = src[u]
    BY <2>2
  <2> QED
    BY <2>1, <2>2, <2>3, SameShown, OrderKeeps
<1>4. CASE DestroyBlock(t)
  <2>1. \A p \in Packet : Past(p) => Past(p)'
    BY <1>4, SamePast DEF DestroyBlock
  <2>2. /\ UNCHANGED <<out, pk, pckt, src>>
        /\ fault' \in {"double_free", fault}
        /\ pc' = [pc EXCEPT ![t] = "freed"]
        /\ in_queue' = [in_queue EXCEPT ![t] = <<>>]
    BY <1>4 DEF DestroyBlock
  <2>3. \A u \in Threads : HasMessage(u)' =>
            HasMessage(u) /\ Item(u)' = Item(u) /\ src'[u] = src[u]
    BY <2>2
  <2> QED
    BY <2>1, <2>2, <2>3, SameShown, OrderKeeps
<1> QED
  BY <1>1, <1>2, <1>3, <1>4

\* The message read is later than all that its client has sent before.
LEMMA RecvPacketOrder ==
  ASSUME OrderInv, PacketInv, TypeInv, fault = "none", NEW t \in Threads, RecvPacket(t)
  PROVE  OrderInv'
<1>1. PICK h : h = Head(sock[t])
  OBVIOUS
<1>2. h = sock[t][1] /\ 1 \in DOMAIN sock[t] /\ h.conn = t
  BY <1>1, RecvPacketSocks DEF PacketInv, SockOrder
<1>3. /\ Past(h)'
      /\ \A q \in Packet : Past(q) => Past(q)' /\ Before(q, h)
  <2>1. \A q \in Packet : Past(q) => Before(q, h)
    BY <1>2 DEF Past, Before
  <2> QED
    BY <1>1, <2>1, RecvPacketPast
<1>4. /\ UNCHANGED <<out, in_queue, fault>>
      /\ \A u \in Threads : u # t =>
            pc'[u] = pc[u] /\ pk'[u] = pk[u] /\ pckt'[u] = pckt[u] /\ src'[u] = src[u]
      /\ pc'[t] = "interp" /\ pk'[t] = h /\ src'[t] = "socket"
  BY <1>1 DEF RecvPacket, Goto, blockVars, sharedVars, TypeInv, TypeOK, ThreadTypes
<1>5. Item(t)' = h /\ ~Passed(t)'
  BY <1>4 DEF Item, Passed
<1>6. \A u \in Threads : u # t /\ HasMessage(u)' =>
          /\ HasMessage(u) /\ Item(u)' = Item(u) /\ src'[u] = src[u]
          /\ Item(u) \in Packet /\ Past(Item(u))
  BY <1>4, ItemIsPacket DEF HasMessage, Busy, Item, OrderInv, ItemsPast
<1>7. /\ \A u \in Threads : u # t /\ Own(u)' => Own(u) /\ Item(u)' = Item(u)
      /\ \A u \in Threads : Passed(u)' =>
            /\ Passed(u) /\ Item(u)' = Item(u)
            /\ Item(u) \in Packet /\ Past(Item(u))
  BY <1>5, <1>6 DEF Own, Passed
<1>8. \A u \in Threads : \A i \in DOMAIN in_queue[u] :
          in_queue[u][i] \in Packet /\ Past(in_queue[u][i])
  BY ElementOfSeq DEF PacketInv, AllPast, TypeInv, TypeOK, BlockTypes
<1>9. \A s \in Shown' : s \in Shown /\ At(s)' = At(s) /\ At(s) \in Packet /\ Past(At(s))
  BY <1>4, SameShown, ShownArePackets DEF NothingShown, OrderInv, ShownPast
<1>10. ItemsPast' /\ ShownPast'
  <2>1. ASSUME NEW u \in Threads, HasMessage(u)' PROVE Past(Item(u))'
    <3>1. CASE u = t
      BY <1>3, <1>5, <3>1 DEF Past
    <3>2. CASE u # t
      <4>1. PICK q \in Packet : q = Item(u) /\ Past(q)
        BY <1>6, <2>1, <3>2
      <4>2. Past(q)' /\ Item(u)' = q
        BY <1>3, <1>6, <2>1, <3>2, <4>1
      <4> QED
        BY <4>2 DEF Past
    <3> QED
      BY <3>1, <3>2
  <2>2. ASSUME NEW s \in Shown' PROVE Past(At(s))'
    <3>1. PICK q \in Packet : q = At(s) /\ Past(q)
      BY <1>9, <2>2
    <3>2. Past(q)' /\ At(s)' = q
      BY <1>3, <1>9, <2>2, <3>1
    <3> QED
      BY <3>2 DEF Past
  <2> QED
    BY <2>1, <2>2 DEF ItemsPast, ShownPast, Past
<1>11. ShownInLine' /\ PassedInLine'
  <2>1. ASSUME NEW s \in Shown', NEW r \in Shown', s[1] = r[1], s[2] < r[2]
        PROVE  Before(At(s)', At(r)')
    BY <1>9, <2>1 DEF OrderInv, ShownInLine
  <2>2. ASSUME NEW u \in Threads, Passed(u)', NEW s \in Shown', s[1] = u
        PROVE  Before(At(s)', Item(u)')
    BY <1>7, <1>9, <2>2 DEF OrderInv, PassedInLine
  <2> QED
    BY <2>1, <2>2 DEF ShownInLine, PassedInLine, Before
<1>12. QueueInLine'
  <2>1. ASSUME NEW u \in Threads, NEW i \in DOMAIN in_queue[u], in_queue[u][i].type = "MSG"
        PROVE  /\ in_queue[u][i].conn # u
               /\ \A s \in Shown' : s[1] = u => Before(At(s)', in_queue[u][i])
               /\ Passed(u)' => Before(Item(u)', in_queue[u][i])
               /\ \A j \in DOMAIN in_queue[u] : j < i /\ in_queue[u][j].type = "MSG" =>
                     Before(in_queue[u][j], in_queue[u][i])
    BY <1>7, <1>9, <2>1 DEF OrderInv, QueueInLine
  <2> QED
    BY <1>4, <2>1 DEF QueueInLine, Before
<1>13. OwnInLine'
  <2>1. ASSUME NEW v \in Threads, Own(v)'
        PROVE  /\ Item(v)'.conn = v
               /\ \A s \in Shown' : Before(At(s)', Item(v)')
               /\ \A u \in Threads : Passed(u)' => Before(Item(u)', Item(v)')
               /\ \A u \in Threads : \A i \in DOMAIN in_queue[u] :
                     in_queue[u][i].type = "MSG" => Before(in_queue[u][i], Item(v)')
    <3>1. CASE v = t
      BY <1>2, <1>3, <1>5, <1>7, <1>8, <1>9, <3>1
    <3>2. CASE v # t
      BY <1>7, <1>9, <2>1, <3>2 DEF OrderInv, OwnInLine
    <3> QED
      BY <3>1, <3>2
  <2> QED
    BY <1>4, <2>1 DEF OwnInLine, Before
<1> QED
  BY <1>10, <1>11, <1>12, <1>13 DEF OrderInv

LEMMA DequeueOrder ==
  ASSUME OrderInv, PacketInv, TypeInv, fault = "none", NEW t \in Threads, Dequeue(t)
  PROVE  OrderInv'
<1>1. PICK h : h = Head(in_queue[t])
  OBVIOUS
<1>2. 1 \in DOMAIN in_queue[t] /\ h = in_queue[t][1]
  BY <1>1, HeadTailProperties DEF Dequeue, TypeInv, TypeOK, BlockTypes
<1>3. ASSUME NEW i \in DOMAIN in_queue'[t]
      PROVE  /\ i \in Nat /\ i + 1 \in DOMAIN in_queue[t] /\ 1 < i + 1
             /\ in_queue'[t][i] = in_queue[t][i + 1]
  BY <1>3, HeadTailProperties DEF Dequeue, Rest, TypeInv, TypeOK, BlockTypes
<1>4. /\ \A u \in Threads : u # t => in_queue'[u] = in_queue[u]
      /\ UNCHANGED <<sock, sent, out, fault>>
      /\ \A u \in Threads : u # t =>
            pc'[u] = pc[u] /\ pk'[u] = pk[u] /\ pckt'[u] = pckt[u] /\ src'[u] = src[u]
      /\ pc'[t] = "deq" /\ pk'[t] = h /\ src'[t] = "queue"
  BY <1>1 DEF Dequeue, Goto, clientVars, sharedVars, TypeInv, TypeOK, BlockTypes, ThreadTypes
<1>5. Item(t)' = h /\ ~Own(t)' /\ (HasMessage(t)' => h.type = "MSG")
  BY <1>4 DEF Item, Own, HasMessage
<1>6. \A u \in Threads : u # t /\ HasMessage(u)' =>
          HasMessage(u) /\ Item(u)' = Item(u) /\ src'[u] = src[u]
  BY <1>4 DEF HasMessage, Busy, Item
<1>7. /\ \A u \in Threads : Own(u)' => Own(u) /\ Item(u)' = Item(u)
      /\ \A u \in Threads : u # t /\ Passed(u)' => Passed(u) /\ Item(u)' = Item(u)
      /\ Passed(t)' => h.type = "MSG"
  BY <1>5, <1>6 DEF Own, Passed
<1>8. \A s \in Shown' : s \in Shown /\ At(s)' = At(s)
  BY <1>4, SameShown DEF NothingShown
<1>9. \A u \in Threads : \A i \in DOMAIN in_queue'[u] :
          \E j \in DOMAIN in_queue[u] : in_queue'[u][i] = in_queue[u][j]
  BY <1>3, <1>4
<1>10. ItemsPast' /\ ShownPast'
  <2>1. ASSUME NEW u \in Threads, HasMessage(u)' PROVE Past(Item(u))'
    <3>1. CASE u = t
      <4>1. Past(h)
        BY <1>2 DEF PacketInv, AllPast
      <4> QED
        BY <1>4, <1>5, <3>1, <4>1 DEF Past
    <3>2. CASE u # t
      BY <1>4, <1>6, <2>1, <3>2 DEF OrderInv, ItemsPast, Past
    <3> QED
      BY <3>1, <3>2
  <2>2. ASSUME NEW s \in Shown' PROVE Past(At(s))'
    BY <1>4, <1>8, <2>2 DEF OrderInv, ShownPast, Past
  <2> QED
    BY <2>1, <2>2 DEF ItemsPast, ShownPast, Past
<1>11. ShownInLine' /\ PassedInLine'
  <2>1. ASSUME NEW s \in Shown', NEW r \in Shown', s[1] = r[1], s[2] < r[2]
        PROVE  Before(At(s)', At(r)')
    BY <1>8, <2>1 DEF OrderInv, ShownInLine
  <2>2. ASSUME NEW u \in Threads, Passed(u)', NEW s \in Shown', s[1] = u
        PROVE  Before(At(s)', Item(u)')
    <3>1. CASE u = t
      BY <1>2, <1>5, <1>7, <1>8, <2>2, <3>1 DEF OrderInv, QueueInLine
    <3>2. CASE u # t
      BY <1>7, <1>8, <2>2, <3>2 DEF OrderInv, PassedInLine
    <3> QED
      BY <3>1, <3>2
  <2> QED
    BY <2>1, <2>2 DEF ShownInLine, PassedInLine, Before
<1>12. QueueInLine'
  <2>1. ASSUME NEW u \in Threads, NEW i \in DOMAIN in_queue'[u], in_queue'[u][i].type = "MSG"
        PROVE  /\ in_queue'[u][i].conn # u
               /\ \A s \in Shown' : s[1] = u => Before(At(s)', in_queue'[u][i])
               /\ Passed(u)' => Before(Item(u)', in_queue'[u][i])
               /\ \A j \in DOMAIN in_queue'[u] : j < i /\ in_queue'[u][j].type = "MSG" =>
                     Before(in_queue'[u][j], in_queue'[u][i])
    <3>1. CASE u = t
      <4>1. i \in Nat /\ i + 1 \in DOMAIN in_queue[t] /\ 1 < i + 1
            /\ in_queue'[t][i] = in_queue[t][i + 1]
        BY <1>3, <2>1, <3>1
      <4>2. in_queue[t][i + 1].type = "MSG"
        BY <2>1, <3>1, <4>1
      <4>3. /\ in_queue[t][i + 1].conn # t
            /\ \A s \in Shown : s[1] = t => Before(At(s), in_queue[t][i + 1])
            /\ \A j \in DOMAIN in_queue[t] : j < i + 1 /\ in_queue[t][j].type = "MSG" =>
                  Before(in_queue[t][j], in_queue[t][i + 1])
        BY <4>1, <4>2 DEF OrderInv, QueueInLine
      <4>4. ASSUME NEW j \in DOMAIN in_queue'[t], j < i, in_queue'[t][j].type = "MSG"
            PROVE  Before(in_queue'[t][j], in_queue[t][i + 1])
        <5>1. j \in Nat /\ j + 1 \in DOMAIN in_queue[t]
              /\ in_queue'[t][j] = in_queue[t][j + 1]
          BY <1>3, <4>4
        <5>2. j + 1 < i + 1
          BY <4>1, <4>4, <5>1
        <5> QED
          BY <4>3, <4>4, <5>1, <5>2
      <4>5. Passed(t)' => Before(h, in_queue[t][i + 1])
        BY <1>2, <1>7, <4>1, <4>3
      <4> QED
        BY <1>5, <1>8, <3>1, <4>1, <4>3, <4>4, <4>5
    <3>2. CASE u # t
      BY <1>4, <1>7, <1>8, <2>1, <3>2 DEF OrderInv, QueueInLine
    <3> QED
      BY <3>1, <3>2
  <2> QED
    BY <2>1 DEF QueueInLine, Before
<1>13. OwnInLine'
  <2>1. ASSUME NEW v \in Threads, Own(v)'
        PROVE  /\ Item(v)'.conn = v
               /\ \A s \in Shown' : Before(At(s)', Item(v)')
               /\ \A u \in Threads : Passed(u)' => Before(Item(u)', Item(v)')
               /\ \A u \in Threads : \A i \in DOMAIN in_queue'[u] :
                     in_queue'[u][i].type = "MSG" => Before(in_queue'[u][i], Item(v)')
    <3>1. Own(v) /\ Item(v)' = Item(v)
      BY <1>7, <2>1
    <3>2. ASSUME NEW u \in Threads, Passed(u)' PROVE Before(Item(u)', Item(v)')
      <4>1. CASE u = t
        BY <1>2, <1>5, <1>7, <3>1, <3>2, <4>1 DEF OrderInv, OwnInLine
      <4>2. CASE u # t
        BY <1>7, <3>1, <3>2, <4>2 DEF OrderInv, OwnInLine
      <4> QED
        BY <4>1, <4>2
    <3>3. ASSUME NEW u \in Threads, NEW i \in DOMAIN in_queue'[u], in_queue'[u][i].type = "MSG"
          PROVE  Before(in_queue'[u][i], Item(v)')
      <4>1. PICK j \in DOMAIN in_queue[u] : in_queue'[u][i] = in_queue[u][j]
        BY <1>9, <3>3
      <4> QED
        BY <3>1, <3>3, <4>1 DEF OrderInv, OwnInLine
    <3> QED
      BY <1>8, <3>1, <3>2, <3>3 DEF OrderInv, OwnInLine
  <2> QED
    BY <2>1 DEF OwnInLine, Before
<1> QED
  BY <1>10, <1>11, <1>12, <1>13 DEF OrderInv

\* A message goes from the hand of the sender's thread to the end of a queue,
\* which is that of another connection.
LEMMA DeliverOrder ==
  ASSUME OrderInv, RouteInv, RouteRight, TypeInv, fault = "none",
         NEW t \in Threads, Deliver(t), strays' = {}
  PROVE  OrderInv'
<1> USE DEF TypeInv, TypeOK, BlockTypes, ThreadTypes
<1>1. pc[t] = "route" /\ node[t] \in Threads /\ pckt[t] \in Packet
  BY DEF Deliver, Runs, HandsFull
<1>2. PICK p : p = pckt[t]
  OBVIOUS
<1>3. /\ UNCHANGED <<sock, sent, out, src>>
      /\ \A u \in Threads : u # t => pc'[u] = pc[u] /\ pk'[u] = pk[u] /\ pckt'[u] = pckt[u]
      /\ pc'[t] \in {"trace", "queue", "end"}
  BY DEF Deliver, Return, Goto, handVars, clientVars
<1>4. p.type = "MSG" => Own(t) /\ Item(t) = p /\ p.conn = t /\ node[t] # t
  <2>1. p.type = "MSG" => Own(t) /\ Item(t) = p
    BY <1>1, <1>2 DEF Own, HasMessage, Busy, Item, RouteInv
  <2>2. p.type = "MSG" => node[t] # t
    BY <1>1, <1>2 DEF RouteInv, RouteRight, Serves
  <2> QED
    BY <2>1, <2>2 DEF OrderInv, OwnInLine
<1>5. \A u \in Threads : HasMessage(u)' =>
          u # t /\ HasMessage(u) /\ Item(u)' = Item(u) /\ src'[u] = src[u]
  BY <1>3 DEF HasMessage, Busy, Item
<1>6. /\ \A u \in Threads : Own(u)' => u # t /\ Own(u) /\ Item(u)' = Item(u)
      /\ \A u \in Threads : Passed(u)' => u # t /\ Passed(u) /\ Item(u)' = Item(u)
  BY <1>5 DEF Own, Passed
<1>7. \/ in_queue' = [in_queue EXCEPT ![node[t]] = Append(@, p)]
      \/ in_queue' = in_queue
  BY <1>2, DeliverAstray
<1>8. ASSUME NEW u \in Threads, NEW i \in DOMAIN in_queue'[u]
      PROVE  /\ i \in Nat
             /\ \/ i \in DOMAIN in_queue[u] /\ in_queue'[u][i] = in_queue[u][i]
                \/ /\ u = node[t] /\ in_queue'[u][i] = p
                   /\ \A j \in DOMAIN in_queue'[u] : j < i =>
                         j \in DOMAIN in_queue[u] /\ in_queue'[u][j] = in_queue[u][j]
  <2>1. CASE in_queue' = [in_queue EXCEPT ![node[t]] = Append(in_queue[node[t]], p)]
    <3>1. CASE u = node[t]
      <4>1. in_queue[u] \in Seq(Packet) /\ in_queue'[u] = Append(in_queue[u], p)
        BY <2>1, <3>1
      <4>2. /\ Len(in_queue[u]) \in Nat /\ DOMAIN in_queue[u] = 1..Len(in_queue[u])
            /\ DOMAIN in_queue'[u] = 1..(Len(in_queue[u]) + 1)
            /\ in_queue'[u][Len(in_queue[u]) + 1] = p
            /\ \A j \in 1..Len(in_queue[u]) : in_queue'[u][j] = in_queue[u][j]
        BY <4>1
      <4>3. \A j \in DOMAIN in_queue'[u] : j < Len(in_queue[u]) + 1 =>
                j \in DOMAIN in_queue[u] /\ in_queue'[u][j] = in_queue[u][j]
        BY <4>2
      <4>4. i \in Nat /\ (i < Len(in_queue[u]) + 1 \/ i = Len(in_queue[u]) + 1)
        BY <1>8, <4>2
      <4> QED
        BY <1>8, <3>1, <4>2, <4>3, <4>4
    <3>2. CASE u # node[t]
      BY <1>8, <2>1, <3>2
    <3> QED
      BY <3>1, <3>2
  <2>2. CASE in_queue' = in_queue
    BY <1>8, <2>2
  <2> QED
    BY <1>7, <2>1, <2>2
<1>9. \A s \in Shown' : s \in Shown /\ At(s)' = At(s)
  BY <1>3, SameShown DEF NothingShown
<1>10. ItemsPast' /\ ShownPast'
  <2>1. ASSUME NEW u \in Threads, HasMessage(u)' PROVE Past(Item(u))'
    BY <1>3, <1>5, <2>1 DEF OrderInv, ItemsPast, Past
  <2>2. ASSUME NEW s \in Shown' PROVE Past(At(s))'
    BY <1>3, <1>9, <2>2 DEF OrderInv, ShownPast, Past
  <2> QED
    BY <2>1, <2>2 DEF ItemsPast, ShownPast, Past
<1>11. ShownInLine' /\ PassedInLine'
  <2>1. ASSUME NEW s \in Shown', NEW r \in Shown', s[1] = r[1], s[2] < r[2]
        PROVE  Before(At(s)', At(r)')
    BY <1>9, <2>1 DEF OrderInv, ShownInLine
  <2>2. ASSUME NEW u \in Threads, Passed(u)', NEW s \in Shown', s[1] = u
        PROVE  Before(At(s)', Item(u)')
    BY <1>6, <1>9, <2>2 DEF OrderInv, PassedInLine
  <2> QED
    BY <2>1, <2>2 DEF ShownInLine, PassedInLine, Before
<1>12. QueueInLine'
  <2>1. ASSUME NEW u \in Threads, NEW i \in DOMAIN in_queue'[u], in_queue'[u][i].type = "MSG"
        PROVE  /\ in_queue'[u][i].conn # u
               /\ \A s \in Shown' : s[1] = u => Before(At(s)', in_queue'[u][i])
               /\ Passed(u)' => Before(Item(u)', in_queue'[u][i])
               /\ \A j \in DOMAIN in_queue'[u] : j < i /\ in_queue'[u][j].type = "MSG" =>
                     Before(in_queue'[u][j], in_queue'[u][i])
    <3>1. CASE i \in DOMAIN in_queue[u] /\ in_queue'[u][i] = in_queue[u][i]
      <4>1. \A j \in DOMAIN in_queue'[u] : j < i =>
                j \in DOMAIN in_queue[u] /\ in_queue'[u][j] = in_queue[u][j]
        <5>1. CASE in_queue' = in_queue
          BY <5>1
        <5>2. CASE in_queue' = [in_queue EXCEPT ![node[t]] = Append(in_queue[node[t]], p)]
          <6>1. in_queue[u] \in Seq(Packet) /\ Len(in_queue[u]) \in Nat
                /\ DOMAIN in_queue[u] = 1..Len(in_queue[u])
            OBVIOUS
          <6>2. CASE u = node[t]
            <7>1. /\ DOMAIN in_queue'[u] = 1..(Len(in_queue[u]) + 1)
                  /\ \A j \in 1..Len(in_queue[u]) : in_queue'[u][j] = in_queue[u][j]
              BY <5>2, <6>1, <6>2
            <7> QED
              BY <3>1, <6>1, <7>1
          <6>3. CASE u # node[t]
            BY <5>2, <6>3
          <6> QED
            BY <6>2, <6>3
        <5> QED
          BY <1>7, <5>1, <5>2
      <4> QED
        BY <1>6, <1>9, <2>1, <3>1, <4>1 DEF OrderInv, QueueInLine
    <3>2. CASE /\ u = node[t] /\ in_queue'[u][i] = p
               /\ \A j \in DOMAIN in_queue'[u] : j < i =>
                     j \in DOMAIN in_queue[u] /\ in_queue'[u][j] = in_queue[u][j]
      <4>1. Own(t) /\ Item(t) = p /\ p.conn = t /\ node[t] # t
        BY <1>4, <2>1, <3>2
      <4> QED
        BY <1>6, <1>9, <3>2, <4>1 DEF OrderInv, OwnInLine
    <3> QED
      BY <1>8, <3>1, <3>2
  <2> QED
    BY <2>1 DEF QueueInLine, Before
<1>13. OwnInLine'
  <2>1. ASSUME NEW v \in Threads, Own(v)'
        PROVE  /\ Item(v)'.conn = v
               /\ \A s \in Shown' : Before(At(s)', Item(v)')
               /\ \A u \in Threads : Passed(u)' => Before(Item(u)', Item(v)')
               /\ \A u \in Threads : \A i \in DOMAIN in_queue'[u] :
                     in_queue'[u][i].type = "MSG" => Before(in_queue'[u][i], Item(v)')
    <3>1. Own(v) /\ Item(v)' = Item(v) /\ Item(v).conn = v /\ v # t
      BY <1>6, <2>1 DEF OrderInv, OwnInLine
    <3>2. ASSUME NEW u \in Threads, NEW i \in DOMAIN in_queue'[u], in_queue'[u][i].type = "MSG"
          PROVE  Before(in_queue'[u][i], Item(v)')
      <4>1. CASE i \in DOMAIN in_queue[u] /\ in_queue'[u][i] = in_queue[u][i]
        BY <3>1, <3>2, <4>1 DEF OrderInv, OwnInLine
      <4>2. CASE in_queue'[u][i] = p
        BY <1>4, <3>1, <3>2, <4>2 DEF Before
      <4> QED
        BY <1>8, <4>1, <4>2
    <3> QED
      BY <1>6, <1>9, <3>1, <3>2 DEF OrderInv, OwnInLine
  <2> QED
    BY <2>1 DEF OwnInLine, Before
<1> QED
  BY <1>10, <1>11, <1>12, <1>13 DEF OrderInv

\* What is sent comes after what the client has been sent, and before what is
\* still in its queue and in the hands of the senders.
LEMMA SendPacketOrder ==
  ASSUME OrderInv, TypeInv, fault = "none", NEW t \in Threads, SendPacket(t)
  PROVE  OrderInv'
<1>1. pc[t] = "send" /\ pckt[t] \in Packet /\ SendAll(t, <<pckt[t]>>)
  BY DEF SendPacket, Runs, TypeInv, HandsFull
<1>2. /\ UNCHANGED <<sent, sock, in_queue, messages, userid, src>>
      /\ \A u \in Threads : u # t => pc'[u] = pc[u] /\ pk'[u] = pk[u] /\ pckt'[u] = pckt[u]
      /\ pc'[t] \in {"queue", "end"}
  BY DEF SendPacket, Return, Goto, blockVars, TypeInv, TypeOK, ThreadTypes
<1>3. \A u \in Threads : HasMessage(u)' =>
          u # t /\ HasMessage(u) /\ Item(u)' = Item(u) /\ src'[u] = src[u]
  BY <1>2 DEF HasMessage, Busy, Item
<1>4. CASE pckt[t].type # "MSG"
  <2>1. NothingShown
    BY <1>1, <1>4, ReplyShowsNothing
  <2>2. Quiet(t)
    BY <1>1, <1>2, <1>3, <2>1 DEF Quiet
  <2> QED
    BY <2>2, QuietOrder
<1>5. CASE pckt[t].type = "MSG"
  <2>1. PICK p \in Packet : p = pckt[t]
    BY <1>1
  <2>2. HasMessage(t) /\ Item(t) = p /\ (Own(t) \/ Passed(t))
    BY <1>1, <1>5, <2>1
    DEF HasMessage, Busy, Item, Own, Passed, TypeInv, TypeOK, ThreadTypes
  <2>3. Len(out[t]) \in Nat /\ \A s \in Shown : s[2] \in Nat /\ (s[1] = t => s[2] <= Len(out[t]))
    BY DEF Shown, TypeInv, TypeOK, ClientTypes
  <2>4. PICK n \in Nat : n = Len(out[t]) + 1 /\ \A s \in Shown : s[1] = t => s[2] < n
    BY <2>3
  <2>5. \A s \in Shown' :
            \/ s \in Shown /\ At(s)' = At(s)
            \/ s = <<t, n>> /\ At(s)' = p
    <3>1. <<p>> \in Seq(Packet) /\ SendAll(t, <<p>>)
      BY <1>1, <2>1
    <3>2. \A k \in DOMAIN <<p>> : k = 1 /\ <<p>>[k] = p
      OBVIOUS
    <3>3. \A s \in Shown' :
              \/ s \in Shown /\ At(s)' = At(s)
              \/ \E k \in DOMAIN <<p>> : s = <<t, Len(out[t]) + k>> /\ At(s)' = <<p>>[k]
      BY <3>1, ShownAfter
    <3> QED
      BY <2>4, <3>2, <3>3
  <2>6. /\ \A u \in Threads : Own(u)' => u # t /\ Own(u) /\ Item(u)' = Item(u)
        /\ \A u \in Threads : Passed(u)' => u # t /\ Passed(u) /\ Item(u)' = Item(u)
    BY <1>3 DEF Own, Passed
  <2>7. ItemsPast' /\ ShownPast'
    <3>1. ASSUME NEW u \in Threads, HasMessage(u)' PROVE Past(Item(u))'
      BY <1>2, <1>3, <3>1 DEF OrderInv, ItemsPast, Past
    <3>2. ASSUME NEW s \in Shown' PROVE Past(At(s))'
      <4>1. PICK q : q = At(s)' /\ Past(q)
        BY <2>2, <2>5, <3>2 DEF OrderInv, ItemsPast, ShownPast
      <4> QED
        BY <1>2, <4>1 DEF Past
    <3> QED
      BY <3>1, <3>2 DEF ItemsPast, ShownPast, Past
  <2>8. \A s \in Shown : s[1] = t => Before(At(s), p)
    BY <2>2 DEF OrderInv, PassedInLine, OwnInLine
  <2>9. ShownInLine'
    <3>1. ASSUME NEW s \in Shown', NEW r \in Shown', s[1] = r[1], s[2] < r[2]
          PROVE  Before(At(s)', At(r)')
      <4>1. CASE s \in Shown /\ At(s)' = At(s) /\ r \in Shown /\ At(r)' = At(r)
        BY <3>1, <4>1 DEF OrderInv, ShownInLine
      <4>2. CASE s \in Shown /\ At(s)' = At(s) /\ r = <<t, n>> /\ At(r)' = p
        BY <2>8, <3>1, <4>2
      <4>3. CASE s = <<t, n>>
        <5>1. r # <<t, n>> /\ r[1] = t /\ n < r[2]
          BY <3>1, <4>3
        <5>2. r \in Shown /\ r[2] \in Nat /\ r[2] < n
          BY <2>3, <2>4, <2>5, <5>1
        <5> QED
          BY <5>1, <5>2
      <4> QED
        BY <2>5, <4>1, <4>2, <4>3
    <3> QED
      BY <3>1 DEF ShownInLine, Before
  <2>10. PassedInLine'
    <3>1. ASSUME NEW u \in Threads, Passed(u)', NEW s \in Shown', s[1] = u
          PROVE  Before(At(s)', Item(u)')
      BY <2>5, <2>6, <3>1 DEF OrderInv, PassedInLine
    <3> QED
      BY <3>1 DEF PassedInLine, Before
  <2>11. QueueInLine'
    <3>1. ASSUME NEW u \in Threads, NEW i \in DOMAIN in_queue[u], in_queue[u][i].type = "MSG"
          PROVE  /\ in_queue[u][i].conn # u
                 /\ \A s \in Shown' : s[1] = u => Before(At(s)', in_queue[u][i])
                 /\ Passed(u)' => Before(Item(u)', in_queue[u][i])
                 /\ \A j \in DOMAIN in_queue[u] : j < i /\ in_queue[u][j].type = "MSG" =>
                       Before(in_queue[u][j], in_queue[u][i])
      <4>1. u = t => Before(p, in_queue[u][i])
        BY <2>2, <3>1 DEF OrderInv, QueueInLine, OwnInLine, Before
      <4> QED
        BY <2>5, <2>6, <3>1, <4>1 DEF OrderInv, QueueInLine
    <3> QED
      BY <1>2, <3>1 DEF QueueInLine, Before
  <2>12. OwnInLine'
    <3>1. ASSUME NEW v \in Threads, Own(v)'
          PROVE  /\ Item(v)'.conn = v
                 /\ \A s \in Shown' : Before(At(s)', Item(v)')
                 /\ \A u \in Threads : Passed(u)' => Before(Item(u)', Item(v)')
                 /\ \A u \in Threads : \A i \in DOMAIN in_queue[u] :
                       in_queue[u][i].type = "MSG" => Before(in_queue[u][i], Item(v)')
      <4>1. Own(v) /\ Item(v)' = Item(v) /\ Item(v).conn = v /\ v # t
        BY <2>6, <3>1 DEF OrderInv, OwnInLine
      <4>2. Before(p, Item(v))
        BY <2>2, <4>1 DEF OrderInv, OwnInLine, Before
      <4> QED
        BY <2>5, <2>6, <4>1, <4>2 DEF OrderInv, OwnInLine
    <3> QED
      BY <1>2, <3>1 DEF OwnInLine, Before
  <2> QED
    BY <2>7, <2>9, <2>10, <2>11, <2>12 DEF OrderInv
<1> QED
  BY <1>4, <1>5

LEMMA NobodyFetches ==
  ASSUME NoFetch, TypeInv, FromQueue, RequestInv, NEW t \in Threads, SelectMessages(t)
  PROVE  FALSE
<1>1. pc[t] = "interp" /\ pk[t].type = "GET_MSG" /\ src[t] = "socket"
  BY DEF SelectMessages, Interprets, FromQueue, Mailed, TypeInv, TypeOK, ThreadTypes
<1>2. PICK r \in Requests[t] : pk[t].type = r.type
  BY <1>1 DEF RequestInv, Asked
<1> QED
  BY <1>1, <1>2 DEF NoFetch

LEMMA NextOrder ==
  ASSUME NoFetch, OrderInv, RouteInv, PacketInv, FromQueue, RequestInv, MailInv, TypeInv,
         [Next]_vars, strays' = {}
  PROVE  OrderInv'
<1>1. CASE UNCHANGED vars
  <2>1. NothingShown /\ in_queue' = in_queue
    BY <1>1, SameShown DEF vars, clientVars, blockVars
  <2>2. \A p \in Packet : Past(p) => Past(p)'
    BY <1>1, SamePast DEF vars, clientVars
  <2>3. \A u \in Threads : HasMessage(u)' =>
            HasMessage(u) /\ Item(u)' = Item(u) /\ src'[u] = src[u]
    BY <1>1 DEF HasMessage, Busy, Item, vars, handVars, sharedVars
  <2> QED
    BY <2>1, <2>2, <2>3, OrderKeeps
<1>2. ASSUME NEW t \in Threads, Step(t) PROVE OrderInv'
  BY <1>2, QuietSteps, QuietOrder, AwayOrder, RecvPacketOrder, DequeueOrder, DeliverOrder,
     SendPacketOrder, NobodyFetches DEF Step, Interpret, MailInv
<1>3. ASSUME NEW t \in Threads, Environment(t) PROVE OrderInv'
  BY <1>3, QuietSteps, QuietOrder, AwayOrder DEF Environment
<1> QED
  BY <1>1, <1>2, <1>3 DEF Next, Stopped

LEMMA InitOrder == ASSUME Init PROVE OrderInv /\ RouteInv
<1>1. Shown = {}
  BY DEF Init, Shown
<1>2. \A t \in Threads : ~HasMessage(t)
  BY DEF Init, HasMessage, Busy
<1> QED
  BY <1>1, <1>2 DEF Init, OrderInv, RouteInv, ItemsPast, ShownPast, ShownInLine,
     PassedInLine, QueueInLine, OwnInLine, Own, Passed

\* The messages that one client is sent from another arrive in the order in
\* which the other sent them: through a queue that is appended to by the one
\* thread that reads the sender's socket, and emptied by the one that writes
\* to the receiver's.  Whatever fails, whoever leaves, and also when several
\* connections are logged in to one account.  As long as no packet went astray,
\* for clients that authenticate once and first, and none of whom fetches
\* stored messages: the rows of the database come in an order of their own.
THEOREM InOrderAlways ==
  ASSUME AuthFirst, NoFetch
  PROVE  Spec => [](strays = {} => InOrder)
<1> DEFINE IInv == /\ TypeInv /\ MailInv
                   /\ strays = {} =>
                        FromQueue /\ PacketInv /\ RequestInv /\ RouteInv /\ OrderInv
<1>1. Init => IInv
  BY InitType, InitMail, InitPackets, InitRequest, InitOrder
<1>2. IInv /\ [Next]_vars => IInv'
  <2>1. ASSUME IInv, [Next]_vars PROVE TypeInv' /\ MailInv'
    BY <2>1, NextType, NextMail
  <2>2. ASSUME IInv, [Next]_vars, strays' = {}
        PROVE  FromQueue' /\ PacketInv' /\ RequestInv' /\ RouteInv' /\ OrderInv'
    <3>1. strays = {}
      BY <2>2, StraysGrow
    <3>2. FromQueue' /\ PacketInv' /\ RequestInv' /\ RouteInv'
      BY <2>2, <3>1, NextFromQueue, NextPackets, NextRequest, NextRoute
    <3> QED
      BY <2>2, <3>1, <3>2, NextOrder
  <2> QED
    BY <2>1, <2>2
<1>3. IInv => (strays = {} => InOrder)
  <2>1. ASSUME TypeInv, ShownInLine, NEW t \in Threads,
               NEW i \in DOMAIN out[t], NEW j \in DOMAIN out[t], i < j,
               out[t][i].type = "MSG", out[t][j].type = "MSG",
               out[t][i].conn = out[t][j].conn
        PROVE  out[t][i].seq < out[t][j].seq
    <3>1. i \in Nat /\ j \in Nat
      BY <2>1 DEF TypeInv, TypeOK, ClientTypes
    <3>2. <<t, i>> \in Shown /\ <<t, j>> \in Shown
      BY <2>1, <3>1 DEF Shown
    <3>3. Before(At(<<t, i>>), At(<<t, j>>))
      BY <2>1, <3>2 DEF ShownInLine
    <3> QED
      BY <2>1, <3>3 DEF Before, At
  <2> QED
    BY <2>1 DEF OrderInv, InOrder
<1> QED
  BY <1>1, <1>2, <1>3, PTL DEF Spec
=============================================================================
