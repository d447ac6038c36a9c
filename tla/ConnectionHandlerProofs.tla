----------------------- MODULE ConnectionHandlerProofs -----------------------
(***************************************************************************)
(* Theorems about ConnectionHandler, for any number of connections and     *)
(* users, any requests and any bounds, in every build and with every       *)
(* failure switched on or off.                                             *)
(*                                                                         *)
(* TypeCorrect: the variables keep their types.  TypeOK is not inductive   *)
(* as it stands, because pk and pckt may be NULL: HandsFull adds that a    *)
(* thread has the packet that the place it is in makes use of.             *)
(*                                                                         *)
(* MailForOwnerAlways: a queue holds packets for its owner, and strays.    *)
(* It needs MailInv: the block found at the look-up is that of the         *)
(* packet's receiver (RouteRight), what is queued is for the owner or went *)
(* astray (QueueRight), an entry of the table names a block with its       *)
(* userid (TableRight), and a block that has a userid does not get another *)
(* (AuthOnce), which is where the assumption AuthFirst comes in.           *)
(***************************************************************************)
EXTENDS ConnectionHandler, SequenceTheorems, FiniteSetTheorems, TLAPS

\* A thread has the packet, the block and the userid that the place it is in
\* makes use of.
HandsFull ==
    \A t \in Threads :
        /\ pc[t] \in {"interp", "insert", "update", "deq", "end"} => pk[t] \in Packet
        /\ src[t] = "queue" /\ pc[t] \in {"login", "route", "trace", "send"}
            => pk[t] \in Packet
        /\ pc[t] \in {"route", "trace", "send"} => pckt[t] \in Packet
        /\ pc[t] = "route" => node[t] \in Threads
        /\ pc[t] = "login" => userid[t] \in Users

TypeInv == TypeOK /\ HandsFull

-----------------------------------------------------------------------------
(* The packets that the server makes.                                      *)

LEMMA ReplyIsPacket ==
  ASSUME NEW t \in Threads, NEW type \in Types, NEW id \in Users \cup {NoUser}
  PROVE  Reply(t, type, id) \in Packet
BY ConnectionAssumption DEF Reply, Packet

LEMMA AnswerIsPacket ==
  ASSUME NEW p \in Packet
  PROVE  AnswerTo(p) \in Packet /\ [p EXCEPT !.type = "GEO"] \in Packet
BY DEF AnswerTo, Packet, Types

LEMMA FieldTypes ==
  ASSUME NEW p \in Packet
  PROVE  /\ p.sender \in Users \cup {NoUser}
         /\ p.receiver \in Users \cup {NoUser}
         /\ p.msg \in Users \cup {NoUser}
BY DEF Packet

-----------------------------------------------------------------------------
(* The four ways in which the steps of interpret_packets end.              *)

LEMMA ReturnKeeps ==
  ASSUME TypeInv, NEW t \in Threads, Return(t),
         src[t] = "queue" => pk[t] \in Packet,
         cancel' \in [Threads -> BOOLEAN],
         \A u \in Threads : u # t => userid'[u] = userid[u]
  PROVE  ThreadTypes' /\ HandsFull'
BY DEF TypeInv, TypeOK, ThreadTypes, HandsFull, Return, Goto, Places

LEMMA PrepareSendKeeps ==
  ASSUME TypeInv, NEW t \in Threads, pc[t] = "interp", NEW p \in Packet,
         PrepareSend(t, p), UNCHANGED <<cancel, userid>>
  PROVE  ThreadTypes' /\ HandsFull'
BY DEF TypeInv, TypeOK, ThreadTypes, HandsFull, PrepareSend, Goto, Places

LEMMA ForwardKeeps ==
  ASSUME TypeInv, NEW t \in Threads, pc[t] = "interp", NEW p \in Packet, NEW id,
         Forward(t, id, p), UNCHANGED <<cancel, userid>>
  PROVE  ThreadTypes' /\ HandsFull'
<1>1. PICK n \in Registered(id) : node' = [node EXCEPT ![t] = n]
  BY DEF Forward
<1>2. n \in Threads
  BY DEF Registered
<1> QED
  BY <1>1, <1>2 DEF TypeInv, TypeOK, ThreadTypes, HandsFull, Forward, Goto, Places

LEMMA SendKeeps ==
  ASSUME TypeInv, NEW t \in Threads, NEW ps \in Seq(Packet), SendAll(t, ps)
  PROVE  /\ out' \in [Threads -> Seq(Packet)]
         /\ fault' \in {fault, "sigpipe"}
<1>1. out[t] \o ps \in Seq(Packet)
  BY ConcatProperties DEF TypeInv, TypeOK, ClientTypes
<1> QED
  BY <1>1 DEF TypeInv, TypeOK, ClientTypes, SendAll

LEMMA ReplySeq ==
  ASSUME NEW t \in Threads, NEW type \in Types, NEW id \in Users \cup {NoUser}
  PROVE  <<Reply(t, type, id)>> \in Seq(Packet)
BY ReplyIsPacket

-----------------------------------------------------------------------------
(* Every action keeps TypeInv.                                             *)

LEMMA ClientSendType ==
  ASSUME TypeInv, NEW t \in Threads, ClientSend(t)
  PROVE  TypeInv'
<1> USE DEF TypeInv, TypeOK, ClientTypes, BlockTypes, SharedTypes,
            clientVars, blockVars, handVars, sharedVars, ClientSend
<1>1. PICK r \in Requests[t] : sock' = [sock EXCEPT ![t] = Append(@,
          [type |-> r.type, sender |-> r.sender, receiver |-> r.receiver,
           msg |-> r.msg, conn |-> t, seq |-> sent[t] + 1])]
  OBVIOUS
<1> DEFINE p == [type |-> r.type, sender |-> r.sender, receiver |-> r.receiver,
                 msg |-> r.msg, conn |-> t, seq |-> sent[t] + 1]
<1>2. r \in Request
  BY ConnectionAssumption
<1>3. sent[t] + 1 \in 0..MaxSends
  BY ConnectionAssumption
<1>4. p \in Packet
  BY <1>2, <1>3 DEF Request, Packet
<1>5. sock' \in [Threads -> Seq(Packet)]
  <2> HIDE DEF p
  <2>1. sock' = [sock EXCEPT ![t] = Append(sock[t], p)]
    BY <1>1 DEF p
  <2>2. Append(sock[t], p) \in Seq(Packet)
    BY <1>4
  <2> QED
    BY <2>1, <2>2
<1>6. sent' \in [Threads -> 0..MaxSends]
  BY <1>3
<1> QED
  BY <1>5, <1>6 DEF ThreadTypes, HandsFull

LEMMA DisconnectType ==
  ASSUME TypeInv, NEW t \in Threads, Disconnect(t)
  PROVE  TypeInv'
BY ConnectionAssumption
DEF TypeInv, TypeOK, HandsFull, ClientTypes, BlockTypes, ThreadTypes, SharedTypes, Places,
    clientVars, blockVars, handVars, sharedVars,
    Disconnect, Goto

LEMMA AcceptType ==
  ASSUME TypeInv, NEW t \in Threads, Accept(t)
  PROVE  TypeInv'
BY ConnectionAssumption
DEF TypeInv, TypeOK, HandsFull, ClientTypes, BlockTypes, ThreadTypes, SharedTypes, Places,
    clientVars, blockVars, handVars, sharedVars,
    Accept, Goto

LEMMA RecvNothingType ==
  ASSUME TypeInv, NEW t \in Threads, RecvNothing(t)
  PROVE  TypeInv'
BY ConnectionAssumption
DEF TypeInv, TypeOK, HandsFull, ClientTypes, BlockTypes, ThreadTypes, SharedTypes, Places,
    clientVars, blockVars, handVars, sharedVars,
    RecvNothing, Goto

LEMMA RecvPacketType ==
  ASSUME TypeInv, NEW t \in Threads, RecvPacket(t)
  PROVE  TypeInv'
<1> USE DEF TypeInv, TypeOK, ClientTypes, BlockTypes, SharedTypes,
            clientVars, blockVars, handVars, sharedVars, RecvPacket
<1>1. PICK n \in 1..MaxBurst : /\ n <= Len(sock[t])
                               /\ sock' = [sock EXCEPT ![t] = SubSeq(@, n + 1, Len(@))]
  OBVIOUS
<1>2. SubSeq(sock[t], n + 1, Len(sock[t])) \in Seq(Packet)
  BY SubSeqProperties, ConnectionAssumption
<1>3. Head(sock[t]) \in Packet
  BY HeadTailProperties
<1>4. ClientTypes'
  BY <1>1, <1>2
<1>5. ThreadTypes' /\ HandsFull'
  BY <1>3 DEF ThreadTypes, HandsFull, Goto, Places
<1> QED
  BY <1>4, <1>5

LEMMA AuthFindType ==
  ASSUME TypeInv, NEW t \in Threads, AuthFind(t)
  PROVE  TypeInv'
<1> USE DEF TypeInv, TypeOK, ClientTypes, BlockTypes, SharedTypes,
            clientVars, blockVars, handVars, sharedVars, AuthFind
<1>1. pc[t] = "interp" /\ pk[t] \in Packet
  BY DEF Interprets, HandsFull
<1>2. BlockTypes'
  BY <1>1, FieldTypes
<1>3. SharedTypes' /\ ClientTypes' /\ ThreadTypes' /\ HandsFull'
  <2>1. CASE SendAll(t, <<Reply(t, "FIN", NoUser)>>) /\ Return(t)
             /\ cancel' = [cancel EXCEPT ![t] = TRUE]
    <3>1. <<Reply(t, "FIN", NoUser)>> \in Seq(Packet)
      BY ReplySeq DEF Types
    <3>2. ClientTypes' /\ fault' \in {fault, "sigpipe"}
      BY <2>1, <3>1, SendKeeps
    <3>3. ThreadTypes' /\ HandsFull'
      BY <1>1, <2>1, ReturnKeeps DEF ThreadTypes
    <3> QED
      BY <1>1, <3>2, <3>3
  <2>2. CASE pk[t].msg \in Users /\ Goto(t, "login")
             /\ UNCHANGED <<out, fault, user_auth, cancel, handVars>>
    BY <1>1, <2>2 DEF ThreadTypes, HandsFull, Goto, Places
  <2> QED
    BY <2>1, <2>2
<1> QED
  BY <1>2, <1>3

LEMMA AuthQueryFailsType ==
  ASSUME TypeInv, NEW t \in Threads, AuthQueryFails(t)
  PROVE  TypeInv'
BY ConnectionAssumption
DEF TypeInv, TypeOK, HandsFull, ClientTypes, BlockTypes, ThreadTypes, SharedTypes, Places,
    clientVars, blockVars, handVars, sharedVars,
    AuthQueryFails, Goto

LEMMA LogInType ==
  ASSUME TypeInv, NEW t \in Threads, LogIn(t)
  PROVE  TypeInv'
<1> USE DEF TypeInv, TypeOK, ClientTypes, BlockTypes, SharedTypes,
            clientVars, blockVars, handVars, sharedVars, LogIn
<1>1. userid[t] \in Users /\ (src[t] = "queue" => pk[t] \in Packet)
  BY DEF HandsFull
<1>2. <<Reply(t, "ACK", userid[t])>> \in Seq(Packet)
  BY <1>1, ReplySeq DEF Types
<1>3. ClientTypes' /\ fault' \in {fault, "sigpipe"}
  BY <1>2, SendKeeps
<1>4. ThreadTypes' /\ HandsFull'
  BY <1>1, ReturnKeeps DEF ThreadTypes
<1>5. BlockTypes' /\ SharedTypes'
  BY <1>1, <1>3
<1> QED
  BY <1>3, <1>4, <1>5

LEMMA RefuseUnauthenticatedType ==
  ASSUME TypeInv, NEW t \in Threads, RefuseUnauthenticated(t)
  PROVE  TypeInv'
<1> USE DEF TypeInv, TypeOK, ClientTypes, BlockTypes, SharedTypes,
            clientVars, blockVars, handVars, sharedVars, RefuseUnauthenticated
<1>1. pc[t] = "interp" /\ pk[t] \in Packet
  BY DEF Interprets, HandsFull
<1>2. SharedTypes' /\ ClientTypes' /\ BlockTypes'
  BY <1>1
<1>3. CASE Goto(t, "cleanup") /\ pk' = [pk EXCEPT ![t] = None] /\ UNCHANGED <<src, node, pckt>>
  BY <1>1, <1>2, <1>3 DEF ThreadTypes, HandsFull, Places, Goto
<1>4. CASE Return(t)
  BY <1>1, <1>2, <1>4, ReturnKeeps DEF ThreadTypes
<1>5. CASE UNCHANGED <<pc, handVars>>
  BY <1>1, <1>2, <1>5 DEF ThreadTypes, HandsFull
<1> QED
  BY <1>3, <1>4, <1>5

LEMMA LogoutType ==
  ASSUME TypeInv, NEW t \in Threads, Logout(t)
  PROVE  TypeInv'
<1> USE DEF TypeInv, TypeOK, ClientTypes, BlockTypes, SharedTypes,
            clientVars, blockVars, handVars, sharedVars, Logout
<1>1. src[t] = "queue" => pk[t] \in Packet
  BY DEF Interprets, HandsFull
<1>2. ThreadTypes' /\ HandsFull'
  BY <1>1, ReturnKeeps DEF ThreadTypes
<1> QED
  BY <1>2

LEMMA IgnoreType ==
  ASSUME TypeInv, NEW t \in Threads, Ignore(t)
  PROVE  TypeInv'
<1> USE DEF TypeInv, TypeOK, ClientTypes, BlockTypes, SharedTypes,
            clientVars, blockVars, handVars, sharedVars, Ignore
<1>1. src[t] = "queue" => pk[t] \in Packet
  BY DEF Interprets, HandsFull
<1>2. ThreadTypes' /\ HandsFull'
  BY <1>1, ReturnKeeps DEF ThreadTypes
<1> QED
  BY <1>2

LEMMA PassOnType ==
  ASSUME TypeInv, NEW t \in Threads, PassOn(t)
  PROVE  TypeInv'
<1> USE DEF TypeInv, TypeOK, ClientTypes, BlockTypes, SharedTypes,
            clientVars, blockVars, handVars, sharedVars, PassOn
<1>1. pc[t] = "interp" /\ pk[t] \in Packet
  BY DEF Interprets, HandsFull
<1> QED
  BY <1>1, PrepareSendKeeps

LEMMA FindReceiverType ==
  ASSUME TypeInv, NEW t \in Threads, FindReceiver(t)
  PROVE  TypeInv'
<1> USE DEF TypeInv, TypeOK, ClientTypes, BlockTypes, SharedTypes,
            clientVars, blockVars, handVars, sharedVars, FindReceiver
<1>1. pc[t] = "interp" /\ pk[t] \in Packet
  BY DEF Interprets, HandsFull
<1>2. CASE Forward(t, pk[t].receiver, pk[t])
  BY <1>1, <1>2, ForwardKeeps
<1>3. CASE Goto(t, "insert") /\ UNCHANGED handVars
  BY <1>1, <1>3 DEF Goto, ThreadTypes, HandsFull, Places
<1> QED
  BY <1>2, <1>3

LEMMA InsertMessageType ==
  ASSUME TypeInv, NEW t \in Threads, InsertMessage(t)
  PROVE  TypeInv'
<1> USE DEF TypeInv, TypeOK, ClientTypes, BlockTypes, SharedTypes,
            clientVars, blockVars, handVars, sharedVars, InsertMessage
<1>1. src[t] = "queue" => pk[t] \in Packet
  BY DEF Runs, HandsFull
<1>2. ThreadTypes' /\ HandsFull'
  BY <1>1, ReturnKeeps DEF ThreadTypes
<1>3. pk[t] \in Packet
  BY DEF Runs, HandsFull
<1>4. IsFiniteSet(messages \cup {pk[t]})
  BY FS_AddElement
<1>5. messages' \in {messages \cup {pk[t]}, messages}
  OBVIOUS
<1>6. SharedTypes'
  BY <1>3, <1>4, <1>5
<1> QED
  BY <1>2, <1>6

LEMMA DeliverType ==
  ASSUME TypeInv, NEW t \in Threads, Deliver(t)
  PROVE  TypeInv'
<1> USE DEF TypeInv, TypeOK, ClientTypes, BlockTypes, SharedTypes,
            clientVars, blockVars, handVars, sharedVars, Deliver
<1>1. /\ pc[t] = "route" /\ pckt[t] \in Packet /\ node[t] \in Threads
      /\ src[t] = "queue" => pk[t] \in Packet
  BY DEF Runs, HandsFull
<1>2. ThreadTypes' /\ HandsFull'
  <2>1. CASE Goto(t, "trace") /\ UNCHANGED handVars
    BY <1>1, <2>1 DEF Goto, ThreadTypes, HandsFull, Places
  <2>2. CASE Return(t)
    BY <1>1, <2>2, ReturnKeeps DEF ThreadTypes
  <2> QED
    BY <2>1, <2>2
<1>3. Enqueue(in_queue[block[node[t]]], pckt[t]) \in Seq(Packet)
  BY <1>1 DEF Enqueue
<1>4. BlockTypes' /\ SharedTypes'
  <2>1. CASE /\ in_queue' = [in_queue EXCEPT ![block[node[t]]] = Enqueue(@, pckt[t])]
             /\ strays' \in {strays, strays \cup {pckt[t]}}
             /\ UNCHANGED fault
    BY <1>1, <1>3, <2>1
  <2>2. CASE fault' \in {"dead_block", fault} /\ UNCHANGED <<in_queue, strays>>
    BY <2>2
  <2> QED
    BY <2>1, <2>2
<1> QED
  BY <1>2, <1>4

LEMMA TraceAfterHandOverType ==
  ASSUME TypeInv, NEW t \in Threads, TraceAfterHandOver(t)
  PROVE  TypeInv'
<1> USE DEF TypeInv, TypeOK, ClientTypes, BlockTypes, SharedTypes,
            clientVars, blockVars, handVars, sharedVars, TraceAfterHandOver
<1>1. src[t] = "queue" => pk[t] \in Packet
  BY DEF Runs, HandsFull
<1>2. ThreadTypes' /\ HandsFull'
  BY <1>1, ReturnKeeps DEF ThreadTypes
<1>3. SharedTypes'
  OBVIOUS
<1> QED
  BY <1>2, <1>3

LEMMA SelectMessagesType ==
  ASSUME TypeInv, NEW t \in Threads, SelectMessages(t)
  PROVE  TypeInv'
<1> USE DEF TypeInv, TypeOK, ClientTypes, BlockTypes, SharedTypes,
            clientVars, blockVars, handVars, sharedVars, SelectMessages
<1>1. PICK taken \in SUBSET Unread(userid[t]) : \E rows \in Orders(taken) : SendAll(t, rows)
  OBVIOUS
<1>2. PICK rows \in Orders(taken) : SendAll(t, rows)
  BY <1>1
<1>3. taken \subseteq messages /\ IsFiniteSet(taken)
  BY FS_Subset DEF Unread
<1>4. Cardinality(taken) \in Nat
  BY <1>3, FS_CardinalityType
<1>5. rows \in Seq(Packet)
  <2>1. rows \in [1..Cardinality(taken) -> Packet]
    BY <1>3 DEF Orders
  <2> QED
    BY ONLY <1>4, <2>1, SeqDef
<1>6. ClientTypes' /\ fault' \in {fault, "sigpipe"}
  BY <1>2, <1>5, SendKeeps
<1>7. ThreadTypes' /\ HandsFull'
  BY DEF ThreadTypes, HandsFull, Goto, Interprets, Places
<1> QED
  BY <1>6, <1>7

LEMMA SelectFailsType ==
  ASSUME TypeInv, NEW t \in Threads, SelectFails(t)
  PROVE  TypeInv'
BY DEF TypeInv, TypeOK, HandsFull, ClientTypes, BlockTypes, ThreadTypes, SharedTypes,
       clientVars, blockVars, handVars, SelectFails

LEMMA MarkReceivedType ==
  ASSUME TypeInv, NEW t \in Threads, MarkReceived(t)
  PROVE  TypeInv'
<1> USE DEF TypeInv, TypeOK, ClientTypes, BlockTypes, SharedTypes,
            clientVars, blockVars, handVars, sharedVars, MarkReceived
<1>1. src[t] = "queue" => pk[t] \in Packet
  BY DEF HandsFull
<1>2. ThreadTypes' /\ HandsFull'
  BY <1>1, ReturnKeeps DEF ThreadTypes
<1>3. pk[t] \in Packet
  BY DEF HandsFull
<1>4. messages' \subseteq messages
  BY DEF Marked
<1>5. IsFiniteSet(messages')
  BY <1>4, FS_Subset
<1>6. SharedTypes'
  BY <1>3, <1>4, <1>5
<1> QED
  BY <1>2, <1>6

LEMMA DestroyOnlyType ==
  ASSUME TypeInv, NEW t \in Threads, DestroyOnly(t)
  PROVE  TypeInv'
<1> USE DEF TypeInv, TypeOK, ClientTypes, BlockTypes, SharedTypes,
            clientVars, blockVars, handVars, sharedVars, DestroyOnly
<1>1. src[t] = "queue" => pk[t] \in Packet
  BY DEF Interprets, HandsFull
<1>2. ThreadTypes' /\ HandsFull'
  BY <1>1, ReturnKeeps DEF ThreadTypes
<1>3. SharedTypes'
  BY DEF Interprets, HandsFull
<1> QED
  BY <1>2, <1>3

LEMMA OwnLocationType ==
  ASSUME TypeInv, NEW t \in Threads, OwnLocation(t)
  PROVE  TypeInv'
<1> USE DEF TypeInv, TypeOK, ClientTypes, BlockTypes, SharedTypes,
            clientVars, blockVars, handVars, sharedVars, OwnLocation
<1>1. pc[t] = "interp" /\ pk[t] \in Packet
  BY DEF Interprets, HandsFull
<1> QED
  BY <1>1, AnswerIsPacket, PrepareSendKeeps

LEMMA AnswerLocationType ==
  ASSUME TypeInv, NEW t \in Threads, AnswerLocation(t)
  PROVE  TypeInv'
<1> USE DEF TypeInv, TypeOK, ClientTypes, BlockTypes, SharedTypes,
            clientVars, blockVars, handVars, sharedVars, AnswerLocation
<1>1. pc[t] = "interp" /\ pk[t] \in Packet
  BY DEF Interprets, HandsFull
<1>2. CASE Forward(t, pk[t].sender, AnswerTo(pk[t]))
  BY <1>1, <1>2, AnswerIsPacket, ForwardKeeps
<1>3. CASE PrepareSend(t, Reply(t, "ACK", NoUser))
  BY <1>1, <1>3, ReplyIsPacket, PrepareSendKeeps DEF Types
<1>4. CASE Return(t) /\ UNCHANGED sharedVars
  BY <1>1, <1>4, ReturnKeeps DEF ThreadTypes
<1> QED
  BY <1>2, <1>3, <1>4

LEMMA AskLocationType ==
  ASSUME TypeInv, NEW t \in Threads, AskLocation(t)
  PROVE  TypeInv'
<1> USE DEF TypeInv, TypeOK, ClientTypes, BlockTypes, SharedTypes,
            clientVars, blockVars, handVars, sharedVars, AskLocation
<1>1. pc[t] = "interp" /\ pk[t] \in Packet
  BY DEF Interprets, HandsFull
<1>2. CASE Forward(t, pk[t].receiver, pk[t]) /\ UNCHANGED destroyed
  BY <1>1, <1>2, ForwardKeeps
<1>3. CASE PrepareSend(t, Reply(t, "ACK", NoUser)) /\ destroyed' = destroyed \cup {pk[t]}
  BY <1>1, <1>3, ReplyIsPacket, PrepareSendKeeps DEF Types
<1> QED
  BY <1>2, <1>3

LEMMA IgnoreLocationType ==
  ASSUME TypeInv, NEW t \in Threads, IgnoreLocation(t)
  PROVE  TypeInv'
<1> USE DEF TypeInv, TypeOK, ClientTypes, BlockTypes, SharedTypes,
            clientVars, blockVars, handVars, sharedVars, IgnoreLocation
<1>1. src[t] = "queue" => pk[t] \in Packet
  BY DEF Interprets, HandsFull
<1>2. ThreadTypes' /\ HandsFull'
  BY <1>1, ReturnKeeps DEF ThreadTypes
<1> QED
  BY <1>2

LEMMA SendPacketType ==
  ASSUME TypeInv, NEW t \in Threads, SendPacket(t)
  PROVE  TypeInv'
<1> USE DEF TypeInv, TypeOK, ClientTypes, BlockTypes, SharedTypes,
            clientVars, blockVars, handVars, sharedVars, SendPacket
<1>1. src[t] = "queue" => pk[t] \in Packet
  BY DEF Runs, HandsFull
<1>2. ThreadTypes' /\ HandsFull'
  BY <1>1, ReturnKeeps DEF ThreadTypes
<1>3. <<pckt[t]>> \in Seq(Packet)
  BY DEF Runs, HandsFull
<1>4. ClientTypes' /\ fault' \in {fault, "sigpipe"}
  BY <1>3, SendKeeps
<1> QED
  BY <1>2, <1>4

LEMMA QueueEmptyType ==
  ASSUME TypeInv, NEW t \in Threads, QueueEmpty(t)
  PROVE  TypeInv'
BY ConnectionAssumption
DEF TypeInv, TypeOK, HandsFull, ClientTypes, BlockTypes, ThreadTypes, SharedTypes, Places,
    clientVars, blockVars, handVars, sharedVars,
    QueueEmpty, Goto, NextTurn

LEMMA DequeueType ==
  ASSUME TypeInv, NEW t \in Threads, Dequeue(t)
  PROVE  TypeInv'
<1> USE DEF TypeInv, TypeOK, ClientTypes, BlockTypes, SharedTypes,
            clientVars, blockVars, handVars, sharedVars, Dequeue
<1>1. Head(in_queue[t]) \in Packet /\ Rest(in_queue[t]) \in Seq(Packet)
  BY HeadTailProperties DEF Rest
<1>2. BlockTypes'
  BY <1>1
<1>3. ThreadTypes' /\ HandsFull'
  BY <1>1 DEF ThreadTypes, HandsFull, Goto, Places
<1> QED
  BY <1>2, <1>3

LEMMA UnlockType ==
  ASSUME TypeInv, NEW t \in Threads, Unlock(t)
  PROVE  TypeInv'
BY ConnectionAssumption
DEF TypeInv, TypeOK, HandsFull, ClientTypes, BlockTypes, ThreadTypes, SharedTypes, Places,
    clientVars, blockVars, handVars, sharedVars,
    Unlock, Goto, Runs

LEMMA EndOfTurnType ==
  ASSUME TypeInv, NEW t \in Threads, EndOfTurn(t)
  PROVE  TypeInv'
BY ConnectionAssumption
DEF TypeInv, TypeOK, HandsFull, ClientTypes, BlockTypes, ThreadTypes, SharedTypes, Places,
    clientVars, blockVars, handVars, sharedVars,
    EndOfTurn, Goto, Runs, NextTurn

LEMMA NoMemoryType ==
  ASSUME TypeInv, NEW t \in Threads, NoMemory(t)
  PROVE  TypeInv'
BY DEF TypeInv, TypeOK, HandsFull, ClientTypes, BlockTypes, ThreadTypes, SharedTypes,
       clientVars, blockVars, handVars, NoMemory

LEMMA CancelledType ==
  ASSUME TypeInv, NEW t \in Threads, Cancelled(t)
  PROVE  TypeInv'
<1> USE DEF TypeInv, TypeOK, ClientTypes, BlockTypes, SharedTypes,
            clientVars, blockVars, handVars, sharedVars, Cancelled
<1>1. ThreadTypes' /\ HandsFull'
  BY DEF ThreadTypes, HandsFull, Goto, Places
<1> QED
  BY <1>1

LEMMA CleanupType ==
  ASSUME TypeInv, NEW t \in Threads, Cleanup(t)
  PROVE  TypeInv'
<1> USE DEF TypeInv, TypeOK, ClientTypes, BlockTypes, SharedTypes,
            clientVars, blockVars, handVars, sharedVars, Cleanup
<1>1. addrs' \subseteq addrs
  BY DEF Removal
<1>2. ThreadTypes' /\ HandsFull'
  BY DEF ThreadTypes, HandsFull, Goto, Places
<1> QED
  BY <1>1, <1>2

LEMMA DestroyBlockType ==
  ASSUME TypeInv, NEW t \in Threads, DestroyBlock(t)
  PROVE  TypeInv'
<1> USE DEF TypeInv, TypeOK, ClientTypes, BlockTypes, SharedTypes,
            clientVars, blockVars, handVars, sharedVars, DestroyBlock
<1>1. {in_queue[t][i] : i \in DOMAIN in_queue[t]} \subseteq Packet
  BY ElementOfSeq
<1>2. ThreadTypes' /\ HandsFull'
  BY DEF ThreadTypes, HandsFull, Goto, Places
<1> QED
  BY <1>1, <1>2

-----------------------------------------------------------------------------
LEMMA InterpretType == ASSUME TypeInv, NEW t \in Threads, Interpret(t) PROVE TypeInv'
BY AuthFindType, AuthQueryFailsType, LogInType,
     RefuseUnauthenticatedType, LogoutType, IgnoreType, PassOnType,
     SendPacketType, FindReceiverType, InsertMessageType, DeliverType,
     TraceAfterHandOverType, SelectMessagesType, SelectFailsType, MarkReceivedType,
     DestroyOnlyType, OwnLocationType, AnswerLocationType,
     AskLocationType, IgnoreLocationType
DEF Interpret

LEMMA NextType == ASSUME TypeInv, [Next]_vars PROVE TypeInv'
<1>1. CASE UNCHANGED vars
  BY <1>1 DEF TypeInv, TypeOK, HandsFull, ClientTypes, BlockTypes, ThreadTypes,
      SharedTypes, vars, clientVars, blockVars, handVars, sharedVars
<1>2. ASSUME NEW t \in Threads, Step(t) PROVE TypeInv'
  BY <1>2, InterpretType, RecvNothingType, RecvPacketType, QueueEmptyType, DequeueType,
     UnlockType, EndOfTurnType, NoMemoryType, CancelledType, CleanupType,
     DestroyBlockType
  DEF Step
<1>3. ASSUME NEW t \in Threads, Environment(t) PROVE TypeInv'
  BY <1>3, AcceptType, ClientSendType, DisconnectType DEF Environment
<1> QED
  BY <1>1, <1>2, <1>3 DEF Next, Stopped

LEMMA InitType == ASSUME Init PROVE TypeInv
<1>1. IsFiniteSet({})
  BY FS_EmptySet
<1> QED
  BY <1>1, ConnectionAssumption
  DEF Init, TypeInv, TypeOK, HandsFull, ClientTypes, BlockTypes, ThreadTypes,
      SharedTypes, Places

\* The variables keep their types in every behaviour of the handler threads,
\* and a thread always has the packet that the code at its place reads.
THEOREM TypeCorrect == Spec => []TypeOK
<1>1. Init => TypeInv
  BY InitType
<1>2. TypeInv /\ [Next]_vars => TypeInv'
  BY NextType
<1>3. TypeInv => TypeOK
  BY DEF TypeInv
<1> QED
  BY <1>1, <1>2, <1>3, PTL DEF Spec

-----------------------------------------------------------------------------
(***************************************************************************)
(* MailForOwner, when the first packet of a connection, and no other, is   *)
(* its AUTH.  The look-up of a receiver and the append to its queue are    *)
(* separate steps, so what has to be shown is that the userid of a block   *)
(* stays what it was at the look-up: MailInv says that the userid of a     *)
(* block that is registered, about to be enqueued to or has mail is a real *)
(* one, and that the userid of a block changes only while it is -1,        *)
(* because an AUTH is met only then.                                       *)
(***************************************************************************)

HasAuth(t) == pc[t] = "interp" /\ pk[t].type = "AUTH"

Serves(t, id) == userid[t] = id /\ id \in Users

\* What a thread is about to enqueue is for the user of the block it found.
RouteRight ==
    \A t \in Threads : pc[t] = "route" =>
        Serves(node[t], pckt[t].receiver) /\ pckt[t].type # "AUTH"

QueueRight ==
    \A t \in Threads : \A i \in DOMAIN in_queue[t] :
        /\ Serves(t, in_queue[t][i].receiver) \/ in_queue[t][i] \in strays
        /\ in_queue[t][i].type # "AUTH"

TableRight == \A e \in addrs : userid[e[2]] = e[1]

\* A packet from a queue is not an AUTH, and an AUTH is the first packet of
\* its connection: the userid is still -1 when it is met.
AuthOnce ==
    \A t \in Threads :
        /\ pc[t] = "deq" => pk[t].type # "AUTH"
        /\ sent[t] = 0 => sock[t] = <<>> /\ ~HasAuth(t) /\ userid[t] = NoUser
        /\ \A i \in DOMAIN sock[t] : sock[t][i].type = "AUTH" =>
                i = 1 /\ userid[t] = NoUser /\ ~HasAuth(t)
        /\ HasAuth(t) => userid[t] = NoUser

MailInv == RouteRight /\ QueueRight /\ TableRight /\ AuthOnce

LEMMA NoUserIsNone == NoUser \notin Users
BY ConnectionAssumption DEF NoUser

\* A step that leaves userids, queues, sockets and the table alone, and takes
\* its thread to no place where MailInv asks for something.
LEMMA QuietKeeps ==
  ASSUME MailInv, TypeInv, NEW t \in Threads,
         UNCHANGED <<sent, sock, userid, in_queue, addrs, strays>>,
         \A u \in Threads : u # t =>
            pc'[u] = pc[u] /\ pk'[u] = pk[u] /\ pckt'[u] = pckt[u] /\ node'[u] = node[u],
         \/ pc'[t] \notin {"route", "deq", "interp"}
         \/ UNCHANGED <<pc, pk, pckt, node>>
  PROVE  MailInv'
<1>1. RouteRight'
  BY DEF MailInv, RouteRight, Serves
<1>2. QueueRight' /\ TableRight'
  BY DEF MailInv, QueueRight, TableRight, Serves
<1>3. AuthOnce'
  BY DEF MailInv, AuthOnce, HasAuth
<1> QED
  BY <1>1, <1>2, <1>3 DEF MailInv

LEMMA QuietMail ==
  ASSUME MailInv, TypeInv, NEW t \in Threads,
         \/ Accept(t) \/ RecvNothing(t) \/ AuthQueryFails(t) \/ RefuseUnauthenticated(t)
         \/ Logout(t) \/ Ignore(t) \/ PassOn(t) \/ InsertMessage(t)
         \/ TraceAfterHandOver(t) \/ SelectMessages(t) \/ SelectFails(t) \/ MarkReceived(t)
         \/ DestroyOnly(t) \/ OwnLocation(t) \/ IgnoreLocation(t) \/ SendPacket(t)
         \/ QueueEmpty(t) \/ EndOfTurn(t) \/ NoMemory(t) \/ Cancelled(t) \/ Disconnect(t)
  PROVE  MailInv'
<1> USE DEF TypeInv, TypeOK, ThreadTypes, Goto, clientVars, blockVars, handVars, sharedVars
<1>1. CASE Accept(t)
  BY <1>1, QuietKeeps DEF Accept
<1>2. CASE RecvNothing(t)
  BY <1>2, QuietKeeps DEF RecvNothing
<1>3. CASE AuthQueryFails(t)
  BY <1>3, QuietKeeps DEF AuthQueryFails
<1>4. CASE RefuseUnauthenticated(t)
  BY <1>4, QuietKeeps DEF RefuseUnauthenticated, Return, Interprets
<1>5. CASE Logout(t)
  BY <1>5, QuietKeeps DEF Logout, Return
<1>6. CASE Ignore(t)
  BY <1>6, QuietKeeps DEF Ignore, Return
<1>7. CASE PassOn(t)
  BY <1>7, QuietKeeps DEF PassOn, PrepareSend
<1>8. CASE InsertMessage(t)
  BY <1>8, QuietKeeps DEF InsertMessage, Return
<1>9. CASE TraceAfterHandOver(t)
  BY <1>9, QuietKeeps DEF TraceAfterHandOver, Return
<1>10. CASE SelectMessages(t)
  BY <1>10, QuietKeeps DEF SelectMessages
<1>11. CASE MarkReceived(t)
  BY <1>11, QuietKeeps DEF MarkReceived, Return
<1>12. CASE DestroyOnly(t)
  BY <1>12, QuietKeeps DEF DestroyOnly, Return
<1>13. CASE OwnLocation(t)
  BY <1>13, QuietKeeps DEF OwnLocation, PrepareSend
<1>14. CASE IgnoreLocation(t)
  BY <1>14, QuietKeeps DEF IgnoreLocation, Return
<1>15. CASE SendPacket(t)
  BY <1>15, QuietKeeps DEF SendPacket, Return
<1>16. CASE QueueEmpty(t)
  BY <1>16, QuietKeeps DEF QueueEmpty, NextTurn
<1>17. CASE EndOfTurn(t)
  BY <1>17, QuietKeeps DEF EndOfTurn, NextTurn
<1>18. CASE Cancelled(t)
  BY <1>18, QuietKeeps DEF Cancelled
<1>19. CASE Disconnect(t)
  BY <1>19, QuietKeeps DEF Disconnect
<1>20. CASE SelectFails(t)
  BY <1>20, QuietKeeps DEF SelectFails
<1>21. CASE NoMemory(t)
  BY <1>21, QuietKeeps DEF NoMemory
<1> QED
  BY <1>20, <1>21, <1>1, <1>2, <1>3, <1>4, <1>5, <1>6, <1>7, <1>8, <1>9, <1>10, <1>11, <1>12, <1>13, <1>14, <1>15, <1>16, <1>17, <1>18, <1>19

LEMMA ClientSendMail ==
  ASSUME AuthFirst, MailInv, TypeInv, NEW t \in Threads, ClientSend(t)
  PROVE  MailInv'
<1> USE DEF TypeInv, TypeOK, ClientTypes, blockVars, handVars, sharedVars, ClientSend
<1>1. PICK r \in Requests[t] :
        /\ r.type = "AUTH" <=> sent[t] = 0
        /\ sock' = [sock EXCEPT ![t] = Append(@,
              [type |-> r.type, sender |-> r.sender, receiver |-> r.receiver,
               msg |-> r.msg, conn |-> t, seq |-> sent[t] + 1])]
  OBVIOUS
<1> DEFINE p == [type |-> r.type, sender |-> r.sender, receiver |-> r.receiver,
                 msg |-> r.msg, conn |-> t, seq |-> sent[t] + 1]
<1>2. RouteRight' /\ QueueRight' /\ TableRight'
  BY DEF MailInv, RouteRight, QueueRight, TableRight, Serves
<1>3. AuthOnce'
  <2>1. p.type = "AUTH" <=> sent[t] = 0
    BY <1>1
  <2>2. sock' = [sock EXCEPT ![t] = Append(sock[t], p)]
    BY <1>1
  <2> HIDE DEF p
  <2>3. sent'[t] # 0 /\ \A u \in Threads : u # t => sent'[u] = sent[u] /\ sock'[u] = sock[u]
    BY <2>2, ConnectionAssumption
  <2>4. HasAuth(t)' <=> HasAuth(t)
    BY DEF HasAuth
  <2>5. ASSUME NEW i \in DOMAIN sock'[t], sock'[t][i].type = "AUTH"
        PROVE  i = 1 /\ userid'[t] = NoUser /\ ~HasAuth(t)'
    <3>1. CASE i \in DOMAIN sock[t]
      BY <2>2, <2>4, <2>5, <3>1 DEF MailInv, AuthOnce
    <3>2. CASE i = Len(sock[t]) + 1
      <4>1. sent[t] = 0
        BY <2>1, <2>2, <2>5, <3>2
      <4>2. sock[t] = <<>> /\ ~HasAuth(t) /\ userid[t] = NoUser
        BY <4>1 DEF MailInv, AuthOnce
      <4> QED
        BY <2>4, <3>2, <4>2
    <3> QED
      BY <2>2, <3>1, <3>2
  <2> QED
    BY <2>3, <2>4, <2>5 DEF MailInv, AuthOnce, HasAuth
<1> QED
  BY <1>2, <1>3 DEF MailInv

LEMMA RecvPacketMail ==
  ASSUME MailInv, TypeInv, NEW t \in Threads, RecvPacket(t)
  PROVE  MailInv'
<1> USE DEF TypeInv, TypeOK, ClientTypes, ThreadTypes, blockVars, sharedVars, RecvPacket, Goto
<1>1. PICK n \in 1..MaxBurst : /\ n <= Len(sock[t])
                               /\ sock' = [sock EXCEPT ![t] = SubSeq(@, n + 1, Len(@))]
  OBVIOUS
<1>2. RouteRight' /\ QueueRight' /\ TableRight'
  BY DEF MailInv, RouteRight, QueueRight, TableRight, Serves
<1>3. sent[t] # 0
  BY DEF MailInv, AuthOnce
<1>4. ASSUME NEW i \in DOMAIN sock'[t] PROVE sock'[t][i].type # "AUTH"
  <2>1. n \in Nat \ {0} /\ Len(sock[t]) \in Nat
    BY ConnectionAssumption
  <2>2. i \in 1..(Len(sock[t]) - n) /\ sock'[t][i] = sock[t][n + i]
    BY <1>1, <1>4, <2>1, SubSeqProperties
  <2>3. n + i \in DOMAIN sock[t] /\ n + i # 1
    BY <2>1, <2>2
  <2> QED
    BY <2>2, <2>3 DEF MailInv, AuthOnce
<1>5. HasAuth(t)' => userid'[t] = NoUser
  <2>1. 1 \in DOMAIN sock[t] /\ Head(sock[t]) = sock[t][1]
    BY HeadTailProperties
  <2> QED
    BY <2>1 DEF MailInv, AuthOnce, HasAuth
<1>6. AuthOnce'
  BY <1>1, <1>3, <1>4, <1>5 DEF MailInv, AuthOnce, HasAuth
<1> QED
  BY <1>2, <1>6 DEF MailInv

\* An AUTH is interpreted while the userid is -1, so that no entry, no route
\* and no mail depends on the userid that changes.
LEMMA AuthFindMail ==
  ASSUME MailInv, TypeInv, NEW t \in Threads, AuthFind(t)
  PROVE  MailInv'
<1> USE DEF TypeInv, TypeOK, BlockTypes, ThreadTypes, SharedTypes, handVars
<1>1. HasAuth(t) /\ userid[t] = NoUser /\ sent[t] # 0
  BY DEF AuthFind, Interprets, HasAuth, MailInv, AuthOnce
<1>2. /\ UNCHANGED <<sent, sock, in_queue, addrs, strays>>
      /\ \A u \in Threads : u # t => userid'[u] = userid[u]
      /\ \A u \in Threads : u # t =>
            pc'[u] = pc[u] /\ pk'[u] = pk[u] /\ pckt'[u] = pckt[u] /\ node'[u] = node[u]
      /\ pc'[t] \in {"queue", "end", "login"}
  BY DEF AuthFind, Return, Goto
<1>3. \A u \in Threads, id \in Users : Serves(u, id) => Serves(u, id)'
  BY <1>1, <1>2, NoUserIsNone DEF Serves
<1>4. RouteRight'
  <2>1. SUFFICES ASSUME NEW u \in Threads, pc'[u] = "route"
                 PROVE  (Serves(node[u], pckt[u].receiver) /\ pckt[u].type # "AUTH")'
    BY DEF RouteRight, Serves
  <2>2. u # t /\ pc[u] = "route" /\ pckt'[u] = pckt[u] /\ node'[u] = node[u]
    BY <1>2, <2>1
  <2>3. node[u] \in Threads /\ Serves(node[u], pckt[u].receiver) /\ pckt[u].type # "AUTH"
    BY <2>2 DEF MailInv, RouteRight, HandsFull
  <2> QED
    BY <1>3, <2>2, <2>3 DEF Serves
<1>5. QueueRight'
  BY <1>2, <1>3 DEF MailInv, QueueRight, Serves
<1>6. TableRight'
  BY <1>1, <1>2, NoUserIsNone DEF MailInv, TableRight
<1>7. AuthOnce'
  <2>1. ASSUME NEW u \in Threads, u # t
        PROVE  HasAuth(u)' <=> HasAuth(u)
    BY <1>2, <2>1 DEF HasAuth
  <2>2. ~HasAuth(t)' /\ pc'[t] # "deq"
    BY <1>2 DEF HasAuth
  <2>3. \A i \in DOMAIN sock[t] : sock[t][i].type # "AUTH"
    BY <1>1 DEF MailInv, AuthOnce
  <2> QED
    BY <1>1, <1>2, <2>1, <2>2, <2>3 DEF MailInv, AuthOnce
<1> QED
  BY <1>4, <1>5, <1>6, <1>7 DEF MailInv

LEMMA LogInMail ==
  ASSUME MailInv, TypeInv, NEW t \in Threads, LogIn(t)
  PROVE  MailInv'
<1> USE DEF TypeInv, TypeOK, ThreadTypes
<1>1. /\ UNCHANGED <<sent, sock, in_queue, userid, strays>>
      /\ \A u \in Threads : u # t =>
            pc'[u] = pc[u] /\ pk'[u] = pk[u] /\ pckt'[u] = pckt[u] /\ node'[u] = node[u]
      /\ pc'[t] \in {"queue", "end"}
      /\ addrs' = addrs \cup {<<userid[t], t>>}
  BY DEF LogIn, Return, Goto
<1>2. RouteRight' /\ QueueRight'
  BY <1>1 DEF MailInv, RouteRight, QueueRight, Serves
<1>3. TableRight'
  BY <1>1 DEF MailInv, TableRight
<1>4. AuthOnce'
  BY <1>1 DEF MailInv, AuthOnce, HasAuth
<1> QED
  BY <1>2, <1>3, <1>4 DEF MailInv

\* The block found for id serves id, so that a packet for id may go there.
LEMMA ForwardMail ==
  ASSUME MailInv, TypeInv, NEW t \in Threads, NEW p \in Packet,
         Forward(t, p.receiver, p), p.type # "AUTH",
         UNCHANGED <<sent, sock, userid, in_queue, addrs, strays>>
  PROVE  MailInv'
<1> USE DEF TypeInv, TypeOK, ThreadTypes, SharedTypes
<1>1. PICK n \in Registered(p.receiver) : node' = [node EXCEPT ![t] = n]
  BY DEF Forward
<1>2. n \in Threads /\ <<p.receiver, n>> \in addrs
  BY <1>1 DEF Registered
<1>3. Serves(n, p.receiver)
  BY <1>2 DEF Serves, MailInv, TableRight
<1>4. RouteRight'
  BY <1>1, <1>3 DEF MailInv, RouteRight, Serves, Forward, Goto
<1>5. QueueRight' /\ TableRight'
  BY DEF MailInv, QueueRight, TableRight, Serves
<1>6. AuthOnce'
  BY DEF MailInv, AuthOnce, HasAuth, Forward, Goto
<1> QED
  BY <1>4, <1>5, <1>6 DEF MailInv

LEMMA LookUpMail ==
  ASSUME MailInv, TypeInv, NEW t \in Threads,
         FindReceiver(t) \/ AnswerLocation(t) \/ AskLocation(t)
  PROVE  MailInv'
<1> USE DEF TypeInv, TypeOK, ThreadTypes, clientVars, blockVars, handVars, sharedVars
<1>1. pk[t] \in Packet
  BY DEF HandsFull, FindReceiver, AnswerLocation, AskLocation, Interprets
<1>2. UNCHANGED <<sent, sock, userid, in_queue, addrs, strays>>
  BY DEF FindReceiver, AnswerLocation, AskLocation
<1>3. CASE Forward(t, pk[t].receiver, pk[t]) /\ pk[t].type # "AUTH"
  BY <1>1, <1>2, <1>3, ForwardMail
<1>4. CASE Forward(t, pk[t].sender, AnswerTo(pk[t]))
  <2>1. AnswerTo(pk[t]).receiver = pk[t].sender /\ AnswerTo(pk[t]).type # "AUTH"
    BY <1>1 DEF AnswerTo, Packet
  <2> QED
    BY <1>1, <1>2, <1>4, <2>1, AnswerIsPacket, ForwardMail
<1>5. CASE Goto(t, "insert") /\ UNCHANGED handVars
  BY <1>2, <1>5, QuietKeeps DEF Goto
<1>6. CASE PrepareSend(t, Reply(t, "ACK", NoUser))
  BY <1>2, <1>6, QuietKeeps DEF PrepareSend, Goto
<1>7. CASE Return(t)
  BY <1>2, <1>7, QuietKeeps DEF Return, Goto
<1> QED
  BY <1>3, <1>4, <1>5, <1>6, <1>7 DEF FindReceiver, AnswerLocation, AskLocation, Interprets

LEMMA DeliverMail ==
  ASSUME MailInv, TypeInv, NEW t \in Threads, Deliver(t)
  PROVE  MailInv'
<1> USE DEF TypeInv, TypeOK, BlockTypes, ThreadTypes, clientVars, handVars
<1>1. pc[t] = "route" /\ node[t] \in Threads /\ pckt[t] \in Packet
  BY DEF Deliver, Runs, HandsFull
<1>2. /\ UNCHANGED <<sent, sock, userid, addrs>>
      /\ \A u \in Threads : u # t =>
            pc'[u] = pc[u] /\ pk'[u] = pk[u] /\ pckt'[u] = pckt[u] /\ node'[u] = node[u]
      /\ pc'[t] \in {"trace", "queue", "end"}
  BY DEF Deliver, Return, Goto
<1>3. RouteRight' /\ TableRight'
  BY <1>2 DEF MailInv, RouteRight, TableRight, Serves
<1>4. AuthOnce'
  BY <1>2 DEF MailInv, AuthOnce, HasAuth
<1>5. QueueRight'
  <2>1. Serves(node[t], pckt[t].receiver) /\ pckt[t].type # "AUTH"
    BY <1>1 DEF MailInv, RouteRight
  <2>2. CASE /\ in_queue' = [in_queue EXCEPT ![block[node[t]]] = Append(@, pckt[t])]
             /\ strays' = IF block[node[t]] = node[t] THEN strays ELSE strays \cup {pckt[t]}
    <3> DEFINE n == block[node[t]]
    <3>1. Serves(n, pckt[t].receiver) \/ pckt[t] \in strays'
      BY <1>1, <2>1, <2>2
    <3>2. ASSUME NEW u \in Threads, NEW i \in DOMAIN in_queue'[u]
          PROVE  \/ i \in DOMAIN in_queue[u] /\ in_queue'[u][i] = in_queue[u][i]
                 \/ u = n /\ in_queue'[u][i] = pckt[t]
      BY <1>1, <2>2, <3>2
    <3>3. strays \subseteq strays'
      BY <2>2
    <3> HIDE DEF n
    <3>4. ASSUME NEW u \in Threads, NEW i \in DOMAIN in_queue'[u]
          PROVE  /\ Serves(u, in_queue'[u][i].receiver) \/ in_queue'[u][i] \in strays'
                 /\ in_queue'[u][i].type # "AUTH"
      <4>1. CASE i \in DOMAIN in_queue[u] /\ in_queue'[u][i] = in_queue[u][i]
        BY <3>3, <4>1 DEF MailInv, QueueRight
      <4>2. CASE u = n /\ in_queue'[u][i] = pckt[t]
        BY <2>1, <3>1, <4>2
      <4> QED
        BY <3>2, <3>4, <4>1, <4>2
    <3> QED
      BY <1>2, <3>4 DEF QueueRight, Serves
  <2>3. CASE UNCHANGED <<in_queue, strays>>
    BY <1>2, <2>3 DEF MailInv, QueueRight, Serves
  <2> QED
    BY <2>2, <2>3 DEF Deliver, Enqueue
<1> QED
  BY <1>3, <1>4, <1>5 DEF MailInv

LEMMA DequeueMail ==
  ASSUME MailInv, TypeInv, NEW t \in Threads, Dequeue(t)
  PROVE  MailInv'
<1> USE DEF TypeInv, TypeOK, BlockTypes, ThreadTypes, clientVars, sharedVars, Dequeue, Rest, Goto
<1>1. 1 \in DOMAIN in_queue[t] /\ Head(in_queue[t]) = in_queue[t][1]
  BY HeadTailProperties
<1>2. RouteRight' /\ TableRight'
  BY DEF MailInv, RouteRight, TableRight, Serves
<1>3. AuthOnce'
  BY <1>1 DEF MailInv, QueueRight, AuthOnce, HasAuth
<1>4. QueueRight'
  <2>1. ASSUME NEW i \in DOMAIN in_queue'[t]
        PROVE  i + 1 \in DOMAIN in_queue[t] /\ in_queue'[t][i] = in_queue[t][i + 1]
    BY <2>1, HeadTailProperties
  <2> QED
    BY <2>1 DEF MailInv, QueueRight, Serves
<1> QED
  BY <1>2, <1>3, <1>4 DEF MailInv

LEMMA UnlockMail ==
  ASSUME MailInv, TypeInv, NEW t \in Threads, Unlock(t)
  PROVE  MailInv'
<1> USE DEF TypeInv, TypeOK, ThreadTypes, clientVars, handVars, Unlock, Goto, Runs
<1>1. RouteRight' /\ QueueRight' /\ TableRight'
  BY DEF MailInv, RouteRight, QueueRight, TableRight, Serves
<1>2. AuthOnce'
  BY DEF MailInv, AuthOnce, HasAuth
<1> QED
  BY <1>1, <1>2 DEF MailInv

LEMMA ExitMail ==
  ASSUME MailInv, TypeInv, NEW t \in Threads, Cleanup(t) \/ DestroyBlock(t)
  PROVE  MailInv'
<1> USE DEF TypeInv, TypeOK, ThreadTypes, ClientTypes, BlockTypes, clientVars, handVars, Goto
<1>1. /\ UNCHANGED <<sent, userid, pk, pckt, node, strays>> /\ addrs' \subseteq addrs
      /\ \A u \in Threads : sock'[u] \in {sock[u], <<>>} /\ in_queue'[u] \in {in_queue[u], <<>>}
      /\ \A u \in Threads : pc'[u] = pc[u] \/ pc'[u] \in {"drain", "freed"}
  BY DEF Cleanup, DestroyBlock, Removal
<1>2. RouteRight' /\ TableRight'
  BY <1>1 DEF MailInv, RouteRight, TableRight, Serves
<1>3. ASSUME NEW u \in Threads, NEW i \in DOMAIN in_queue'[u]
      PROVE  i \in DOMAIN in_queue[u] /\ in_queue'[u] = in_queue[u]
  BY <1>1, <1>3
<1>4. QueueRight'
  BY <1>1, <1>3 DEF MailInv, QueueRight, Serves
<1>5. AuthOnce'
  <2>1. ASSUME NEW u \in Threads
        PROVE  /\ HasAuth(u)' => HasAuth(u)
               /\ pc'[u] = "deq" => pc[u] = "deq"
               /\ \A i \in DOMAIN sock'[u] : i \in DOMAIN sock[u] /\ sock'[u] = sock[u]
               /\ sock[u] = <<>> => sock'[u] = <<>>
    <3>1. (HasAuth(u)' => HasAuth(u)) /\ (pc'[u] = "deq" => pc[u] = "deq")
      BY <1>1, <2>1 DEF HasAuth
    <3>2. CASE sock'[u] = sock[u]
      BY <3>1, <3>2
    <3>3. CASE sock'[u] = <<>>
      BY <3>1, <3>3
    <3> QED
      BY <1>1, <3>2, <3>3
  <2> QED
    BY <1>1, <2>1 DEF MailInv, AuthOnce
<1> QED
  BY <1>2, <1>4, <1>5 DEF MailInv

LEMMA NextMail == ASSUME AuthFirst, MailInv, TypeInv, [Next]_vars PROVE MailInv'
<1>1. CASE UNCHANGED vars
  BY <1>1 DEF MailInv, RouteRight, QueueRight, TableRight, AuthOnce, HasAuth, Serves,
      vars, clientVars, blockVars, handVars, sharedVars
<1>2. ASSUME NEW t \in Threads, Step(t) PROVE MailInv'
  BY <1>2, QuietMail, RecvPacketMail, AuthFindMail, LogInMail, LookUpMail, DeliverMail,
     DequeueMail, UnlockMail, ExitMail DEF Step, Interpret
<1>3. ASSUME NEW t \in Threads, Environment(t) PROVE MailInv'
  BY <1>3, QuietMail, ClientSendMail DEF Environment
<1> QED
  BY <1>1, <1>2, <1>3 DEF Next, Stopped

LEMMA InitMail == ASSUME Init PROVE MailInv
BY DEF Init, MailInv, RouteRight, QueueRight, TableRight, AuthOnce, HasAuth, Serves

\* Whatever fails and however the threads interleave, a queue holds only mail
\* for the user its thread serves, and mail that came through a pointer to a
\* block freed between the look-up and the append, whose memory the thread's
\* own block had got meanwhile; provided that clients authenticate once, first.
THEOREM MailForOwnerAlways == ASSUME AuthFirst PROVE Spec => []MailForOwner
<1>1. Init => TypeInv /\ MailInv
  BY InitType, InitMail
<1>2. TypeInv /\ MailInv /\ [Next]_vars => (TypeInv /\ MailInv)'
  BY NextType, NextMail
<1>3. MailInv => MailForOwner
  BY DEF MailInv, QueueRight, MailForOwner, Queued, Serves
<1> QED
  BY <1>1, <1>2, <1>3, PTL DEF Spec

-----------------------------------------------------------------------------
(* What has gone astray stays on record, and as long as nothing has, a     *)
(* packet goes to the queue of the block that was looked up.               *)

LEMMA DeliverAstray ==
  ASSUME NEW t \in Threads, Deliver(t)
  PROVE  /\ strays \subseteq strays'
         /\ strays' = {} =>
              \/ UNCHANGED in_queue
              \/ /\ block[node[t]] = node[t] /\ pc[node[t]] # "freed"
                 /\ ~queue_lock[node[t]] /\ UNCHANGED fault
                 /\ in_queue' = [in_queue EXCEPT ![node[t]] = Append(@, pckt[t])]
BY DEF Deliver, Enqueue

LEMMA StraysGrow == ASSUME [Next]_vars PROVE strays \subseteq strays'
<1>1. CASE UNCHANGED vars
  BY <1>1 DEF vars, sharedVars
<1>2. ASSUME NEW t \in Threads, Interpret(t) PROVE strays \subseteq strays'
  <2>1. CASE \/ AuthFind(t) \/ AuthQueryFails(t) \/ LogIn(t) \/ RefuseUnauthenticated(t)
             \/ Logout(t) \/ Ignore(t) \/ PassOn(t) \/ SendPacket(t)
             \/ FindReceiver(t) \/ InsertMessage(t)
    BY <2>1 DEF AuthFind, AuthQueryFails, LogIn, RefuseUnauthenticated, Logout, Ignore,
                PassOn, SendPacket, FindReceiver, InsertMessage, sharedVars
  <2>2. CASE \/ TraceAfterHandOver(t) \/ SelectMessages(t) \/ SelectFails(t)
             \/ MarkReceived(t) \/ DestroyOnly(t) \/ OwnLocation(t)
             \/ AnswerLocation(t) \/ AskLocation(t) \/ IgnoreLocation(t)
    BY <2>2 DEF TraceAfterHandOver, SelectMessages, SelectFails, MarkReceived, DestroyOnly,
                OwnLocation, AnswerLocation, AskLocation, IgnoreLocation, sharedVars
  <2> QED
    BY <1>2, <2>1, <2>2, DeliverAstray DEF Interpret
<1>3. ASSUME NEW t \in Threads, Step(t) PROVE strays \subseteq strays'
  <2>1. CASE \/ RecvNothing(t) \/ RecvPacket(t) \/ QueueEmpty(t) \/ Dequeue(t)
             \/ Unlock(t) \/ EndOfTurn(t) \/ NoMemory(t) \/ Cancelled(t)
             \/ Cleanup(t) \/ DestroyBlock(t)
    BY <2>1 DEF RecvNothing, RecvPacket, QueueEmpty, Dequeue, Unlock, EndOfTurn, NoMemory,
                Cancelled, Cleanup, DestroyBlock, sharedVars
  <2> QED
    BY <1>2, <1>3, <2>1 DEF Step
<1>4. ASSUME NEW t \in Threads, Environment(t) PROVE strays \subseteq strays'
  BY <1>4 DEF Environment, Accept, ClientSend, Disconnect, sharedVars
<1> QED
  BY <1>1, <1>3, <1>4 DEF Next, Stopped
=============================================================================
