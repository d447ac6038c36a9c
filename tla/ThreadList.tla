----------------------------- MODULE ThreadList -----------------------------
(***************************************************************************)
(* The life of a connection on the server's side: make_server accepts it,  *)
(* allocates a list node for the id of its thread and a thread_block,      *)
(* starts the thread and tells the block its node; the thread puts the     *)
(* node in the list of threads, serves, and at its end takes the node out  *)
(* and frees both; at shutdown the main thread pops the list, cancels and  *)
(* joins.  The list is kept as the code keeps it, in next and prev.        *)
(*                                                                         *)
(* A connection names its thread, its list node and its block.  What a     *)
(* thread does while it serves is ConnectionHandler.                       *)
(***************************************************************************)
EXTENDS Integers, FiniteSets, Sequences

CONSTANTS
    Threads,        \* the connections that arrive
    None,           \* the NULL pointer
    MaxConn,        \* MAX_CONN
    MayFail,        \* an allocation or the connection to the database may fail
    StartMayFail,   \* pthread_create may fail
    MayKill         \* SIGINT may come

ASSUME ListAssumption ==
    /\ IsFiniteSet(Threads)
    /\ None \notin Threads
    /\ MaxConn \in Nat
    /\ {MayFail, StartMayFail, MayKill} \subseteq BOOLEAN

VARIABLES
    mpc, cur,       \* where the main thread is, and the connection it handles
    kill_server,
    fd, open,       \* socket of a connection; whose connection a descriptor is
    node, data,     \* list node and pthread_t: "none", "live" or "freed"
    blk, tid,       \* the block, and its pointer to the list node
    thr, cancelled, \* where the thread is; pthread_cancel was called
    head, tail, next, prev, list_len,   \* Generic_list
    list_lock,      \* the thread that has gen_list_lock
    fault,          \* the first undefined behaviour
    early, stolen   \* history, read by properties only: threads that were past
                    \* their start before their block was told its list node;
                    \* connections whose descriptor a thread has closed that
                    \* had been turned away, or had lost its own

mainVars == <<mpc, cur, kill_server>>
fdVars   == <<fd, open, stolen>>
heapVars == <<node, data, blk, tid>>
listVars == <<head, tail, next, prev, list_len>>
vars == <<mainVars, fdVars, heapVars, thr, cancelled, listVars, list_lock, fault, early>>

Fds == 1..Cardinality(Threads)

Init ==
    /\ mpc = "head" /\ cur = None /\ kill_server = FALSE
    /\ fd = [t \in Threads |-> 0]
    /\ open = [f \in Fds |-> None]
    /\ node = [t \in Threads |-> "none"]
    /\ data = [t \in Threads |-> "none"]
    /\ blk = [t \in Threads |-> "none"]
    /\ tid = [t \in Threads |-> None]
    /\ thr = [t \in Threads |-> "none"]
    /\ cancelled = [t \in Threads |-> FALSE]
    /\ head = None /\ tail = None /\ list_len = 0
    /\ next = [t \in Threads |-> None]
    /\ prev = [t \in Threads |-> None]
    /\ list_lock = None
    /\ fault = "none"
    /\ early = {} /\ stolen = {}

-----------------------------------------------------------------------------
(* The accept loop of make_server.                                          *)

\* close(fd[t]) closes the descriptor, whose connection it may be by now: a
\* thread that was turned away closes its descriptor twice.
Close(t) ==
    /\ open' = [open EXCEPT ![fd[t]] = None]
    /\ stolen' = IF thr[t] = "refused" \/ t \in stolen
                 THEN stolen \cup ({open[fd[t]]} \ {t, None})
                 ELSE stolen

LoopHead ==
    /\ mpc = "head"
    /\ mpc' = IF kill_server THEN "closing" ELSE "accept"
    /\ UNCHANGED <<cur, kill_server, fdVars, heapVars, thr, cancelled, listVars,
                   list_lock, fault, early>>

\* sig_handler.  A blocked accept returns EINTR; one not yet begun does not.
Signal ==
    /\ MayKill /\ ~kill_server
    /\ kill_server' = TRUE
    /\ mpc' \in IF mpc = "accept" THEN {"accept", "closing"} ELSE {mpc}
    /\ UNCHANGED <<cur, fdVars, heapVars, thr, cancelled, listVars, list_lock, fault, early>>

\* The kernel gives the lowest free descriptor.
Accept ==
    /\ mpc = "accept"
    /\ \E t \in Threads, f \in Fds :
        /\ fd[t] = 0 /\ open[f] = None /\ \A g \in Fds : g < f => open[g] # None
        /\ fd' = [fd EXCEPT ![t] = f]
        /\ open' = [open EXCEPT ![f] = t]
        /\ cur' = t
    /\ mpc' = "node"
    /\ UNCHANGED <<kill_server, stolen, heapVars, thr, cancelled, listVars, list_lock, fault, early>>

\* Without memory for the list node the socket is shut down and never closed:
\* log_errors calls error_close_fd under DO_EXIT only.
CreateNode ==
    /\ mpc = "node"
    /\ \/ /\ node' = [node EXCEPT ![cur] = "live"]
          /\ data' = [data EXCEPT ![cur] = "live"]
          /\ mpc' = "block"
       \/ /\ MayFail
          /\ mpc' = "head"
          /\ UNCHANGED <<node, data>>
    /\ UNCHANGED <<cur, kill_server, fdVars, blk, tid, thr, cancelled, listVars,
                   list_lock, fault, early>>

\* create_thread_node closes the socket when it fails after its malloc, and not
\* when malloc fails; make_server frees the list node, and closes nothing.
CreateBlock ==
    /\ mpc = "block"
    /\ \/ /\ blk' = [blk EXCEPT ![cur] = "live"]
          /\ mpc' = "start"
          /\ UNCHANGED <<open, stolen, node, data>>
       \/ /\ MayFail
          /\ Close(cur) \/ UNCHANGED <<open, stolen>>
          /\ node' = [node EXCEPT ![cur] = "freed"]
          /\ data' = [data EXCEPT ![cur] = "freed"]
          /\ mpc' = "head"
          /\ UNCHANGED blk
    /\ UNCHANGED <<cur, kill_server, fd, tid, thr, cancelled, listVars, list_lock, fault, early>>

\* When pthread_create fails, destroy_thread_node is called for a block that
\* has no list node yet, and destroy_list_node reads through NULL.
StartThread ==
    /\ mpc = "start"
    /\ \/ /\ thr' = [thr EXCEPT ![cur] = "init"]
          /\ mpc' = "settid"
          /\ UNCHANGED <<open, stolen, fault>>
       \/ /\ StartMayFail
          /\ Close(cur)
          /\ fault' = "null_dereference"
          /\ UNCHANGED <<mpc, thr>>
    /\ UNCHANGED <<cur, kill_server, fd, heapVars, cancelled, listVars, list_lock, early>>

\* set_thread_node_tid, while the new thread runs.
SetTid ==
    /\ mpc = "settid"
    /\ \/ blk[cur] = "live" /\ tid' = [tid EXCEPT ![cur] = cur] /\ UNCHANGED fault
       \/ blk[cur] = "freed" /\ fault' = "use_after_free" /\ UNCHANGED tid
    /\ mpc' = "head"
    /\ UNCHANGED <<cur, kill_server, fdVars, node, data, blk, thr, cancelled,
                   listVars, list_lock, early>>

-----------------------------------------------------------------------------
(* The shutdown loop.  list_popfront is called without the lock.            *)

PopRead ==
    /\ mpc = "closing" /\ list_len > 0 /\ head # None
    /\ cur' = head
    /\ mpc' = "pop"
    /\ UNCHANGED <<kill_server, fdVars, heapVars, thr, cancelled, listVars,
                   list_lock, fault, early>>

PopUnlink ==
    /\ mpc = "pop"
    /\ \/ /\ node[cur] = "live"
          /\ head' = next[cur]
          /\ tail' = IF head' = None THEN None ELSE tail
          /\ prev' = [t \in Threads |-> IF t = head' THEN None ELSE prev[t]]
          /\ list_len' = list_len - 1
          /\ node' = [node EXCEPT ![cur] = "freed"]
          /\ UNCHANGED fault
       \/ /\ node[cur] = "freed"
          /\ fault' = "use_after_free"
          /\ UNCHANGED <<head, tail, prev, list_len, node>>
    /\ mpc' = "cancel"
    /\ UNCHANGED <<cur, kill_server, fdVars, data, blk, tid, thr, cancelled, next, list_lock, early>>

\* pthread_cancel(*data), then pthread_join(*data), which reads it and waits.
CancelThread ==
    /\ mpc \in {"cancel", "join"}
    /\ fault' = IF data[cur] = "freed" THEN "use_after_free" ELSE fault
    /\ cancelled' = [cancelled EXCEPT ![cur] = TRUE]
    /\ mpc' = IF mpc = "cancel" THEN "join" ELSE "wait"
    /\ UNCHANGED <<cur, kill_server, fdVars, heapVars, thr, listVars, list_lock, early>>

JoinThread ==
    /\ mpc = "wait" /\ thr[cur] = "exited"
    /\ mpc' = "closing"
    /\ UNCHANGED <<cur, kill_server, fdVars, heapVars, thr, cancelled, listVars,
                   list_lock, fault, early>>

\* destroy_generic_list and the return to main, which ends the process.
Shutdown ==
    /\ mpc = "closing" /\ list_len <= 0 /\ list_lock = None
    /\ mpc' = "down"
    /\ UNCHANGED <<cur, kill_server, fdVars, heapVars, thr, cancelled, listVars,
                   list_lock, fault, early>>

-----------------------------------------------------------------------------
(* A thread: init_connection_handler, and the end of connection_handler.    *)

Goto(t, place) == thr' = [thr EXCEPT ![t] = place]

LockList(t) ==
    /\ list_lock = None
    /\ \/ thr[t] = "init" /\ Goto(t, "enter")
       \/ thr[t] = "unlink" /\ Goto(t, "unlinking")
    /\ list_lock' = t
    /\ UNCHANGED <<mainVars, fdVars, heapVars, cancelled, listVars, fault, early>>

Full == list_len > MaxConn

\* t is past its start: has its block been told its list node by now?
NoteEarly(t) == early' = IF tid[t] = None THEN early \cup {t} ELSE early

\* Mutant of LinkLast: the last node is not linked to the new one.
LinkLastNot(t) ==
    IF head = None THEN head' = t /\ UNCHANGED <<next, prev>>
    ELSE /\ prev' = [prev EXCEPT ![t] = tail]
         /\ UNCHANGED <<head, next>>

LinkLast(t) ==
    IF head = None THEN head' = t /\ UNCHANGED <<next, prev>>
    ELSE /\ next' = [next EXCEPT ![tail] = t]
         /\ prev' = [prev EXCEPT ![t] = tail]
         /\ UNCHANGED head

\* append_list_node, which returns at once for NULL.
Enlist(t) ==
    /\ thr[t] = "enter" /\ ~Full
    /\ \/ /\ tid[t] # None
          /\ LinkLast(t)
          /\ tail' = t
          /\ list_len' = list_len + 1
       \/ tid[t] = None /\ UNCHANGED listVars
    /\ NoteEarly(t)
    /\ Goto(t, "serve")
    /\ list_lock' = None
    /\ UNCHANGED <<mainVars, fdVars, heapVars, cancelled, fault>>

\* Too many connections: the socket is closed and the thread cancelled.
TurnAway(t) ==
    /\ thr[t] = "enter" /\ Full
    /\ Close(t)
    /\ NoteEarly(t)
    /\ Goto(t, "refused")
    /\ list_lock' = None
    /\ UNCHANGED <<mainVars, fd, heapVars, cancelled, listVars, fault>>

\* The client logs out, or the thread is cancelled: connection_handler ends.
Leave(t) ==
    /\ thr[t] = "serve"
    /\ Goto(t, "cleanup")
    /\ UNCHANGED <<mainVars, fdVars, heapVars, cancelled, listVars, list_lock, fault, early>>

\* destroy_thread_node closes the socket first, that of a connection that was
\* turned away for the second time.
CloseSocket(t) ==
    /\ thr[t] \in {"cleanup", "refused"}
    /\ Close(t)
    /\ Goto(t, "unlink")
    /\ UNCHANGED <<mainVars, fd, heapVars, cancelled, listVars, list_lock, fault, early>>

\* Mutants of NotInserted: no test; the only node of the list is taken for one
\* that is in no list.
NotInsertedNever(t) == FALSE
NotInsertedByLinks(t) == next[t] = None /\ prev[t] = None

\* How destroy_list_node tells a node that was never put in the list.
NotInserted(t) == next[t] = None /\ prev[t] = None /\ head # t

\* Mutant of NewTail: the tail is not moved.
NewTailSame(t) == tail

NewTail(t) ==
    IF t = head THEN (IF next[t] = None THEN None ELSE tail)
    ELSE IF t = tail THEN prev[t] ELSE tail

\* Mutant of Bypass: the neighbour before is linked, the one after is not.
BypassForward(t) ==
    /\ next' = [next EXCEPT ![prev[t]] = next[t]]
    /\ UNCHANGED <<head, prev>>

Bypass(t) ==
    /\ next' = [next EXCEPT ![prev[t]] = next[t]]
    /\ prev' = [u \in Threads |-> IF u = next[t] THEN prev[t] ELSE prev[u]]
    /\ UNCHANGED head

\* Mutant of TakeOut: the length is decremented in both branches.
TakeOutTwice(t) ==
    /\ \/ t = head /\ head' = next[t] /\ UNCHANGED <<next, prev>>
       \/ t # head /\ Bypass(t)
    /\ tail' = NewTail(t)
    /\ list_len' = list_len - 2

\* destroy_list_node for a node in the list.  A new head keeps its prev.
TakeOut(t) ==
    /\ \/ t = head /\ head' = next[t] /\ UNCHANGED <<next, prev>>
       \/ t # head /\ Bypass(t)
    /\ tail' = NewTail(t)
    /\ list_len' = list_len - 1

FreeNode(t) ==
    /\ node' = [node EXCEPT ![t] = "freed"]
    /\ data' = [data EXCEPT ![t] = "freed"]

Inserted(t) == head # None /\ ~NotInserted(t)

\* It follows a NULL pointer: no node, or a node with none before it.
FollowsNull(t) ==
    \/ tid[t] = None
    \/ node[t] = "live" /\ Inserted(t) /\ head # t /\ prev[t] = None

\* destroy_list_node: no node; a node that list_popfront has freed, which may
\* still read as one that is in no list; a node in no list; a node in it.
DestroyListNode(t) ==
    \/ /\ FollowsNull(t)
       /\ fault' = "null_dereference"
       /\ UNCHANGED <<listVars, node, data>>
    \/ /\ tid[t] # None /\ node[t] = "freed"
       /\ fault' \in {"use_after_free", fault}
       /\ UNCHANGED <<listVars, node, data>>
    \/ /\ tid[t] # None /\ node[t] = "live" /\ ~Inserted(t)
       /\ FreeNode(t)
       /\ UNCHANGED <<listVars, fault>>
    \/ /\ tid[t] # None /\ node[t] = "live" /\ Inserted(t) /\ ~FollowsNull(t)
       /\ TakeOut(t) /\ FreeNode(t)
       /\ UNCHANGED fault

Unlink(t) ==
    /\ thr[t] = "unlinking"
    /\ DestroyListNode(t)
    /\ Goto(t, "drain")
    /\ list_lock' = None
    /\ UNCHANGED <<mainVars, fdVars, blk, tid, cancelled, early>>

\* Mutants of FreeBlock: the socket is closed once more; the block is kept.
FreeBlockClose(t) ==
    /\ thr[t] = "drain"
    /\ blk' = [blk EXCEPT ![t] = "freed"]
    /\ Close(t)
    /\ Goto(t, "exited")
    /\ UNCHANGED <<mainVars, fd, node, data, tid, cancelled, listVars, list_lock, fault, early>>
FreeBlockNot(t) ==
    /\ thr[t] = "drain"
    /\ Goto(t, "exited")
    /\ UNCHANGED <<mainVars, fdVars, heapVars, cancelled, listVars, list_lock, fault, early>>

FreeBlock(t) ==
    /\ thr[t] = "drain"
    /\ blk' = [blk EXCEPT ![t] = "freed"]
    /\ Goto(t, "exited")
    /\ UNCHANGED <<mainVars, fdVars, node, data, tid, cancelled, listVars, list_lock, fault, early>>

-----------------------------------------------------------------------------
Running == fault = "none" /\ mpc # "down"

MainStep ==
    /\ Running
    /\ \/ LoopHead \/ CreateNode \/ CreateBlock \/ StartThread \/ SetTid
       \/ PopRead \/ PopUnlink \/ CancelThread \/ JoinThread \/ Shutdown

ThreadStep(t) ==
    /\ Running
    /\ \/ LockList(t) \/ Enlist(t) \/ TurnAway(t) \/ CloseSocket(t) \/ Unlink(t)
       \/ FreeBlock(t) \/ (cancelled[t] /\ Leave(t))

Environment == Running /\ (Signal \/ Accept \/ \E t \in Threads : Leave(t))

\* The process is gone, or every connection of the instance has been served.
Stopped ==
    /\ \/ ~Running
       \/ mpc = "accept" /\ \A t \in Threads : fd[t] # 0 /\ thr[t] \in {"none", "exited"}
    /\ UNCHANGED vars

Next == MainStep \/ (\E t \in Threads : ThreadStep(t)) \/ Environment \/ Stopped

Spec == Init /\ [][Next]_vars

\* The scheduler runs the main thread and every thread that can run.
FairSpec == Spec /\ WF_vars(MainStep) /\ \A t \in Threads : WF_vars(ThreadStep(t))
-----------------------------------------------------------------------------
(* Properties.                                                             *)

MainPlaces == {"head", "accept", "node", "block", "start", "settid",
               "closing", "pop", "cancel", "join", "wait", "down"}
ThreadPlaces == {"none", "init", "enter", "serve", "refused", "cleanup", "unlink",
                 "unlinking", "drain", "exited"}

\* The variables have their types.
TypeOK ==
    /\ mpc \in MainPlaces /\ cur \in Threads \cup {None} /\ kill_server \in BOOLEAN
    /\ fd \in [Threads -> Fds \cup {0}] /\ open \in [Fds -> Threads \cup {None}]
    /\ {node, data, blk} \subseteq [Threads -> {"none", "live", "freed"}]
    /\ {tid, next, prev} \subseteq [Threads -> Threads \cup {None}]
    /\ thr \in [Threads -> ThreadPlaces] /\ cancelled \in [Threads -> BOOLEAN]
    /\ head \in Threads \cup {None} /\ tail \in Threads \cup {None}
    /\ list_len \in 0..Cardinality(Threads)
    /\ list_lock \in Threads \cup {None}
    /\ fault \in {"none", "null_dereference", "use_after_free"}
    /\ early \subseteq Threads /\ stolen \subseteq Threads

\* The node reached from the head in n steps.
Walk[n \in 0..Cardinality(Threads)] ==
    IF n = 0 THEN head
    ELSE IF Walk[n - 1] = None THEN None ELSE next[Walk[n - 1]]

Listed == [i \in 1..list_len |-> Walk[i - 1]]

InList(t) == \E i \in 1..list_len : Listed[i] = t

\* The links agree with each other and with list_len: list_len steps from the
\* head lead to the tail, past different nodes, and prev goes back (except
\* from the head, whose prev destroy_list_node does not clear).
ListShape ==
    /\ head = None <=> list_len = 0
    /\ tail = IF list_len = 0 THEN None ELSE Listed[list_len]
    /\ list_len > 0 => next[tail] = None
    /\ \A i \in 1..list_len : Listed[i] # None
    /\ \A i, j \in 1..list_len : i # j => Listed[i] # Listed[j]
    /\ \A i \in 2..list_len : prev[Listed[i]] = Listed[i - 1]

\* The abstract list: the nodes along next, and the threads past their test.
RosterOfList == INSTANCE Roster WITH
    roster <- Listed,
    decided <- {t \in Threads : thr[t] \notin {"none", "init", "enter"}}

\* The linked list of the code is the abstract one: a thread is admitted once
\* and at the end, it leaves from where it is, and no link breaks on the way.
ImplementsRoster == RosterOfList!Spec

\* Whatever is in the list is allocated, and so is the block it belongs to.
OnlyLiveListed ==
    \A t \in Threads : InList(t) => node[t] = "live" /\ data[t] = "live" /\ blk[t] = "live"

\* The shutdown has taken the thread from the list and waits for its end.
BeingJoined(t) == cur = t /\ mpc \in {"cancel", "join", "wait"}

\* A thread that serves is in the list, so that the shutdown finds it, or has
\* just been taken from there by the shutdown; only a thread that started
\* before its block was told its node is not.
EveryThreadListed ==
    \A t \in Threads : thr[t] = "serve" => InList(t) \/ BeingJoined(t) \/ t \in early

\* While a thread serves, the descriptor in its block is its connection,
\* unless a thread that was turned away has closed it the second time it
\* closed its own, or one that had lost its own in this way.
SocketIsOwn ==
    \A t \in Threads : thr[t] = "serve" => open[fd[t]] = t \/ t \in stolen

\* No pointer is followed that is NULL or freed, unless a thread was past its
\* start before its block was told its node, pthread_create failed, or the
\* shutdown was under way, which pops the list without its lock.
NoFault == fault # "none" => early # {} \/ mpc = "start" \/ kill_server

\* A thread that ends closes its connection, frees its list node and its
\* block, and is not listed, unless the process ends before.
Reaped ==
    \A t \in Threads :
        thr[t] \in {"refused", "cleanup"} ~>
            \/ /\ \A f \in Fds : open[f] # t
               /\ blk[t] = "freed" /\ node[t] = "freed" /\ ~InList(t)
            \/ ~Running
=============================================================================
