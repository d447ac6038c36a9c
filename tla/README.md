# Verification of ConcurrentServer

TLA+ models of the iCOM chat server in this repository, TLC runs on small
instances of them, and proofs for TLAPS. The server is a C program: one main
thread that accepts connections, and one thread for each connection. The threads
share an address table, a list of threads, each other's message queues and a
MySQL database. What is hard in it is what the threads do to each other, and that
is what the models keep: every branch, every early return and every point
where another thread, a pending cancellation or a failing call can come between
two steps. The text of packets is abstracted to the fields the code branches on.

## 1. The system

| Part | Source | State | Operations |
|---|---|---|---|
| Accept loop | `server.c` | `kill_server`, the listening socket | accept, allocate a list node and a block, start a thread, `set_thread_node_tid`, and after SIGINT pop, cancel and join each thread |
| Thread block | `data_structs/thread_info_block.*` | `userid`, `user_auth`, socket, `tid`, message queue, connection to the database | `create_thread_node`, `destroy_thread_node` |
| List of threads | `libs/generic_linked_list.*` | `head`, `tail`, `next`, `prev`, `list_len`, `gen_list_lock` | `append_list_node`, `destroy_list_node`, `list_popfront` |
| Connection handler | `connect_handler.c`, `data_structs/packets.*` | where the thread is, the packet in hand, pending cancellation | `init_connection_handler`, `connection_handler` (the loop), `interpret_packets` (one branch per packet type), `destroy_handlers_block` (cleanup) |
| Message queue | `libs/queue.*` | packets, `queue_lock` | `enqueue`, `dequeue`, `destroy_queue` |
| Address table | `data_structs/addr_table.*` | the sorted array of pairs of a userid and a block, its length, `addrTable_mutex`, `number_of_users` | `getAddrFromaddrTable`, `insertInAddrTable`, `removeFromAddrTable` |
| Stored messages | the `messages` table, used by `connect_handler.c` | rows that are not received | INSERT (MSG), SELECT and UPDATE (GET_MSG) |
| User directory | the `users` table, used by `connect_handler.c` | accounts, revision number | REG, AUTH (reads), GET_ALL_USERS |
| Server process | `main.c`, `server.c` | the database's schema and tables, the port, the signal handler | log file, connection, `CREATE DATABASE` and `CREATE TABLE`, `sigaction`, `bind`, the accept loop, exit |
| Error log | `error_logs/errno_logs.*` | the log file, the standard error | `SERVER_MSG`; `log_errors`, which with DO_EXIT ends the calling thread or the program |
| Control panel | `gui/main.py` | the last process, the switch, the uptime clock, the configuration | start, stop with SIGINT, notice of an exit, closing the window |

How they interact:

* The main thread creates a block and gives it to a thread. From then on the
  block belongs to the thread, which frees it at its end. The two share the list
  node (`tid`): the main thread sets it after the thread has started.
* A thread that interprets a MSG, GET_GEO or GEO for somebody else looks the
  userid up in the address table, gets a pointer to the block of another thread,
  releases the table's lock, then locks the queue in that block and appends.
* A thread ends by cancelling itself (`pthread_cancel(pthread_self())` under
  deferred cancellation). It goes on until a cancellation point or the end of
  its turn, then runs its cleanup: out of the address table, close the socket, out
  of the list, destroy the queue, free the block.
* A message for a user who is not online is a row. GET_MSG selects the rows,
  sends them, and marks all that are unread as received.

What makes it correct, and where that is hard:

| Part | It is correct if | Hard because |
|---|---|---|
| Connection handler | a packet reaches its receiver only, at most once, in order; nothing is done for a client that has not logged in; a thread that is told to exit does | the block of the receiver is used without a lock that keeps it; a cancelled thread runs on |
| Message queue, packets | a packet has one owner, who frees it once | ownership passes between threads with `enqueue`; some branches free, some do not |
| Stored messages | a row stays until it is sent, and is sent once | SELECT and UPDATE are two statements |
| Address table | it is sorted, a search finds what is registered, one entry's insertion or removal does not disturb another | authenticator works on it without the lock; the search probes one cell past the end |
| List of threads | it is the serving threads in the order they started; a node and its block are freed once | the thread beyond the limit runs the same cleanup without having been inserted; the shutdown works on the list without the lock |
| User directory | an acknowledged account stays; a client that keeps asking learns every user, in order, each once | each request is several queries, others register in between, and the process may die between any two |
| Server process | it listens with its tables made, and stops when it is told | the set-up is a series of calls that a signal, a failure or a second process may cut |
| Control panel | its switch shows the server it holds; a server that ends is shown as ended | a stop only sends a signal; the process ends later, perhaps after the next was started |
| Accept loop | everything allocated for a connection is released when a later step fails; a descriptor is closed once | each failure has its own path; descriptors are reused at once |

The hazards that follow from this are listed at their lines in `PROJECT.json`.

## 2. The modules

| Module | Stands for |
|---|---|
| `ConnectionHandler` | the threads, their queues, the address table as a set of pairs, the stored messages, the clients |
| `AddrTable` | the address table, access by access, and its mutex |
| `Directory` | what the address table promises: a set of pairs, changed atomically |
| `ThreadList` | the accept loop, the life of threads, blocks, nodes and descriptors, the linked list, the shutdown |
| `Roster` | what the list promises: the sequence of the threads that are served |
| `MessageService` | what the threads together promise the clients: what may become of a message |
| `Mailboxes` | where `ConnectionHandler` keeps the things `MessageService` speaks of (the refinement mapping) |
| `UserDirectory` | the users table and REG, AUTH and GET_ALL_USERS on it, query by query, with crashes and restarts |
| `ServerProcess` | the server as a process, from the command line to the exit: log, database, tables, signal, port, accept loop |
| `ControlPanel` | the panel that starts, stops and watches such processes |
| `MCConnectionHandler`, `MCAddrTable`, `MCThreadList`, `MCUserDirectory` | the instances for TLC (`ControlPanel` needs none: its constants are a number and a switch) |
| `ConnectionHandlerProofs`, `ConnectionLoginProofs`, `ConnectionPacketsProofs`, `ConnectionMessagesProofs`, `AddrTableProofs`, `ThreadListProofs`, `UserDirectoryProofs`, `ControlPanelProofs` | theorems |

The models meet in these places. `ConnectionHandler` uses the address table as a
set of pairs. `AddrTable` shows when the code is such a set
(`ImplementsDirectory`), and when not (run TableRace). `ThreadList` has the
threads serve and leave without saying what they do, which is `ConnectionHandler`;
there a thread starts with `Accept` and ends with `DestroyBlock`.
`ConnectionHandler` takes the accounts as given; `UserDirectory` is where they come
from, and has a login as one step where `ConnectionHandler` has two.
`ServerProcess` has the accept loop and the shutdown as one step each, which
are `ThreadList`, and `ControlPanel` extends it: the panel is composed with the
processes it starts.

### ConnectionHandler

A thread is at a place (`pc`) between two accesses to what is shared:

    start -> recv -> interp -> ... -> queue -> deq -> interp -> ... -> end -> recv
                                                                 cleanup -> drain -> freed

* `recv`, `queue`, `deq`, `end` are the places in `connection_handler`: read
  the socket, lock and read the queue, unlock it (the debug build prints here),
  destroy the packet and test for exit. `RecvPacket` reads one to `MaxBurst`
  packets and keeps the first, as `string_to_packet` and the clearing of the
  buffer do.
* `interp` is the call of `interpret_packets`. One action per branch:
  `AuthFind` then `LogIn` (`login`), `RefuseUnauthenticated`, `Logout` (LOGOUT
  and CLOSE), `PassOn`, `FindReceiver` then `Deliver` (`route`) or
  `InsertMessage` (`insert`), `SelectMessages` then `MarkReceived` (`update`),
  `OwnLocation`, `AskLocation`, `AnswerLocation`, `IgnoreLocation`, `DestroyOnly`,
  `Ignore`. `send` is a packet about to be written to this client, `trace` the
  debug print after a GET_GEO was handed over.
* `cancel` is the pending cancellation. `AtCancellationPoint` says at which
  places the thread then goes to its cleanup: a send, a query, in the debug build
  also a print to stderr. At the others it goes on.
* `Cleanup` is `destroy_handlers_block` up to the queue, `DestroyBlock` (`drain`)
  is `destroy_queue`, which waits for the queue's lock, and the freeing.
* A packet keeps the fields the code looks at, and `conn` and `seq`, which say
  which packet of which client the text came from: the properties follow a packet
  by them.
* `block` says whose block the memory of each block now is. `Accept` may be given the
  memory of a block that was freed; a thread that still has a pointer to the old block then
  has one to the new. `Deliver` follows the pointer, as the code does: it appends to the
  receiver's queue, or to freed memory, or to the queue of a stranger. `strays` is history: the packets
  of the third kind.
* `fault` is the first undefined behaviour or SIGPIPE, and ends the run: a packet used
  after it was freed or freed twice, a freed block (`dead_block`), a packet printed after its
  hand-over (`late_print`), a NULL pointer. Where the build may also survive it, the step has
  both outcomes. `NoMemory` is `malloc` returning NULL to `string_to_packet` or `enqueue`,
  which nobody looks at; the third such place, the answer to a GET_GEO, is looked at and
  the answer dropped (`AnswerLocation`). `SelectFails` is the NULL result of a failed SELECT.

Constants switch the environment: `AuthFirst` (each client sends one AUTH, first),
`Debug` (built with SERVER_DEBUG, as the Makefile does), `DbMayFail`, `MemMayFail`,
`SendMayFail` (a full socket buffer), `MayDisconnect` (a client goes away without
LOGOUT, which the loop does not notice: `recv` returning 0 is "nothing to read").
The bounds are `MaxSends` and `MaxBurst`, and the requests each client may make.

Abstracted: the texts, the stored locations, the order of rows with equal times
(any order), partial sends. The address table is atomic here, and a userid has a set
of entries, since two logins to one account may both pass; a look-up or removal
takes one of them. A failing SELECT has two outcomes: the
NULL result is followed, or the client library returns no rows for it and the code goes on to the UPDATE.

### MessageService and Mailboxes

`MessageService` has no threads: a message is in a `hand` (came in, not yet
placed), in the `box` of a connection, `stored`, or `shown`. `Post` puts it at the end of a
box of its receiver, `Keep` stores it, `Echo` is a message to oneself; `Show` takes
the head of a box and shows it, or loses it (a dropped send); `Fetch` shows stored
messages of one receiver, `Forget` then forgets all that are stored for that receiver, also those
that came after the `Fetch`. Messages are lost in `Drop`, `Close`, `Show` and `Forget` and
nowhere else.

`Mailboxes` maps: a box is the packet that its thread has dequeued and not yet
sent, followed by the messages in its queue; `shown` is the messages in `out`; `hand` is
what threads have read from their sockets; a connection is `reading` between SELECT and
UPDATE. `ServiceSpec` says that every step of the threads is a step or a
stutter of `MessageService`.

### AddrTable

Every read or write of the array or its length is a step. `ReadBounds`, `Probe`,
`SearchEnds` are `binary_search`; the length is taken for the last index, so the
cell after the last entry is probed. `ReadLast`, `MoveUp`, `Place`, `ReadLength`, `WriteLength` are
`insertInAddrTable`, `RemoveFound`, `MoveDown`, `Shrink` are
`removeFromAddrTable`. Look-ups and removals start with `Lock`. A login does not,
and where `authenticator` means to lock, the code unlocks, so that a login also
sets `mutex` free (`Open`).

Nothing keeps logins apart, and nothing keeps the array from filling up; both are part of
the model. An access outside the array is undefined behaviour: `LeavesArray` says when one is next, and
the model does not follow that thread any further (`Strays`). Two history variables remember what the properties
depend on: `overlapped`, that a login and another operation were under way at once, and `opened`,
that a thread unlocked the mutex another one held. What the table promises it promises until
`overlapped`, and `Directory`, the abstract table, has the same variable and is free after it. What happens then is TableRace.

### ThreadList

The main thread is at `mpc`: `LoopHead`, `Accept`, `CreateNode`, `CreateBlock`,
`StartThread`, `SetTid`, and after SIGINT `PopRead`, `PopUnlink` (together
`list_popfront`), `CancelThread`, `JoinThread`, `Shutdown`. A thread is at `thr`:
`LockList`, then `Enlist` or `TurnAway` (the test is `list_len > MAX_CONN`),
`Leave`, `CloseSocket`, `LockList` again, `Unlink` (`destroy_list_node` with its case
distinction on NULL links), `FreeBlock`. A thread that is turned away is at `refused`: it has closed its
descriptor and goes through the whole cleanup, which closes it again. The lowest free descriptor is given to an
accepted connection, as the kernel does, so that a descriptor closed twice closes
somebody else's. When the list node cannot be made, or `malloc` fails in
`create_thread_node`, the descriptor stays open and nobody has it: `log_errors` runs
`error_close_fd` under DO_EXIT only. `MayFail`, `StartMayFail`, `MayKill` switch the failures and SIGINT; the
race on `tid` (`SetTid` against the new thread) is always there.

`early` and `stolen` are history: the threads that were past their test before their block was told
its node (`Roster` has them among those turned away, since they are in no list), and the connections whose descriptor was
closed by a thread that had been turned away, or by one that had lost its own.

### UserDirectory

A request is one packet (`pk`), the credentials in its DATA are a record or
`NoAccount`. REG is `RegSelect` (the test "whether user is unique"), then
`Allocate` and `Commit`: MySQL gives the row its userid when the INSERT begins and shows the
row when it ends, so that rows may appear out of the order of their userids, and an INSERT that is
undone leaves a gap. `undone` is history: the userids of such INSERTs.
AUTH is `Authenticate`. GET_ALL_USERS is `CountUsers` (`set_revision_num` and the
comparison with the number the client sent) and `FetchUser` (the row with the next
userid); a NULL row is a `fault`. `QueryFails` is any query of these that
fails: `log_errors` with DO_EXIT destroys the block of a thread that goes on to use it,
or a NULL result is used. The process is taken to die of this; `Restart` starts it
again on the table, with the INSERTs that were under way done or undone.

`known` is what a client has been sent. A client asks with the number of users it knows,
as the comment at `thread_info_block.h:65` says. `account`, `asked` and
`promised` are history.

### ServerProcess and ControlPanel

A process is at a `place` in `main`:

    logs -> mysql -> check (-> create_db -> create_users -> create_messages)
         -> sigaction -> bind -> head <-> accept -> shutdown -> zombie -> reaped

`Say` is SERVER_MSG: the standard error is a pipe to the panel, and the process ends if
nobody reads it any more (SIGPIPE). `Fatal` is `log_errors` with DO_EXIT and no
thread. `Interrupt` is SIGINT: it ends a process that has not called `sigaction`,
sets `kill_server` otherwise, and makes `accept` return if the main thread is in it and
gets the signal. The place `accept` begins behind the test of the flag. `port` and
`lingering` (TIME_WAIT, without SO_REUSEADDR) decide whether `bind` works; the
schema and the tables outlive the process.

The panel has one thread, and its callbacks are its actions: `SaveNetwork`,
`SaveDatabase`, `ClickStart`, `ClickStartFails` and `ClickStop` (the two sides of
`StartToolButton.run`), `ExitNotice` (`watch_child_process`, which acts on what the
panel holds by then), `CloseWindow`, `PanelExits`. `told` and `hasty` are history: the
processes that were sent SIGINT, and those started before the notice of an
earlier one's end had come. The panel may be composed with up to `N` processes.

## 3. The runs

| Run | Instance | Distinct states | Shows |
|---|---|---|---|
| Shared | 3 connections, 2 accounts, two of the connections on one account; 2 packets each, which may arrive together; debug build; queries and allocations fail, clients vanish | 1.9 million | `MailForOwner`, `OnePlace`, `NoMemoryFault` |
| Chat | 2 users, 3 packets each, release build, sends may be dropped, fair | 324 thousand | `TableLive`, `OnlineIsRegistered`, `AtMostOnce`, `ExitEnds`, `ServiceSpec` |
| Intruder | a user, and a client that may send anything at any time, also in the user's name, 3 packets each; debug build; queries fail | 2.9 million | `TypeOK`, `EffectsNeedLogin` |
| Stay | 2 users who do not leave, 3 packets each, release build, fair | 36 thousand | `InOrder`, `QueuedIsSent`, `LocationAnswered` |
| Table | 4 threads, 4 users, an array of 5, up to the first login that overlaps another operation | 1.5 million | `TypeOK`, `MutualExclusion`, `SortedTable`, `FindsRegistered`, `EntryKept`, `InBounds`, `ImplementsDirectory` |
| Roster | 3 connections, MAX_CONN 2 (room for all), every failure, the race on `tid`, the shutdown | 285 thousand | `ListShape`, `OnlyLiveListed`, `EveryThreadListed`, `ImplementsRoster` |
| Breakdown | 3 connections, MAX_CONN 0 (so the second and third may be turned away), allocations and thread starts fail, the race on `tid`, fair | 233 thousand | `TypeOK`, `SocketIsOwn`, `NoFault`, `Reaped` |
| Users | 2 clients, one name, two passwords, 3 requests each, queries fail, sends may be dropped, restarts, INSERTs that overtake each other or are undone | 3.6 million | `TypeOK`, `AcknowledgedIsStored`, `FetchFindsRow`, `KnowsAPrefix`, `DuplicatesBounded`, `FinMeansUpToDate` |
| Lifecycle | 3 processes, everything may fail, fair | 138 thousand | `TypeOK`, `OnIsOwn`, `UnseenOnlyIfHasty`, `TablesMissingOnlyIfCut`, `StopIsHeard`, `EndIsShown` |
| StaleReceiver, LogoutHangs | 2 users, 2 packets each | | violated, see section 4 |
| TableRace | 2 threads, 2 users, overlapping logins | | violated, see section 4 |

Why the bounds are enough for the cases they are for:

* Everything between connections is between a sender, a receiver and at most a
  second thread on the receiver's account; Shared has these three. The third is also the
  connection that gets the memory of a receiver who has left while the first still points to it.
  Two packets are a login and one act: a message, a location request or a logout, in every
  interleaving of the three threads. Three packets (the other runs) let two
  messages wait in one queue, a message be stored before and after a GET_MSG, and a
  user fetch and then leave.
* A table of three users has a first, a middle and a last entry, and the cell
  after them. Four threads let a removal, a look-up and a login wait for each
  other while one is in the table. Four users in an array of five is where a removal leaves the
  array, which looks two cells past the last entry; a look-up and an insertion do so with one user more. Table is followed
  to the first overlap of a login, where all its properties but `MutualExclusion` stop to
  promise anything (the `CONSTRAINT` of its configuration). `MutualExclusion` can only say something more
  after it: instances of 3 threads, 3 users and an array of 4, and of 3, 2 and 3, were followed until
  `opened` and hold too.
* A list of three (Roster) has a first, a middle and a last node, with the shutdown popping while threads
  take themselves out. In Breakdown one or two of three connections are turned away, so that a descriptor closed twice has
  a third connection to belong to. Symmetry under permutations of the connections
  is used where no liveness is checked; the connections are interchangeable there. Breakdown has no SIGINT, which would
  let the process end at any time; `Reaped` holds with it, too.
* Two clients of the users table register the same account at the same time, or
  one registers while the other is between counting and fetching, or has the userid before that of the other and
  commits after it. Three requests each are
  a registration, a login and a fetch, or two registrations and a login; two accounts with one
  name are what a search for the name alone would confuse.
* Three processes are one that is ending, one that was started before the notice of
  its end, and one that is started when that notice has turned the switch off.

CHECK_DEADLOCK is FALSE in Lifecycle, where the panel and its processes may all have
ended, and in Shared, Intruder and LogoutHangs: in the debug
build a thread may stop for ever inside a queue's lock, and when everybody waits for
it the system really stops.

Fairness is `WF_vars(Step(t))` for every thread in `ConnectionHandler`, and
`WF_vars(MainStep)` and `WF_vars(ThreadStep(t))` in `ThreadList`. It says that the scheduler
runs a thread that can run. A thread's turn never waits for the network: its
socket does not block, and the loop polls with a short sleep. Nothing is
assumed of the clients, the accept of a new connection, or SIGINT. Weak fairness
is enough where threads take a lock: a queue's lock is held over a few steps of
its owner that always end, and a thread takes the list's lock twice in its life, so
the others run out of turns to take it.

`ControlPanel` assumes that a process that can go on by itself does (`Progress`: the
set-up and the head of the loop), and that the panel's main loop delivers the notice of an
exit. Nothing is assumed of clicks, of clients that connect, or of the shutdown, which
joins threads that may hang. `StopIsHeard` therefore promises that the process reaches its
shutdown, and excepts the process that waits in `accept` for ever.

`ServiceSpec` is checked without failures of the database (Chat): there a failing
UPDATE shows messages again later, which `MessageService` does not allow.

`ExitEnds` and the rest of Chat and Stay are for the release build. In the debug
build they do not hold, see LogoutHangs.

## 4. Where code and repository disagree

Three runs show TLC violating what the repository says. `PROJECT.json` quotes the
lines.

* **StaleReceiver**: `connect_handler.c:366` uses the receiver's block "if receiver
  is online", after the table's lock was released; the receiver may have left and freed it.
* **LogoutHangs**: in the debug build a thread with a pending cancellation ends at
  the print inside its queue's lock (`connect_handler.c:665`), and its own cleanup
  waits for that lock for ever. Debug is the Makefile's default.
* **TableRace**: `connect_handler.c:162` unlocks where it means to lock; two
  logins at once lose an entry of the table.

The models have more behaviours that disagree with a comment or an expectation. No run
repeats them; each is reached in the instance named here, and bounds what the passing
runs may ask:

| Behaviour | Where | Instance that reaches it |
|---|---|---|
| A refused login has already taken the userid of the account, so its cleanup removes the entry of the client who is logged in | `connect_handler.c:150`, `:607` | `OnlineIsRegistered` with two clients on one account |
| Two overlapping logins to one account both pass | `connect_handler.c:152` | the same |
| An AUTH on a connection that is logged in changes its userid before it is refused | `connect_handler.c:150` | `AuthFirst = FALSE` |
| GET_MSG before AUTH destroys its packet twice | `connect_handler.c:465` | Intruder: `fault = "double_free"` |
| Packets that one recv returns together are discarded but for the first | `connect_handler.c:641` | Shared (`MaxBurst = 2`) |
| Mail in the queue of a thread that ends is destroyed, neither sent nor stored | `libs/queue.c:85` | Chat, Shared |
| The print after a GET_GEO was handed over reads a packet that may be freed | `connect_handler.c:559` | Stay with `Debug = TRUE`: `NoMemoryFault` |
| `number_of_users` is never decremented | `connect_handler.c:163` | Chat |
| Mail is appended to the queue of a stranger whose block has the memory of the receiver's, who left after the look-up | `connect_handler.c:366`, `thread_info_block.c:31` | Shared: `MailForOwner` without `strays` |
| A packet without memory for it (`string_to_packet`, `enqueue`) is a NULL pointer that is followed | `connect_handler.c:644`, `libs/queue.c:45` | Shared: `fault = "null_dereference"` |
| The array of the address table is left when it is full, by a removal already when one cell is free | `addr_table.c:33`, `:50`, `:77` | Table: `InBounds` without its bounds |
| A thread that starts before `set_thread_node_tid` is never put in the list, and its cleanup follows a NULL node | `server.c:299` | Roster, Breakdown: `EveryThreadListed`, `NoFault` without `early` |
| A thread that is turned away closes its descriptor twice | `connect_handler.c:34`, `thread_info_block.c:128` | Breakdown: `SocketIsOwn` without `stolen` |
| Without memory for a list node or a block the descriptor is never closed, although `error_close_fd` is passed to `log_errors` | `server.c:266`, `:302`, `thread_info_block.c:32` | Roster, Breakdown: `CreateNode`, `CreateBlock` |
| When `pthread_create` fails, a NULL list node is followed | `server.c:297` | Breakdown: `fault = "null_dereference"` |
| The shutdown frees a list node that the cancelled thread frees again | `server.c:324` | Roster: `fault = "use_after_free"` |
| The shutdown pops the list without the list's lock | `server.c:324` | Roster |
| SIGINT between the test of the flag and `accept` is noticed at the next connection | `server.c:241` | Roster; Lifecycle: `StopIsHeard` without its second part |
| A message stored between SELECT and UPDATE of GET_MSG is marked as received and never sent | `connect_handler.c:449` | Chat: `Forget` with only the messages of its `Fetch` |
| Two registrations at once both pass the test "whether user is unique": the account exists twice, under two userids | `connect_handler.c:71` | Users: at most one row in `DuplicatesBounded` |
| With a gap in the userids, or a row that is committed late, GET_ALL_USERS reads the columns of a NULL row, with a gap at every request of every client that knows the users before it | `connect_handler.c:328` | Users: `FetchFindsRow` without its second part |
| A query of REG or AUTH that fails destroys the block and goes on to use it | `connect_handler.c:71`, `errno_logs.c:153` | Users: `fault = "use_after_free"` |
| A set-up cut short leaves the schema without its tables, and no later start makes them | `server.c:128` | Lifecycle: `TablesMissingOnlyIfCut` without `cut` |
| SIGINT before `sigaction` ends the server without its shutdown | `server.c:188` | Lifecycle: `Interrupt` at an `Unready` place |
| The notice of an earlier exit turns off the switch of the server started since, whose clock it stops; that server then runs unseen, and the button starts another | `gui/main.py:294` | Lifecycle: `UnseenOnlyIfHasty` without `hasty` |
| Closing the window sends SIGINT to a pid that may have been reaped | `gui/main.py:207` | Lifecycle: `Interrupt` of a reaped process |
| A server still running when the window has closed ends by SIGPIPE at its next message, without its shutdown | `errno_logs.c:55` | Lifecycle: `Say` without `stderr` |

## 5. What is proved

The theorems hold for every value of the constants that the hypotheses named here
allow. Where the code breaks a promise by one of its own steps, the property says so and the theorem covers the
broken runs: the history variables `strays`, `overlapped`, `opened`, `early`, `stolen` and `undone` remember that the step was
taken, and the property says what is promised until then, or to whom. The hypotheses that are left are about the clients and the build;
the table at the end of this section says which behaviour each one leaves out.

`AddrTableProofs`, for any number of threads and users and an array of any size, without a hypothesis:

* **MutualExclusionAlways**. The mutex alone does not imply it, since a login
  holds none and even releases it. The invariant `MutexInv` says that a look-up or removal past its
  lock holds the mutex until somebody opens it in front of its owner. So of two operations that are inside
  together one is a login, whatever logins do; and when a login opens the mutex that another one
  holds, that is gone as well, and the property says no more.
* **TypesAlways**, **SortedTableAlways**, **FindsRegisteredAlways**, **InBoundsAlways**,
  **EntryKeptAlways**: until a login overlaps another operation (`overlapped`), and for
  any number of users, also more than the array has cells. `LockInv` says that one operation at most is inside until then.
  `TableInv` says what the array looks like at each place of the thread that is
  inside: in rest compact and ascending with nothing behind its length, during
  a shift with one cell doubled, up to the index the shift has reached. The bisection keeps a
  claim about the two parts it has ruled out, so that it is right for an array of any
  length although its upper bound is one too large; this is an invariant of the steps,
  not an induction over the data. A thread whose next access is outside the array takes no step, and
  `InBounds` says at which length that can be.
* **DirectoryImplemented**: `Spec => ImplementsDirectory`. The set of
  pairs in the array changes in one step of an insertion (`Place`) and in one of a removal,
  whatever the shifting copies in between, since a doubled cell adds no pair.

`ConnectionHandlerProofs`, for any connections, accounts, requests and bounds, every
build and every failure:

* **TypeCorrect**: `Spec => []TypeOK`. `TypeOK` allows NULL for the packet in hand, so
  it is not inductive; `HandsFull` adds that at each place the thread has the
  packet, block and userid that the place uses. The step lemmas follow the
  actions, one each.
* **MailForOwnerAlways**, if `AuthFirst`. This is about the window
  in StaleReceiver: the receiver's block is used after the lock of the table is
  released. When the receiver has left and its memory is another connection's block, the packet
  goes to that one, and is a stray. The theorem says that there is no other way for mail to
  reach a wrong queue. `MailInv` says why: the
  block looked up has the userid that the packet is for (`RouteRight`), and what
  is queued is for the owner or a stray (`QueueRight`), since an entry of the table names a block
  with its userid (`TableRight`) and a block that has a userid does not get another
  one (`AuthOnce`). The last part is where `AuthFirst` is needed: a second AUTH changes
  the userid of a block that others may be about to use. Actions that touch
  none of this share the lemma `QuietMail`.

`ConnectionLoginProofs`:

* **TableLiveAlways** and **OnlineAlways**, if `AuthFirst` and `OwnAccounts` (no two clients
  give credentials of one account): whoever is logged in is in the table and
  what is in the table is not freed. The cleanup removes *an* entry with the thread's
  userid, without asking whose it is. With one client to an account it can only be the
  thread's own, and a block is freed only after it is out (`TableInv`).
* **EffectsNeedLoginAlways**, until mail goes astray, for clients that send anything in any order, if no send fails and no client goes away
  without a word (`~SendMayFail`, `~MayDisconnect`): who has a packet in a queue or in the database has been
  sent an ACK. A refused thread goes on for a while, and `NOT_YET_AUTHENTICATED_EXIT` lets a thread pass that is to exit.
  `Outside` lists the places where the thread of a client without ACK can be, and none puts a packet anywhere: after a refusal
  it takes nothing more from its socket, and its queue is empty, since it was never in the table (`ReachAcked`).

`ConnectionPacketsProofs`:

* **OnePlaceAlways**, if `AuthFirst`, whatever fails, until mail goes astray: a packet is in one queue, once,
  or stored, or freed. The invariant `PacketInv` follows the name of a packet
  (`conn`, `seq`) from the socket through a hand to a queue and to the hand of the receiving thread. Only one of these
  has it at a time, and no packet that is used up has it, except that the answer to a GET_GEO has the name
  of the request. A packet that came from a queue is for the user of the thread that took it (`FromQueue`, from
  `MailInv`), and so goes into no queue or row again. A stray is not for the user of the thread that takes it, which
  may put it in a queue again and then destroys it, so that nothing is promised from then on.
* **NoMemoryFaultAlways**, if `AuthFirst`, until mail goes astray, in every build, whatever fails and with clients that leave while others
  write to them: no packet is used after it is freed, and none is freed twice. `interpret_packets` frees a packet in some of its branches, the loop frees
  what came from the queue, and the cleanup frees what is left there. `PacketInv` says that what is in a hand or
  a queue is not freed; `SpentInv` says so of a packet from its use to the end of the turn, and that no other
  thread is to free it. The branches that free a packet have one from the socket, which the loop does not free: by
  `FromQueue` the types that come through a queue are other types, and `RequestInv` says that whoever marks rows was asked to by its own client.
  A GET_MSG before AUTH is freed twice; `StrangersInv` says that with `AuthFirst` none is met.
  Three steps of the code touch other freed memory and have faults of their own: the enqueue to a block that
  was looked up and then freed, the return from `log_errors` to `authenticator`
  with the block destroyed, and the print of a packet that was handed over.

`ConnectionMessagesProofs`:

* **AtMostOnceAlways**, if `AuthFirst`, `OwnAccounts` and `~DbMayFail`, until mail goes astray: no client is shown a message twice.
  `MessageInv` follows a message from the socket (`seq` says which it is) through a hand, a queue, or the
  stored rows to the client, and says that it is in one of them at a time. A row is
  both stored and shown only between the SELECT and the UPDATE, and only the one thread of its
  receiver can be there (`RequestInv`, `OnlyMine`).
* **InOrderAlways**, if `AuthFirst` and `NoFetch`, until mail goes astray, whatever fails, whoever leaves, and with several connections on
  one account: the messages of one client to another arrive in the order of their sending. Two threads and two
  sockets are between them. `OrderInv` puts what the receiver has been sent, the message its thread took from its queue, the
  queue, and the message in the hand of the sender's thread in one line, and says that the numbers increase along it. The step
  that needs an argument is the write to the receiver's own client of a packet that came from its own socket: it overtakes the
  queue. It is then a message of a client to itself, and such a message is never in that queue (`RouteInv`, `MailInv`).

`ThreadListProofs`, for any number of threads, whatever fails, with the race on `tid` and the shutdown, without a hypothesis:

* **TypesAlways**, **ListShapeAlways**, **OnlyLiveListedAlways**: with failures, nodes that
  were never inserted, and the shutdown that pops without the lock. The invariant `LifeInv`
  has two halves. `ListInv` says that there is a sequence of threads whose links are
  the `head`, `tail`, `next`, `prev` and `list_len` of the memory; that its members are past
  `Enlist` and before `Unlink`, with nodes that are not freed; and that nodes outside have no links. `Life` says where a
  thread may be with its node, its block and its id freed or not. The lemma `WalkGivesList` connects that
  sequence with the walk along `next` by which the model reads the list: the walk is a recursive function, and if it left the
  sequence there would be a first place where it does.
* **RosterImplemented**: `Spec => ImplementsRoster`. Each step changes
  the sequence as `Roster` allows: one more at the end, one out of the middle, or the first popped.
* **EveryThreadListedAlways**: a thread that serves is in the list, or just taken from it by the shutdown that will join it, or in `early`.
* **NoFaultAlways**: a NULL or freed pointer is followed only where a thread was `early`, `pthread_create` failed, or the
  shutdown is under way. `Life` has for each place what the thread may rely on, and for a thread that is not `early` this includes its node.
* **SocketIsOwnAlways**: the descriptor of a serving thread is its own connection or was `stolen`,
  though descriptors are given again at once, and some are leaked. `FdInv` says so of every
  block from its allocation until `destroy_thread_node`, and of the connection in the hand of the main thread. A thread that closes
  a descriptor that is not its connection is one that was turned away and closes for the second time, or one that was robbed before.

`UserDirectoryProofs`, for any clients, names, passwords and bounds, every failure and any
number of restarts:

* **AcknowledgedAlways**, **KnowsAPrefixAlways**, **LoginIsOwnAlways**, **TypeCorrect**:
  the table only grows, a userid is given once (`IdInv`: rows and INSERTs under way have
  different userids, all below `auto_increment`), and a block that is logged in has
  the userid of a row with its client's credentials.
* **FetchFindsRowAlways**: every userid below `auto_increment` is that of a row, of an INSERT under
  way, or of one that was undone (`GapInv`). There are fewer rows than userids given out, since rows have
  userids of their own (`RowsBounded`), so that a thread that counted more rows than its client knows users asks for a userid that
  was given (`AsksForGiven`), and if it has no row yet, or never will, that is why.
* **FinMeansUpToDateAlways**: a client is told FIN when the rows are no more than the
  users it knows. These are rows, each different, so they are all rows; and
  what was in the table when it asked still is.
* **DuplicatesBoundedAlways**: rows and INSERTs under way of one account are together no more
  than the connections (`CopiesInv`). The test is passed only while there is no row, so that there are then at most as many INSERTs as
  connections; an INSERT that ends turns into a row, and no further test is passed.

`ControlPanelProofs`, for any number of processes:

* **TablesMissingAlways**: `SetUpInv` says that a process past the check found a
  schema or made one, and that a schema with a table missing has somebody who was to
  make it, now or before it was cut.
* **OnIsOwnAlways**, **UnseenOnlyIfHastyAlways**, **TypeCorrect**: `PanelInv` says that what the
  panel holds, watches or has told has been started, and that the process held was
  started hastily if the panel watches another one besides. The notice of another process is then the
  only way to lose sight of the one held, and it leaves a process that is in `hasty`; a notice of its
  own, or a click, leaves one that has ended or has been told.

The constants are constrained by `ConnectionAssumption`, `TableAssumption`, `ListAssumption`,
`DirectoryAssumption` and `ProcessAssumption` only: finitely many connections, positive
userids, NULL is not a thread or a packet, bounds are naturals, the switches are Booleans.
The other hypotheses leave out these behaviours of the code:

| Hypothesis | Leaves out |
|---|---|
| `AuthFirst` | a second AUTH on a connection changes the userid of a block that others are about to use (`connect_handler.c:150`) |
| `OwnAccounts` | a login that is refused, or overlaps another to its account, has the userid and removes the other's entry at its cleanup (`connect_handler.c:150`, `:607`) |
| `~SendMayFail`, `~MayDisconnect` | an ACK that is dropped: the client is logged in and was not told |
| `~DbMayFail` | an UPDATE that fails leaves messages unread that were sent, and the next GET_MSG sends them again (`connect_handler.c:449`) |
| `NoFetch`: no GET_MSG | the rows of a SELECT sorted by a time in seconds, sent after what was queued (`connect_handler.c:400`) |

Only model-checked, on the instances of section 3:

* liveness under fairness, which with ENABLED is outside what the prover supports;
* `ServiceSpec`, that the threads implement `MessageService`: its mapping selects the messages of a queue
  (`SelectSeq`), a recursive definition, and what a selection of an appended or shortened
  queue is would be an induction over its length.

Every other property of the runs that hold is stated by a theorem.

## 6. What is not modelled

| Part | Why |
|---|---|
| Error log: the contents of the file, `log_mutex` | nobody reads the file; the mutex is held over one buffered print. If the C library makes that print a cancellation point, a cancelled thread can leave the mutex locked, as LogoutHangs shows for a queue. Its effects on threads and process are modelled (`AuthQueryFails`, `QueryFails`, `Fatal`, `Say`) |
| Control panel: layout, labels, the about dialog, the text view | they change nothing that the start and stop logic reads |
| Arguments of `main`, addresses and passwords | their values decide nothing but whether calls fail, which is modelled |
| `libs/iterator.*`, `data_structs/recyclable_fields_array.*` | not used by the server |
| The queue's pointers | every access but one is under the queue's lock, so nobody sees them half changed; the one is LogoutHangs. A sequence here |
| `push`, `popback`, `insert_next_to` of the list, `destroy_addrTable` | never called |
| The parser of packets (`packets.c`) | its result is modelled; the text is not |
| Partial sends | a dropped packet is the whole packet |

## 7. Plan

Done, as described above: `ConnectionHandler` with `MessageService`, `AddrTable` with
`Directory`, `ThreadList` with `Roster`, `UserDirectory`, `ServerProcess` with
`ControlPanel`, and the proofs of section 5, which state every safety property of the
runs. What is left:

1. `ServiceSpec`, once its mapping says without a recursion where a message is. Its steps then follow from
   `PacketInv`, `MessageInv` and `OrderInv`, action by action.
2. What holds after the first stray: the thread that takes one is not its receiver's, and may hand it on.
3. What `AuthFirst` leaves out: which look-ups a second AUTH on a connection makes stale.
