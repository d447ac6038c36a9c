--------------------------- MODULE ServerProcess ---------------------------
(***************************************************************************)
(* The life of the server as a process: main, init_logs_object and         *)
(* make_server, from the command line to the exit.  Several processes may  *)
(* be started, one after the other or at the same time, on one database    *)
(* and one port.  The threads of a process are ThreadList, the requests    *)
(* they serve ConnectionHandler.                                           *)
(*                                                                         *)
(* log_errors(NULL, ..., DO_EXIT) ends the process: that is Fatal.  Every  *)
(* SERVER_MSG writes to the standard error, a pipe to the program that     *)
(* started the process, and ends the process when nobody reads it.         *)
(***************************************************************************)
EXTENDS Integers, FiniteSets

CONSTANTS
    N,              \* bound: processes that are started
    MayFail         \* a call to the system or to the database may fail

ASSUME ProcessAssumption == N \in Nat /\ MayFail \in BOOLEAN

Procs == 1..N
Nobody == 0
Tables == {"users", "messages"}

VARIABLES
    place,          \* where in main each process is
    kill_server,    \* its flag
    served,         \* it has accepted a connection
    schema, tables, \* the database, and the tables in it
    port,           \* the process that has bound the port
    lingering,      \* the port has connections in TIME_WAIT
    stderr,         \* somebody reads the standard error of the processes
    cut             \* history: processes that ended while creating the tables

processVars == <<place, kill_server, served>>
hostVars == <<schema, tables, port, lingering, stderr, cut>>
serverVars == <<processVars, hostVars>>

SettingUp == {"create_db", "create_users", "create_messages"}
Unready == {"logs", "mysql", "check", "sigaction"} \cup SettingUp
Looping == {"head", "accept"}

ServerInit ==
    /\ place = [p \in Procs |-> "none"]
    /\ kill_server = [p \in Procs |-> FALSE]
    /\ served = [p \in Procs |-> FALSE]
    /\ schema = FALSE /\ tables = {}
    /\ port = Nobody /\ lingering = FALSE
    /\ stderr = TRUE
    /\ cut = {}

Alive(p) == place[p] \notin {"none", "zombie", "reaped"}
Ended(p) == place[p] \in {"zombie", "reaped"}

Goto(p, to) == place' = [place EXCEPT ![p] = to]

\* The process ends: its parent can wait for it, its sockets are closed.
Exit(p) ==
    /\ Goto(p, "zombie")
    /\ port' = IF port = p THEN Nobody ELSE port
    /\ lingering' = (lingering \/ (port = p /\ served[p]))
    /\ cut' = IF place[p] \in SettingUp THEN cut \cup {p} ELSE cut

Continue(p, to) == Goto(p, to) /\ UNCHANGED <<port, lingering, cut>>

\* SERVER_MSG, and what comes after it.
Say(p, to) == IF stderr THEN Continue(p, to) ELSE Exit(p)

-----------------------------------------------------------------------------
(* What is done to a process.                                              *)

\* The process is created; init_logs_object is its first call.
Spawn(p) ==
    /\ place[p] = "none"
    /\ Goto(p, "logs")
    /\ UNCHANGED <<kill_server, served, hostVars>>

\* SIGINT.  Before sigaction it ends the process.  Afterwards sig_handler sets
\* the flag, which also makes accept return, if it has been called: the place
\* "accept" begins behind the test of the flag.
Interrupt(p) ==
    \/ /\ place[p] \in Unready
       /\ Exit(p)
       /\ UNCHANGED <<kill_server, served, schema, tables, stderr>>
    \/ /\ Alive(p) /\ place[p] \notin Unready
       /\ kill_server' = [kill_server EXCEPT ![p] = TRUE]
       /\ \/ place[p] = "accept" /\ Say(p, "shutdown")
          \/ UNCHANGED <<place, port, lingering, cut>>
       /\ UNCHANGED <<served, schema, tables, stderr>>
    \/ /\ ~Alive(p)
       /\ UNCHANGED serverVars

-----------------------------------------------------------------------------
(* What a process does.                                                    *)

\* init_logs_object, then the list of threads, mysql_init and
\* mysql_real_connect.
OpenLogs(p) ==
    /\ place[p] = "logs"
    /\ Say(p, "mysql")
    /\ UNCHANGED <<kill_server, served, schema, tables, stderr>>

Connect(p) ==
    /\ place[p] = "mysql"
    /\ Say(p, "check")
    /\ UNCHANGED <<kill_server, served, schema, tables, stderr>>

\* Mutant of NeedsTables: the test is turned round.
NeedsNoTables == schema

\* The query found no schema of the name.
NeedsTables == ~schema

CheckSchema(p) ==
    /\ place[p] = "check"
    /\ Say(p, IF NeedsTables THEN "create_db" ELSE "sigaction")
    /\ UNCHANGED <<kill_server, served, schema, tables, stderr>>

\* CREATE DATABASE, whose result is not looked at.
CreateDb(p) ==
    /\ place[p] = "create_db"
    /\ schema' = TRUE
    /\ Continue(p, "create_users")
    /\ UNCHANGED <<kill_server, served, tables, stderr>>

\* The CREATE DATABASE that fails.
CreateDbFails(p) ==
    /\ MayFail /\ place[p] = "create_db"
    /\ Continue(p, "create_users")
    /\ UNCHANGED <<kill_server, served, schema, tables, stderr>>

CreateUsers(p) ==
    /\ place[p] = "create_users"
    /\ schema /\ "users" \notin tables
    /\ tables' = tables \cup {"users"}
    /\ Say(p, "create_messages")
    /\ UNCHANGED <<kill_server, served, schema, stderr>>

\* The print that follows is that of the debug build, the Makefile's default.
CreateMessages(p) ==
    /\ place[p] = "create_messages"
    /\ schema /\ "messages" \notin tables
    /\ tables' = tables \cup {"messages"}
    /\ Say(p, "sigaction")
    /\ UNCHANGED <<kill_server, served, schema, stderr>>

InstallHandler(p) ==
    /\ place[p] = "sigaction"
    /\ Continue(p, "bind")
    /\ UNCHANGED <<kill_server, served, schema, tables, stderr>>

\* SO_REUSEADDR is not set: connections in TIME_WAIT keep the port.
PortIsFree == port = Nobody /\ ~lingering

\* socket, bind, listen.
Bind(p) ==
    /\ place[p] = "bind" /\ PortIsFree
    /\ IF stderr
         THEN Goto(p, "head") /\ port' = p /\ UNCHANGED <<lingering, cut>>
         ELSE Exit(p)
    /\ UNCHANGED <<kill_server, served, schema, tables, stderr>>

\* The database or the system refuses a call whose result is looked at.
Refused(p) ==
    \/ MayFail /\ place[p] \in {"logs", "mysql", "check", "create_users",
                                "create_messages", "sigaction", "bind"}
    \/ place[p] = "create_users" /\ (~schema \/ "users" \in tables)
    \/ place[p] = "create_messages" /\ (~schema \/ "messages" \in tables)
    \/ place[p] = "bind" /\ ~PortIsFree

\* log_errors with DO_EXIT and no thread: exit(EXIT_FAILURE).
Fatal(p) ==
    /\ Refused(p)
    /\ Exit(p)
    /\ UNCHANGED <<kill_server, served, schema, tables, stderr>>

\* Mutant of StopAsked: the flag is not tested at the head of the loop.
StopAskedNever(p) == FALSE

StopAsked(p) == kill_server[p]

\* The head of the accept loop.
LoopHead(p) ==
    /\ place[p] = "head"
    /\ IF StopAsked(p) THEN Say(p, "shutdown") ELSE Continue(p, "accept")
    /\ UNCHANGED <<kill_server, served, schema, tables, stderr>>

\* accept returns a connection, or an error other than EINTR.
Accept(p) ==
    /\ place[p] = "accept"
    /\ \/ served' = [served EXCEPT ![p] = TRUE]
       \/ MayFail /\ UNCHANGED served
    /\ Say(p, "head")
    /\ UNCHANGED <<kill_server, schema, tables, stderr>>

\* The threads are cancelled and joined, the socket is closed, main returns.
Shutdown(p) ==
    /\ place[p] = "shutdown"
    /\ Exit(p)
    /\ UNCHANGED <<kill_server, served, schema, tables, stderr>>

\* A thread brings the process down (UserDirectory, LogoutHangs).
Crash(p) ==
    /\ MayFail /\ place[p] \in {"head", "accept", "shutdown"} /\ served[p]
    /\ Exit(p)
    /\ UNCHANGED <<kill_server, served, schema, tables, stderr>>

\* The connections in TIME_WAIT are forgotten.
TimeWaitEnds ==
    /\ lingering
    /\ lingering' = FALSE
    /\ UNCHANGED <<processVars, schema, tables, port, stderr, cut>>

\* The steps that no client and no failure is needed for.
Progress(p) ==
    \/ OpenLogs(p) \/ Connect(p) \/ CheckSchema(p)
    \/ CreateDb(p) \/ CreateUsers(p) \/ CreateMessages(p)
    \/ InstallHandler(p) \/ Bind(p) \/ Fatal(p) \/ LoopHead(p)

ProcessStep(p) ==
    Progress(p) \/ CreateDbFails(p) \/ Accept(p) \/ Shutdown(p) \/ Crash(p)

-----------------------------------------------------------------------------
(* Properties.                                                             *)

ServerTypeOK ==
    /\ place \in [Procs -> {"none", "bind", "shutdown", "zombie", "reaped"}
                             \cup Unready \cup Looping]
    /\ kill_server \in [Procs -> BOOLEAN] /\ served \in [Procs -> BOOLEAN]
    /\ schema \in BOOLEAN /\ tables \subseteq Tables
    /\ port \in Procs \cup {Nobody} /\ lingering \in BOOLEAN
    /\ stderr \in BOOLEAN /\ cut \subseteq Procs

\* A process that listens has its tables, unless another process was stopped
\* in the middle of creating them or is there now: only the schema is looked
\* for, and the schema is made first.
TablesMissingOnlyIfCut ==
    (\E p \in Procs : place[p] \in Looping) /\ tables # Tables
        => cut # {} \/ \E q \in Procs : place[q] \in SettingUp
=============================================================================
