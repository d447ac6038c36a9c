--------------------------- MODULE UserDirectory ---------------------------
(***************************************************************************)
(* The users table and the requests that read and write it: REG            *)
(* (registrator), AUTH (authenticator) and GET_ALL_USERS, by which a       *)
(* client fetches the users it does not know yet, one for each request.    *)
(* Each connection is served by a thread of its own and each query is a    *)
(* step.  The table outlives the server, which may die and be started      *)
(* again; everything else is lost with it.                                 *)
(*                                                                         *)
(* Packets that do not touch the table, the queues and the order of events *)
(* inside a login are ConnectionHandler.                                   *)
(***************************************************************************)
EXTENDS Integers, FiniteSets, Sequences

CONSTANTS
    Clients,        \* each has at most one connection, and one request on it
    Names, Passwords,
    None,           \* no packet, NULL
    MaxSends,       \* bound: requests a client sends
    DbMayFail,      \* a mysql_query may return an error
    SendMayFail     \* a send may find the socket buffer full

NoUser == -1

\* What the DATA of a REG or AUTH packet names, NoAccount if it has no ':';
\* GET_ALL_USERS carries the number of users that the client knows.
Credentials == [username : Names, userpasswd : Passwords]
NoAccount == [username |-> None, userpasswd |-> None]
Request ==
    [type : {"REG", "AUTH"}, data : Credentials \cup {NoAccount}, revision : {0}]
      \cup [type : {"GET_ALL_USERS"}, data : {NoAccount}, revision : Nat]

Row == [userid : Nat \ {0}, username : Names, userpasswd : Passwords]

ASSUME DirectoryAssumption ==
    /\ IsFiniteSet(Clients)
    /\ None \notin Names \cup Passwords \cup Request
    /\ MaxSends \in Nat
    /\ {DbMayFail, SendMayFail} \subseteq BOOLEAN

VARIABLES
    users, auto_increment,  \* the table and its counter
    undone,                 \* history: the userids given to INSERTs that were undone
    sent,                   \* requests a client has sent
    pk,                     \* the request that is in the socket or interpreted
    userid, user_auth, revision_number,     \* struct thread_block
    addrs,                  \* userids in the address table
    pc,                     \* where the thread of the connection is
    newid,                  \* the userid an INSERT under way has been given
    fault,                  \* the undefined behaviour the process died of
    known,                  \* the users a client has been sent
    account,                \* history: the credentials of a client's last AUTH
    asked,                  \* history: the table when the client last asked
    promised                \* history: the credentials acknowledged by REG

tableVars  == <<users, auto_increment, undone>>
blockVars  == <<userid, user_auth, revision_number>>
threadVars == <<blockVars, addrs, pc, newid>>
clientVars == <<sent, known, account, asked>>
vars == <<tableVars, threadVars, clientVars, pk, fault, promised>>

Init ==
    /\ users = {} /\ auto_increment = 1 /\ undone = {}
    /\ sent = [c \in Clients |-> 0]
    /\ pk = [c \in Clients |-> None]
    /\ userid = [c \in Clients |-> NoUser]
    /\ user_auth = [c \in Clients |-> "USER_NOT_AUTH"]
    /\ revision_number = [c \in Clients |-> 0]
    /\ addrs = {}
    /\ pc = [c \in Clients |-> "gone"]
    /\ newid = [c \in Clients |-> 0]
    /\ fault = "none"
    /\ known = [c \in Clients |-> <<>>]
    /\ account = [c \in Clients |-> NoAccount]
    /\ asked = [c \in Clients |-> {}]
    /\ promised = {}

-----------------------------------------------------------------------------
(* The client.                                                             *)

\* A connection gets a new block and a thread.
Connect(c) ==
    /\ pc[c] = "gone"
    /\ userid' = [userid EXCEPT ![c] = NoUser]
    /\ user_auth' = [user_auth EXCEPT ![c] = "USER_NOT_AUTH"]
    /\ revision_number' = [revision_number EXCEPT ![c] = 0]
    /\ pk' = [pk EXCEPT ![c] = None]
    /\ pc' = [pc EXCEPT ![c] = "idle"]
    /\ UNCHANGED <<tableVars, addrs, newid, clientVars, fault, promised>>

ClientSend(c) ==
    /\ pc[c] = "idle" /\ pk[c] = None /\ sent[c] < MaxSends
    /\ \/ \E type \in {"REG", "AUTH"}, data \in Credentials \cup {NoAccount} :
           pk' = [pk EXCEPT ![c] = [type |-> type, data |-> data, revision |-> 0]]
       \/ pk' = [pk EXCEPT ![c] = [type |-> "GET_ALL_USERS", data |-> NoAccount,
                                   revision |-> Len(known[c])]]
    /\ asked' = [asked EXCEPT ![c] = users]
    /\ sent' = [sent EXCEPT ![c] = @ + 1]
    /\ UNCHANGED <<tableVars, threadVars, known, account, fault, promised>>

-----------------------------------------------------------------------------
(* The thread of connection c.                                             *)

Interprets(c, type) == pc[c] = "idle" /\ pk[c] # None /\ pk[c].type = type

Goto(c, place) == pc' = [pc EXCEPT ![c] = place]

\* interpret_packets returns.
Return(c) == Goto(c, "idle") /\ pk' = [pk EXCEPT ![c] = None]

\* The thread ends: cancelled, told to exit, or the client has left.
End(c) == Goto(c, "cleanup") /\ pk' = [pk EXCEPT ![c] = None]

\* The accounts that the SELECT of registrator and authenticator finds.
Matching(data) ==
    {r \in users : r.username = data.username /\ r.userpasswd = data.userpasswd}

\* Mutant of Taken: the test is left out.
TakenNever(data) == FALSE

\* registrator's test "whether user is unique".
Taken(data) == Matching(data) # {}

\* registrator up to its test: FIN if the account exists (or the packet names
\* none), else the INSERT is prepared.
RegSelect(c) ==
    /\ Interprets(c, "REG")
    /\ \/ /\ pk[c].data = NoAccount \/ Taken(pk[c].data)
          /\ Return(c)
       \/ /\ pk[c].data # NoAccount /\ ~Taken(pk[c].data)
          /\ Goto(c, "insert") /\ UNCHANGED pk
    /\ UNCHANGED <<tableVars, blockVars, addrs, newid, clientVars, fault, promised>>

\* The database begins the INSERT: AUTO_INCREMENT gives the row its userid.
Allocate(c) ==
    /\ pc[c] = "insert"
    /\ newid' = [newid EXCEPT ![c] = auto_increment]
    /\ auto_increment' = auto_increment + 1
    /\ Goto(c, "commit")
    /\ UNCHANGED <<users, undone, blockVars, addrs, pk, clientVars, fault, promised>>

\* Mutants of NewRow: the columns are swapped; there is no userid.
NewRowSwapped(c) == [userid |-> newid[c], username |-> pk[c].data.userpasswd,
                     userpasswd |-> pk[c].data.username]
NewRowNoId(c) == [userid |-> 0, username |-> pk[c].data.username,
                  userpasswd |-> pk[c].data.userpasswd]

NewRow(c) == [userid |-> newid[c], username |-> pk[c].data.username,
              userpasswd |-> pk[c].data.userpasswd]

\* The row is there, registrator returns 0 and the client is sent ACK.
Commit(c) ==
    /\ pc[c] = "commit"
    /\ users' = users \cup {NewRow(c)}
    /\ promised' = promised \cup {pk[c].data}
    /\ newid' = [newid EXCEPT ![c] = 0]
    /\ Return(c)
    /\ UNCHANGED <<auto_increment, undone, blockVars, addrs, clientVars, fault>>

\* authenticate_user and authenticator.  The block gets the userid of the
\* row before the look-up in the address table; a refused client is sent FIN
\* and its thread ends.
Authenticate(c) ==
    /\ Interprets(c, "AUTH")
    /\ account' = [account EXCEPT ![c] = pk[c].data]
    /\ \/ /\ pk[c].data = NoAccount \/ Matching(pk[c].data) = {}
          /\ End(c)
          /\ user_auth' = [user_auth EXCEPT ![c] = "USER_TO_EXIT"]
          /\ UNCHANGED <<userid, addrs>>
       \/ /\ pk[c].data # NoAccount
          /\ \E r \in Matching(pk[c].data) :
              /\ userid' = [userid EXCEPT ![c] = r.userid]
              /\ \/ /\ r.userid \in addrs
                    /\ End(c)
                    /\ user_auth' = [user_auth EXCEPT ![c] = "USER_TO_EXIT"]
                    /\ UNCHANGED addrs
                 \/ /\ r.userid \notin addrs
                    /\ Return(c)
                    /\ user_auth' = [user_auth EXCEPT ![c] = "USER_AUTH"]
                    /\ addrs' = addrs \cup {r.userid}
    /\ UNCHANGED <<tableVars, revision_number, newid, sent, known, asked,
                   fault, promised>>

\* NOT_YET_AUTHENTICATED_EXIT cancels the thread, which ends in the query.
RefuseUnauthenticated(c) ==
    /\ Interprets(c, "GET_ALL_USERS") /\ user_auth[c] = "USER_NOT_AUTH"
    /\ End(c)
    /\ UNCHANGED <<tableVars, blockVars, addrs, newid, clientVars, fault, promised>>

\* Mutants of Behind: one too early, one too late.
BehindOrEven(c, n) == n >= pk[c].revision
BehindByTwo(c, n) == n > pk[c].revision + 1

\* The table has more rows than the client says it knows users.
Behind(c, n) == n > pk[c].revision

\* set_revision_num, and the test of what the client knows.  A client that
\* knows them all is sent FIN.
CountUsers(c) ==
    /\ Interprets(c, "GET_ALL_USERS") /\ user_auth[c] # "USER_NOT_AUTH"
    /\ revision_number' = [revision_number EXCEPT ![c] = Cardinality(users)]
    /\ \/ Behind(c, Cardinality(users)) /\ Goto(c, "fetch") /\ UNCHANGED pk
       \/ ~Behind(c, Cardinality(users)) /\ Return(c)
    /\ UNCHANGED <<tableVars, userid, user_auth, addrs, newid, clientVars, fault,
                   promised>>

\* Mutant of NextUser: any user that the client does not know.
NextUserAny(c) == {r \in users : r.userid > pk[c].revision}

\* The row that GET_ALL_USERS asks for.
NextUser(c) == {r \in users : r.userid = pk[c].revision + 1}

\* The row is sent to the client (or dropped).  When there is no such row
\* the code reads the columns of a NULL row.
FetchUser(c) ==
    /\ pc[c] = "fetch"
    /\ \/ \E r \in NextUser(c) :
           /\ \/ known' = [known EXCEPT ![c] = Append(@, r)]
              \/ SendMayFail /\ UNCHANGED known
           /\ Return(c)
           /\ UNCHANGED fault
       \/ /\ NextUser(c) = {}
          /\ fault' = "null_dereference"
          /\ UNCHANGED <<known, pc, pk>>
    /\ UNCHANGED <<tableVars, blockVars, addrs, newid, sent, account, asked, promised>>

\* LOGOUT or CLOSE, in the client's own name.  The thread of a client that is
\* not logged in ends whatever the name.
Leave(c) ==
    /\ pc[c] = "idle" /\ pk[c] = None
    /\ End(c)
    /\ \/ user_auth' = [user_auth EXCEPT ![c] = "USER_TO_EXIT"]
       \/ user_auth[c] = "USER_NOT_AUTH" /\ UNCHANGED user_auth
    /\ UNCHANGED <<tableVars, userid, revision_number, addrs, newid, clientVars,
                   fault, promised>>

\* destroy_handlers_block takes the userid of the block out of the table.
Cleanup(c) ==
    /\ pc[c] = "cleanup"
    /\ addrs' = addrs \ {userid[c]}
    /\ Goto(c, "gone")
    /\ UNCHANGED <<tableVars, blockVars, newid, pk, clientVars, fault, promised>>

-----------------------------------------------------------------------------
(* Failures.                                                               *)

\* A query of REG or AUTH fails: log_errors destroys the block, returns, and
\* the block is used and destroyed again.  A query of GET_ALL_USERS fails:
\* the NULL result is used.  Either way the process dies.
QueryFails(c) ==
    /\ DbMayFail
    /\ \/ /\ \/ pc[c] = "commit"
             \/ (Interprets(c, "REG") \/ Interprets(c, "AUTH")) /\ pk[c].data # NoAccount
          /\ fault' = "use_after_free"
       \/ /\ \/ pc[c] = "fetch"
             \/ Interprets(c, "GET_ALL_USERS") /\ user_auth[c] # "USER_NOT_AUTH"
          /\ fault' = "null_dereference"
    /\ UNCHANGED <<tableVars, threadVars, pk, clientVars, promised>>

InsertsUnderWay == {c \in Clients : pc[c] = "commit"}

\* The server is started again, on the same database.  The INSERTs that were
\* under way have been done or undone; AUTO_INCREMENT does not give a userid
\* twice, so an undone one leaves a gap.
Restart ==
    /\ fault # "none"
    /\ \E done \in SUBSET InsertsUnderWay :
        /\ users' = users \cup {NewRow(c) : c \in done}
        /\ undone' = undone \cup {newid[c] : c \in InsertsUnderWay \ done}
    /\ fault' = "none"
    /\ pc' = [c \in Clients |-> "gone"]
    /\ addrs' = {}
    /\ newid' = [c \in Clients |-> 0]
    /\ pk' = [c \in Clients |-> None]
    /\ user_auth' = [c \in Clients |-> "USER_NOT_AUTH"]
    /\ UNCHANGED <<auto_increment, userid, revision_number, clientVars, promised>>

-----------------------------------------------------------------------------
ThreadStep(c) ==
    /\ fault = "none"
    /\ \/ RegSelect(c) \/ Allocate(c) \/ Commit(c)
       \/ Authenticate(c)
       \/ RefuseUnauthenticated(c) \/ CountUsers(c) \/ FetchUser(c)
       \/ Cleanup(c) \/ QueryFails(c)

ClientStep(c) == fault = "none" /\ (Connect(c) \/ ClientSend(c) \/ Leave(c))

Next == (\E c \in Clients : ThreadStep(c) \/ ClientStep(c)) \/ Restart

Spec == Init /\ [][Next]_vars
-----------------------------------------------------------------------------
(* Properties.                                                             *)

Places == {"gone", "idle", "insert", "commit", "fetch", "cleanup"}

\* The variables have their types.
TypeOK ==
    /\ users \subseteq Row /\ IsFiniteSet(users) /\ auto_increment \in Nat \ {0}
    /\ undone \subseteq Nat
    /\ sent \in [Clients -> 0..MaxSends]
    /\ pk \in [Clients -> Request \cup {None}]
    /\ userid \in [Clients -> Nat \cup {NoUser}]
    /\ user_auth \in [Clients -> {"USER_NOT_AUTH", "USER_AUTH", "USER_TO_EXIT"}]
    /\ revision_number \in [Clients -> Nat]
    /\ addrs \subseteq Nat
    /\ pc \in [Clients -> Places]
    /\ newid \in [Clients -> Nat]
    /\ fault \in {"none", "use_after_free", "null_dereference"}
    /\ known \in [Clients -> Seq(Row)]
    /\ account \in [Clients -> Credentials \cup {NoAccount}]
    /\ asked \in [Clients -> SUBSET Row]
    /\ promised \subseteq Credentials

\* An account whose registration was acknowledged is in the table, also
\* after the server has died in the middle of other registrations.
AcknowledgedIsStored == \A data \in promised : Matching(data) # {}

\* GET_ALL_USERS takes the number of rows for the last userid.  The row that
\* it asks for, one query after it has counted the rows, is missing (and a NULL
\* row is read) only if its userid was given to an INSERT that is still under
\* way, overtaken by a later one, or to one that died with the server.
FetchFindsRow ==
    \A c \in Clients : pc[c] = "fetch" =>
        \/ NextUser(c) # {}
        \/ pk[c].revision + 1 \in undone \cup {newid[d] : d \in InsertsUnderWay}

\* What a client has been sent are the first users of the table, in order and
\* each once, whatever was dropped, asked again or lost with the server.
KnowsAPrefix ==
    \A c \in Clients : \A i \in DOMAIN known[c] :
        known[c][i] \in users /\ known[c][i].userid = i

\* A client that is told FIN, "you know them all", knows every user that was
\* in the table when it asked.
FinMeansUpToDate ==
    [][\A c \in Clients :
        Interprets(c, "GET_ALL_USERS") /\ pc'[c] = "idle" /\ pk'[c] = None
            => asked[c] \subseteq {known[c][i] : i \in DOMAIN known[c]}]_vars

\* registrator tests for the account and inserts it in two queries, so that
\* registrations at the same time may all insert it.  They cannot do so
\* later: there are at most as many copies as connections.
DuplicatesBounded ==
    \A data \in Credentials : Cardinality(Matching(data)) <= Cardinality(Clients)
=============================================================================
