------------------------ MODULE UserDirectoryProofs ------------------------
(***************************************************************************)
(* What UserDirectory promises holds for any number of clients, names and  *)
(* requests, with the server dying at any query.                           *)
(*                                                                         *)
(* The argument of GET_ALL_USERS is on userids and lengths.  A userid is   *)
(* given out once, and what became of each one is accounted for: its row   *)
(* is there, or its INSERT is under way, or was undone.  So there are      *)
(* fewer rows than userids given out, and whoever asks for a row after     *)
(* having counted more rows than it knows users asks for a userid that has *)
(* been given out.  A client that knows as many rows as there are knows    *)
(* them all, because its rows are different rows.                          *)
(***************************************************************************)
EXTENDS UserDirectory, FiniteSetTheorems, TLAPS

Ids == {r.userid : r \in users}
Known(c) == {known[c][i] : i \in DOMAIN known[c]}

\* What the place of a thread says about the packet in its hand.
PlaceInv ==
    \A c \in Clients :
        /\ pc[c] \in {"insert", "commit"} => pk[c] # None /\ pk[c].data \in Credentials
        /\ pc[c] = "fetch" => pk[c] # None /\ pk[c].type = "GET_ALL_USERS"
        /\ pk[c] # None /\ pk[c].type = "GET_ALL_USERS"
            => pk[c].revision = Len(known[c])

\* A userid is given out once.
IdInv ==
    /\ \A r \in users : r.userid < auto_increment
    /\ \A r, s \in users : r.userid = s.userid => r = s
    /\ \A c \in InsertsUnderWay :
        /\ newid[c] \in 1..(auto_increment - 1)
        /\ \A r \in users : r.userid # newid[c]
        /\ \A d \in InsertsUnderWay : newid[c] = newid[d] => c = d

\* What became of each userid that was given out.
GapInv ==
    \A id \in 1..(auto_increment - 1) :
        id \in Ids \cup undone \cup {newid[c] : c \in InsertsUnderWay}

\* GET_ALL_USERS asks for a userid that has been given out.
AsksForGiven ==
    \A c \in Clients : pc[c] = "fetch" => pk[c].revision + 1 < auto_increment

\* Clients ask about, and are sent, users of the table.
AskedInv == \A c \in Clients : asked[c] \subseteq users

\* A thread that has logged its client in serves an account with the name and
\* password that the client gave.
LoginIsOwnAccount ==
    \A c \in Clients : user_auth[c] = "USER_AUTH" =>
        \E r \in Matching(account[c]) : r.userid = userid[c]

IInv ==
    /\ TypeOK /\ PlaceInv /\ IdInv /\ GapInv /\ AskedInv
    /\ AcknowledgedIsStored /\ AsksForGiven /\ KnowsAPrefix /\ LoginIsOwnAccount

-----------------------------------------------------------------------------
(* Rows and userids.                                                       *)

\* Rows have userids of their own, so there are fewer rows than the next userid.
LEMMA RowsBounded ==
    ASSUME TypeOK, IdInv
    PROVE  Cardinality(users) \in Nat /\ Cardinality(users) < auto_increment
<1>1. PICK n \in Nat : auto_increment = n + 1
  <2>1. auto_increment - 1 \in Nat /\ auto_increment = (auto_increment - 1) + 1
    BY DEF TypeOK
  <2>. QED  BY <2>1
<1>2. \A r \in users : r.userid \in 1..n
  <2>1. \A r \in users : r.userid \in Nat \ {0} /\ r.userid < auto_increment
    BY DEF TypeOK, Row, IdInv
  <2>. QED  BY <1>1, <2>1
<1>3. Ids \in SUBSET (1..n)
  BY <1>2 DEF Ids
<1>. DEFINE f == [r \in users |-> r.userid]
<1>4. f \in Bijection(users, Ids)
  BY DEF Ids, IdInv, Bijection, Injection, Surjection, IsInjective
<1>5. ExistsBijection(users, Ids)
  BY <1>4 DEF ExistsBijection
<1>6. Cardinality(users) = Cardinality(Ids) /\ Cardinality(users) \in Nat
  BY <1>5, FS_Bijection, FS_CardinalityType DEF TypeOK
<1>7. IsFiniteSet(1..n) /\ Cardinality(1..n) = n
  BY FS_Interval
<1>8. Cardinality(Ids) <= n
  BY <1>3, <1>7, FS_Subset
<1>. QED  BY <1>1, <1>6, <1>8

\* A client that knows as many users as there are knows them all.
LEMMA KnowsAll ==
    ASSUME TypeOK, KnowsAPrefix, NEW c \in Clients,
           Cardinality(users) <= Len(known[c])
    PROVE  users \subseteq Known(c)
<1>1. known[c] \in Seq(Row)
  BY DEF TypeOK
<1>2. DOMAIN known[c] = 1..Len(known[c]) /\ Len(known[c]) \in Nat
  BY <1>1
<1>3. Known(c) \in SUBSET users
  BY <1>2 DEF KnowsAPrefix, Known
<1>4. \A i, j \in 1..Len(known[c]) : known[c][i] = known[c][j] => i = j
  BY <1>2 DEF KnowsAPrefix
<1>. DEFINE f == [i \in 1..Len(known[c]) |-> known[c][i]]
<1>5. f \in Bijection(1..Len(known[c]), Known(c))
  BY <1>2, <1>4 DEF Known, Bijection, Injection, Surjection, IsInjective
<1>6. Cardinality(Known(c)) = Len(known[c])
  <2>1. IsFiniteSet(1..Len(known[c])) /\ Cardinality(1..Len(known[c])) = Len(known[c])
    BY <1>2, FS_Interval
  <2>2. ExistsBijection(1..Len(known[c]), Known(c))
    BY <1>5 DEF ExistsBijection
  <2>. QED  BY <2>1, <2>2, FS_Bijection
<1>7. IsFiniteSet(users) /\ Cardinality(users) \in Nat
  BY FS_CardinalityType DEF TypeOK
<1>8. Cardinality(Known(c)) <= Cardinality(users)
      /\ (Cardinality(users) = Cardinality(Known(c)) => users = Known(c))
  BY <1>3, <1>7, FS_Subset
<1>. QED  BY <1>2, <1>6, <1>7, <1>8

-----------------------------------------------------------------------------
(* The steps that leave the table alone.                                   *)

LEMMA RequestFacts ==
    /\ None \notin Request /\ NoAccount \notin Credentials
    /\ \A p \in Request :
        /\ p.type \in {"REG", "AUTH", "GET_ALL_USERS"}
        /\ p.data \in Credentials \cup {NoAccount} /\ p.revision \in Nat
  BY DirectoryAssumption DEF Request, Credentials, NoAccount

LEMMA SameTable ==
    ASSUME IInv, UNCHANGED <<users, auto_increment, undone, newid, promised>>,
           \A c \in Clients : pc'[c] = "commit" <=> pc[c] = "commit"
    PROVE  IdInv' /\ GapInv' /\ AcknowledgedIsStored'
<1>1. InsertsUnderWay' = InsertsUnderWay
  BY DEF InsertsUnderWay
<1>. QED
  BY <1>1 DEF IInv, IdInv, GapInv, Ids, AcknowledgedIsStored, Matching

LEMMA ConnectKeeps == ASSUME IInv, NEW c \in Clients, Connect(c) PROVE IInv'
<1>. USE DEF Connect, tableVars, clientVars
<1>1. TypeOK'
  BY DEF IInv, TypeOK, Places
<1>2. PlaceInv'
  BY DEF IInv, TypeOK, PlaceInv
<1>3. IdInv' /\ GapInv' /\ AcknowledgedIsStored'
  BY SameTable DEF IInv, TypeOK
<1>4. AsksForGiven'
  BY DEF IInv, TypeOK, AsksForGiven
<1>5. KnowsAPrefix' /\ AskedInv'
  BY DEF IInv, KnowsAPrefix, AskedInv
<1>6. LoginIsOwnAccount'
  BY DEF IInv, TypeOK, LoginIsOwnAccount, Matching
<1>. QED  BY <1>1, <1>2, <1>3, <1>4, <1>5, <1>6 DEF IInv

LEMMA ClientSendKeeps == ASSUME IInv, NEW c \in Clients, ClientSend(c) PROVE IInv'
<1>1. PICK p \in Request :
        /\ pk' = [pk EXCEPT ![c] = p]
        /\ p.type = "GET_ALL_USERS" => p.revision = Len(known[c])
  <2>1. Len(known[c]) \in Nat
    BY DEF IInv, TypeOK
  <2>2. CASE \E type \in {"REG", "AUTH"}, data \in Credentials \cup {NoAccount} :
                pk' = [pk EXCEPT ![c] = [type |-> type, data |-> data, revision |-> 0]]
    <3>1. PICK type \in {"REG", "AUTH"}, data \in Credentials \cup {NoAccount} :
                pk' = [pk EXCEPT ![c] = [type |-> type, data |-> data, revision |-> 0]]
      BY <2>2
    <3>. DEFINE p == [type |-> type, data |-> data, revision |-> 0]
    <3>2. p \in Request /\ p.type # "GET_ALL_USERS"
      BY DEF Request
    <3>. QED  BY <3>1, <3>2
  <2>3. CASE pk' = [pk EXCEPT ![c] = [type |-> "GET_ALL_USERS", data |-> NoAccount,
                                      revision |-> Len(known[c])]]
    <3>. DEFINE p == [type |-> "GET_ALL_USERS", data |-> NoAccount,
                      revision |-> Len(known[c])]
    <3>1. p \in Request
      BY <2>1 DEF Request
    <3>. QED  BY <2>3, <3>1
  <2>. QED  BY <2>2, <2>3 DEF ClientSend
<1>2. /\ pc[c] = "idle" /\ sent[c] < MaxSends /\ sent' = [sent EXCEPT ![c] = @ + 1]
      /\ asked' = [asked EXCEPT ![c] = users]
      /\ UNCHANGED <<users, auto_increment, undone, userid, user_auth, revision_number, addrs,
                     pc, newid, known, account, fault, promised>>
  BY DEF ClientSend, tableVars, threadVars, blockVars
<1>3. TypeOK'
  BY <1>1, <1>2, DirectoryAssumption DEF IInv, TypeOK
<1>4. PlaceInv'
  BY <1>1, <1>2 DEF IInv, TypeOK, PlaceInv
<1>5. IdInv' /\ GapInv' /\ AcknowledgedIsStored'
  BY <1>2, SameTable
<1>6. AsksForGiven'
  BY <1>1, <1>2 DEF IInv, TypeOK, AsksForGiven
<1>7. KnowsAPrefix' /\ AskedInv' /\ LoginIsOwnAccount'
  BY <1>2 DEF IInv, TypeOK, KnowsAPrefix, AskedInv, LoginIsOwnAccount, Matching
<1>. QED  BY <1>3, <1>4, <1>5, <1>6, <1>7 DEF IInv

\* The table, the clients and the logins stay as they are; the thread has
\* another place, and its packet or none.
LEMMA MoveKeeps ==
    ASSUME IInv, NEW c \in Clients, NEW to \in Places \ {"commit"}, pc[c] # "commit",
           pc' = [pc EXCEPT ![c] = to],
           pk' \in {pk, [pk EXCEPT ![c] = None]},
           UNCHANGED <<users, auto_increment, undone, userid, newid, known, account, asked,
                       sent, fault, promised>>,
           revision_number' \in [Clients -> Nat], addrs' \subseteq Nat,
           user_auth' \in [Clients -> {"USER_NOT_AUTH", "USER_AUTH", "USER_TO_EXIT"}],
           \A d \in Clients : user_auth'[d] = "USER_AUTH" => user_auth[d] = "USER_AUTH",
           to = "insert" => pk'[c] # None /\ pk[c].data \in Credentials,
           to = "fetch" => /\ pk'[c] # None /\ pk[c].type = "GET_ALL_USERS"
                           /\ pk[c].revision + 1 < auto_increment
    PROVE  IInv'
<1>1. TypeOK'
  BY DEF IInv, TypeOK
<1>2. PlaceInv'
  BY DEF IInv, TypeOK, PlaceInv
<1>3. IdInv' /\ GapInv' /\ AcknowledgedIsStored'
  BY SameTable DEF IInv, TypeOK
<1>4. AsksForGiven'
  <2>. SUFFICES ASSUME NEW d \in Clients, pc'[d] = "fetch"
                PROVE  pk'[d].revision + 1 < auto_increment
    BY DEF AsksForGiven
  <2>1. pk[d].revision + 1 < auto_increment
    BY DEF IInv, TypeOK, AsksForGiven
  <2>2. pk'[d] # None
    BY <1>2 DEF PlaceInv
  <2>3. pk'[d] = pk[d]
    BY <2>2 DEF IInv, TypeOK
  <2>. QED  BY <2>1, <2>3
<1>5. KnowsAPrefix' /\ AskedInv' /\ LoginIsOwnAccount'
  BY DEF IInv, TypeOK, KnowsAPrefix, AskedInv, LoginIsOwnAccount, Matching
<1>. QED  BY <1>1, <1>2, <1>3, <1>4, <1>5 DEF IInv

LEMMA RegSelectKeeps == ASSUME IInv, NEW c \in Clients, RegSelect(c) PROVE IInv'
<1>1. pc[c] = "idle" /\ pk[c] \in Request
  BY DEF RegSelect, Interprets, IInv, TypeOK
<1>2. CASE Return(c)
  BY <1>1, <1>2, MoveKeeps DEF RegSelect, Return, Goto, Places, blockVars, tableVars,
                               clientVars, IInv, TypeOK
<1>3. CASE pk[c].data # NoAccount /\ Goto(c, "insert") /\ UNCHANGED pk
  BY <1>1, <1>3, RequestFacts, MoveKeeps
     DEF RegSelect, Goto, Places, blockVars, tableVars, clientVars, IInv, TypeOK
<1>. QED  BY <1>2, <1>3 DEF RegSelect

LEMMA RefuseKeeps ==
    ASSUME IInv, NEW c \in Clients, RefuseUnauthenticated(c) PROVE IInv'
<1>1. pc[c] = "idle"
  BY DEF RefuseUnauthenticated, Interprets
<1>. QED
  BY <1>1, MoveKeeps DEF RefuseUnauthenticated, End, Goto, Places, blockVars, tableVars,
                         clientVars, IInv, TypeOK

\* There are fewer users than the next userid: the one after the last known has
\* been given out.
LEMMA CountUsersKeeps == ASSUME IInv, NEW c \in Clients, CountUsers(c) PROVE IInv'
<1>1. /\ pc[c] = "idle" /\ pk[c] \in Request /\ pk[c].type = "GET_ALL_USERS"
      /\ Cardinality(users) \in Nat
  BY FS_CardinalityType DEF CountUsers, Interprets, IInv, TypeOK
<1>2. /\ revision_number' = [revision_number EXCEPT ![c] = Cardinality(users)]
      /\ UNCHANGED <<users, auto_increment, undone, userid, user_auth, addrs, newid, known,
                     account, asked, sent, fault, promised>>
  BY DEF CountUsers, tableVars, clientVars
<1>3. revision_number' \in [Clients -> Nat] /\ addrs' \subseteq Nat
      /\ user_auth' \in [Clients -> {"USER_NOT_AUTH", "USER_AUTH", "USER_TO_EXIT"}]
  BY <1>1, <1>2 DEF IInv, TypeOK
<1>4. CASE Return(c)
  BY <1>1, <1>2, <1>3, <1>4, MoveKeeps DEF Return, Goto, Places
<1>5. CASE Behind(c, Cardinality(users)) /\ Goto(c, "fetch") /\ UNCHANGED pk
  <2>1. pk[c].revision + 1 < auto_increment
    <3>1. auto_increment \in Nat /\ pk[c].revision \in Nat
      BY <1>1, RequestFacts DEF IInv, TypeOK
    <3>2. Cardinality(users) < auto_increment
      BY RowsBounded DEF IInv
    <3>. QED  BY <1>1, <1>5, <3>1, <3>2 DEF Behind
  <2>2. pk[c] # None
    BY <1>1, RequestFacts
  <2>. QED  BY <1>1, <1>2, <1>3, <1>5, <2>1, <2>2, MoveKeeps DEF Goto, Places
<1>. QED  BY <1>4, <1>5 DEF CountUsers

LEMMA LeaveKeeps == ASSUME IInv, NEW c \in Clients, Leave(c) PROVE IInv'
<1>1. user_auth' = [user_auth EXCEPT ![c] = "USER_TO_EXIT"] \/ user_auth' = user_auth
  BY DEF Leave
<1>2. /\ user_auth' \in [Clients -> {"USER_NOT_AUTH", "USER_AUTH", "USER_TO_EXIT"}]
      /\ \A d \in Clients : user_auth'[d] = "USER_AUTH" => user_auth[d] = "USER_AUTH"
  BY <1>1 DEF IInv, TypeOK
<1>. QED
  BY <1>2, MoveKeeps DEF Leave, End, Goto, Places, tableVars, clientVars, IInv, TypeOK

LEMMA CleanupKeeps == ASSUME IInv, NEW c \in Clients, Cleanup(c) PROVE IInv'
  BY MoveKeeps DEF Cleanup, Goto, Places, blockVars, tableVars, clientVars, IInv, TypeOK

LEMMA QueryFailsKeeps == ASSUME IInv, NEW c \in Clients, QueryFails(c) PROVE IInv'
<1>1. /\ UNCHANGED <<users, auto_increment, undone, userid, user_auth, revision_number, addrs,
                     pc, newid, pk, sent, known, account, asked, promised>>
      /\ fault' \in {"use_after_free", "null_dereference"}
  BY DEF QueryFails, tableVars, threadVars, blockVars, clientVars
<1>2. TypeOK'
  BY <1>1 DEF IInv, TypeOK
<1>3. IdInv' /\ GapInv' /\ AcknowledgedIsStored'
  BY <1>1, SameTable
<1>4. PlaceInv' /\ AsksForGiven' /\ KnowsAPrefix' /\ AskedInv' /\ LoginIsOwnAccount'
  BY <1>1 DEF IInv, PlaceInv, AsksForGiven, KnowsAPrefix, AskedInv,
              LoginIsOwnAccount, Matching
<1>. QED  BY <1>2, <1>3, <1>4 DEF IInv

LEMMA FetchUserKeeps == ASSUME IInv, NEW c \in Clients, FetchUser(c) PROVE IInv'
<1>1. /\ UNCHANGED <<users, auto_increment, undone, userid, user_auth, revision_number, addrs,
                     newid, sent, account, asked, promised>>
      /\ pc[c] = "fetch" /\ pk[c].revision = Len(known[c])
  BY DEF FetchUser, tableVars, blockVars, IInv, PlaceInv
<1>2. CASE Return(c) /\ UNCHANGED <<known, fault>>
  BY <1>1, <1>2, MoveKeeps DEF Return, Goto, Places, IInv, TypeOK
<1>3. ASSUME NEW r \in NextUser(c), known' = [known EXCEPT ![c] = Append(@, r)],
             Return(c), UNCHANGED fault
      PROVE  IInv'
  <2>1. pc' = [pc EXCEPT ![c] = "idle"] /\ pk' = [pk EXCEPT ![c] = None]
    BY <1>3 DEF Return, Goto
  <2>2. r \in users /\ r.userid = Len(known[c]) + 1 /\ r \in Row
    BY <1>1 DEF NextUser, IInv, TypeOK
  <2>3. TypeOK'
    BY <1>1, <1>3, <2>1, <2>2 DEF IInv, TypeOK, Places
  <2>4. PlaceInv'
    BY <1>1, <1>3, <2>1 DEF IInv, TypeOK, PlaceInv
  <2>5. IdInv' /\ GapInv' /\ AcknowledgedIsStored'
    BY <1>1, <2>1, SameTable DEF IInv, TypeOK
  <2>6. AsksForGiven'
    BY <1>1, <2>1 DEF IInv, TypeOK, AsksForGiven
  <2>7. KnowsAPrefix'
    <3>. SUFFICES ASSUME NEW d \in Clients, NEW i \in DOMAIN known'[d]
                  PROVE  known'[d][i] \in users /\ known'[d][i].userid = i
      BY <1>1 DEF KnowsAPrefix
    <3>1. CASE d = c
      <4>1. known[c] \in Seq(Row) /\ known'[c] = Append(known[c], r)
        BY <1>3 DEF IInv, TypeOK
      <4>2. CASE i = Len(known[c]) + 1
        BY <2>2, <3>1, <4>1, <4>2
      <4>3. CASE i # Len(known[c]) + 1
        <5>1. i \in DOMAIN known[c] /\ known'[c][i] = known[c][i]
          BY <2>2, <3>1, <4>1, <4>3
        <5>. QED  BY <3>1, <5>1 DEF IInv, KnowsAPrefix
      <4>. QED  BY <4>2, <4>3
    <3>2. CASE d # c
      <4>1. known'[d] = known[d]
        BY <1>3, <3>2 DEF IInv, TypeOK
      <4>. QED  BY <4>1 DEF IInv, KnowsAPrefix
    <3>. QED  BY <3>1, <3>2
  <2>8. AskedInv' /\ LoginIsOwnAccount'
    BY <1>1 DEF IInv, AskedInv, LoginIsOwnAccount, Matching
  <2>. QED  BY <2>3, <2>4, <2>5, <2>6, <2>7, <2>8 DEF IInv
<1>4. CASE fault' = "null_dereference" /\ UNCHANGED <<known, pc, pk>>
  <2>1. TypeOK'
    BY <1>1, <1>4 DEF IInv, TypeOK
  <2>2. IdInv' /\ GapInv' /\ AcknowledgedIsStored'
    BY <1>1, <1>4, SameTable
  <2>3. PlaceInv' /\ AsksForGiven' /\ KnowsAPrefix' /\ AskedInv' /\ LoginIsOwnAccount'
    BY <1>1, <1>4 DEF IInv, PlaceInv, AsksForGiven, KnowsAPrefix, AskedInv,
                      LoginIsOwnAccount, Matching
  <2>. QED  BY <2>1, <2>2, <2>3 DEF IInv
<1>. QED  BY <1>2, <1>3, <1>4 DEF FetchUser

LEMMA AuthenticateKeeps ==
    ASSUME IInv, NEW c \in Clients, Authenticate(c) PROVE IInv'
<1>1. /\ pc[c] = "idle" /\ pk[c] \in Request /\ pk[c].data \in Credentials \cup {NoAccount}
      /\ account' = [account EXCEPT ![c] = pk[c].data]
      /\ UNCHANGED <<users, auto_increment, undone, revision_number, newid, sent, known, asked,
                     fault, promised>>
  BY RequestFacts DEF Authenticate, Interprets, IInv, TypeOK, tableVars
<1>2. \E to \in {"idle", "cleanup"} : pc' = [pc EXCEPT ![c] = to]
  BY DEF Authenticate, End, Return, Goto
<1>3. pk' = [pk EXCEPT ![c] = None]
  BY DEF Authenticate, End, Return
<1>4. \/ user_auth' = [user_auth EXCEPT ![c] = "USER_TO_EXIT"]
      \/ /\ user_auth' = [user_auth EXCEPT ![c] = "USER_AUTH"]
         /\ \E r \in Matching(pk[c].data) : userid' = [userid EXCEPT ![c] = r.userid]
  BY DEF Authenticate
<1>5. \A r \in Matching(pk[c].data) : r.userid \in Nat /\ r \in Matching(pk[c].data)
  BY DEF Matching, IInv, TypeOK, Row
<1>6. \/ UNCHANGED userid
      \/ \E r \in Matching(pk[c].data) : userid' = [userid EXCEPT ![c] = r.userid]
  BY DEF Authenticate
<1>7. addrs' \subseteq Nat
  <2>1. UNCHANGED addrs
        \/ \E r \in Matching(pk[c].data) : addrs' = addrs \cup {r.userid}
    BY DEF Authenticate
  <2>2. addrs \subseteq Nat
    BY DEF IInv, TypeOK
  <2>3. CASE UNCHANGED addrs
    BY <2>2, <2>3
  <2>4. ASSUME NEW r \in Matching(pk[c].data), addrs' = addrs \cup {r.userid}
        PROVE  addrs' \subseteq Nat
    <3>1. r.userid \in Nat
      BY <1>5
    <3>. QED  BY <2>2, <2>4, <3>1
  <2>. QED  BY <2>1, <2>3, <2>4
<1>8. userid' \in [Clients -> Nat \cup {NoUser}]
  BY <1>5, <1>6 DEF IInv, TypeOK
<1>9. TypeOK'
  <2>1. pc' \in [Clients -> Places] /\ pk' \in [Clients -> Request \cup {None}]
    BY <1>2, <1>3 DEF IInv, TypeOK, Places
  <2>2. user_auth' \in [Clients -> {"USER_NOT_AUTH", "USER_AUTH", "USER_TO_EXIT"}]
    BY <1>4 DEF IInv, TypeOK
  <2>3. account' \in [Clients -> Credentials \cup {NoAccount}]
    BY <1>1 DEF IInv, TypeOK
  <2>. QED  BY <1>1, <1>7, <1>8, <2>1, <2>2, <2>3 DEF IInv, TypeOK
<1>10. PlaceInv'
  BY <1>1, <1>2, <1>3 DEF IInv, TypeOK, PlaceInv
<1>11. IdInv' /\ GapInv' /\ AcknowledgedIsStored'
  BY <1>1, <1>2, SameTable DEF IInv, TypeOK
<1>12. AsksForGiven'
  BY <1>1, <1>2, <1>3 DEF IInv, TypeOK, AsksForGiven
<1>13. KnowsAPrefix' /\ AskedInv'
  BY <1>1 DEF IInv, KnowsAPrefix, AskedInv
<1>14. LoginIsOwnAccount'
  <2>. SUFFICES ASSUME NEW d \in Clients, user_auth'[d] = "USER_AUTH"
                PROVE  \E r \in Matching(account'[d]) : r.userid = userid'[d]
    BY <1>1 DEF LoginIsOwnAccount, Matching
  <2>1. CASE d = c
    <3>1. PICK r \in Matching(pk[c].data) : userid' = [userid EXCEPT ![c] = r.userid]
      BY <1>4, <2>1 DEF IInv, TypeOK
    <3>2. userid'[c] = r.userid /\ account'[c] = pk[c].data
      BY <1>1, <3>1 DEF IInv, TypeOK
    <3>. QED  BY <1>5, <2>1, <3>2
  <2>2. CASE d # c
    <3>1. user_auth[d] = "USER_AUTH" /\ account'[d] = account[d] /\ userid'[d] = userid[d]
      BY <1>1, <1>4, <1>6, <2>2 DEF IInv, TypeOK
    <3>. QED  BY <3>1 DEF IInv, LoginIsOwnAccount
  <2>. QED  BY <2>1, <2>2
<1>. QED  BY <1>9, <1>10, <1>11, <1>12, <1>13, <1>14 DEF IInv

-----------------------------------------------------------------------------
(* The steps that change the table.                                        *)

LEMMA AllocateKeeps == ASSUME IInv, NEW c \in Clients, Allocate(c) PROVE IInv'
<1>1. /\ pc[c] = "insert"
      /\ newid' = [newid EXCEPT ![c] = auto_increment]
      /\ auto_increment' = auto_increment + 1
      /\ pc' = [pc EXCEPT ![c] = "commit"]
      /\ UNCHANGED <<users, undone, userid, user_auth, revision_number, addrs, pk, sent, known,
                     account, asked, fault, promised>>
  BY DEF Allocate, Goto, blockVars, clientVars, InsertsUnderWay
<1>2. auto_increment \in Nat \ {0} /\ newid \in [Clients -> Nat] /\ pc \in [Clients -> Places]
  BY DEF IInv, TypeOK
<1>3. TypeOK'
  BY <1>1, <1>2 DEF IInv, TypeOK, Places
<1>4. PlaceInv'
  BY <1>1, <1>2 DEF IInv, PlaceInv
<1>5. InsertsUnderWay' = InsertsUnderWay \cup {c} /\ c \notin InsertsUnderWay
  BY <1>1, <1>2 DEF InsertsUnderWay
<1>6. \A d \in InsertsUnderWay : d \in Clients /\ newid'[d] = newid[d]
                                /\ newid[d] \in 1..(auto_increment - 1)
  BY <1>1, <1>2, <1>5 DEF InsertsUnderWay, IInv, IdInv
<1>7. newid'[c] = auto_increment
  BY <1>1, <1>2
<1>8. \A r \in users : r.userid \in Nat /\ r.userid < auto_increment
  BY DEF IInv, TypeOK, IdInv, Row
<1>9. IdInv'
  <2>1. \A r \in users' : r.userid < auto_increment'
    BY <1>1, <1>2, <1>8
  <2>2. \A r, s \in users' : r.userid = s.userid => r = s
    BY <1>1 DEF IInv, IdInv
  <2>3. ASSUME NEW d \in InsertsUnderWay'
        PROVE  /\ newid'[d] \in 1..(auto_increment' - 1)
               /\ \A r \in users' : r.userid # newid'[d]
               /\ \A e \in InsertsUnderWay' : newid'[d] = newid'[e] => d = e
    <3>1. CASE d = c
      BY <1>1, <1>2, <1>5, <1>6, <1>7, <1>8, <3>1
    <3>2. CASE d # c
      <4>1. d \in InsertsUnderWay
        BY <1>5, <3>2
      <4>2. newid'[d] \in 1..(auto_increment' - 1)
        BY <1>1, <1>2, <1>6, <4>1
      <4>3. \A r \in users' : r.userid # newid'[d]
        BY <1>1, <1>6, <4>1 DEF IInv, IdInv
      <4>4. \A e \in InsertsUnderWay' : newid'[d] = newid'[e] => d = e
        BY <1>2, <1>5, <1>6, <1>7, <4>1 DEF IInv, IdInv
      <4>. QED  BY <4>2, <4>3, <4>4
    <3>. QED  BY <3>1, <3>2
  <2>. QED  BY <2>1, <2>2, <2>3 DEF IdInv
<1>10. GapInv'
  <2>. SUFFICES ASSUME NEW id \in 1..(auto_increment' - 1)
                PROVE  id \in Ids' \cup undone' \cup {newid'[d] : d \in InsertsUnderWay'}
    BY DEF GapInv
  <2>1. Ids' = Ids /\ undone' = undone
    BY <1>1 DEF Ids
  <2>2. CASE id = auto_increment
    BY <1>5, <1>7, <2>2
  <2>3. CASE id # auto_increment
    <3>1. id \in 1..(auto_increment - 1)
      BY <1>1, <1>2, <2>3
    <3>2. CASE id \in Ids \cup undone
      BY <2>1, <3>2
    <3>3. CASE \E d \in InsertsUnderWay : id = newid[d]
      BY <1>5, <1>6, <3>3
    <3>. QED  BY <3>1, <3>2, <3>3 DEF IInv, GapInv
  <2>. QED  BY <2>2, <2>3
<1>11. AcknowledgedIsStored' /\ KnowsAPrefix' /\ AskedInv' /\ LoginIsOwnAccount'
  BY <1>1 DEF IInv, AcknowledgedIsStored, Matching, KnowsAPrefix, AskedInv,
              LoginIsOwnAccount
<1>12. AsksForGiven'
  <2>. SUFFICES ASSUME NEW d \in Clients, pc'[d] = "fetch"
                PROVE  pk'[d].revision + 1 < auto_increment'
    BY DEF AsksForGiven
  <2>1. pc[d] = "fetch" /\ pk'[d] = pk[d]
    BY <1>1, <1>2
  <2>2. pk[d].revision + 1 < auto_increment
    BY <2>1 DEF IInv, AsksForGiven
  <2>3. pk[d].revision \in Nat
    BY <2>1, RequestFacts DEF IInv, TypeOK, PlaceInv
  <2>. QED  BY <1>1, <1>2, <2>1, <2>2, <2>3
<1>. QED  BY <1>3, <1>4, <1>9, <1>10, <1>11, <1>12 DEF IInv

\* The rows of some of the INSERTs under way are added to the table, and the
\* INSERTs that are left under way are others.
LEMMA RowsAdded ==
    ASSUME IInv, NEW done \in SUBSET InsertsUnderWay,
           users' = users \cup {NewRow(d) : d \in done},
           auto_increment' = auto_increment,
           InsertsUnderWay' \in SUBSET (InsertsUnderWay \ done),
           \A d \in InsertsUnderWay' : newid'[d] = newid[d]
    PROVE  /\ users' \subseteq Row /\ IsFiniteSet(users') /\ IdInv'
           /\ \A d \in done : NewRow(d) \in Row
<1>1. \A d \in InsertsUnderWay :
        /\ d \in Clients /\ pk[d].data \in Credentials
        /\ newid[d] \in 1..(auto_increment - 1) /\ newid[d] \in Nat \ {0}
        /\ NewRow(d).userid = newid[d]
  BY DEF IInv, TypeOK, PlaceInv, IdInv, InsertsUnderWay, NewRow
<1>2. \A d \in InsertsUnderWay : NewRow(d) \in Row
  BY <1>1 DEF NewRow, Row, Credentials
<1>3. IsFiniteSet(users')
  <2>. DEFINE f == [d \in done |-> NewRow(d)]
  <2>1. IsFiniteSet(done)
    BY DirectoryAssumption, FS_Subset DEF InsertsUnderWay
  <2>2. f \in Surjection(done, {NewRow(d) : d \in done})
    BY DEF Surjection
  <2>3. IsFiniteSet({NewRow(d) : d \in done})
    BY <2>1, <2>2, FS_Surjection
  <2>. QED  BY <2>3, FS_Union DEF IInv, TypeOK
<1>4. users' \subseteq Row
  BY <1>2 DEF IInv, TypeOK
<1>5. \A r \in users' : r.userid < auto_increment'
  <2>1. auto_increment \in Nat
    BY DEF IInv, TypeOK
  <2>. QED  BY <1>1, <2>1 DEF IInv, IdInv
<1>6. \A r, s \in users' : r.userid = s.userid => r = s
  BY <1>1 DEF IInv, IdInv
<1>7. \A d \in InsertsUnderWay' :
        /\ newid'[d] \in 1..(auto_increment' - 1)
        /\ \A r \in users' : r.userid # newid'[d]
        /\ \A e \in InsertsUnderWay' : newid'[d] = newid'[e] => d = e
  BY <1>1 DEF IInv, IdInv
<1>. QED  BY <1>2, <1>3, <1>4, <1>5, <1>6, <1>7 DEF IdInv

LEMMA IdsGrow ==
    ASSUME NEW r, users' = users \cup {r}
    PROVE  Ids' = Ids \cup {r.userid}
  BY DEF Ids

LEMMA CommitKeeps == ASSUME IInv, NEW c \in Clients, Commit(c) PROVE IInv'
<1>1. /\ pc[c] = "commit" /\ users' = users \cup {NewRow(c)}
      /\ promised' = promised \cup {pk[c].data}
      /\ newid' = [newid EXCEPT ![c] = 0]
      /\ pc' = [pc EXCEPT ![c] = "idle"] /\ pk' = [pk EXCEPT ![c] = None]
      /\ UNCHANGED <<auto_increment, undone, userid, user_auth, revision_number, addrs, sent,
                     known, account, asked, fault>>
  BY DEF Commit, Return, Goto, blockVars, clientVars
<1>2. newid \in [Clients -> Nat] /\ pc \in [Clients -> Places]
      /\ pk \in [Clients -> Request \cup {None}] /\ auto_increment \in Nat \ {0}
  BY DEF IInv, TypeOK
<1>3. c \in InsertsUnderWay /\ InsertsUnderWay' = InsertsUnderWay \ {c}
  BY <1>1, <1>2 DEF InsertsUnderWay
<1>4. \A d \in InsertsUnderWay' : newid'[d] = newid[d]
  BY <1>1, <1>2, <1>3 DEF InsertsUnderWay
<1>5. users' \subseteq Row /\ IsFiniteSet(users') /\ IdInv' /\ NewRow(c) \in Row
  <2>1. users' = users \cup {NewRow(d) : d \in {c}}
    BY <1>1
  <2>. QED  BY <1>1, <1>3, <1>4, <2>1, RowsAdded
<1>6. pk[c].data \in Credentials
  BY <1>1 DEF IInv, PlaceInv
<1>7. TypeOK'
  BY <1>1, <1>2, <1>5, <1>6 DEF IInv, TypeOK, Places
<1>8. PlaceInv'
  BY <1>1, <1>2 DEF IInv, PlaceInv
<1>9. GapInv'
  <2>. SUFFICES ASSUME NEW id \in 1..(auto_increment - 1)
                PROVE  id \in Ids' \cup undone' \cup {newid'[d] : d \in InsertsUnderWay'}
    BY <1>1 DEF GapInv
  <2>1. Ids' = Ids \cup {newid[c]}
    <3>1. Ids' = Ids \cup {NewRow(c).userid}
      BY <1>1, IdsGrow
    <3>2. NewRow(c).userid = newid[c]
      BY DEF NewRow
    <3>. QED  BY <3>1, <3>2
  <2>2. CASE id \in Ids \cup undone
    BY <1>1, <2>1, <2>2
  <2>3. CASE \E d \in InsertsUnderWay : id = newid[d]
    BY <1>3, <1>4, <2>1, <2>3
  <2>. QED  BY <2>2, <2>3 DEF IInv, GapInv
<1>10. AcknowledgedIsStored'
  <2>1. NewRow(c).username = pk[c].data.username
        /\ NewRow(c).userpasswd = pk[c].data.userpasswd
    BY DEF NewRow
  <2>. QED  BY <1>1, <2>1 DEF IInv, AcknowledgedIsStored, Matching
<1>11. AsksForGiven'
  <2>. SUFFICES ASSUME NEW d \in Clients, pc'[d] = "fetch"
                PROVE  pk'[d].revision + 1 < auto_increment
    BY <1>1 DEF AsksForGiven
  <2>1. d # c /\ pc[d] = "fetch" /\ pk'[d] = pk[d]
    BY <1>1, <1>2
  <2>. QED  BY <2>1 DEF IInv, AsksForGiven
<1>12. KnowsAPrefix' /\ AskedInv' /\ LoginIsOwnAccount'
  BY <1>1 DEF IInv, KnowsAPrefix, AskedInv, LoginIsOwnAccount, Matching
<1>. QED  BY <1>5, <1>7, <1>8, <1>9, <1>10, <1>11, <1>12 DEF IInv

\* After a restart no thread is anywhere; what is left are the tables and what
\* the clients know.
LEMMA RestartKeeps == ASSUME IInv, Restart PROVE IInv'
<1>1. PICK done \in SUBSET InsertsUnderWay :
        /\ users' = users \cup {NewRow(d) : d \in done}
        /\ undone' = undone \cup {newid[d] : d \in InsertsUnderWay \ done}
  BY DEF Restart
<1>2. /\ fault' = "none" /\ addrs' = {}
      /\ pc' = [d \in Clients |-> "gone"] /\ newid' = [d \in Clients |-> 0]
      /\ pk' = [d \in Clients |-> None]
      /\ user_auth' = [d \in Clients |-> "USER_NOT_AUTH"]
      /\ UNCHANGED <<auto_increment, userid, revision_number, sent, known, account, asked, promised>>
  BY DEF Restart, clientVars
<1>3. InsertsUnderWay' = {}
  BY <1>2 DEF InsertsUnderWay
<1>4. auto_increment \in Nat \ {0} /\ newid \in [Clients -> Nat]
  BY DEF IInv, TypeOK
<1>5. users' \subseteq Row /\ IsFiniteSet(users') /\ IdInv'
  BY <1>1, <1>2, <1>3, RowsAdded
<1>6. undone' \subseteq Nat
  BY <1>1, <1>4 DEF IInv, TypeOK, InsertsUnderWay
<1>7. users \subseteq users'
  BY <1>1
<1>8. GapInv'
  <2>. SUFFICES ASSUME NEW id \in 1..(auto_increment - 1)
                PROVE  id \in Ids' \cup undone'
    BY <1>2 DEF GapInv
  <2>1. CASE id \in Ids \cup undone
    BY <1>1, <1>7, <2>1 DEF Ids
  <2>2. ASSUME NEW d \in InsertsUnderWay, id = newid[d]
        PROVE  id \in Ids' \cup undone'
    <3>1. CASE d \in done
      <4>1. NewRow(d) \in users' /\ NewRow(d).userid = id
        BY <1>1, <2>2, <3>1 DEF NewRow
      <4>. QED  BY <4>1 DEF Ids
    <3>2. CASE d \notin done
      BY <1>1, <2>2, <3>2
    <3>. QED  BY <3>1, <3>2
  <2>. QED  BY <2>1, <2>2 DEF IInv, GapInv
<1>9. TypeOK'
  BY <1>2, <1>5, <1>6 DEF IInv, TypeOK, Places
<1>10. AcknowledgedIsStored' /\ KnowsAPrefix' /\ AskedInv'
  BY <1>2, <1>7 DEF IInv, AcknowledgedIsStored, Matching, KnowsAPrefix, AskedInv
<1>11. PlaceInv' /\ AsksForGiven' /\ LoginIsOwnAccount'
  BY <1>2 DEF PlaceInv, AsksForGiven, LoginIsOwnAccount
<1>. QED  BY <1>5, <1>8, <1>9, <1>10, <1>11 DEF IInv

-----------------------------------------------------------------------------
LEMMA InitIInv == Init => IInv
<1>. SUFFICES ASSUME Init PROVE IInv
  OBVIOUS
<1>1. TypeOK
  BY FS_EmptySet, DirectoryAssumption DEF Init, TypeOK, Places, Row
<1>2. InsertsUnderWay = {}
  BY DEF Init, InsertsUnderWay
<1>3. IdInv /\ GapInv
  BY <1>2 DEF Init, IdInv, GapInv, Ids
<1>4. PlaceInv /\ AskedInv /\ AcknowledgedIsStored /\ AsksForGiven /\ KnowsAPrefix
      /\ LoginIsOwnAccount
  BY DEF Init, PlaceInv, AskedInv, AcknowledgedIsStored, AsksForGiven, KnowsAPrefix,
         LoginIsOwnAccount
<1>. QED  BY <1>1, <1>3, <1>4 DEF IInv

LEMMA NextIInv == IInv /\ [Next]_vars => IInv'
<1>. SUFFICES ASSUME IInv, [Next]_vars PROVE IInv'
  OBVIOUS
<1>1. CASE UNCHANGED vars
  <2>. USE <1>1 DEF vars, tableVars, threadVars, blockVars, clientVars
  <2>1. TypeOK'
    BY DEF IInv, TypeOK
  <2>2. IdInv' /\ GapInv' /\ AcknowledgedIsStored'
    BY SameTable
  <2>3. PlaceInv' /\ AsksForGiven' /\ KnowsAPrefix' /\ AskedInv' /\ LoginIsOwnAccount'
    BY DEF IInv, PlaceInv, AsksForGiven, KnowsAPrefix, AskedInv,
           LoginIsOwnAccount, Matching
  <2>. QED  BY <2>1, <2>2, <2>3 DEF IInv
<1>2. ASSUME NEW c \in Clients, ThreadStep(c) PROVE IInv'
  BY <1>2, RegSelectKeeps, AllocateKeeps, CommitKeeps, AuthenticateKeeps, RefuseKeeps,
     CountUsersKeeps, FetchUserKeeps, CleanupKeeps, QueryFailsKeeps DEF ThreadStep
<1>3. ASSUME NEW c \in Clients, ClientStep(c) PROVE IInv'
  BY <1>3, ConnectKeeps, ClientSendKeeps, LeaveKeeps DEF ClientStep
<1>4. CASE Restart
  BY <1>4, RestartKeeps
<1>. QED  BY <1>1, <1>2, <1>3, <1>4 DEF Next

THEOREM InvariantAlways == Spec => []IInv
  BY InitIInv, NextIInv, PTL DEF Spec

-----------------------------------------------------------------------------
\* The variables keep their types.
THEOREM TypeCorrect == Spec => []TypeOK
  BY InvariantAlways, PTL DEF IInv

\* A registration that was acknowledged is in the table.
THEOREM AcknowledgedAlways == Spec => []AcknowledgedIsStored
  BY InvariantAlways, PTL DEF IInv

\* A client knows the first users of the table, in order.
THEOREM KnowsAPrefixAlways == Spec => []KnowsAPrefix
  BY InvariantAlways, PTL DEF IInv

\* A client is logged in to an account whose name and password it gave.
THEOREM LoginIsOwnAlways == Spec => []LoginIsOwnAccount
  BY InvariantAlways, PTL DEF IInv

\* The row that GET_ALL_USERS asks for is there, or its userid was given to an
\* INSERT that is still under way or was undone.
LEMMA GivenIsAccounted == IInv => FetchFindsRow
<1>. SUFFICES ASSUME IInv, NEW c \in Clients, pc[c] = "fetch", NextUser(c) = {}
              PROVE  pk[c].revision + 1 \in undone \cup {newid[d] : d \in InsertsUnderWay}
  BY DEF FetchFindsRow
<1>1. pk[c].revision \in Nat /\ auto_increment \in Nat
  BY RequestFacts DEF IInv, TypeOK, PlaceInv
<1>2. pk[c].revision + 1 \in 1..(auto_increment - 1)
  BY <1>1 DEF IInv, AsksForGiven
<1>3. pk[c].revision + 1 \notin Ids
  BY DEF NextUser, Ids
<1>. QED  BY <1>2, <1>3 DEF IInv, GapInv

\* GET_ALL_USERS misses the row it asks for only when INSERTs overtook each
\* other or were undone, whatever the order in which they end.
THEOREM FetchFindsRowAlways == Spec => []FetchFindsRow
  BY InvariantAlways, GivenIsAccounted, PTL

\* A client that is told it knows all users knows those that were in the table
\* when it asked.
THEOREM FinMeansUpToDateAlways == Spec => FinMeansUpToDate
<1>. DEFINE Told == \A c \in Clients :
        Interprets(c, "GET_ALL_USERS") /\ pc'[c] = "idle" /\ pk'[c] = None
            => asked[c] \subseteq {known[c][i] : i \in DOMAIN known[c]}
<1>1. IInv /\ [Next]_vars => [Told]_vars
  <2>. SUFFICES ASSUME IInv, Next, NEW c \in Clients, Interprets(c, "GET_ALL_USERS"),
                       pc'[c] = "idle", pk'[c] = None
                PROVE  asked[c] \subseteq Known(c)
    BY DEF Known
  <2>1. pc[c] = "idle" /\ pk[c] # None /\ pk[c].type = "GET_ALL_USERS"
        /\ pk \in [Clients -> Request \cup {None}] /\ pc \in [Clients -> Places]
    BY DEF Interprets, IInv, TypeOK
  <2>2. CountUsers(c)
    <3>1. ~Restart
      BY DEF Restart
    <3>2. ASSUME NEW d \in Clients, d # c
          PROVE  ~ThreadStep(d) /\ ~ClientStep(d)
      <4>1. ASSUME pk' = pk \/ \E x : pk' = [pk EXCEPT ![d] = x]
            PROVE  FALSE
        BY <2>1, <3>2, <4>1
      <4>2. ~RegSelect(d) /\ ~Allocate(d) /\ ~Commit(d) /\ ~Authenticate(d)
            /\ ~RefuseUnauthenticated(d) /\ ~CountUsers(d) /\ ~FetchUser(d)
        BY <4>1 DEF RegSelect, Allocate, Commit, Authenticate, RefuseUnauthenticated,
                    CountUsers, FetchUser, Return, End
      <4>3. ~Cleanup(d) /\ ~QueryFails(d) /\ ~Connect(d) /\ ~ClientSend(d) /\ ~Leave(d)
        BY <4>1 DEF Cleanup, QueryFails, Connect, ClientSend, Leave, End
      <4>. QED  BY <4>2, <4>3 DEF ThreadStep, ClientStep
    <3>3. ~ClientStep(c)
      BY <2>1 DEF ClientStep, Connect, ClientSend, Leave
    <3>4. ~RegSelect(c) /\ ~Allocate(c) /\ ~Commit(c) /\ ~Authenticate(c)
          /\ ~FetchUser(c) /\ ~Cleanup(c) /\ ~QueryFails(c)
      BY <2>1 DEF RegSelect, Allocate, Commit, Authenticate, FetchUser, Cleanup,
                  QueryFails, Interprets
    <3>5. ~RefuseUnauthenticated(c)
      BY <2>1 DEF RefuseUnauthenticated, End, Goto
    <3>. QED  BY <3>1, <3>2, <3>3, <3>4, <3>5 DEF Next, ThreadStep
  <2>3. ~Behind(c, Cardinality(users))
    BY <2>1, <2>2 DEF CountUsers
  <2>4. pk[c].revision = Len(known[c]) /\ pk[c].revision \in Nat
        /\ Cardinality(users) \in Nat
    BY <2>1, RequestFacts, FS_CardinalityType DEF IInv, TypeOK, PlaceInv
  <2>5. Cardinality(users) <= Len(known[c])
    BY <2>3, <2>4 DEF Behind
  <2>6. users \subseteq Known(c)
    BY <2>5, KnowsAll DEF IInv
  <2>. QED  BY <2>6 DEF IInv, AskedInv
<1>. QED  BY <1>1, InvariantAlways, PTL DEF Spec, FinMeansUpToDate

-----------------------------------------------------------------------------
(* Copies of an account.  registrator tests and inserts in two queries; but *)
(* a thread that will still insert an account has found none of it, so the  *)
(* copies and the threads about to make one more are never more than the    *)
(* connections.                                                             *)

Inserting(data) ==
    {c \in Clients : pc[c] \in {"insert", "commit"} /\ pk[c].data = data}

CopiesInv ==
    \A data \in Credentials :
        Cardinality(Matching(data)) + Cardinality(Inserting(data)) <= Cardinality(Clients)

LEMMA FiniteCopies ==
    ASSUME TypeOK, NEW data
    PROVE  /\ IsFiniteSet(Matching(data)) /\ Cardinality(Matching(data)) \in Nat
           /\ IsFiniteSet(Inserting(data)) /\ Cardinality(Inserting(data)) \in Nat
           /\ Cardinality(Inserting(data)) <= Cardinality(Clients)
           /\ Cardinality(Clients) \in Nat
<1>1. IsFiniteSet(users) /\ Matching(data) \in SUBSET users
  BY DEF TypeOK, Matching
<1>2. IsFiniteSet(Clients) /\ Inserting(data) \in SUBSET Clients
  BY DirectoryAssumption DEF Inserting
<1>. QED  BY <1>1, <1>2, FS_Subset, FS_CardinalityType

\* The steps that neither add rows nor begin a registration.
LEMMA NoMoreCopies ==
    ASSUME TypeOK, CopiesInv, users' = users,
           \A data \in Credentials : Inserting(data)' \subseteq Inserting(data)
    PROVE  CopiesInv'
<1>. SUFFICES ASSUME NEW data \in Credentials
              PROVE  Cardinality(Matching(data)') + Cardinality(Inserting(data)')
                        <= Cardinality(Clients)
  BY DEF CopiesInv
<1>1. Matching(data)' = Matching(data)
  BY DEF Matching
<1>2. /\ Cardinality(Inserting(data)') <= Cardinality(Inserting(data))
      /\ Cardinality(Inserting(data)') \in Nat
  <2>1. Inserting(data)' \in SUBSET Inserting(data)
    OBVIOUS
  <2>2. IsFiniteSet(Inserting(data))
    BY FiniteCopies
  <2>3. IsFiniteSet(Inserting(data)')
    BY <2>1, <2>2, FS_Subset
  <2>. QED  BY <2>1, <2>2, <2>3, FS_Subset, FS_CardinalityType
<1>3. Cardinality(Matching(data)) + Cardinality(Inserting(data)) <= Cardinality(Clients)
  BY DEF CopiesInv
<1>. QED  BY <1>1, <1>2, <1>3, FiniteCopies

\* A thread begins a registration only if the account is not there.
LEMMA RegSelectCopies ==
    ASSUME TypeOK, CopiesInv, NEW c \in Clients, RegSelect(c), TypeOK'
    PROVE  CopiesInv'
<1>1. users' = users /\ pc \in [Clients -> Places]
  BY DEF RegSelect, tableVars, TypeOK
<1>2. CASE Return(c)
  <2>1. \A data \in Credentials : Inserting(data)' \subseteq Inserting(data)
    BY <1>1, <1>2 DEF Return, Goto, Inserting, RegSelect, Interprets, TypeOK
  <2>. QED  BY <1>1, <2>1, NoMoreCopies
<1>3. CASE ~Taken(pk[c].data) /\ Goto(c, "insert") /\ UNCHANGED pk
  <2>. SUFFICES ASSUME NEW data \in Credentials
                PROVE  Cardinality(Matching(data)') + Cardinality(Inserting(data)')
                          <= Cardinality(Clients)
    BY DEF CopiesInv
  <2>1. Matching(data)' = Matching(data)
    BY <1>1 DEF Matching
  <2>2. CASE data = pk[c].data
    <3>1. Matching(data) = {}
      BY <1>3, <2>2 DEF Taken
    <3>2. Cardinality(Matching(data)') = 0
      BY <2>1, <3>1, FS_EmptySet
    <3>3. /\ Cardinality(Inserting(data)') <= Cardinality(Clients)
          /\ Cardinality(Inserting(data)') \in Nat
      <4>1. IsFiniteSet(Clients) /\ Inserting(data)' \in SUBSET Clients
        BY DirectoryAssumption DEF Inserting
      <4>. QED  BY <4>1, FS_Subset, FS_CardinalityType
    <3>. QED  BY <3>2, <3>3, FiniteCopies
  <2>3. CASE data # pk[c].data
    <3>1. Inserting(data)' = Inserting(data)
      BY <1>1, <1>3, <2>3 DEF Goto, Inserting
    <3>. QED  BY <2>1, <3>1 DEF CopiesInv
  <2>. QED  BY <2>2, <2>3
<1>. QED  BY <1>2, <1>3 DEF RegSelect

\* A thread that adds a row is no longer about to.
LEMMA CommitCopies ==
    ASSUME IInv, CopiesInv, NEW c \in Clients, Commit(c)
    PROVE  CopiesInv'
<1>. SUFFICES ASSUME NEW data \in Credentials
              PROVE  Cardinality(Matching(data)') + Cardinality(Inserting(data)')
                        <= Cardinality(Clients)
  BY DEF CopiesInv
<1>1. /\ pc[c] = "commit" /\ users' = users \cup {NewRow(c)}
      /\ pc' = [pc EXCEPT ![c] = "idle"] /\ pk' = [pk EXCEPT ![c] = None]
      /\ pc \in [Clients -> Places] /\ TypeOK
  BY DEF Commit, Return, Goto, IInv, TypeOK
<1>2. Cardinality(Matching(data)) + Cardinality(Inserting(data)) <= Cardinality(Clients)
  BY DEF CopiesInv
<1>3. Inserting(data)' = Inserting(data) \ {c}
  BY <1>1 DEF Inserting, IInv, TypeOK
<1>4. CASE pk[c].data = data
  <2>1. c \in Inserting(data)
    BY <1>1, <1>4 DEF Inserting
  <2>2. Cardinality(Inserting(data)') = Cardinality(Inserting(data)) - 1
    BY <1>1, <1>3, <2>1, FiniteCopies, FS_RemoveElement
  <2>3. Matching(data)' = Matching(data) \cup {NewRow(c)}
    BY <1>1, <1>4 DEF Matching, NewRow, Credentials
  <2>4. /\ Cardinality(Matching(data)') <= Cardinality(Matching(data)) + 1
        /\ Cardinality(Matching(data)') \in Nat
    <3>1. Cardinality(Matching(data) \cup {NewRow(c)}) <= Cardinality(Matching(data)) + 1
          /\ Cardinality(Matching(data) \cup {NewRow(c)}) \in Nat
      <4>1. IsFiniteSet(Matching(data)) /\ Cardinality(Matching(data)) \in Nat
        BY <1>1, FiniteCopies
      <4>2. Cardinality(Matching(data) \cup {NewRow(c)})
              \in {Cardinality(Matching(data)), Cardinality(Matching(data)) + 1}
        BY <4>1, FS_AddElement
      <4>. QED  BY <4>1, <4>2
    <3>. QED  BY <2>3, <3>1
  <2>. QED  BY <1>1, <1>2, <2>2, <2>4, FiniteCopies
<1>5. CASE pk[c].data # data
  <2>1. Inserting(data)' = Inserting(data)
    BY <1>3, <1>5 DEF Inserting
  <2>2. pk[c].data \in Credentials
    BY <1>1 DEF IInv, PlaceInv
  <2>3. NewRow(c).username # data.username \/ NewRow(c).userpasswd # data.userpasswd
    BY <1>5, <2>2 DEF NewRow, Credentials
  <2>4. Matching(data)' = Matching(data)
    BY <1>1, <2>3 DEF Matching
  <2>. QED  BY <1>2, <2>1, <2>4
<1>. QED  BY <1>4, <1>5

\* Of the INSERTs that a crash finds under way, each adds at most its own row.
LEMMA RestartCopies ==
    ASSUME IInv, CopiesInv, Restart
    PROVE  CopiesInv'
<1>. SUFFICES ASSUME NEW data \in Credentials
              PROVE  Cardinality(Matching(data)') + Cardinality(Inserting(data)')
                        <= Cardinality(Clients)
  BY DEF CopiesInv
<1>1. PICK done \in SUBSET InsertsUnderWay : users' = users \cup {NewRow(d) : d \in done}
  BY DEF Restart
<1>. DEFINE mine == {d \in done : pk[d].data = data}
            rows == {NewRow(d) : d \in mine}
<1>2. Inserting(data)' = {}
  BY DEF Restart, Inserting
<1>3. \A d \in done : d \in Clients /\ pc[d] = "commit" /\ pk[d].data \in Credentials
  BY DEF InsertsUnderWay, IInv, PlaceInv
<1>4. mine \in SUBSET Inserting(data)
  BY <1>3 DEF Inserting
<1>5. Matching(data)' \in SUBSET (Matching(data) \cup rows)
  <2>1. \A d \in done : NewRow(d).username = data.username
                        /\ NewRow(d).userpasswd = data.userpasswd => d \in mine
    BY <1>3 DEF NewRow, Credentials
  <2>. HIDE DEF mine
  <2>. QED  BY <1>1, <2>1 DEF Matching
<1>6. /\ IsFiniteSet(Matching(data)) /\ Cardinality(Matching(data)) \in Nat
      /\ IsFiniteSet(Inserting(data)) /\ Cardinality(Inserting(data)) \in Nat
      /\ Cardinality(Clients) \in Nat
  BY FiniteCopies DEF IInv
<1>. HIDE DEF mine
<1>7. IsFiniteSet(mine) /\ Cardinality(mine) <= Cardinality(Inserting(data))
      /\ Cardinality(mine) \in Nat
  BY <1>4, <1>6, FS_Subset, FS_CardinalityType
<1>8. IsFiniteSet(rows) /\ Cardinality(rows) <= Cardinality(mine) /\ Cardinality(rows) \in Nat
  <2>. DEFINE f == [d \in mine |-> NewRow(d)]
  <2>1. f \in Surjection(mine, rows)
    BY DEF Surjection
  <2>. HIDE DEF f, rows
  <2>. QED  BY <1>7, <2>1, FS_Surjection, FS_CardinalityType
<1>. HIDE DEF rows
<1>9. /\ IsFiniteSet(Matching(data) \cup rows)
      /\ Cardinality(Matching(data) \cup rows) <= Cardinality(Matching(data)) + Cardinality(rows)
      /\ Cardinality(Matching(data) \cup rows) \in Nat
  <2>1. Cardinality(Matching(data) \cap rows) \in Nat
    BY <1>6, <1>8, FS_Intersection, FS_CardinalityType
  <2>2. Cardinality(Matching(data) \cup rows) =
           Cardinality(Matching(data)) + Cardinality(rows) - Cardinality(Matching(data) \cap rows)
    BY <1>6, <1>8, FS_Union
  <2>. QED  BY <1>6, <1>8, <2>1, <2>2, FS_Union, FS_CardinalityType
<1>10. Cardinality(Matching(data)') <= Cardinality(Matching(data) \cup rows)
       /\ Cardinality(Matching(data)') \in Nat
  BY <1>5, <1>9, FS_Subset, FS_CardinalityType
<1>11. Cardinality(Matching(data)) + Cardinality(Inserting(data)) <= Cardinality(Clients)
  BY DEF CopiesInv
<1>12. Cardinality(Inserting(data)') = 0
  BY <1>2, FS_EmptySet
<1>. QED  BY <1>6, <1>7, <1>8, <1>9, <1>10, <1>11, <1>12

LEMMA NextCopies == IInv /\ CopiesInv /\ [Next]_vars => CopiesInv'
<1>. SUFFICES ASSUME IInv, CopiesInv, [Next]_vars PROVE CopiesInv'
  OBVIOUS
<1>0. TypeOK /\ TypeOK'
  BY NextIInv DEF IInv
<1>1. CASE UNCHANGED vars
  BY <1>0, <1>1, NoMoreCopies DEF vars, tableVars, threadVars, Inserting
<1>2. CASE Restart
  BY <1>2, RestartCopies
<1>3. ASSUME NEW c \in Clients, Allocate(c) PROVE CopiesInv'
  <2>1. \A data \in Credentials : Inserting(data)' \subseteq Inserting(data)
    BY <1>0, <1>3 DEF Allocate, Goto, Inserting, TypeOK
  <2>. QED  BY <1>0, <1>3, <2>1, NoMoreCopies DEF Allocate
<1>4. ASSUME NEW c \in Clients,
             \/ Authenticate(c) \/ RefuseUnauthenticated(c) \/ CountUsers(c) \/ FetchUser(c)
             \/ Cleanup(c) \/ QueryFails(c) \/ ClientStep(c)
      PROVE  CopiesInv'
  <2>1. users' = users
    BY <1>4 DEF Authenticate, RefuseUnauthenticated, CountUsers, FetchUser, Cleanup,
                QueryFails, ClientStep, Connect, ClientSend, Leave, tableVars
  <2>2. /\ UNCHANGED <<pc, pk>> \/ pc[c] \notin {"insert", "commit"}
        /\ \/ UNCHANGED pc
           \/ \E to \in Places \ {"insert", "commit"} : pc' = [pc EXCEPT ![c] = to]
        /\ UNCHANGED pk \/ \E p : pk' = [pk EXCEPT ![c] = p]
    BY <1>4 DEF Authenticate, RefuseUnauthenticated, CountUsers, FetchUser, Cleanup,
                QueryFails, ClientStep, Connect, ClientSend, Leave, threadVars, Interprets,
                End, Return, Goto, Places
  <2>3. \A data \in Credentials : Inserting(data)' \subseteq Inserting(data)
    BY <1>0, <2>2 DEF Inserting, TypeOK
  <2>. QED  BY <1>0, <2>1, <2>3, NoMoreCopies
<1>. QED
  BY <1>0, <1>1, <1>2, <1>3, <1>4, RegSelectCopies, CommitCopies DEF Next, ThreadStep

\* An account is never in the table more often than there are connections:
\* the two queries of registrator race, but only among those that began before
\* the first of them was done, also when the server dies in between.
THEOREM DuplicatesBoundedAlways == Spec => []DuplicatesBounded
<1>1. Init => CopiesInv
  <2>. SUFFICES ASSUME Init, NEW data \in Credentials
                PROVE  Cardinality(Matching(data)) + Cardinality(Inserting(data))
                          <= Cardinality(Clients)
    BY DEF CopiesInv
  <2>1. Matching(data) = {} /\ Inserting(data) = {}
    BY DEF Init, Matching, Inserting
  <2>. QED  BY <2>1, FS_EmptySet, FS_CardinalityType, DirectoryAssumption
<1>2. IInv /\ CopiesInv => DuplicatesBounded
  <2>. SUFFICES ASSUME IInv, CopiesInv, NEW data \in Credentials
                PROVE  Cardinality(Matching(data)) <= Cardinality(Clients)
    BY DEF DuplicatesBounded
  <2>. QED  BY FiniteCopies DEF IInv, CopiesInv
<1>3. IInv /\ CopiesInv /\ [Next]_vars => (IInv /\ CopiesInv)'
  BY NextIInv, NextCopies
<1>. QED  BY <1>1, <1>2, <1>3, InitIInv, PTL DEF Spec
=============================================================================
