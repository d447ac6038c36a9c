----------------------------- MODULE AddrTable -----------------------------
(***************************************************************************)
(* The address table (addr_table.c): a sorted array of userids with the    *)
(* block that serves each, searched by bisection, and the threads that use *)
(* it.  Every access to the array or to its length is a step, because the  *)
(* callers protect the table unevenly: look-ups and removals hold          *)
(* addrTable_mutex, while authenticator looks up without it and, where it  *)
(* means to lock, unlocks it.  What follows from that is part of the       *)
(* model; two history variables remember that it has happened.             *)
(***************************************************************************)
EXTENDS Integers

CONSTANTS
    Threads,        \* the threads, each with one thread_block
    Users,          \* the userids of the accounts
    None,           \* the NULL pointer
    MaxSize         \* MAX_ADDR_TABLE_SIZE

NoUser == -1

ASSUME TableAssumption ==
    /\ Users \subseteq Nat \ {0}
    /\ None \notin Threads
    /\ MaxSize \in Nat

\* What a packet may ask for: also an id that no account has.
Keys == Users \cup {NoUser, 0}

Cell == [userid : Users \cup {0}, addr_ : Threads \cup {None}]
Zero == [userid |-> 0, addr_ |-> None]

\* The indices of the array, and two after them: there is no step that reads
\* or writes those (LeavesArray), so they stay zero.
Array == 0..(MaxSize - 1)
Cells == 0..(MaxSize + 1)

VARIABLES
    addrs,          \* the array, zeroed at the start
    addrTable_len,
    mutex,          \* who has locked addrTable_mutex
    session,        \* "new", "in" or "refused", "gone": has t logged in, left?
    userid,         \* the userid of the block of t
    op, pc,         \* the operation of t and where it is
    key, low, hi,   \* binary_search
    k,              \* the index the search found; the index of the loops
    overlapped,     \* history: a login and another operation were under way at once
    opened          \* history: a thread unlocked the mutex that another one held

historyVars == <<overlapped, opened>>
globalVars == <<addrs, addrTable_len, mutex, historyVars>>
searchVars == <<key, low, hi>>
vars == <<globalVars, session, userid, op, pc, searchVars, k>>

Init ==
    /\ addrs = [i \in Cells |-> Zero]
    /\ addrTable_len = 0
    /\ mutex = None
    /\ session = [t \in Threads |-> "new"]
    /\ userid = [t \in Threads |-> NoUser]
    /\ op = [t \in Threads |-> "none"]
    /\ pc = [t \in Threads |-> "idle"]
    /\ key = [t \in Threads |-> 0]
    /\ low = [t \in Threads |-> 0]
    /\ hi = [t \in Threads |-> 0]
    /\ k = [t \in Threads |-> 0]
    /\ overlapped = FALSE
    /\ opened = FALSE

-----------------------------------------------------------------------------
Goto(t, place) == pc' = [pc EXCEPT ![t] = place]

\* Does the operation of another thread go on, other than waiting for the lock?
OthersBusy(t) == \E u \in Threads \ {t} : pc[u] \notin {"idle", "lock"}

OthersLogIn(t) == \E u \in Threads \ {t} : pc[u] # "idle" /\ op[u] = "login"

Start(t, name, id, place) ==
    /\ pc[t] = "idle"
    /\ op' = [op EXCEPT ![t] = name]
    /\ key' = [key EXCEPT ![t] = id]
    /\ Goto(t, place)
    /\ UNCHANGED <<addrs, addrTable_len, mutex, opened, low, hi, k>>

\* authenticator: the block gets its userid, then the id is looked up.
StartLogin(t) ==
    /\ session[t] = "new"
    /\ \E id \in Users :
        /\ userid' = [userid EXCEPT ![t] = id]
        /\ Start(t, "login", id, "bounds")
    /\ overlapped' = (overlapped \/ OthersBusy(t))
    /\ UNCHANGED session

\* MSG and GET_GEO: lock, look up, unlock.
StartLookup(t) ==
    /\ session[t] = "in"
    /\ \E id \in Keys : Start(t, "lookup", id, "lock")
    /\ UNCHANGED <<overlapped, session, userid>>

\* destroy_handlers_block: lock, remove, unlock.
StartRemove(t) ==
    /\ session[t] # "gone"
    /\ Start(t, "remove", userid[t], "lock")
    /\ session' = [session EXCEPT ![t] = "gone"]
    /\ UNCHANGED <<overlapped, userid>>

\* Mutant of Lock: it does not wait.
LockTaken(t) ==
    /\ pc[t] = "lock"
    /\ mutex' = t
    /\ overlapped' = (overlapped \/ OthersLogIn(t))
    /\ Goto(t, "bounds")
    /\ UNCHANGED <<addrs, addrTable_len, opened, session, userid, op, searchVars, k>>

Lock(t) ==
    /\ pc[t] = "lock" /\ mutex = None
    /\ mutex' = t
    /\ overlapped' = (overlapped \/ OthersLogIn(t))
    /\ Goto(t, "bounds")
    /\ UNCHANGED <<addrs, addrTable_len, opened, session, userid, op, searchVars, k>>

\* The operation is over: its local variables are gone.
Return(t) ==
    /\ op' = [op EXCEPT ![t] = "none"]
    /\ key' = [key EXCEPT ![t] = 0]
    /\ low' = [low EXCEPT ![t] = 0]
    /\ hi' = [hi EXCEPT ![t] = 0]
    /\ k' = [k EXCEPT ![t] = 0]
    /\ Goto(t, "idle")

\* pthread_mutex_unlock by any thread opens the mutex.
Open(t) ==
    /\ mutex' = None
    /\ opened' = (opened \/ mutex \notin {None, t})

Unlock(t) ==
    /\ pc[t] = "unlock"
    /\ Open(t)
    /\ Return(t)
    /\ UNCHANGED <<addrs, addrTable_len, overlapped, session, userid>>

-----------------------------------------------------------------------------
(* binary_search.  The upper bound is the length, one past the last entry.  *)

ReadBounds(t) ==
    /\ pc[t] = "bounds"
    /\ low' = [low EXCEPT ![t] = 0]
    /\ hi' = [hi EXCEPT ![t] = addrTable_len]
    /\ Goto(t, IF key[t] < 0 THEN "missing" ELSE "search")
    /\ UNCHANGED <<globalVars, session, userid, op, key, k>>

Mid(t) == (low[t] + hi[t]) \div 2

\* Mutant of GoesDown: the comparison is the wrong way round.
GoesUp(t, m) == addrs[m].userid < key[t]

GoesDown(t, m) == addrs[m].userid > key[t]

Probe(t) ==
    /\ pc[t] = "search" /\ low[t] <= hi[t] /\ Mid(t) \in Array
    /\ \/ /\ addrs[Mid(t)].userid = key[t]
          /\ k' = [k EXCEPT ![t] = Mid(t)]
          /\ Goto(t, "found")
          /\ UNCHANGED <<low, hi>>
       \/ /\ addrs[Mid(t)].userid # key[t]
          /\ IF GoesDown(t, Mid(t))
             THEN hi' = [hi EXCEPT ![t] = Mid(t) - 1] /\ UNCHANGED low
             ELSE low' = [low EXCEPT ![t] = Mid(t) + 1] /\ UNCHANGED hi
          /\ UNCHANGED <<pc, k>>
    /\ UNCHANGED <<globalVars, session, userid, op, key>>

SearchEnds(t) ==
    /\ pc[t] = "search" /\ low[t] > hi[t]
    /\ Goto(t, "missing")
    /\ UNCHANGED <<globalVars, session, userid, op, searchVars, k>>

\* getAddrFromaddrTable returns to a caller that holds the lock.
LookupEnds(t) ==
    /\ pc[t] \in {"found", "missing"} /\ op[t] = "lookup"
    /\ Goto(t, "unlock")
    /\ UNCHANGED <<globalVars, session, userid, op, searchVars, k>>

-----------------------------------------------------------------------------
(* authenticator after the look-up, and insertInAddrTable.                  *)

\* A block is registered for the id: the login is refused.
Refuse(t) ==
    /\ pc[t] = "found" /\ op[t] = "login" /\ addrs[k[t]].addr_ # None
    /\ session' = [session EXCEPT ![t] = "refused"]
    /\ Return(t)
    /\ UNCHANGED <<globalVars, userid>>

\* Mutant of Admit: the block found is not looked at.
AdmitAnyway(t) ==
    /\ op[t] = "login" /\ pc[t] \in {"missing", "found"}
    /\ Open(t)
    /\ Goto(t, "last")
    /\ UNCHANGED <<addrs, addrTable_len, overlapped, session, userid, op, searchVars, k>>

\* pthread_mutex_unlock(&addrTable_mutex) where a lock is meant.
Admit(t) ==
    /\ op[t] = "login"
    /\ pc[t] = "missing" \/ (pc[t] = "found" /\ addrs[k[t]].addr_ = None)
    /\ Open(t)
    /\ Goto(t, "last")
    /\ UNCHANGED <<addrs, addrTable_len, overlapped, session, userid, op, searchVars, k>>

ReadLast(t) ==
    /\ pc[t] = "last"
    /\ k' = [k EXCEPT ![t] = addrTable_len - 1]
    /\ Goto(t, "insert")
    /\ UNCHANGED <<globalVars, session, userid, op, searchVars>>

\* Mutant of Moves: the first entry is never moved.
MovesButFirst(t) == k[t] > 0 /\ k[t] <= MaxSize /\ addrs[k[t]].userid > key[t]

\* The entry at k is moved up.
Moves(t) == k[t] >= 0 /\ k[t] <= MaxSize /\ addrs[k[t]].userid > key[t]

MoveUp(t) ==
    /\ pc[t] = "insert" /\ k[t] + 1 \in Array /\ Moves(t)
    /\ addrs' = [addrs EXCEPT ![k[t] + 1] = addrs[k[t]]]
    /\ k' = [k EXCEPT ![t] = @ - 1]
    /\ UNCHANGED <<addrTable_len, mutex, historyVars, session, userid, op, pc, searchVars>>

Place(t) ==
    /\ pc[t] = "insert" /\ k[t] + 1 \in Array /\ ~Moves(t)
    /\ addrs' = [addrs EXCEPT ![k[t] + 1] = [userid |-> key[t], addr_ |-> t]]
    /\ Goto(t, "grow")
    /\ UNCHANGED <<addrTable_len, mutex, historyVars, session, userid, op, searchVars, k>>

\* ++addrTable_len reads and writes; k holds what was read.
ReadLength(t) ==
    /\ pc[t] = "grow"
    /\ k' = [k EXCEPT ![t] = addrTable_len]
    /\ Goto(t, "write")
    /\ UNCHANGED <<globalVars, session, userid, op, searchVars>>

\* ... and the block is marked USER_AUTH after the unlock.
WriteLength(t) ==
    /\ pc[t] = "write"
    /\ addrTable_len' = k[t] + 1
    /\ session' = [session EXCEPT ![t] = "in"]
    /\ Goto(t, "unlock")
    /\ UNCHANGED <<addrs, mutex, historyVars, userid, op, searchVars, k>>

-----------------------------------------------------------------------------
(* removeFromAddrTable.                                                     *)

\* Mutant of RemoveNothing: the test of pos is left out, and the first goes.
RemoveFirst(t) ==
    /\ pc[t] = "missing" /\ op[t] = "remove"
    /\ k' = [k EXCEPT ![t] = 0]
    /\ Goto(t, "remove")
    /\ UNCHANGED <<globalVars, session, userid, op, searchVars>>

RemoveNothing(t) ==
    /\ pc[t] = "missing" /\ op[t] = "remove"
    /\ Goto(t, "unlock")
    /\ UNCHANGED <<globalVars, session, userid, op, searchVars, k>>

RemoveFound(t) ==
    /\ pc[t] = "found" /\ op[t] = "remove"
    /\ Goto(t, "remove")
    /\ UNCHANGED <<globalVars, session, userid, op, searchVars, k>>

\* Mutant of LastMoved: the loop goes one further.
LastMovedFar == addrTable_len + 1

\* The last index that the loop of the removal writes.
LastMoved == addrTable_len

MoveDown(t) ==
    /\ pc[t] = "remove" /\ k[t] <= LastMoved /\ k[t] + 1 \in Array
    /\ addrs' = [addrs EXCEPT ![k[t]] = addrs[k[t] + 1]]
    /\ k' = [k EXCEPT ![t] = @ + 1]
    /\ UNCHANGED <<addrTable_len, mutex, historyVars, session, userid, op, pc, searchVars>>

Shrink(t) ==
    /\ pc[t] = "remove" /\ k[t] > LastMoved
    /\ addrTable_len' = addrTable_len - 1
    /\ Goto(t, "unlock")
    /\ UNCHANGED <<addrs, mutex, historyVars, session, userid, op, searchVars, k>>

-----------------------------------------------------------------------------
Search(t) == ReadBounds(t) \/ Probe(t) \/ SearchEnds(t)
Insert(t) == Admit(t) \/ ReadLast(t) \/ MoveUp(t) \/ Place(t) \/ ReadLength(t) \/ WriteLength(t)
Remove(t) == RemoveNothing(t) \/ RemoveFound(t) \/ MoveDown(t) \/ Shrink(t)

\* The next access of t is to memory outside the array.  What comes of it is
\* undefined, and the model does not follow t any further.
LeavesArray(t) ==
    \/ pc[t] = "search" /\ low[t] <= hi[t] /\ Mid(t) \notin Array
    \/ pc[t] = "insert" /\ k[t] + 1 \notin Array
    \/ pc[t] = "remove" /\ k[t] <= LastMoved /\ k[t] + 1 \notin Array

Strays(t) == LeavesArray(t) /\ UNCHANGED vars

\* Every thread has left.
Finished ==
    /\ \A t \in Threads : session[t] = "gone" /\ pc[t] = "idle"
    /\ UNCHANGED vars

Next ==
    \/ Finished
    \/ \E t \in Threads :
        \/ StartLogin(t) \/ StartLookup(t) \/ StartRemove(t) \/ Lock(t) \/ Unlock(t)
        \/ Search(t) \/ LookupEnds(t) \/ Refuse(t) \/ Insert(t) \/ Remove(t)
        \/ Strays(t)

Spec == Init /\ [][Next]_vars
-----------------------------------------------------------------------------
(* Properties.                                                             *)

Places == {"idle", "lock", "bounds", "search", "found", "missing", "last",
           "insert", "grow", "write", "remove", "unlock"}

Types ==
    /\ addrs \in [Cells -> Cell]
    /\ addrTable_len \in 0..MaxSize
    /\ mutex \in Threads \cup {None}
    /\ session \in [Threads -> {"new", "in", "refused", "gone"}]
    /\ userid \in [Threads -> Users \cup {NoUser}]
    /\ op \in [Threads -> {"none", "login", "lookup", "remove"}]
    /\ pc \in [Threads -> Places]
    /\ key \in [Threads -> Keys]
    /\ low \in [Threads -> 0..(MaxSize + 1)]
    /\ hi \in [Threads -> -1..MaxSize]
    /\ k \in [Threads -> -1..(MaxSize + 1)]

\* Until a login overlaps another operation the variables have their types:
\* the length and every index stay in their ranges.
TypeOK == overlapped \/ Types

\* A thread between its first access to the table and its last.
Inside(t) == pc[t] \notin {"idle", "lock", "unlock"}

\* Of two operations inside the table together one is a login, which does not
\* lock; as soon as a thread has unlocked the mutex that another one held
\* (authenticator unlocks where it means to lock), even that is lost.
MutualExclusion ==
    opened \/ \A t, u \in Threads :
        t # u /\ Inside(t) /\ Inside(u) => "login" \in {op[t], op[u]}

\* No thread is changing the array.
Quiet == \A t \in Threads : pc[t] \notin {"insert", "grow", "write", "remove"}

\* What the bisection needs, until a login overlaps: the entries ascend, and
\* the memory after them that it probes is zero.
SortedTable ==
    Quiet /\ ~overlapped =>
        /\ \A i, j \in Cells : i < j /\ j < addrTable_len => addrs[i].userid < addrs[j].userid
        /\ \A i \in Cells : i < addrTable_len <=> addrs[i] # Zero

\* binary_search finds the block registered for the id, or for the id 0 the
\* NULL of the cell after the last entry, and says -1 only when no entry has
\* the id, although it takes the length for the last index: until a login
\* overlaps another operation.
FindsRegistered ==
    overlapped \/ \A t \in Threads :
        /\ pc[t] = "found" =>
            addrs[k[t]].userid = key[t] /\ (k[t] < addrTable_len \/ addrs[k[t]] = Zero)
        /\ pc[t] = "missing" => \A i \in Cells : i < addrTable_len => addrs[i].userid # key[t]

\* Until a login overlaps, an operation leaves the array only where nothing
\* tests for its end: a look-up or an insertion when every cell is taken, a
\* removal already when one cell is left.
InBounds ==
    \A t \in Threads : LeavesArray(t) =>
        overlapped \/ addrTable_len + (IF pc[t] = "remove" THEN 1 ELSE 0) >= MaxSize

\* Whoever has logged in is in the table, as long as nobody else has claimed
\* the same userid.
LoggedInListed ==
    Quiet => \A t \in Threads :
        session[t] = "in" /\ (\A u \in Threads \ {t} : userid[u] # userid[t]) =>
            \E i \in Cells : i < addrTable_len /\ addrs[i] = [userid |-> userid[t], addr_ |-> t]

\* Until a login overlaps another operation, nobody's entry gets lost.
EntryKept == overlapped \/ LoggedInListed

\* The abstract directory: the pairs in the array, wherever they are.
Directory == INSTANCE Directory WITH
    entries <- {<<addrs[i].userid, addrs[i].addr_>> : i \in {j \in Cells : addrs[j].addr_ # None}}

\* The array, changed cell by cell, behaves as a set of pairs that changes at
\* once, until a login overlaps another operation.
ImplementsDirectory == Directory!Spec
=============================================================================
