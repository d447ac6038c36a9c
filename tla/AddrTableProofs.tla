-------------------------- MODULE AddrTableProofs --------------------------
(***************************************************************************)
(* What the address table gives, proved for any number of threads and      *)
(* users and an array of any size, with nothing assumed of the callers.    *)
(* First the mutex: until somebody unlocks it in front of its owner, two   *)
(* look-ups or removals are never inside the table together.  Then the     *)
(* contents, until a login overlaps another operation: an invariant that   *)
(* follows the gap of an insertion or removal through the array, from      *)
(* which the table is sorted at every rest, the bisection is right, the    *)
(* array is left only where it is too small, nobody's entry is lost, and   *)
(* the array implements the abstract directory.                            *)
(***************************************************************************)
EXTENDS AddrTable, FiniteSetTheorems, TLAPS

Ops == {"none", "login", "lookup", "remove"}

ControlTypes ==
    /\ pc \in [Threads -> Places]
    /\ op \in [Threads -> Ops]

\* A look-up or removal past its lock holds the mutex, unless somebody opened it.
HeldUnlessOpened ==
    \A t \in Threads :
        pc[t] \notin {"idle", "lock"} /\ op[t] # "login" => mutex = t \/ opened

MutexInv == ControlTypes /\ HeldUnlessOpened

LEMMA MutexInvInit == Init => MutexInv
  BY DEF Init, MutexInv, ControlTypes, HeldUnlessOpened, Places, Ops

\* The steps of a thread inside its operation change its place, at most.
LEMMA MutexInvInside ==
  ASSUME MutexInv, NEW t \in Threads, pc[t] \notin {"idle", "lock"},
         NEW place \in Places \ {"idle", "lock"}, pc' \in {pc, [pc EXCEPT ![t] = place]},
         op' = op, mutex' = mutex, opened' = opened
  PROVE  MutexInv'
  BY DEF MutexInv, ControlTypes, HeldUnlessOpened, Places, Ops

\* An operation starts at a place before its lock, or it is a login.
LEMMA MutexInvStart ==
  ASSUME MutexInv, NEW t \in Threads, NEW name \in Ops \ {"none"}, NEW id,
         NEW place \in Places \ {"idle"}, name # "login" => place = "lock",
         Start(t, name, id, place)
  PROVE  MutexInv'
  BY DEF MutexInv, ControlTypes, HeldUnlessOpened, Places, Ops, Start, Goto

\* Whoever locks finds the mutex free: had a look-up or removal been inside,
\* the mutex would be its own, or have been opened.
LEMMA MutexInvLock ==
  ASSUME MutexInv, NEW t \in Threads, Lock(t)
  PROVE  MutexInv'
  BY TableAssumption DEF MutexInv, ControlTypes, HeldUnlessOpened, Places, Ops, Lock, Goto

LEMMA MutexInvStep == MutexInv /\ [Next]_vars => MutexInv'
<1> SUFFICES ASSUME MutexInv, [Next]_vars PROVE MutexInv'
  OBVIOUS
<1>1. CASE UNCHANGED vars
  BY <1>1 DEF vars, globalVars, historyVars, searchVars, MutexInv, ControlTypes,
     HeldUnlessOpened
<1> SUFFICES ASSUME NEW t \in Threads,
                    \/ StartLogin(t) \/ StartLookup(t) \/ StartRemove(t) \/ Lock(t) \/ Unlock(t)
                    \/ Search(t) \/ LookupEnds(t) \/ Refuse(t) \/ Insert(t) \/ Remove(t)
             PROVE  MutexInv'
  BY <1>1 DEF Next, Finished, Strays
<1>3. CASE StartLogin(t)
  BY <1>3, MutexInvStart DEF StartLogin, Ops, Places
<1>4. CASE StartLookup(t)
  BY <1>4, MutexInvStart DEF StartLookup, Ops, Places
<1>5. CASE StartRemove(t)
  BY <1>5, MutexInvStart DEF StartRemove, Ops, Places
<1>6. CASE Lock(t)
  BY <1>6, MutexInvLock
<1>7. CASE Unlock(t)
  BY <1>7 DEF Unlock, Open, Return, Goto, MutexInv, ControlTypes, HeldUnlessOpened, Places, Ops
<1>8. CASE Search(t)
  BY <1>8, MutexInvInside DEF Search, ReadBounds, Probe, SearchEnds, Goto, globalVars,
     historyVars, Places
<1>9. CASE LookupEnds(t)
  BY <1>9, MutexInvInside DEF LookupEnds, Goto, globalVars, historyVars, Places
<1>10. CASE Refuse(t)
  BY <1>10 DEF Refuse, Return, Goto, globalVars, historyVars, MutexInv, ControlTypes,
     HeldUnlessOpened, Places, Ops
<1>11. CASE Insert(t)
  <2>1. CASE Admit(t)
    BY <2>1 DEF Admit, Open, Goto, MutexInv, ControlTypes, HeldUnlessOpened, Places, Ops
  <2>2. CASE MoveUp(t)
    BY <2>2, MutexInvInside DEF MoveUp, historyVars, Places
  <2>3. CASE ReadLast(t) \/ Place(t) \/ ReadLength(t) \/ WriteLength(t)
    BY <2>3, MutexInvInside DEF ReadLast, Place, ReadLength, WriteLength, Goto, globalVars,
       historyVars, Places
  <2> QED
    BY <1>11, <2>1, <2>2, <2>3 DEF Insert
<1>12. CASE Remove(t)
  BY <1>12, MutexInvInside DEF Remove, RemoveNothing, RemoveFound, MoveDown, Shrink, Goto,
     globalVars, historyVars, Places
<1> QED
  BY <1>3, <1>4, <1>5, <1>6, <1>7, <1>8, <1>9, <1>10, <1>11, <1>12

\* Whatever the number of threads and however logins overlap, of two operations
\* inside the address table one is a login, up to the moment a thread unlocks
\* addrTable_mutex in front of the one that holds it, which authenticator does
\* where it means to lock: nothing else breaks the mutual exclusion.
THEOREM MutualExclusionAlways == Spec => []MutualExclusion
<1>1. MutexInv => MutualExclusion
  BY DEF MutexInv, ControlTypes, HeldUnlessOpened, MutualExclusion, Inside, Ops
<1> QED
  BY <1>1, MutexInvInit, MutexInvStep, PTL DEF Spec

-----------------------------------------------------------------------------
(* Before a login overlaps another operation.                               *)

\* Without an operation a thread is idle, and a login does not wait.
OpWhileBusy ==
    \A t \in Threads :
        /\ op[t] = "none" <=> pc[t] = "idle"
        /\ pc[t] = "lock" => op[t] # "login"

\* During a login the others are idle or wait.
LoginAlone ==
    \A t, u \in Threads :
        pc[t] # "idle" /\ op[t] = "login" /\ u # t => pc[u] \in {"idle", "lock"}

\* A look-up or removal past its lock holds the mutex.
HoldsMutex ==
    \A t \in Threads :
        pc[t] \notin {"idle", "lock"} /\ op[t] # "login" => mutex = t

LockInv == ControlTypes /\ OpWhileBusy /\ LoginAlone /\ HoldsMutex

LEMMA LockInvInit == Init => LockInv
  BY DEF Init, LockInv, ControlTypes, OpWhileBusy, LoginAlone, HoldsMutex, Places, Ops

\* The steps of a thread inside its operation change its place, at most.
LEMMA LockInvInside ==
  ASSUME LockInv, NEW t \in Threads, pc[t] \notin {"idle", "lock"},
         NEW place \in Places \ {"idle", "lock"}, pc' \in {pc, [pc EXCEPT ![t] = place]},
         op' = op, mutex' = mutex
  PROVE  LockInv'
  BY DEF LockInv, ControlTypes, OpWhileBusy, LoginAlone, HoldsMutex, Places, Ops

\* The last step of an operation frees the mutex, or the operation never had it.
LEMMA LockInvReturn ==
  ASSUME LockInv, NEW t \in Threads, pc[t] \notin {"idle", "lock"}, Return(t),
         mutex' = None \/ (mutex' = mutex /\ op[t] = "login")
  PROVE  LockInv'
  BY DEF LockInv, ControlTypes, OpWhileBusy, LoginAlone, HoldsMutex, Places, Ops, Return, Goto

\* An operation starts at a place before its lock, or it is a login.
LEMMA LockInvStart ==
  ASSUME LockInv, NEW t \in Threads, NEW name \in Ops \ {"none"}, NEW id,
         NEW place \in Places \ {"idle"},
         IF name = "login" THEN ~OthersBusy(t) /\ place # "lock" ELSE place = "lock",
         Start(t, name, id, place)
  PROVE  LockInv'
  BY DEF LockInv, ControlTypes, OpWhileBusy, LoginAlone, HoldsMutex, Places, Ops, Start, Goto,
         OthersBusy

LEMMA LockInvStep == LockInv /\ ~overlapped' /\ [Next]_vars => LockInv'
<1> SUFFICES ASSUME LockInv, ~overlapped', [Next]_vars PROVE LockInv'
  OBVIOUS
<1>1. CASE UNCHANGED vars
  BY <1>1 DEF vars, globalVars, historyVars, searchVars, LockInv, ControlTypes, OpWhileBusy, LoginAlone,
     HoldsMutex
<1> SUFFICES ASSUME NEW t \in Threads,
                    \/ StartLogin(t) \/ StartLookup(t) \/ StartRemove(t) \/ Lock(t) \/ Unlock(t)
                    \/ Search(t) \/ LookupEnds(t) \/ Refuse(t) \/ Insert(t) \/ Remove(t)
             PROVE  LockInv'
  BY <1>1 DEF Next, Finished, Strays
<1>3. CASE StartLogin(t)
  BY <1>3, LockInvStart DEF StartLogin, Ops, Places
<1>4. CASE StartLookup(t)
  BY <1>4, LockInvStart DEF StartLookup, Ops, Places
<1>5. CASE StartRemove(t)
  BY <1>5, LockInvStart DEF StartRemove, Ops, Places
<1>6. CASE Lock(t)
  BY <1>6, TableAssumption DEF Lock, OthersLogIn, Goto, LockInv, ControlTypes, OpWhileBusy, LoginAlone,
     HoldsMutex, Places, Ops
<1>7. CASE Unlock(t)
  BY <1>7, LockInvReturn DEF Unlock, Open
<1>8. CASE Search(t)
  BY <1>8, LockInvInside DEF Search, ReadBounds, Probe, SearchEnds, Goto, globalVars, Places
<1>9. CASE LookupEnds(t)
  BY <1>9, LockInvInside DEF LookupEnds, Goto, globalVars, Places
<1>10. CASE Refuse(t)
  BY <1>10, LockInvReturn DEF Refuse, globalVars
<1>11. CASE Insert(t)
  <2>1. CASE Admit(t)
    BY <2>1 DEF Admit, Open, Goto, LockInv, ControlTypes, OpWhileBusy, LoginAlone, HoldsMutex,
       Places, Ops
  <2>2. CASE MoveUp(t)
    BY <2>2, LockInvInside DEF MoveUp, Places
  <2>3. CASE ReadLast(t) \/ Place(t) \/ ReadLength(t) \/ WriteLength(t)
    BY <2>3, LockInvInside DEF ReadLast, Place, ReadLength, WriteLength, Goto, globalVars, Places
  <2> QED
    BY <1>11, <2>1, <2>2, <2>3 DEF Insert
<1>12. CASE Remove(t)
  BY <1>12, LockInvInside DEF Remove, RemoveNothing, RemoveFound, MoveDown, Shrink, Goto,
     globalVars, Places
<1> QED
  BY <1>3, <1>4, <1>5, <1>6, <1>7, <1>8, <1>9, <1>10, <1>11, <1>12

-----------------------------------------------------------------------------
(***************************************************************************)
(* The contents of the table, before such an overlap.  An insertion opens  *)
(* a gap and moves it down, a removal closes one and moves it up: at every *)
(* step, the array without its gap is a sorted table.                      *)
(***************************************************************************)

\* The array a without the cell j.
Gap(a, j) == [i \in Cells |-> IF i < j \/ i = MaxSize + 1 THEN a[i] ELSE a[i + 1]]

\* The first n cells of a are entries in ascending order, the others are zero.
Compact(a, n) ==
    /\ \A i \in Cells : i < n <=> a[i] # Zero
    /\ \A i \in Cells : i < n => a[i].userid \in Users /\ a[i].addr_ \in Threads
    /\ \A i, j \in Cells : i < j /\ j < n => a[i].userid < a[j].userid

\* Of the first n cells of a, none has the userid id.
Unclaimed(a, n, id) == \A i \in Cells : i < n => a[i].userid # id

\* t is logged in, and no other block has, or had, its userid.
Sole(sess, ids, t) == sess[t] = "in" /\ \A u \in Threads \ {t} : ids[u] # ids[t]

EntryIn(a, n, id, t) == \E i \in Cells : i < n /\ a[i] = [userid |-> id, addr_ |-> t]

\* Whoever is logged in under a userid of its own is among the first n.
Kept(sess, ids, a, n) ==
    \A t \in Threads : Sole(sess, ids, t) => EntryIn(a, n, ids[t], t)

\* A sorted table with all the entries it should have.
Good(sess, ids, a, n) == Compact(a, n) /\ Kept(sess, ids, a, n)

\* What binary_search has excluded.
SearchRight(t) ==
    /\ key[t] >= 0 /\ low[t] <= hi[t] + 1
    /\ low[t] \in 0..(addrTable_len + 1) /\ hi[t] \in -1..addrTable_len
    /\ \A i \in Cells : i < addrTable_len =>
        /\ i < low[t] => addrs[i].userid < key[t]
        /\ i > hi[t] => addrs[i].userid > key[t]

FoundRight(t) == k[t] \in 0..addrTable_len /\ addrs[k[t]].userid = key[t]

\* The gap of insertInAddrTable is at k + 1.  What is above it is greater
\* than the new userid, and the cell of the gap still has a copy of the next.
InsertRight(t) ==
    /\ k[t] \in -1..(addrTable_len - 1)
    /\ Good(session, userid, Gap(addrs, k[t] + 1), addrTable_len)
    /\ Unclaimed(Gap(addrs, k[t] + 1), addrTable_len, key[t])
    /\ addrs[k[t] + 1] = addrs[k[t] + 2]
    /\ k[t] + 1 < addrTable_len => addrTable_len < MaxSize
    /\ \A i \in Cells : i > k[t] + 1 /\ i <= addrTable_len => addrs[i].userid > key[t]

GrownRight(t) ==
    /\ addrTable_len < MaxSize
    /\ Good(session, userid, addrs, addrTable_len + 1)
    /\ EntryIn(addrs, addrTable_len + 1, userid[t], t)
    /\ pc[t] = "write" => k[t] = addrTable_len

\* The gap of removeFromAddrTable is at k.
RemoveRight(t) ==
    /\ addrTable_len > 0 /\ k[t] \in 0..(addrTable_len + 1)
    /\ Good(session, userid, Gap(addrs, k[t]), addrTable_len - 1)
    /\ \A i \in Cells : i >= addrTable_len => addrs[i] = Zero

PlaceRight(t) ==
    /\ pc[t] = "search" => SearchRight(t)
    /\ pc[t] = "found" => FoundRight(t)
    /\ pc[t] \in {"missing", "last"} => Unclaimed(addrs, addrTable_len, key[t])
    /\ pc[t] = "insert" => InsertRight(t)
    /\ pc[t] \in {"grow", "write"} => GrownRight(t)
    /\ pc[t] = "remove" => RemoveRight(t)

\* The operation of t is one that its session allows, and its key is the
\* userid of its block when it changes the table.
OpRight(t) ==
    /\ session[t] = "new" /\ op[t] # "login" => userid[t] = NoUser
    /\ session[t] \in {"in", "refused"} => userid[t] \in Users
    /\ op[t] = "login" => userid[t] \in Users
    /\ op[t] = "login" => session[t] = IF pc[t] = "unlock" THEN "in" ELSE "new"
    /\ op[t] \in {"login", "remove"} => key[t] = userid[t]
    /\ op[t] = "remove" => session[t] = "gone"
    /\ pc[t] \in {"last", "insert", "grow", "write"} => op[t] = "login"
    /\ pc[t] = "remove" => op[t] = "remove"
    /\ pc[t] = "lock" => op[t] # "login"

Changing == {"insert", "grow", "write", "remove"}

TableInv ==
    /\ Types
    /\ \A t \in Threads : OpRight(t) /\ PlaceRight(t)
    /\ Quiet => Good(session, userid, addrs, addrTable_len)

-----------------------------------------------------------------------------
(* Arrays with a gap.                                                      *)

LEMMA GapAtEnd ==
  ASSUME NEW a \in [Cells -> Cell], NEW n \in Nat, n <= MaxSize, MaxSize \in Nat,
         Compact(a, n)
  PROVE  Gap(a, n) = a /\ a[n] = a[n + 1]
<1>1. \A i \in Cells : i >= n => a[i] = Zero
  BY DEF Compact, Cells
<1>2. \A i \in Cells : Gap(a, n)[i] = a[i]
  BY <1>1 DEF Gap, Cells
<1>3. Gap(a, n) \in [Cells -> Cell]
  BY DEF Gap, Cells
<1> QED
  BY <1>1, <1>2, <1>3 DEF Cells, Gap

LEMMA GapMovesDown ==
  ASSUME NEW a \in [Cells -> Cell], NEW j \in 1..MaxSize, MaxSize \in Nat
  PROVE  Gap([a EXCEPT ![j] = a[j - 1]], j - 1) = Gap(a, j)
BY DEF Gap, Cells

LEMMA GapMovesUp ==
  ASSUME NEW a \in [Cells -> Cell], NEW j \in 0..MaxSize, MaxSize \in Nat
  PROVE  Gap([a EXCEPT ![j] = a[j + 1]], j + 1) = Gap(a, j)
BY DEF Gap, Cells

\* What insertInAddrTable leaves when it puts the entry into its gap.
LEMMA GapFilled ==
  ASSUME NEW a \in [Cells -> Cell], NEW n \in Nat, n < MaxSize, MaxSize \in Nat,
         NEW j \in 0..n, NEW id \in Users, NEW t \in Threads,
         Compact(Gap(a, j), n),
         \A i \in Cells : i < j => a[i].userid < id,
         \A i \in Cells : i > j /\ i <= n => a[i].userid > id
  PROVE  Compact([a EXCEPT ![j] = [userid |-> id, addr_ |-> t]], n + 1)
<1> DEFINE e == [userid |-> id, addr_ |-> t]
           b == [a EXCEPT ![j] = e]
<1>1. j \in Cells /\ id > 0 /\ id \in Nat
  BY TableAssumption DEF Cells
<1>2. e # Zero
  BY <1>1 DEF Zero
<1>3. \A i \in Cells : b[i] = IF i = j THEN e ELSE a[i]
  BY <1>1
<1>4. \A i \in Cells : i < j => Gap(a, j)[i] = a[i]
  BY DEF Gap
<1>5. \A i \in Cells : i > j => i - 1 \in Cells /\ Gap(a, j)[i - 1] = a[i]
  BY DEF Gap, Cells
<1> HIDE DEF e, b
<1>6. \A i \in Cells : i < n + 1 <=> b[i] # Zero
  <2> TAKE i \in Cells
  <2> i \in Int
    BY DEF Cells
  <2>1. CASE i < j
    BY <2>1, <1>3, <1>4 DEF Compact
  <2>2. CASE i > j
    <3>1. i - 1 < n <=> a[i] # Zero
      BY <2>2, <1>5 DEF Compact
    <3> QED
      BY <3>1, <2>2, <1>3
  <2>3. CASE i = j
    BY <2>3, <1>2, <1>3
  <2> QED
    BY <2>1, <2>2, <2>3
<1>7. \A i \in Cells : i < n + 1 => b[i].userid \in Users /\ b[i].addr_ \in Threads
  <2> SUFFICES ASSUME NEW i \in Cells, i < n + 1
               PROVE  b[i].userid \in Users /\ b[i].addr_ \in Threads
    OBVIOUS
  <2> i \in Int
    BY DEF Cells
  <2>1. CASE i < j
    BY <2>1, <1>3, <1>4 DEF Compact
  <2>2. CASE i > j
    BY <2>2, <1>3, <1>5 DEF Compact
  <2>3. CASE i = j
    BY <2>3, <1>3 DEF e
  <2> QED
    BY <2>1, <2>2, <2>3
<1>8. \A h, i \in Cells : h < i /\ i < n + 1 => b[h].userid < b[i].userid
  <2> SUFFICES ASSUME NEW h \in Cells, NEW i \in Cells, h < i, i < n + 1
               PROVE  b[h].userid < b[i].userid
    OBVIOUS
  <2> h \in Int /\ i \in Int
    BY DEF Cells
  <2>1. CASE i < j
    BY <2>1, <1>3, <1>4 DEF Compact
  <2>2. CASE i = j
    BY <2>2, <1>3 DEF e
  <2>3. CASE h < j /\ i > j
    <3>1. a[h].userid \in Nat /\ a[i].userid \in Nat
      <4>1. a[h] \in Cell /\ a[i] \in Cell
        OBVIOUS
      <4>2. a[h].userid \in Users \cup {0} /\ a[i].userid \in Users \cup {0}
        BY <4>1 DEF Cell
      <4>3. Users \cup {0} \subseteq Nat
        BY TableAssumption
      <4> QED
        BY <4>2, <4>3
    <3>2. a[h].userid < id /\ id < a[i].userid
      BY <2>3
    <3>3. a[h].userid < a[i].userid
      BY <1>1, <3>1, <3>2
    <3> QED
      BY <2>3, <1>3, <3>3
  <2>4. CASE h = j /\ i > j
    BY <2>4, <1>3 DEF e
  <2>5. CASE h > j
    BY <2>5, <1>3, <1>5 DEF Compact
  <2> QED
    BY <2>1, <2>2, <2>3, <2>4, <2>5
<1> QED
  BY <1>6, <1>7, <1>8 DEF Compact, b, e

\* What removeFromAddrTable will leave when it starts at j.
LEMMA GapOpened ==
  ASSUME NEW a \in [Cells -> Cell], NEW n \in Nat, n <= MaxSize, MaxSize \in Nat,
         NEW j \in 0..(n - 1), Compact(a, n)
  PROVE  Compact(Gap(a, j), n - 1)
<1>1. \A i \in Cells : i < j => Gap(a, j)[i] = a[i]
  BY DEF Gap
<1>2. \A i \in Cells : i >= j /\ i # MaxSize + 1 => i + 1 \in Cells /\ Gap(a, j)[i] = a[i + 1]
  BY DEF Gap, Cells
<1>3. Gap(a, j)[MaxSize + 1] = a[MaxSize + 1] /\ MaxSize + 1 \in Cells
  BY DEF Gap, Cells
<1>4. \A i \in Cells : i \in Int /\ i <= MaxSize + 1
  BY DEF Cells
<1> DEFINE g == Gap(a, j)
<1> HIDE DEF g
<1>5. \A i \in Cells : i < n - 1 <=> g[i] # Zero
  <2> TAKE i \in Cells
  <2>1. CASE i < j
    BY <2>1, <1>1, <1>4 DEF Compact, g
  <2>2. CASE i >= j /\ i # MaxSize + 1
    BY <2>2, <1>2, <1>4 DEF Compact, g
  <2>3. CASE i = MaxSize + 1
    BY <2>3, <1>3, <1>4 DEF Compact, g
  <2> QED
    BY <1>4, <2>1, <2>2, <2>3
<1>6. \A i \in Cells : i < n - 1 => g[i].userid \in Users /\ g[i].addr_ \in Threads
  <2> SUFFICES ASSUME NEW i \in Cells, i < n - 1
               PROVE  g[i].userid \in Users /\ g[i].addr_ \in Threads
    OBVIOUS
  <2>1. CASE i < j
    BY <2>1, <1>1, <1>4 DEF Compact, g
  <2>2. CASE i >= j
    <3>1. i # MaxSize + 1 /\ i + 1 < n
      BY <1>4
    <3> QED
      BY <2>2, <3>1, <1>2, <1>4 DEF Compact, g
  <2> QED
    BY <1>4, <2>1, <2>2
<1>7. \A h, i \in Cells : h < i /\ i < n - 1 => g[h].userid < g[i].userid
  <2> SUFFICES ASSUME NEW h \in Cells, NEW i \in Cells, h < i, i < n - 1
               PROVE  g[h].userid < g[i].userid
    OBVIOUS
  <2>1. h # MaxSize + 1 /\ i # MaxSize + 1 /\ i + 1 < n /\ h \in Int /\ i \in Int
    BY <1>4
  <2>2. CASE i < j
    BY <2>1, <2>2, <1>1 DEF Compact, g
  <2>3. CASE h >= j
    BY <2>1, <2>3, <1>2 DEF Compact, g
  <2>4. CASE h < j /\ i >= j
    <3>1. i + 1 \in Cells /\ h < i + 1
      BY <2>1, <2>4, <1>2
    <3>2. a[h].userid < a[i + 1].userid
      BY <3>1, <2>1 DEF Compact
    <3> QED
      BY <2>1, <2>4, <1>1, <1>2, <3>2 DEF g
  <2> QED
    BY <2>1, <2>2, <2>3, <2>4
<1> QED
  BY <1>5, <1>6, <1>7 DEF Compact, g

\* The entries below a gap stay where they are, those above it are one further.
LEMMA EntryBesideGap ==
  ASSUME NEW a \in [Cells -> Cell], NEW n \in Nat, n <= MaxSize, MaxSize \in Nat,
         NEW j \in 0..n, NEW id, NEW t
  PROVE  /\ EntryIn(Gap(a, j), n, id, t) =>
                \A e : EntryIn([a EXCEPT ![j] = e], n + 1, id, t)
         /\ j < n /\ EntryIn(a, n, id, t) /\ a[j].userid # id => EntryIn(Gap(a, j), n - 1, id, t)
<1> DEFINE x == [userid |-> id, addr_ |-> t]
<1>1. j \in Cells
  BY DEF Cells
<1>2. ASSUME NEW i \in Cells, i < n, Gap(a, j)[i] = x, NEW e
      PROVE  EntryIn([a EXCEPT ![j] = e], n + 1, id, t)
  <2> i \in Int /\ i # MaxSize + 1
    BY <1>2 DEF Cells
  <2>1. CASE i < j
    BY <1>2, <2>1 DEF EntryIn, Gap
  <2>2. CASE i >= j
    <3>1. i + 1 \in Cells /\ a[i + 1] = x
      BY <1>2, <2>2 DEF Gap, Cells
    <3>2. [a EXCEPT ![j] = e][i + 1] = x /\ i + 1 < n + 1
      BY <1>2, <2>2, <3>1
    <3> QED
      BY <3>1, <3>2 DEF EntryIn
  <2> QED
    BY <2>1, <2>2
<1>3. ASSUME j < n, NEW i \in Cells, i < n, a[i] = x, a[j].userid # id
      PROVE  EntryIn(Gap(a, j), n - 1, id, t)
  <2> i \in Int /\ i # MaxSize + 1
    BY <1>3 DEF Cells
  <2>1. i # j
    BY <1>3
  <2>2. CASE i < j
    <3>1. Gap(a, j)[i] = x /\ i < n - 1
      BY <1>3, <2>2 DEF Gap
    <3> QED
      BY <3>1 DEF EntryIn
  <2>3. CASE i > j
    <3>1. i - 1 \in Cells /\ Gap(a, j)[i - 1] = x /\ i - 1 < n - 1
      BY <1>3, <2>3 DEF Gap, Cells
    <3> QED
      BY <3>1 DEF EntryIn
  <2> QED
    BY <2>1, <2>2, <2>3
<1> QED
  BY <1>2, <1>3 DEF EntryIn
-----------------------------------------------------------------------------
(* Which threads a step can disturb.                                       *)

LEMMA Alone ==
  ASSUME LockInv, NEW t \in Threads, Inside(t), NEW u \in Threads, u # t
  PROVE  pc[u] \in {"idle", "lock", "unlock"}
BY DEF LockInv, ControlTypes, LoginAlone, HoldsMutex, Inside

\* A thread that has not begun to change the table sees a sorted one.
LEMMA SeesGood ==
  ASSUME LockInv, TableInv, NEW t \in Threads, Inside(t), pc[t] \notin Changing
  PROVE  Good(session, userid, addrs, addrTable_len)
BY Alone DEF TableInv, Quiet, Changing

\* A step of a thread inside the table: nobody else's knowledge of the table
\* is at stake.
LEMMA InsideKeeps ==
  ASSUME LockInv, TableInv, NEW t \in Threads, Inside(t),
         \A u \in Threads : u # t =>
            /\ pc'[u] = pc[u] /\ op'[u] = op[u] /\ key'[u] = key[u]
            /\ session'[u] = session[u] /\ userid'[u] = userid[u],
         Types', OpRight(t)', PlaceRight(t)',
         pc'[t] \notin Changing => Good(session', userid', addrs', addrTable_len')
  PROVE  TableInv'
<1>1. ASSUME NEW u \in Threads, u # t PROVE OpRight(u)' /\ PlaceRight(u)'
  <2>1. OpRight(u)'
    BY <1>1 DEF TableInv, OpRight
  <2>2. pc'[u] \in {"idle", "lock", "unlock"}
    BY <1>1, Alone
  <2> QED
    BY <2>1, <2>2 DEF PlaceRight
<1>2. Quiet' => pc'[t] \notin Changing
  BY DEF Quiet, Changing
<1> QED
  BY <1>1, <1>2 DEF TableInv

\* ... in particular one that only reads.
LEMMA ReadKeeps ==
  ASSUME LockInv, TableInv, NEW t \in Threads, Inside(t), pc[t] \notin Changing,
         UNCHANGED <<addrs, addrTable_len, session, userid, op, key>>,
         \A u \in Threads : u # t => pc'[u] = pc[u],
         Types', OpRight(t)', PlaceRight(t)'
  PROVE  TableInv'
<1>1. Good(session', userid', addrs', addrTable_len')
  BY SeesGood
<1> QED
  BY <1>1, InsideKeeps

\* Whoever leaves takes nothing from what the others are owed.
LEMMA GoodFades ==
  ASSUME Types, NEW t \in Threads, NEW s, s = session \/ s = [session EXCEPT ![t] = "gone"],
         NEW a, NEW n, Good(session, userid, a, n)
  PROVE  Good(s, userid, a, n)
BY DEF Good, Kept, Sole, Types

\* A step of a thread outside the table, other than the start of a login.
LEMMA OutsideKeeps ==
  ASSUME TableInv, NEW t \in Threads, pc[t] \in {"idle", "lock", "unlock"},
         UNCHANGED <<addrs, addrTable_len, userid>>,
         \A u \in Threads : u # t =>
            /\ pc'[u] = pc[u] /\ op'[u] = op[u] /\ key'[u] = key[u]
            /\ low'[u] = low[u] /\ hi'[u] = hi[u] /\ k'[u] = k[u],
         session' = session \/ session' = [session EXCEPT ![t] = "gone"],
         pc'[t] \in {"idle", "lock", "bounds"},
         Types', OpRight(t)'
  PROVE  TableInv'
<1> USE DEF TableInv
<1>1. \A a, n : Good(session, userid, a, n) => Good(session', userid', a, n)
  BY GoodFades
<1>2. ASSUME NEW u \in Threads, u # t PROVE OpRight(u)'
  BY <1>2 DEF OpRight, Types
<1>3. ASSUME NEW u \in Threads, u # t PROVE PlaceRight(u)'
  <2>1. UNCHANGED <<pc[u], key[u], low[u], hi[u], k[u], userid[u]>>
    BY <1>3
  <2>2. PlaceRight(u)
    OBVIOUS
  <2>3. InsertRight(u) => InsertRight(u)'
    BY <1>1, <2>1 DEF InsertRight
  <2>4. GrownRight(u) => GrownRight(u)'
    BY <1>1, <2>1 DEF GrownRight
  <2>5. RemoveRight(u) => RemoveRight(u)'
    BY <1>1, <2>1 DEF RemoveRight
  <2>6. SearchRight(u) => SearchRight(u)'
    BY <2>1 DEF SearchRight
  <2> QED
    BY <2>1, <2>2, <2>3, <2>4, <2>5, <2>6 DEF PlaceRight, FoundRight
<1>4. PlaceRight(t)'
  BY DEF PlaceRight
<1>5. Quiet' => Good(session', userid', addrs', addrTable_len')
  <2>1. Quiet' => Quiet
    BY DEF Quiet
  <2> QED
    BY <1>1, <2>1
<1> QED
  BY <1>2, <1>3, <1>4, <1>5
-----------------------------------------------------------------------------
(* Every step keeps TableInv.                                              *)

LEMMA IdTypes ==
  /\ Keys \subseteq Int /\ Users \subseteq Nat /\ NoUser \notin Users
  /\ \A id \in Users : id # 0 /\ id >= 0
  /\ \A c \in Cell : c.userid \in Nat
<1>1. Keys \subseteq Int /\ Users \subseteq Nat /\ Users \cup {0} \subseteq Nat
  BY TableAssumption DEF Keys, NoUser
<1>2. \A c \in Cell : c.userid \in Nat
  <2>1. \A c \in Cell : c.userid \in Users \cup {0}
    BY DEF Cell
  <2> QED
    BY <1>1, <2>1
<1>3. \A id \in Users : id # 0 /\ id # NoUser
  BY TableAssumption DEF NoUser
<1>4. \A id \in Users : id >= 0
  BY <1>1
<1> QED
  BY <1>1, <1>2, <1>3, <1>4

LEMMA StartLoginTable ==
  ASSUME ~overlapped', LockInv, TableInv, NEW t \in Threads, StartLogin(t)
  PROVE  TableInv'
<1> USE DEF TableInv, StartLogin, Start, Goto, globalVars
<1>1. PICK id \in Users : userid' = [userid EXCEPT ![t] = id] /\ key' = [key EXCEPT ![t] = id]
  OBVIOUS
<1>2. /\ pc[t] = "idle" /\ session[t] = "new"
      /\ \A u \in Threads : pc[u] \in {"idle", "lock"}
      /\ op' = [op EXCEPT ![t] = "login"] /\ pc' = [pc EXCEPT ![t] = "bounds"]
      /\ UNCHANGED <<addrs, addrTable_len, session>>
  BY DEF OthersBusy
<1>3. Types'
  BY <1>1 DEF Types, Keys, Places
<1>4. userid[t] = NoUser
  BY <1>2 DEF LockInv, OpWhileBusy, OpRight
<1>5. Good(session, userid, addrs, addrTable_len)
  BY <1>2 DEF Quiet
<1>6. Good(session', userid', addrs', addrTable_len')
  <2>1. ASSUME NEW u \in Threads, Sole(session', userid', u)
        PROVE  u # t /\ Sole(session, userid, u) /\ userid'[u] = userid[u]
    <3>1. u # t /\ userid'[u] = userid[u]
      BY <1>1, <1>2, <2>1 DEF Sole, Types
    <3>2. userid[u] \in Users
      BY <1>2, <2>1 DEF Sole, OpRight
    <3>3. \A v \in Threads \ {u} : userid[v] # userid[u]
      BY <1>1, <1>4, <2>1, <3>1, <3>2, TableAssumption DEF Sole, NoUser, Types
    <3> QED
      BY <1>2, <2>1, <3>1, <3>3 DEF Sole
  <2> QED
    BY <1>2, <1>5, <2>1 DEF Good, Kept
<1>7. ASSUME NEW u \in Threads PROVE OpRight(u)' /\ PlaceRight(u)'
  BY <1>1, <1>2 DEF OpRight, PlaceRight, Types
<1> QED
  BY <1>2, <1>3, <1>6, <1>7

LEMMA StartOtherTable ==
  ASSUME TableInv, NEW t \in Threads, StartLookup(t) \/ StartRemove(t) \/ Lock(t) \/ Unlock(t)
  PROVE  TableInv'
<1> USE DEF TableInv, Start, Goto, globalVars, searchVars
<1>1. CASE StartLookup(t)
  <2>1. Types'
    BY <1>1 DEF StartLookup, Types, Places
  <2>2. OpRight(t)'
    BY <1>1 DEF StartLookup, Types, OpRight
  <2> QED
    BY <1>1, <2>1, <2>2, OutsideKeeps DEF StartLookup, Types
<1>2. CASE StartRemove(t)
  <2>1. Types'
    BY <1>2 DEF StartRemove, Types, Places, Keys
  <2>2. OpRight(t)'
    BY <1>2 DEF StartRemove, Types, OpRight
  <2> QED
    BY <1>2, <2>1, <2>2, OutsideKeeps DEF StartRemove, Types
<1>3. CASE Lock(t)
  <2>1. Types'
    BY <1>3 DEF Lock, Types, Places
  <2>2. OpRight(t)'
    BY <1>3 DEF Lock, Types, OpRight
  <2> QED
    BY <1>3, <2>1, <2>2, OutsideKeeps DEF Lock, Types
<1>4. CASE Unlock(t)
  <2>1. Types'
    BY <1>4, TableAssumption DEF Unlock, Open, Return, Types, Places, Keys
  <2>2. OpRight(t)'
    BY <1>4 DEF Unlock, Return, Types, OpRight
  <2> QED
    BY <1>4, <2>1, <2>2, OutsideKeeps DEF Unlock, Return, Types
<1> QED
  BY <1>1, <1>2, <1>3, <1>4

LEMMA TableBounds ==
  ASSUME TableInv
  PROVE  /\ MaxSize \in Nat /\ addrTable_len \in Nat /\ addrTable_len <= MaxSize
         /\ addrs \in [Cells -> Cell]
BY TableAssumption DEF TableInv, Types

LEMMA ReadBoundsTable ==
  ASSUME LockInv, TableInv, NEW t \in Threads, ReadBounds(t)
  PROVE  TableInv'
<1> USE DEF ReadBounds, Goto, globalVars
<1>1. Good(session, userid, addrs, addrTable_len)
  BY SeesGood DEF Inside, Changing
<1>2. Types'
  BY TableBounds DEF TableInv, Types, Places
<1>3. OpRight(t)'
  BY DEF TableInv, Types, OpRight
<1>4. PlaceRight(t)'
  <2>1. CASE key[t] < 0
    <3>1. Unclaimed(addrs, addrTable_len, key[t])
      <4>1. key[t] \in Users => key[t] \in Nat
        BY IdTypes
      <4>2. key[t] \notin Users
        BY <2>1, <4>1
      <4> QED
        BY <1>1, <4>2 DEF Good, Compact, Unclaimed
    <3> QED
      BY <2>1, <3>1 DEF TableInv, Types, PlaceRight
  <2>2. CASE ~(key[t] < 0)
    <3>1. key[t] \in Int
      BY IdTypes DEF TableInv, Types
    <3>2. SearchRight(t)'
      BY <2>2, <3>1, TableBounds DEF TableInv, Types, SearchRight, Cells
    <3> QED
      BY <2>2, <3>2 DEF TableInv, Types, PlaceRight
  <2> QED
    BY <2>1, <2>2
<1> QED
  BY <1>2, <1>3, <1>4, ReadKeeps DEF TableInv, Types, Inside, Changing

\* The bisection never excludes an entry with the key, although it also
\* probes the cell after the last entry.
LEMMA ProbeTable ==
  ASSUME LockInv, TableInv, NEW t \in Threads, Probe(t)
  PROVE  TableInv'
<1> USE DEF Probe, Goto, globalVars
<1> DEFINE m == Mid(t)
           n == addrTable_len
<1>1. Compact(addrs, n)
  BY SeesGood DEF Inside, Changing, Good
<1>2. SearchRight(t) /\ low[t] <= hi[t]
  BY DEF TableInv, PlaceRight
<1>3. m \in low[t]..hi[t] /\ m \in 0..n /\ (m = n => low[t] = n)
  BY <1>2, TableBounds DEF SearchRight, Mid
<1>4. m \in Cells
  BY <1>3, TableBounds DEF Cells
<1>5. m = n => addrs[m].userid = 0
  BY <1>1, <1>4, TableBounds DEF Compact, Zero
<1>6. key[t] \in Int /\ addrs[m].userid \in Nat
  <2>1. addrs[m] \in Cell
    BY <1>4, TableBounds
  <2> QED
    BY <2>1, IdTypes DEF TableInv, Types
<1> HIDE DEF m
<1>7. \A i \in Cells : i < n => addrs[i].userid \in Nat /\ i \in Nat
  BY <1>1, IdTypes, TableBounds DEF Compact, Cells
<1>8. OpRight(t)'
  BY DEF TableInv, Types, OpRight
<1>9. CASE addrs[m].userid = key[t]
  <2>1. /\ k' = [k EXCEPT ![t] = m] /\ pc' = [pc EXCEPT ![t] = "found"]
        /\ UNCHANGED <<low, hi>>
    BY <1>9 DEF m
  <2>2. Types'
    <3>1. m \in -1..(MaxSize + 1)
      BY <1>3, TableBounds
    <3> QED
      BY <2>1, <3>1 DEF TableInv, Types, Places
  <2>3. FoundRight(t)'
    BY <2>1, <1>3, <1>9 DEF FoundRight, TableInv, Types
  <2>4. PlaceRight(t)'
    BY <2>1, <2>3 DEF PlaceRight, TableInv, Types
  <2> QED
    BY <1>8, <2>1, <2>2, <2>4, ReadKeeps DEF TableInv, Types, Inside, Changing
<1>10. CASE addrs[m].userid > key[t]
  <2>1. hi' = [hi EXCEPT ![t] = m - 1] /\ UNCHANGED <<low, pc, k>>
    BY <1>6, <1>10 DEF GoesDown, m
  <2>2. Types'
    BY <2>1, <1>3, TableBounds DEF TableInv, Types
  <2>3. \A i \in Cells : i < n /\ i > m - 1 => addrs[i].userid > key[t]
    <3> SUFFICES ASSUME NEW i \in Cells, i < n, i > m - 1 PROVE addrs[i].userid > key[t]
      OBVIOUS
    <3>1. i = m \/ addrs[m].userid < addrs[i].userid
      <4>1. i >= m
        BY <1>3, <1>7, TableBounds
      <4> QED
        BY <4>1, <1>1, <1>3, <1>4, <1>7, TableBounds DEF Compact
    <3> QED
      BY <3>1, <1>6, <1>7, <1>10
  <2>4. SearchRight(t)'
    BY <2>1, <2>3, <1>2, <1>3 DEF SearchRight, TableInv, Types
  <2>5. PlaceRight(t)'
    BY <2>1, <2>4 DEF PlaceRight, TableInv, Types
  <2> QED
    BY <1>8, <2>1, <2>2, <2>5, ReadKeeps DEF TableInv, Types, Inside, Changing
<1>11. CASE addrs[m].userid < key[t]
  <2>1. low' = [low EXCEPT ![t] = m + 1] /\ UNCHANGED <<hi, pc, k>>
    BY <1>6, <1>11 DEF GoesDown, m
  <2>2. Types'
    BY <2>1, <1>3, TableBounds DEF TableInv, Types
  <2>3. \A i \in Cells : i < n /\ i < m + 1 => addrs[i].userid < key[t]
    <3> SUFFICES ASSUME NEW i \in Cells, i < n, i < m + 1 PROVE addrs[i].userid < key[t]
      OBVIOUS
    <3>1. CASE m = n
      BY <1>2, <1>3, <3>1 DEF SearchRight
    <3>2. CASE m < n
      <4>1. i = m \/ addrs[i].userid < addrs[m].userid
        BY <3>2, <1>1, <1>3, <1>4, <1>7 DEF Compact
      <4> QED
        BY <4>1, <1>6, <1>7, <1>11
    <3> QED
      BY <3>1, <3>2, <1>3, TableBounds
  <2>4. SearchRight(t)'
    BY <2>1, <2>3, <1>2, <1>3 DEF SearchRight, TableInv, Types
  <2>5. PlaceRight(t)'
    BY <2>1, <2>4 DEF PlaceRight, TableInv, Types
  <2> QED
    BY <1>8, <2>1, <2>2, <2>5, ReadKeeps DEF TableInv, Types, Inside, Changing
<1> QED
  BY <1>6, <1>9, <1>10, <1>11

LEMMA SearchEndsTable ==
  ASSUME LockInv, TableInv, NEW t \in Threads, SearchEnds(t)
  PROVE  TableInv'
<1> USE DEF SearchEnds, Goto, globalVars, searchVars
<1>1. Compact(addrs, addrTable_len)
  BY SeesGood DEF Inside, Changing, Good
<1>2. SearchRight(t) /\ low[t] > hi[t]
  BY DEF TableInv, PlaceRight
<1>3. Unclaimed(addrs, addrTable_len, key[t])
  <2> SUFFICES ASSUME NEW i \in Cells, i < addrTable_len PROVE addrs[i].userid # key[t]
    BY DEF Unclaimed
  <2>1. addrs[i].userid \in Nat /\ i \in Nat
    <3>1. addrs[i] \in Cell /\ i \in Nat
      BY TableBounds DEF Cells
    <3> QED
      BY <3>1, IdTypes
  <2>2. key[t] \in Int
    BY IdTypes DEF TableInv, Types
  <2>3. i < low[t] \/ i > hi[t]
    BY <1>2, <2>1 DEF TableInv, Types
  <2> QED
    BY <1>2, <2>1, <2>2, <2>3 DEF SearchRight
<1>4. Types' /\ OpRight(t)'
  BY DEF TableInv, Types, Places, OpRight
<1>5. PlaceRight(t)'
  BY <1>3 DEF TableInv, Types, PlaceRight
<1> QED
  BY <1>4, <1>5, ReadKeeps DEF TableInv, Types, Inside, Changing

LEMMA LookupEndsTable ==
  ASSUME LockInv, TableInv, NEW t \in Threads, LookupEnds(t)
  PROVE  TableInv'
<1> USE DEF LookupEnds, Goto, globalVars, searchVars
<1>1. Types' /\ OpRight(t)' /\ PlaceRight(t)'
  BY DEF TableInv, Types, Places, OpRight, PlaceRight
<1> QED
  BY <1>1, ReadKeeps DEF TableInv, Types, Inside, Changing

\* The last step of a thread that did not change the table.
LEMMA RefuseTable ==
  ASSUME LockInv, TableInv, NEW t \in Threads, Refuse(t)
  PROVE  TableInv'
<1> USE DEF Refuse, Return, Goto, globalVars
<1>1. Good(session, userid, addrs, addrTable_len)
  BY SeesGood DEF Inside, Changing
<1>2. session[t] = "new" /\ userid[t] \in Users
  BY DEF TableInv, OpRight
<1>3. Good(session', userid', addrs', addrTable_len')
  <2>1. \A u \in Threads : Sole(session', userid', u) => Sole(session, userid, u)
    BY <1>2 DEF Sole, TableInv, Types
  <2> QED
    BY <1>1, <2>1 DEF Good, Kept
<1>4. Types'
  BY TableAssumption DEF TableInv, Types, Places, Keys
<1>5. OpRight(t)' /\ PlaceRight(t)'
  BY <1>2 DEF TableInv, Types, OpRight, PlaceRight
<1> QED
  BY <1>3, <1>4, <1>5, InsideKeeps DEF Inside, TableInv, Types

\* A login goes on only if nobody has its userid: the cell that the search may
\* find beyond the last entry holds no userid of an account.
LEMMA AdmitTable ==
  ASSUME LockInv, TableInv, NEW t \in Threads, Admit(t)
  PROVE  TableInv'
<1> USE DEF Admit, Open, Goto, globalVars, searchVars
<1>1. Compact(addrs, addrTable_len)
  BY SeesGood DEF Inside, Changing, Good
<1>2. key[t] \in Users
  BY DEF TableInv, OpRight
<1>3. Unclaimed(addrs, addrTable_len, key[t])
  <2>1. CASE pc[t] = "missing"
    BY <2>1 DEF TableInv, PlaceRight
  <2>2. CASE pc[t] = "found" /\ addrs[k[t]].addr_ = None
    <3>1. FoundRight(t)
      BY <2>2 DEF TableInv, PlaceRight
    <3>2. k[t] \in Cells
      BY <3>1, TableBounds DEF FoundRight, Cells
    <3>3. addrs[k[t]] = Zero
      BY <1>1, <2>2, <3>2, TableAssumption DEF Compact
    <3> QED
      BY <1>2, <3>1, <3>3, IdTypes DEF FoundRight, Zero
  <2> QED
    BY <2>1, <2>2
<1>4. Types' /\ OpRight(t)'
  BY DEF TableInv, Types, Places, OpRight
<1>5. PlaceRight(t)'
  BY <1>3 DEF TableInv, Types, PlaceRight
<1> QED
  BY <1>4, <1>5, ReadKeeps DEF TableInv, Types, Inside, Changing

LEMMA ReadLastTable ==
  ASSUME LockInv, TableInv, NEW t \in Threads, ReadLast(t)
  PROVE  TableInv'
<1> USE DEF ReadLast, Goto, globalVars, searchVars
<1> DEFINE n == addrTable_len
<1>1. Good(session, userid, addrs, n)
  BY SeesGood DEF Inside, Changing
<1>2. Unclaimed(addrs, n, key[t])
  BY DEF TableInv, PlaceRight
<1>3. Gap(addrs, n) = addrs /\ addrs[n] = addrs[n + 1]
  BY <1>1, GapAtEnd, TableBounds DEF Good
<1>4. k' = [k EXCEPT ![t] = n - 1] /\ pc' = [pc EXCEPT ![t] = "insert"]
  OBVIOUS
<1>5. Types' /\ OpRight(t)'
  BY <1>4, TableBounds DEF TableInv, Types, Places, OpRight
<1>6. InsertRight(t)'
  <2>1. k'[t] = n - 1 /\ k'[t] + 1 = n /\ k'[t] + 2 = n + 1
    BY <1>4, TableBounds DEF TableInv, Types
  <2>2. k'[t] \in -1..(n - 1)
    BY <2>1, TableBounds
  <2>3. ~ \E i \in Cells : i > n /\ i <= n
    BY TableBounds DEF Cells
  <2> QED
    BY <1>1, <1>2, <1>3, <2>1, <2>2, <2>3 DEF InsertRight
<1>7. PlaceRight(t)'
  BY <1>4, <1>6 DEF TableInv, Types, PlaceRight
<1> QED
  BY <1>5, <1>7, InsideKeeps DEF TableInv, Types, Inside, Changing

\* The gap moves down past an entry that is greater than the new userid.
LEMMA MoveUpTable ==
  ASSUME LockInv, TableInv, NEW t \in Threads, MoveUp(t)
  PROVE  TableInv'
<1> USE DEF MoveUp, Moves, searchVars
<1> DEFINE n == addrTable_len
           j == k[t] + 1
<1>1. InsertRight(t) /\ k[t] >= 0 /\ addrs[k[t]].userid > key[t]
  BY DEF TableInv, PlaceRight
<1>2. /\ k[t] \in Int /\ j \in 1..MaxSize /\ j <= n /\ j - 1 = k[t] /\ j + 1 = k[t] + 2
      /\ j \in Cells /\ k[t] \in Cells
  BY <1>1, TableBounds DEF InsertRight, Cells
<1>3. addrs' = [addrs EXCEPT ![j] = addrs[j - 1]] /\ k' = [k EXCEPT ![t] = j - 2]
  <2>1. j - 1 = k[t] /\ j - 2 = k[t] - 1
    BY <1>2
  <2>2. addrs' = [addrs EXCEPT ![j] = addrs[k[t]]] /\ k' = [k EXCEPT ![t] = k[t] - 1]
    OBVIOUS
  <2> QED
    BY <2>1, <2>2
<1>9. OpRight(t)'
  BY DEF TableInv, OpRight
<1>10. n < MaxSize
  BY <1>1, <1>2, TableBounds DEF InsertRight, Array
<1> HIDE DEF j
<1>4. k'[t] = j - 2 /\ k'[t] + 1 = j - 1 /\ k'[t] + 2 = j
  BY <1>2, <1>3 DEF TableInv, Types
<1>5. Gap(addrs', j - 1) = Gap(addrs, j)
  BY <1>2, <1>3, GapMovesDown, TableBounds
<1>6. Types'
  <2>1. addrs' \in [Cells -> Cell]
    BY <1>2, <1>3, TableBounds
  <2>2. j - 2 \in -1..(MaxSize + 1)
    BY <1>2, TableBounds
  <2> QED
    BY <1>3, <2>1, <2>2 DEF TableInv, Types
<1>7. InsertRight(t)'
  <2>1. k'[t] \in -1..(n - 1)
    BY <1>2, <1>4, TableBounds
  <2>2. addrs'[j - 1] = addrs'[j]
    BY <1>2, <1>3, TableBounds
  <2>3. \A i \in Cells : i > j - 1 /\ i <= n => addrs'[i].userid > key[t]
    <3> SUFFICES ASSUME NEW i \in Cells, i > j - 1, i <= n PROVE addrs'[i].userid > key[t]
      OBVIOUS
    <3>1. i = j \/ i > j
      BY <1>2 DEF Cells
    <3>2. i = j => addrs'[i] = addrs[k[t]]
      BY <1>2, <1>3, TableBounds
    <3>3. i > j => addrs'[i] = addrs[i]
      BY <1>2, <1>3, TableBounds
    <3> QED
      BY <1>1, <1>2, <3>1, <3>2, <3>3 DEF InsertRight
  <2> QED
    <3>1. j = k[t] + 1
      BY <1>2
    <3> QED
      BY <1>1, <1>4, <1>5, <1>10, <2>1, <2>2, <2>3, <3>1 DEF InsertRight
<1>8. PlaceRight(t)'
  BY <1>7 DEF TableInv, Types, PlaceRight
<1> QED
  BY <1>6, <1>8, <1>9, InsideKeeps DEF TableInv, Types, Inside, Changing

\* The entry goes into the gap: what is below it is smaller, what is above it
\* greater.
LEMMA PlaceTable ==
  ASSUME LockInv, TableInv, NEW t \in Threads, Place(t)
  PROVE  TableInv'
<1> USE DEF Place, Goto, searchVars
<1> DEFINE n == addrTable_len
           j == k[t] + 1
           e == [userid |-> key[t], addr_ |-> t]
<1>1. /\ InsertRight(t) /\ ~Moves(t)
      /\ op[t] = "login" /\ key[t] = userid[t] /\ key[t] \in Users
  BY DEF TableInv, PlaceRight, OpRight
<1>2. /\ k[t] \in Int /\ j \in 0..n /\ j \in Cells /\ j <= MaxSize /\ k[t] = j - 1
      /\ addrs' = [addrs EXCEPT ![j] = e] /\ pc' = [pc EXCEPT ![t] = "grow"]
  BY <1>1, TableBounds DEF InsertRight, Cells
<1>3. OpRight(t)'
  BY <1>1 DEF TableInv, Types, OpRight
<1>12. n < MaxSize
  BY <1>1, <1>2, TableBounds DEF InsertRight, Array
<1> HIDE DEF j
<1>4. Compact(Gap(addrs, j), n) /\ Unclaimed(Gap(addrs, j), n, key[t])
  <2>1. j = k[t] + 1
    BY <1>2
  <2> QED
    BY <1>1, <2>1 DEF InsertRight, Good
<1>5. \A i \in Cells : i < j => addrs[i].userid < key[t]
  <2> SUFFICES ASSUME NEW i \in Cells, i < j PROVE addrs[i].userid < key[t]
    OBVIOUS
  <2>1. i \in Nat /\ i <= k[t] /\ k[t] >= 0 /\ k[t] \in Cells /\ k[t] < n /\ k[t] < j /\ i < n
    BY <1>2, TableBounds DEF Cells
  <2>2. Gap(addrs, j)[i] = addrs[i] /\ Gap(addrs, j)[k[t]] = addrs[k[t]]
    BY <2>1 DEF Gap
  <2>3. addrs[i].userid \in Nat /\ addrs[k[t]].userid \in Nat /\ key[t] \in Nat
    <3>1. addrs[i] \in Cell /\ addrs[k[t]] \in Cell
      BY <2>1, TableBounds
    <3> QED
      BY <3>1, <1>1, IdTypes
  <2>4. addrs[k[t]].userid < key[t]
    <3>1. ~(addrs[k[t]].userid > key[t])
      BY <1>1, <1>2, <2>1, TableBounds DEF Moves
    <3>2. addrs[k[t]].userid # key[t]
      BY <1>4, <2>1, <2>2 DEF Unclaimed
    <3> QED
      BY <3>1, <3>2, <2>3
  <2>5. i = k[t] \/ addrs[i].userid < addrs[k[t]].userid
    BY <1>2, <1>4, <2>1, <2>2 DEF Compact
  <2> QED
    BY <2>3, <2>4, <2>5
<1>6. \A i \in Cells : i > j /\ i <= n => addrs[i].userid > key[t]
  BY <1>1, <1>2 DEF InsertRight
<1>7. Compact(addrs', n + 1)
  <2>1. addrs \in [Cells -> Cell] /\ n \in Nat /\ n < MaxSize /\ MaxSize \in Nat
    BY <1>12, TableBounds
  <2>2. Compact([addrs EXCEPT ![j] = e], n + 1)
    BY <1>1, <1>2, <1>4, <1>5, <1>6, <2>1, GapFilled
  <2> QED
    BY <1>2, <2>2
<1>8. Kept(session, userid, addrs', n + 1)
  <2> SUFFICES ASSUME NEW u \in Threads, Sole(session, userid, u)
               PROVE  EntryIn(addrs', n + 1, userid[u], u)
    BY DEF Kept
  <2>1. EntryIn(Gap(addrs, j), n, userid[u], u)
    <3>1. j = k[t] + 1
      BY <1>2
    <3> QED
      BY <1>1, <3>1 DEF InsertRight, Good, Kept
  <2>2. n \in Nat /\ n <= MaxSize
    BY TableBounds
  <2> QED
    <3>1. EntryIn([addrs EXCEPT ![j] = e], n + 1, userid[u], u)
      BY <1>2, <2>1, <2>2, EntryBesideGap, TableBounds
    <3> QED
      BY <1>2, <3>1
<1>9. EntryIn(addrs', n + 1, userid[t], t)
  <2>1. addrs'[j] = [userid |-> userid[t], addr_ |-> t] /\ j < n + 1
    BY <1>1, <1>2, TableBounds
  <2> QED
    BY <2>1, <1>2 DEF EntryIn
<1>10. Types'
  <2>1. e \in Cell
    BY <1>1 DEF Cell
  <2>2. addrs' \in [Cells -> Cell]
    BY <1>2, <2>1, TableBounds
  <2> QED
    BY <2>2, <1>2 DEF TableInv, Types, Places
<1>11. PlaceRight(t)'
  <2>1. pc'[t] = "grow"
    BY <1>2 DEF TableInv, Types
  <2> QED
    BY <1>7, <1>8, <1>9, <1>12, <2>1 DEF PlaceRight, GrownRight, Good
<1> QED
  BY <1>2, <1>3, <1>10, <1>11, InsideKeeps DEF TableInv, Types, Inside, Changing

LEMMA ReadLengthTable ==
  ASSUME LockInv, TableInv, NEW t \in Threads, ReadLength(t)
  PROVE  TableInv'
<1> USE DEF ReadLength, Goto, globalVars, searchVars
<1>1. GrownRight(t)
  BY DEF TableInv, PlaceRight
<1>2. Types' /\ OpRight(t)'
  BY TableBounds DEF TableInv, Types, Places, OpRight
<1>3. PlaceRight(t)'
  BY <1>1 DEF TableInv, Types, PlaceRight, GrownRight
<1> QED
  BY <1>2, <1>3, InsideKeeps DEF TableInv, Types, Inside, Changing

\* The table has the new entry; there was room for it, or the insertion would
\* have left the array.
LEMMA WriteLengthTable ==
  ASSUME LockInv, TableInv, NEW t \in Threads, WriteLength(t)
  PROVE  TableInv'
<1> USE DEF WriteLength, Goto, globalVars, searchVars
<1> DEFINE n == addrTable_len
<1>1. GrownRight(t) /\ k[t] = n /\ op[t] = "login" /\ userid[t] \in Users
  BY DEF TableInv, PlaceRight, GrownRight, OpRight
<1>2. /\ addrTable_len' = n + 1 /\ session' = [session EXCEPT ![t] = "in"]
      /\ pc' = [pc EXCEPT ![t] = "unlock"]
  BY <1>1
<1>3. n + 1 \in 0..MaxSize
  BY <1>1, TableBounds DEF GrownRight
<1>4. Types'
  BY <1>2, <1>3 DEF TableInv, Types, Places
<1>5. OpRight(t)' /\ PlaceRight(t)'
  BY <1>1, <1>2 DEF TableInv, Types, OpRight, PlaceRight
<1>6. Good(session', userid', addrs', n + 1)
  <2>1. ASSUME NEW u \in Threads, Sole(session', userid, u)
        PROVE  EntryIn(addrs, n + 1, userid[u], u)
    <3>1. CASE u = t
      BY <3>1, <1>1 DEF GrownRight
    <3>2. CASE u # t
      <4>1. Sole(session, userid, u)
        BY <3>2, <2>1, <1>2 DEF Sole
      <4> QED
        BY <4>1, <1>1 DEF GrownRight, Good, Kept
    <3> QED
      BY <3>1, <3>2
  <2> QED
    BY <1>1, <2>1 DEF GrownRight, Good, Kept
<1> QED
  BY <1>2, <1>4, <1>5, <1>6, InsideKeeps DEF TableInv, Types, Inside, Changing

LEMMA RemoveNothingTable ==
  ASSUME LockInv, TableInv, NEW t \in Threads, RemoveNothing(t)
  PROVE  TableInv'
<1> USE DEF RemoveNothing, Goto, globalVars, searchVars
<1>1. Types' /\ OpRight(t)' /\ PlaceRight(t)'
  BY DEF TableInv, Types, Places, OpRight, PlaceRight
<1> QED
  BY <1>1, ReadKeeps DEF TableInv, Types, Inside, Changing

\* What goes is an entry with the userid of the leaving block, which is nobody
\* else's if it is anybody's own.
LEMMA RemoveFoundTable ==
  ASSUME LockInv, TableInv, NEW t \in Threads, RemoveFound(t)
  PROVE  TableInv'
<1> USE DEF RemoveFound, Goto, globalVars, searchVars
<1> DEFINE n == addrTable_len
<1>1. Good(session, userid, addrs, n)
  BY SeesGood DEF Inside, Changing
<1>2. FoundRight(t) /\ key[t] = userid[t] /\ session[t] = "gone"
  BY DEF TableInv, PlaceRight, OpRight
<1>3. k[t] \in 0..n /\ k[t] \in Cells /\ n \in Nat /\ n \in Cells
  BY <1>2, TableBounds DEF FoundRight, Cells
<1>4. userid[t] \in Users
  <2>1. addrs[k[t]] \in Cell
    BY <1>3, TableBounds
  <2>2. userid[t] \in Nat
    BY <1>2, <2>1, IdTypes DEF FoundRight
  <2> QED
    BY <2>2 DEF TableInv, Types, NoUser
<1>5. k[t] # n
  <2>1. addrs[n] = Zero
    BY <1>1, <1>3 DEF Good, Compact
  <2> QED
    BY <1>2, <1>4, <2>1, IdTypes DEF FoundRight, Zero
<1>6. k[t] \in 0..(n - 1) /\ k[t] < n /\ n <= MaxSize
  BY <1>3, <1>5, TableBounds
<1>7. Compact(Gap(addrs, k[t]), n - 1)
  BY <1>1, <1>3, <1>6, GapOpened, TableBounds DEF Good
<1>8. Kept(session, userid, Gap(addrs, k[t]), n - 1)
  <2> SUFFICES ASSUME NEW u \in Threads, Sole(session, userid, u)
               PROVE  EntryIn(Gap(addrs, k[t]), n - 1, userid[u], u)
    BY DEF Kept
  <2>1. EntryIn(addrs, n, userid[u], u)
    BY <1>1 DEF Good, Kept
  <2>2. u # t /\ userid[t] # userid[u]
    BY <1>2 DEF Sole
  <2>3. addrs[k[t]].userid # userid[u]
    BY <1>2, <2>2 DEF FoundRight
  <2> QED
    BY <1>3, <1>6, <2>1, <2>3, EntryBesideGap, TableBounds
<1>9. RemoveRight(t)'
  <2>1. \A i \in Cells : i >= n => addrs[i] = Zero
    <3>1. \A i \in Cells : i >= n => ~(i < n)
      BY <1>3 DEF Cells
    <3> QED
      BY <1>1, <3>1 DEF Good, Compact
  <2>2. n > 0 /\ k[t] \in 0..(n + 1)
    BY <1>3, <1>6
  <2> QED
    BY <1>7, <1>8, <2>1, <2>2 DEF RemoveRight, Good
<1>10. PlaceRight(t)'
  BY <1>9 DEF TableInv, Types, PlaceRight
<1>11. Types' /\ OpRight(t)'
  BY DEF TableInv, Types, Places, OpRight
<1> QED
  BY <1>10, <1>11, InsideKeeps DEF TableInv, Types, Inside, Changing

\* The gap moves up.
LEMMA MoveDownTable ==
  ASSUME LockInv, TableInv, NEW t \in Threads, MoveDown(t)
  PROVE  TableInv'
<1> USE DEF MoveDown, LastMoved, searchVars
<1> DEFINE n == addrTable_len
           j == k[t]
<1>1. RemoveRight(t)
  BY DEF TableInv, PlaceRight
<1>2. j \in 0..MaxSize /\ j \in 0..n /\ j \in Cells /\ j + 1 \in Cells
  BY <1>1, TableBounds DEF RemoveRight, Cells
<1>3. addrs' = [addrs EXCEPT ![j] = addrs[j + 1]] /\ k' = [k EXCEPT ![t] = j + 1]
  OBVIOUS
<1>4. k'[t] = j + 1
  BY <1>3 DEF TableInv, Types
<1>5. Gap(addrs', j + 1) = Gap(addrs, j)
  BY <1>2, <1>3, GapMovesUp, TableBounds
<1>6. Types'
  <2>1. addrs' \in [Cells -> Cell]
    BY <1>2, <1>3, TableBounds
  <2>2. j + 1 \in -1..(MaxSize + 1)
    BY <1>2, TableBounds
  <2> QED
    BY <1>3, <2>1, <2>2 DEF TableInv, Types
<1>7. RemoveRight(t)'
  <2>1. \A i \in Cells : i >= n => addrs'[i] = Zero
    <3> SUFFICES ASSUME NEW i \in Cells, i >= n PROVE addrs'[i] = Zero
      OBVIOUS
    <3>1. i = j => addrs[j + 1] = Zero
      <4>1. i = j => j + 1 >= n
        BY <1>2, TableBounds
      <4> QED
        BY <4>1, <1>1, <1>2 DEF RemoveRight
    <3>2. addrs[i] = Zero
      BY <1>1 DEF RemoveRight
    <3> QED
      BY <1>2, <1>3, <3>1, <3>2, TableBounds
  <2>2. j + 1 \in 0..(n + 1)
    BY <1>2, TableBounds
  <2> QED
    BY <1>1, <1>4, <1>5, <2>1, <2>2 DEF RemoveRight
<1>8. PlaceRight(t)' /\ OpRight(t)'
  BY <1>7 DEF TableInv, Types, PlaceRight, OpRight
<1> QED
  BY <1>6, <1>8, InsideKeeps DEF TableInv, Types, Inside, Changing

\* The gap has left the table.
LEMMA ShrinkTable ==
  ASSUME LockInv, TableInv, NEW t \in Threads, Shrink(t)
  PROVE  TableInv'
<1> USE DEF Shrink, LastMoved, Goto, searchVars
<1> DEFINE n == addrTable_len
<1>1. RemoveRight(t)
  BY DEF TableInv, PlaceRight
<1>2. k[t] = n + 1
  BY <1>1, TableBounds DEF RemoveRight
<1>3. Gap(addrs, n + 1) = addrs
  <2>1. \A i \in Cells : Gap(addrs, n + 1)[i] = addrs[i]
    <3> SUFFICES ASSUME NEW i \in Cells, i >= n + 1, i # MaxSize + 1 PROVE addrs[i + 1] = addrs[i]
      BY TableBounds DEF Gap, Cells
    <3>1. i + 1 \in Cells /\ i >= n /\ i + 1 >= n
      BY TableBounds DEF Cells
    <3> QED
      BY <1>1, <3>1 DEF RemoveRight
  <2>2. addrs \in [Cells -> Cell]
    BY TableBounds
  <2>3. Gap(addrs, n + 1) = [i \in Cells |-> Gap(addrs, n + 1)[i]]
    BY DEF Gap
  <2> QED
    BY <2>1, <2>2, <2>3
<1>4. Good(session, userid, addrs, n - 1)
  BY <1>1, <1>2, <1>3 DEF RemoveRight
<1>5. addrTable_len' = n - 1 /\ n - 1 \in 0..MaxSize
  BY <1>1, TableBounds DEF RemoveRight
<1>6. Types'
  BY <1>5 DEF TableInv, Types, Places
<1>7. OpRight(t)' /\ PlaceRight(t)'
  BY DEF TableInv, Types, OpRight, PlaceRight
<1> QED
  BY <1>4, <1>5, <1>6, <1>7, InsideKeeps DEF TableInv, Types, Inside, Changing

LEMMA TableInvInit == Init => TableInv
<1> SUFFICES ASSUME Init PROVE TableInv
  OBVIOUS
<1> USE DEF Init
<1>1. MaxSize \in Nat
  BY TableAssumption
<1>2. Types
  BY <1>1, TableAssumption DEF Types, Cell, Zero, Keys, Places
<1>4. ASSUME NEW t \in Threads PROVE OpRight(t) /\ PlaceRight(t)
  BY DEF OpRight, PlaceRight
<1>5. Compact(addrs, 0)
  <2>1. \A i \in Cells : ~(i < 0) /\ addrs[i] = Zero
    BY DEF Cells
  <2> QED
    BY <2>1 DEF Compact
<1>6. Good(session, userid, addrs, addrTable_len)
  BY <1>5 DEF Good, Kept, Sole
<1> QED
  BY <1>2, <1>4, <1>6 DEF TableInv

LEMMA TableInvStep == LockInv /\ TableInv /\ ~overlapped' /\ [Next]_vars => TableInv'
<1> SUFFICES ASSUME LockInv, TableInv, ~overlapped', [Next]_vars PROVE TableInv'
  OBVIOUS
<1>1. CASE UNCHANGED vars
  <2> USE <1>1 DEF vars, globalVars, historyVars, searchVars
  <2>1. Types' /\ (Quiet' => Quiet)
    BY DEF TableInv, Types, Quiet
  <2>2. ASSUME NEW t \in Threads PROVE OpRight(t)' /\ PlaceRight(t)'
    <3>1. OpRight(t) /\ PlaceRight(t)
      BY DEF TableInv
    <3> QED
      BY <3>1 DEF OpRight, PlaceRight, SearchRight, FoundRight, InsertRight, GrownRight,
         RemoveRight
  <2> QED
    BY <2>1, <2>2 DEF TableInv
<1> SUFFICES ASSUME NEW t \in Threads,
                    \/ StartLogin(t) \/ StartLookup(t) \/ StartRemove(t) \/ Lock(t) \/ Unlock(t)
                    \/ Search(t) \/ LookupEnds(t) \/ Refuse(t) \/ Insert(t) \/ Remove(t)
             PROVE  TableInv'
  BY <1>1 DEF Next, Finished, Strays
<1>3. CASE StartLogin(t)
  BY <1>3, StartLoginTable
<1>4. CASE StartLookup(t) \/ StartRemove(t) \/ Lock(t) \/ Unlock(t)
  BY <1>4, StartOtherTable
<1>5. CASE Search(t)
  BY <1>5, ReadBoundsTable, ProbeTable, SearchEndsTable DEF Search
<1>6. CASE LookupEnds(t)
  BY <1>6, LookupEndsTable
<1>7. CASE Refuse(t)
  BY <1>7, RefuseTable
<1>8. CASE Insert(t)
  BY <1>8, AdmitTable, ReadLastTable, MoveUpTable, PlaceTable, ReadLengthTable, WriteLengthTable
     DEF Insert
<1>9. CASE Remove(t)
  BY <1>9, RemoveNothingTable, RemoveFoundTable, MoveDownTable, ShrinkTable DEF Remove
<1> QED
  BY <1>3, <1>4, <1>5, <1>6, <1>7, <1>8, <1>9

\* The history only grows, and not in a step that changes the array.
LEMMA OverlapGrows ==
  overlapped \in BOOLEAN /\ [Next]_vars =>
    /\ overlapped' \in BOOLEAN
    /\ overlapped => overlapped'
    /\ overlapped' = overlapped \/ (overlapped' = TRUE /\ UNCHANGED addrs)
<1> SUFFICES ASSUME overlapped \in BOOLEAN, [Next]_vars
             PROVE  overlapped' = overlapped \/ (overlapped' = TRUE /\ UNCHANGED addrs)
  OBVIOUS
<1> USE DEF vars, globalVars, historyVars
<1>1. CASE UNCHANGED vars
  BY <1>1
<1> SUFFICES ASSUME NEW t \in Threads,
                    \/ StartLogin(t) \/ StartLookup(t) \/ StartRemove(t) \/ Lock(t) \/ Unlock(t)
                    \/ Search(t) \/ LookupEnds(t) \/ Refuse(t) \/ Insert(t) \/ Remove(t)
             PROVE  overlapped' = overlapped \/ (overlapped' = TRUE /\ UNCHANGED addrs)
  BY <1>1 DEF Next, Finished, Strays
<1>2. CASE StartLogin(t) \/ StartLookup(t) \/ StartRemove(t) \/ Lock(t) \/ Unlock(t)
  BY <1>2 DEF StartLogin, StartLookup, StartRemove, Start, Lock, Unlock
<1>3. CASE Search(t) \/ LookupEnds(t) \/ Refuse(t)
  BY <1>3 DEF Search, ReadBounds, Probe, SearchEnds, LookupEnds, Refuse
<1>4. CASE Insert(t)
  BY <1>4 DEF Insert, Admit, ReadLast, MoveUp, Place, ReadLength, WriteLength
<1>5. CASE Remove(t)
  BY <1>5 DEF Remove, RemoveNothing, RemoveFound, MoveDown, Shrink
<1> QED
  BY <1>2, <1>3, <1>4, <1>5

\* The inductive invariant: the discipline of the mutex and the shape of the
\* table, each of which the steps need to keep the other.
Sound == overlapped \in BOOLEAN /\ (overlapped \/ (LockInv /\ TableInv))

LEMMA SoundAlways == Spec => []Sound
<1>1. Init => Sound
  BY LockInvInit, TableInvInit DEF Sound, Init
<1>2. Sound /\ [Next]_vars => Sound'
  BY LockInvStep, TableInvStep, OverlapGrows DEF Sound
<1> QED
  BY <1>1, <1>2, PTL DEF Spec
-----------------------------------------------------------------------------
(* What the callers of the table rely on.                                  *)

\* Until a login overlaps another operation the variables have their types:
\* the length and the indices of the searches and loops stay in their ranges.
THEOREM TypesAlways == Spec => []TypeOK
<1>1. Sound => TypeOK
  BY DEF Sound, TableInv, TypeOK
<1> QED
  BY <1>1, SoundAlways, PTL

\* Whenever nobody is changing the array, its entries ascend without a repeated
\* userid and the memory after them is zero, whatever insertions and removals
\* came before, as long as no login overlapped: what every bisection starts from.
THEOREM SortedTableAlways == Spec => []SortedTable
<1>1. Sound => SortedTable
  BY DEF Sound, TableInv, Good, Compact, SortedTable
<1> QED
  BY <1>1, SoundAlways, PTL

\* binary_search is right about every key although its upper bound is one too
\* high: it stops at the entry of the key, at the zero cell after the last
\* entry, or with -1 when no entry has the key, until a login overlaps.
THEOREM FindsRegisteredAlways == Spec => []FindsRegistered
<1>1. Sound => FindsRegistered
  <2> SUFFICES ASSUME LockInv, TableInv, NEW t \in Threads
               PROVE  /\ pc[t] = "found" =>
                            /\ addrs[k[t]].userid = key[t]
                            /\ k[t] < addrTable_len \/ addrs[k[t]] = Zero
                      /\ pc[t] = "missing" => Unclaimed(addrs, addrTable_len, key[t])
    BY DEF Sound, FindsRegistered, Unclaimed
  <2>1. CASE pc[t] = "found"
    <3>1. FoundRight(t)
      BY <2>1 DEF TableInv, PlaceRight
    <3>2. Compact(addrs, addrTable_len)
      BY <2>1, SeesGood DEF Inside, Changing, Good
    <3>3. k[t] \in Cells
      BY <3>1, TableBounds DEF FoundRight, Cells
    <3> QED
      BY <2>1, <3>1, <3>2, <3>3 DEF FoundRight, Compact
  <2>2. CASE pc[t] = "missing"
    BY <2>2 DEF TableInv, PlaceRight
  <2> QED
    BY <2>1, <2>2
<1> QED
  BY <1>1, SoundAlways, PTL

\* Whatever the size of the array, and however many users log in: an operation
\* accesses memory outside it only after logins have overlapped, or when the
\* array is full, or, for a removal, when it has one cell left.
THEOREM InBoundsAlways == Spec => []InBounds
<1>1. Sound => InBounds
  <2> SUFFICES ASSUME TableInv, NEW t \in Threads, LeavesArray(t)
               PROVE  addrTable_len + (IF pc[t] = "remove" THEN 1 ELSE 0) >= MaxSize
    BY DEF Sound, InBounds
  <2>1. CASE pc[t] = "search" /\ low[t] <= hi[t] /\ Mid(t) \notin Array
    <3>1. SearchRight(t)
      BY <2>1 DEF TableInv, PlaceRight
    <3> QED
      BY <2>1, <3>1, TableBounds DEF SearchRight, Mid, Array
  <2>2. CASE pc[t] = "insert" /\ k[t] + 1 \notin Array
    <3>1. InsertRight(t)
      BY <2>2 DEF TableInv, PlaceRight
    <3> QED
      BY <2>2, <3>1, TableBounds DEF InsertRight, Array
  <2>3. CASE pc[t] = "remove" /\ k[t] <= LastMoved /\ k[t] + 1 \notin Array
    <3>1. RemoveRight(t)
      BY <2>3 DEF TableInv, PlaceRight
    <3> QED
      BY <2>3, <3>1, TableBounds DEF RemoveRight, LastMoved, Array
  <2> QED
    BY <2>1, <2>2, <2>3 DEF LeavesArray
<1> QED
  BY <1>1, SoundAlways, PTL

\* Nobody who has logged in under a userid that no other block has claimed is
\* ever missing from the table: the moves of other insertions and removals do
\* not lose an entry, and a removal never takes someone else's.  Only a login
\* that overlaps another operation can.
THEOREM EntryKeptAlways == Spec => []EntryKept
<1>1. Sound => EntryKept
  BY DEF Sound, TableInv, Good, Kept, Sole, EntryIn, EntryKept, LoggedInListed
<1> QED
  BY <1>1, SoundAlways, PTL
-----------------------------------------------------------------------------
(* The array behaves as the abstract directory.                            *)

Occupied(a) == {i \in Cells : a[i].addr_ # None}

Pairs(a) == {<<a[i].userid, a[i].addr_>> : i \in Occupied(a)}

\* s2 is s without one of its members.
LosesOne(s, s2) == \E p \in s : s2 = s \ {p}

\* A copy over a cell can only lose the pair of that cell.
LEMMA CopyLosesOne ==
  ASSUME NEW a \in [Cells -> Cell], NEW i \in Cells, NEW j \in Cells,
         NEW b, b = [a EXCEPT ![i] = a[j]]
  PROVE  Pairs(b) = Pairs(a) \/ LosesOne(Pairs(a), Pairs(b))
<1> DEFINE p == <<a[i].userid, a[i].addr_>>
<1>1. \A h \in Cells : b[h] = IF h = i THEN a[j] ELSE a[h]
  OBVIOUS
<1>2. Pairs(b) \subseteq Pairs(a)
  BY <1>1 DEF Pairs, Occupied
<1>3. Pairs(a) \subseteq Pairs(b) \cup {p}
  BY <1>1 DEF Pairs, Occupied
<1> QED
  BY <1>2, <1>3 DEF LosesOne

\* A write over a copy of another cell loses no pair.
LEMMA WriteOverCopy ==
  ASSUME NEW a \in [Cells -> Cell], NEW i \in Cells, NEW j \in Cells, i # j, a[i] = a[j],
         NEW c \in Cell
  PROVE  Pairs([a EXCEPT ![i] = c]) =
            Pairs(a) \cup (IF c.addr_ = None THEN {} ELSE {<<c.userid, c.addr_>>})
<1> DEFINE b == [a EXCEPT ![i] = c]
<1>1. \A h \in Cells : b[h] = IF h = i THEN c ELSE a[h]
  OBVIOUS
<1> HIDE DEF b
<1>2. Pairs(a) \subseteq Pairs(b)
  <2> SUFFICES ASSUME NEW h \in Occupied(a) PROVE <<a[h].userid, a[h].addr_>> \in Pairs(b)
    BY DEF Pairs
  <2>1. CASE h = i
    BY <2>1, <1>1 DEF Pairs, Occupied
  <2>2. CASE h # i
    BY <2>2, <1>1 DEF Pairs, Occupied
  <2> QED
    BY <2>1, <2>2
<1>3. Pairs(b) \subseteq Pairs(a) \cup (IF c.addr_ = None THEN {} ELSE {<<c.userid, c.addr_>>})
  BY <1>1 DEF Pairs, Occupied
<1>4. c.addr_ # None => <<c.userid, c.addr_>> \in Pairs(b)
  BY <1>1 DEF Pairs, Occupied
<1> QED
  BY <1>2, <1>3, <1>4 DEF b

\* The entry that an insertion places is the only one of its userid.
LEMMA PlaceRegisters ==
  ASSUME TableInv, NEW t \in Threads, Place(t)
  PROVE  /\ \A p \in Pairs(addrs) : p[1] # key[t]
         /\ Pairs(addrs') = Pairs(addrs) \cup {<<key[t], t>>}
<1> DEFINE n == addrTable_len
           j == k[t] + 1
           e == [userid |-> key[t], addr_ |-> t]
<1>1. InsertRight(t) /\ key[t] \in Users /\ addrs' = [addrs EXCEPT ![j] = e]
  BY DEF Place, TableInv, PlaceRight, OpRight
<1>2. /\ j \in 0..n /\ j \in Cells /\ j + 1 \in Cells /\ j # j + 1 /\ addrs[j] = addrs[j + 1]
      /\ Compact(Gap(addrs, j), n) /\ Unclaimed(Gap(addrs, j), n, key[t])
  <2>1. k[t] + 2 = j + 1 /\ j \in 0..n
    BY <1>1, TableBounds DEF InsertRight
  <2> QED
    BY <1>1, <2>1, TableBounds DEF InsertRight, Good, Cells
<1> HIDE DEF j
<1>3. ASSUME NEW i \in Cells, i # j, addrs[i].addr_ # None PROVE addrs[i].userid # key[t]
  <2>1. CASE i < j
    <3>1. Gap(addrs, j)[i] = addrs[i] /\ i < n
      BY <2>1, <1>2, TableBounds DEF Gap, Cells
    <3> QED
      BY <3>1, <1>2 DEF Unclaimed
  <2>2. CASE i > j
    <3>1. i - 1 \in Cells /\ Gap(addrs, j)[i - 1] = addrs[i]
      BY <2>2, <1>2, TableBounds DEF Gap, Cells
    <3>2. addrs[i] # Zero
      BY <1>3 DEF Zero
    <3> QED
      BY <3>1, <3>2, <1>2 DEF Compact, Unclaimed
  <2> QED
    BY <2>1, <2>2, <1>2, <1>3, TableBounds DEF Cells
<1>4. \A i \in Occupied(addrs) : addrs[i].userid # key[t]
  BY <1>2, <1>3 DEF Occupied
<1>5. e \in Cell /\ e.addr_ # None
  BY <1>1, TableAssumption DEF Cell
<1>6. Pairs(addrs') = Pairs(addrs) \cup {<<e.userid, e.addr_>>}
  <2>1. addrs \in [Cells -> Cell]
    BY TableBounds
  <2> HIDE DEF e
  <2> QED
    BY <1>1, <1>2, <1>5, <2>1, WriteOverCopy
<1> QED
  BY <1>4, <1>6 DEF Pairs

\* Moving an entry up leaves a second copy of it, over a cell that was a copy.
LEMMA MoveUpStutters ==
  ASSUME TableInv, NEW t \in Threads, MoveUp(t)
  PROVE  Pairs(addrs') = Pairs(addrs)
<1> DEFINE j == k[t] + 1
           c == addrs[k[t]]
<1>1. InsertRight(t) /\ k[t] >= 0 /\ addrs' = [addrs EXCEPT ![j] = c]
  BY DEF MoveUp, Moves, TableInv, PlaceRight
<1>2. j + 1 = k[t] + 2 /\ j \in Cells /\ j + 1 \in Cells /\ j # j + 1 /\ k[t] \in Cells
  BY <1>1, TableBounds DEF InsertRight, Cells
<1>3. addrs[j] = addrs[j + 1] /\ c \in Cell /\ addrs \in [Cells -> Cell]
  BY <1>1, <1>2, TableBounds DEF InsertRight
<1>4. c.addr_ # None => <<c.userid, c.addr_>> \in Pairs(addrs)
  BY <1>2 DEF Pairs, Occupied
<1> HIDE DEF j, c
<1>5. Pairs(addrs') = Pairs(addrs) \cup (IF c.addr_ = None THEN {} ELSE {<<c.userid, c.addr_>>})
  BY <1>1, <1>2, <1>3, WriteOverCopy
<1> QED
  BY <1>4, <1>5

LEMMA DirectoryStep ==
  ASSUME TableInv, [Next]_vars
  PROVE  \/ \E id \in Users, t \in Threads :
                /\ \A p \in Pairs(addrs) : p[1] # id
                /\ Pairs(addrs') = Pairs(addrs) \cup {<<id, t>>}
         \/ LosesOne(Pairs(addrs), Pairs(addrs'))
         \/ Pairs(addrs') = Pairs(addrs)
<1>1. CASE UNCHANGED addrs
  BY <1>1
<1>2. ASSUME NEW t \in Threads, MoveUp(t) PROVE Pairs(addrs') = Pairs(addrs)
  BY <1>2, MoveUpStutters
<1>3. ASSUME NEW t \in Threads, Place(t)
      PROVE  /\ key[t] \in Users
             /\ \A p \in Pairs(addrs) : p[1] # key[t]
             /\ Pairs(addrs') = Pairs(addrs) \cup {<<key[t], t>>}
  BY <1>3, PlaceRegisters DEF Place, TableInv, OpRight
<1>4. ASSUME NEW t \in Threads, MoveDown(t)
      PROVE  Pairs(addrs') = Pairs(addrs) \/ LosesOne(Pairs(addrs), Pairs(addrs'))
  <2>1. RemoveRight(t) /\ k[t] <= addrTable_len
    BY <1>4 DEF MoveDown, LastMoved, TableInv, PlaceRight
  <2>2. k[t] \in Cells /\ k[t] + 1 \in Cells /\ addrs \in [Cells -> Cell]
    BY <2>1, TableBounds DEF RemoveRight, Cells
  <2>3. addrs' = [addrs EXCEPT ![k[t]] = addrs[k[t] + 1]]
    BY <1>4 DEF MoveDown
  <2> QED
    BY <2>2, <2>3, CopyLosesOne
<1>5. CASE UNCHANGED vars \/ Finished
  BY <1>1, <1>5 DEF vars, globalVars, Finished
<1>6. ASSUME NEW t \in Threads,
             \/ StartLogin(t) \/ StartLookup(t) \/ StartRemove(t) \/ Lock(t) \/ Unlock(t)
             \/ Search(t) \/ LookupEnds(t) \/ Refuse(t)
             \/ (Insert(t) /\ ~MoveUp(t) /\ ~Place(t))
             \/ (Remove(t) /\ ~MoveDown(t))
      PROVE  UNCHANGED addrs
  <2>1. StartLogin(t) \/ StartLookup(t) \/ StartRemove(t) => UNCHANGED addrs
    BY DEF StartLogin, StartLookup, StartRemove, Start, globalVars
  <2>2. Lock(t) \/ Unlock(t) \/ LookupEnds(t) \/ Refuse(t) => UNCHANGED addrs
    BY DEF Lock, Unlock, LookupEnds, Refuse, globalVars
  <2>3. Search(t) => UNCHANGED addrs
    BY DEF Search, ReadBounds, Probe, SearchEnds, globalVars
  <2>4. Insert(t) /\ ~MoveUp(t) /\ ~Place(t) => UNCHANGED addrs
    BY DEF Insert, Admit, ReadLast, ReadLength, WriteLength, globalVars
  <2>5. Remove(t) /\ ~MoveDown(t) => UNCHANGED addrs
    BY DEF Remove, RemoveNothing, RemoveFound, Shrink, globalVars
  <2> QED
    BY <1>6, <2>1, <2>2, <2>3, <2>4, <2>5
<1> SUFFICES ASSUME NEW t \in Threads,
                    \/ StartLogin(t) \/ StartLookup(t) \/ StartRemove(t) \/ Lock(t) \/ Unlock(t)
                    \/ Search(t) \/ LookupEnds(t) \/ Refuse(t) \/ Insert(t) \/ Remove(t)
             PROVE  \/ MoveUp(t) \/ Place(t) \/ MoveDown(t) \/ UNCHANGED addrs
  BY <1>1, <1>2, <1>3, <1>4, <1>5 DEF Next, Strays
<1> QED
  BY <1>6

\* The table, changed cell by cell under a mutex that logins ignore, behaves as
\* a set of pairs in which a free userid is registered at once and a pair is
\* removed at once, the set that ConnectionHandler takes it for, up to the first
\* login that overlaps another operation.
THEOREM DirectoryImplemented == Spec => ImplementsDirectory
<1>1. Init => Directory!Init
  BY DEF Init, Directory!Init, Zero
<1>2. Sound /\ [Next]_vars => [Directory!Next]_(Directory!vars)
  <2> SUFFICES ASSUME Sound, [Next]_vars
               PROVE  Directory!Next \/ UNCHANGED Directory!vars
    OBVIOUS
  <2>1. CASE overlapped
    BY <2>1, OverlapGrows DEF Sound, Directory!Next, Directory!Overlap
  <2>2. CASE overlapped' # overlapped
    BY <2>2, OverlapGrows DEF Sound, Directory!Next, Directory!Overlap
  <2>3. CASE ~overlapped /\ overlapped' = overlapped
    <3>1. TableInv
      BY <2>3 DEF Sound
    <3> QED
      BY <2>3, <3>1, DirectoryStep DEF Directory!vars, Directory!Next, Directory!Register,
         Directory!Remove, LosesOne, Pairs, Occupied
  <2> QED
    BY <2>1, <2>2, <2>3, OverlapGrows DEF Sound
<1> QED
  BY <1>1, <1>2, SoundAlways, PTL DEF Spec, ImplementsDirectory, Directory!Spec
=============================================================================
