-------------------------- MODULE ThreadListProofs --------------------------
(***************************************************************************)
(* Theorems about ThreadList: the doubly linked list of threads, whatever  *)
(* the number of connections and whatever fails.                           *)
(*                                                                         *)
(* The invariant says that there is a sequence s of which next, prev, head,*)
(* tail and list_len are the links, that its threads are between Enlist    *)
(* and Unlink and own a node that has not been freed, and that a node not  *)
(* in s has no links, so that destroy_list_node knows it from its fields.  *)
(* That s is what the walk along next gives is the lemma WalkGivesList, so *)
(* that each step on the links is a step on s: an Append, the removal of   *)
(* one entry, or none.                                                     *)
(***************************************************************************)
EXTENDS ThreadList, FiniteSetTheorems, SequenceTheorems, WellFoundedInduction, TLAPS

\* The members of a list.
Has(s, t) == \E i \in 1..Len(s) : s[i] = t

\* The links of the list are those of the sequence s.
Linked(s) ==
    /\ \A i, j \in 1..Len(s) : s[i] = s[j] => i = j
    /\ list_len = Len(s)
    /\ head = IF Len(s) = 0 THEN None ELSE s[1]
    /\ tail = IF Len(s) = 0 THEN None ELSE s[Len(s)]
    /\ \A i \in 1..Len(s) : next[s[i]] = IF i = Len(s) THEN None ELSE s[i + 1]
    /\ \A i \in 2..Len(s) : prev[s[i]] = s[i - 1]

\* A thread that may be in the list.
Listable(t) ==
    /\ thr[t] \in {"serve", "cleanup", "unlink", "unlinking"}
    /\ node[t] = "live" /\ data[t] = "live" /\ tid[t] # None

Members(s) == \A i \in 1..Len(s) : Listable(s[i])

\* A node outside the list has no links as long as it is allocated.
Outsiders(s) ==
    \A t \in Threads : node[t] # "freed" /\ ~Has(s, t) => next[t] = None /\ prev[t] = None

\* Every serving thread is in the list, unless it started early or the shutdown
\* has just taken it out.
Serving(s) ==
    \A t \in Threads : thr[t] = "serve" => Has(s, t) \/ BeingJoined(t) \/ t \in early

\* Neither exception comes to an end while the thread serves.
ServingKept ==
    /\ early \subseteq early'
    /\ \A t \in Threads : thr'[t] = "serve" /\ BeingJoined(t) => BeingJoined(t)'

List(s) == Linked(s) /\ Members(s) /\ Outsiders(s) /\ Serving(s)

ListInv == \E s \in Seq(Threads) : List(s)

-----------------------------------------------------------------------------
(* Sequences.                                                              *)

\* Bounds the arithmetic of positions needs.
LEMMA TwoOrMore ==
  ASSUME NEW n \in Nat, n # 0
  PROVE  /\ n # 1 => 2 \in 1..n
         /\ \A i \in 3..n : i \in 1..n /\ 2 \in 1..n /\ i # 2 /\ n # 1
OBVIOUS

\* s without its entry at k.
Without(s, k) == [i \in 1..(Len(s) - 1) |-> IF i < k THEN s[i] ELSE s[i + 1]]

LEMMA WithoutProperties ==
  ASSUME NEW s \in Seq(Threads), NEW k \in 1..Len(s),
         \A i, j \in 1..Len(s) : s[i] = s[j] => i = j
  PROVE  /\ Without(s, k) \in Seq(Threads)
         /\ Len(Without(s, k)) = Len(s) - 1
         /\ \A i \in 1..(Len(s) - 1) :
               Without(s, k)[i] = IF i < k THEN s[i] ELSE s[i + 1]
         /\ \A i, j \in 1..(Len(s) - 1) : Without(s, k)[i] = Without(s, k)[j] => i = j
         /\ \A t : Has(Without(s, k), t) <=> Has(s, t) /\ t # s[k]
<1> DEFINE r == Without(s, k)
<1>1. Len(s) \in Nat /\ k \in Nat /\ k >= 1 /\ k <= Len(s) /\ Len(s) - 1 \in Nat
  OBVIOUS
<1>2. r \in [1..(Len(s) - 1) -> Threads]
  <2>1. \A i \in 1..(Len(s) - 1) : s[i] \in Threads /\ s[i + 1] \in Threads
    BY <1>1, ElementOfSeq
  <2> QED
    BY <2>1 DEF Without
<1>3. r \in Seq(Threads) /\ Len(r) = Len(s) - 1
  BY <1>1, <1>2
<1>4. \A i \in 1..(Len(s) - 1) : r[i] = IF i < k THEN s[i] ELSE s[i + 1]
  BY DEF Without
<1> HIDE DEF r
<1>5. ASSUME NEW i \in 1..(Len(s) - 1), NEW j \in 1..(Len(s) - 1), r[i] = r[j]
      PROVE  i = j
  BY <1>1, <1>4, <1>5
<1>6. ASSUME NEW t PROVE Has(r, t) <=> Has(s, t) /\ t # s[k]
  <2>1. ASSUME NEW i \in 1..Len(r), r[i] = t PROVE Has(s, t) /\ t # s[k]
    <3>1. CASE i < k
      BY <1>1, <1>3, <1>4, <2>1, <3>1 DEF Has
    <3>2. CASE ~(i < k)
      BY <1>1, <1>3, <1>4, <2>1, <3>2 DEF Has
    <3> QED
      BY <3>1, <3>2
  <2>2. ASSUME NEW i \in 1..Len(s), s[i] = t, t # s[k] PROVE Has(r, t)
    <3>1. CASE i < k
      BY <1>1, <1>3, <1>4, <2>2, <3>1 DEF Has
    <3>2. CASE i > k
      <4>1. i - 1 \in 1..Len(r) /\ ~(i - 1 < k) /\ (i - 1) + 1 = i
        BY <1>1, <1>3, <3>2
      <4> QED
        BY <1>3, <1>4, <2>2, <4>1 DEF Has
    <3> QED
      BY <1>1, <2>2, <3>1, <3>2
  <2> QED
    BY <2>1, <2>2 DEF Has
<1> QED
  BY <1>3, <1>4, <1>5, <1>6 DEF r

\* A sequence without repetition is not longer than the set has elements.
LEMMA ListIsShort ==
  ASSUME NEW s \in Seq(Threads), \A i, j \in 1..Len(s) : s[i] = s[j] => i = j
  PROVE  Len(s) <= Cardinality(Threads)
<1>1. Len(s) \in Nat /\ s \in [1..Len(s) -> Threads]
  OBVIOUS
<1>2. IsFiniteSet(1..Len(s)) /\ Cardinality(1..Len(s)) = Len(s)
  BY <1>1, FS_Interval
<1>3. IsFiniteSet(Threads) /\ Cardinality(Threads) \in Nat
  BY ListAssumption, FS_CardinalityType
<1>4. ASSUME Cardinality(Threads) < Len(s) PROVE FALSE
  <2>1. \E i, j \in 1..Len(s) : i # j /\ s[i] = s[j]
    BY <1>1, <1>2, <1>3, <1>4, FS_PigeonHole
  <2> QED
    BY <2>1
<1> QED
  BY <1>1, <1>3, <1>4

\* What cannot fail first cannot fail.
LEMMA LeastFailure ==
  ASSUME NEW N \in Nat, NEW Good \in SUBSET (0..N),
         \A n \in 0..N : (\A m \in 0..N : m < n => m \in Good) => n \in Good
  PROVE  0..N \subseteq Good
<1>1. SUFFICES ASSUME (0..N) \ Good # {} PROVE FALSE
  OBVIOUS
<1>2. (0..N) \ Good \subseteq Nat
  OBVIOUS
<1>3. PICK n \in (0..N) \ Good : \A m \in (0..N) \ Good : <<m, n>> \notin OpToRel(<, Nat)
  BY <1>1, <1>2, NatLessThanWellFounded, WFMin
<1>4. \A m \in 0..N : m < n => m \in Good
  BY <1>2, <1>3 DEF OpToRel
<1> QED
  BY <1>3, <1>4

\* The walk along next gives the sequence, and then NULL.
LEMMA WalkGivesList ==
  ASSUME NEW s \in Seq(Threads), Linked(s)
  PROVE  Listed = s /\ \A t : InList(t) <=> Has(s, t)
<1> DEFINE N == Cardinality(Threads)
           w == [n \in 0..N |-> IF n < Len(s) THEN s[n + 1] ELSE None]
<1>1. N \in Nat /\ Len(s) \in Nat /\ Len(s) <= N
  BY ListAssumption, FS_CardinalityType, ListIsShort DEF Linked
<1>2. \A i \in 1..Len(s) : s[i] \in Threads /\ s[i] # None
  BY ElementOfSeq, ListAssumption
<1> HIDE DEF N
<1>3. w = [n \in 0..N |-> IF n = 0 THEN head
                          ELSE IF w[n - 1] = None THEN None ELSE next[w[n - 1]]]
  <2>1. ASSUME NEW n \in 0..N
        PROVE  w[n] = IF n = 0 THEN head
                      ELSE IF w[n - 1] = None THEN None ELSE next[w[n - 1]]
    <3>1. CASE n = 0
      BY <1>1, <3>1 DEF Linked
    <3>2. CASE n # 0
      <4>1. n - 1 \in 0..N /\ n \in 1..N /\ (n - 1) + 1 = n
        BY <1>1, <3>2
      <4>2. w[n - 1] = IF n - 1 < Len(s) THEN s[n] ELSE None
        BY <4>1
      <4>3. CASE n - 1 < Len(s)
        <5>1. n \in 1..Len(s) /\ w[n - 1] = s[n] /\ s[n] # None
          BY <1>1, <1>2, <4>1, <4>2, <4>3
        <5>2. next[s[n]] = IF n = Len(s) THEN None ELSE s[n + 1]
          BY <5>1 DEF Linked
        <5> QED
          BY <1>1, <3>2, <4>1, <5>1, <5>2
      <4>4. CASE ~(n - 1 < Len(s))
        BY <1>1, <3>2, <4>1, <4>2, <4>4
      <4> QED
        BY <4>3, <4>4
    <3> QED
      BY <3>1, <3>2
  <2> QED
    BY <2>1
<1> HIDE DEF w
<1>4. Walk = [n \in 0..N |-> IF n = 0 THEN head
                             ELSE IF Walk[n - 1] = None THEN None ELSE next[Walk[n - 1]]]
  BY <1>3 DEF Walk, N
<1>5. \A n \in 0..N : Walk[n] = w[n]
  <2> DEFINE Good == {n \in 0..N : Walk[n] = w[n]}
  <2>1. ASSUME NEW n \in 0..N, \A m \in 0..N : m < n => m \in Good
        PROVE  n \in Good
    <3>1. Walk[n] = IF n = 0 THEN head
                    ELSE IF Walk[n - 1] = None THEN None ELSE next[Walk[n - 1]]
      BY <1>4
    <3>2. w[n] = IF n = 0 THEN head
                 ELSE IF w[n - 1] = None THEN None ELSE next[w[n - 1]]
      BY <1>3
    <3>3. n # 0 => n - 1 \in 0..N /\ n - 1 < n
      BY <1>1
    <3> QED
      BY <2>1, <3>1, <3>2, <3>3
  <2> HIDE DEF Good
  <2>2. Good \in SUBSET (0..N)
    BY DEF Good
  <2>3. 0..N \subseteq Good
    BY <1>1, <2>1, <2>2, LeastFailure
  <2> QED
    BY <2>3 DEF Good
<1>6. Listed = s
  <2>1. list_len = Len(s)
    BY DEF Linked
  <2>2. \A i \in 1..Len(s) : Walk[i - 1] = s[i]
    <3>1. ASSUME NEW i \in 1..Len(s) PROVE Walk[i - 1] = s[i]
      <4>1. i - 1 \in 0..N /\ i - 1 < Len(s) /\ (i - 1) + 1 = i
        BY <1>1
      <4> QED
        BY <1>5, <4>1 DEF w
    <3> QED
      BY <3>1
  <2>3. s = [i \in 1..Len(s) |-> s[i]]
    OBVIOUS
  <2> QED
    BY <2>1, <2>2, <2>3 DEF Listed
<1> QED
  BY <1>6 DEF InList, Has, Linked

-----------------------------------------------------------------------------
(* The life of a connection.                                               *)

\* TypeOK but for the bounds of list_len.
Types ==
    /\ mpc \in MainPlaces /\ cur \in Threads \cup {None} /\ kill_server \in BOOLEAN
    /\ fd \in [Threads -> Fds \cup {0}] /\ open \in [Fds -> Threads \cup {None}]
    /\ {node, data, blk} \subseteq [Threads -> {"none", "live", "freed"}]
    /\ {tid, next, prev} \subseteq [Threads -> Threads \cup {None}]
    /\ thr \in [Threads -> ThreadPlaces] /\ cancelled \in [Threads -> BOOLEAN]
    /\ head \in Threads \cup {None} /\ tail \in Threads \cup {None}
    /\ list_lock \in Threads \cup {None}
    /\ fault \in {"none", "null_dereference", "use_after_free"}
    /\ early \subseteq Threads /\ stolen \subseteq Threads

\* The main thread has a connection in its hand.
CurSet == mpc \notin {"head", "accept", "closing", "down"} => cur \in Threads

\* What has been made for a connection by the time it is accepted, the main
\* thread comes to a place, and its thread does.
NotYet == \A t \in Threads : fd[t] = 0 => node[t] = "none" /\ thr[t] = "none" /\ tid[t] = None

Made ==
    /\ mpc \in {"node", "block", "start", "settid"} => fd[cur] # 0
    /\ mpc \in {"node", "block", "start"} => thr[cur] = "none" /\ tid[cur] = None
    /\ mpc = "node" => node[cur] = "none"
    /\ mpc \in {"block", "start"} => node[cur] = "live" /\ data[cur] = "live"
    /\ mpc = "start" => blk[cur] = "live"

Alive ==
    \A t \in Threads :
        /\ thr[t] \in {"init", "enter"} => node[t] = "live" /\ data[t] = "live"
        /\ thr[t] \notin {"none", "exited"} => blk[t] = "live"

\* The node that is about to be popped is still the head, or has been freed.
PopsHead == mpc = "pop" /\ node[cur] = "live" => head = cur

\* A thread that is past its start without knowing its node started early.
Told ==
    /\ mpc = "settid" => thr[cur] # "none" /\ tid[cur] = None
    /\ \A t \in Threads :
        thr[t] \notin {"none", "init", "enter"} /\ tid[t] = None => t \in early

\* As long as there is no shutdown.
Orderly ==
    ~kill_server =>
        /\ mpc \in {"head", "accept", "node", "block", "start", "settid"}
        /\ \A t \in Threads :
            thr[t] \in {"serve", "refused", "cleanup", "unlink", "unlinking"} => node[t] = "live"
        /\ fault # "none" => early # {} \/ mpc = "start"

Life == Types /\ CurSet /\ NotYet /\ Made /\ Alive /\ PopsHead /\ Told /\ Orderly

LifeInv == Life /\ ListInv

\* A step that leaves the links alone, takes no thread of the list out of the
\* places where it may be listed, and has no node come back from the freed.
LEMMA QuietList ==
  ASSUME NEW s \in Seq(Threads), List(s), UNCHANGED listVars,
         \A t \in Threads : Has(s, t) /\ Listable(t) => Listable(t)',
         \A t \in Threads : node'[t] # "freed" => node[t] # "freed",
         \A t \in Threads : thr'[t] = "serve" => thr[t] = "serve", ServingKept
  PROVE  List(s)'
<1>1. Linked(s)'
  BY DEF List, Linked, listVars
<1>2. \A i \in 1..Len(s) : s[i] \in Threads /\ Has(s, s[i])
  BY ElementOfSeq DEF Has
<1>3. Members(s)'
  BY <1>2 DEF List, Members
<1>4. Outsiders(s)'
  BY DEF List, Outsiders, listVars
<1>5. Serving(s)'
  BY DEF List, Serving, ServingKept
<1> QED
  BY <1>1, <1>3, <1>4, <1>5 DEF List

\* The accept loop and the signal.
LEMMA AcceptLoopLife ==
  ASSUME Life, Running,
         LoopHead \/ Signal \/ Accept \/ CreateNode \/ CreateBlock \/ StartThread \/ SetTid
  PROVE  Life'
<1> USE ListAssumption DEF Life, Types, CurSet, NotYet, Made, Alive, PopsHead, Told, Orderly,
        MainPlaces, ThreadPlaces, fdVars, heapVars, listVars, Running
<1>1. CASE LoopHead
  BY <1>1 DEF LoopHead
<1>2. CASE Signal
  BY <1>2 DEF Signal
<1>3. CASE Accept
  <2>1. PICK t \in Threads, f \in Fds :
              fd[t] = 0 /\ fd' = [fd EXCEPT ![t] = f] /\ open' = [open EXCEPT ![f] = t] /\ cur' = t
    BY <1>3 DEF Accept
  <2>2. f # 0
    BY DEF Fds
  <2>3. /\ mpc = "accept" /\ mpc' = "node"
        /\ UNCHANGED <<kill_server, heapVars, thr, cancelled, listVars, list_lock, fault,
                        early, stolen>>
    BY <1>3 DEF Accept
  <2>4. fd' \in [Threads -> Fds \cup {0}] /\ open' \in [Fds -> Threads \cup {None}]
    BY <2>1
  <2>5. fd'[t] = f /\ \A u \in Threads : u # t => fd'[u] = fd[u]
    BY <2>1
  <2>6. node[t] = "none" /\ thr[t] = "none" /\ tid[t] = None
    BY <2>1
  <2>7. NotYet' /\ Made' /\ CurSet'
    BY <2>1, <2>2, <2>3, <2>5, <2>6
  <2>8. Alive' /\ PopsHead' /\ Told' /\ Orderly'
    BY <2>3
  <2>9. Types'
    BY <2>1, <2>3, <2>4
  <2> QED
    BY <2>7, <2>8, <2>9
<1>4. CASE CreateNode
  BY <1>4 DEF CreateNode, Close
<1>5. CASE CreateBlock
  BY <1>5 DEF CreateBlock, Close
<1>6. CASE StartThread
  BY <1>6 DEF StartThread, Close
<1>7. CASE SetTid
  BY <1>7 DEF SetTid
<1> QED
  BY <1>1, <1>2, <1>3, <1>4, <1>5, <1>6, <1>7

\* The shutdown loop, which there is none of without a signal.
LEMMA ShutdownLife ==
  ASSUME Life, ListInv, Running,
         PopRead \/ PopUnlink \/ CancelThread \/ JoinThread \/ Shutdown
  PROVE  Life'
<1> USE ListAssumption DEF Life, Types, CurSet, NotYet, Made, Alive, PopsHead, Told, Orderly,
        MainPlaces, ThreadPlaces, fdVars, heapVars, listVars, Running
<1>1. CASE PopRead
  BY <1>1 DEF PopRead
<1>2. CASE PopUnlink
  <2>1. CASE node[cur] = "live"
    <3>1. PICK s \in Seq(Threads) : List(s)
      BY DEF ListInv
    <3>2. cur \in Threads /\ cur = head /\ cur # None
      BY <1>2, <2>1 DEF PopUnlink
    <3>3. Len(s) \in Nat /\ Len(s) # 0 /\ s[1] = cur
      BY <3>1, <3>2 DEF List, Linked
    <3>4. thr[cur] \notin {"init", "enter"}
      BY <3>1, <3>3 DEF List, Members, Listable
    <3> QED
      BY <1>2, <2>1, <3>2, <3>4 DEF PopUnlink
  <2>2. CASE node[cur] = "freed"
    BY <1>2, <2>2 DEF PopUnlink
  <2> QED
    BY <1>2, <2>1, <2>2 DEF PopUnlink
<1>3. CASE CancelThread
  BY <1>3 DEF CancelThread
<1>4. CASE JoinThread
  BY <1>4 DEF JoinThread
<1>5. CASE Shutdown
  BY <1>5 DEF Shutdown
<1> QED
  BY <1>1, <1>2, <1>3, <1>4, <1>5

LEMMA ThreadLife ==
  ASSUME Life, Running, NEW t \in Threads,
         LockList(t) \/ Enlist(t) \/ TurnAway(t) \/ Leave(t) \/ CloseSocket(t) \/ FreeBlock(t)
  PROVE  Life'
<1> USE ListAssumption DEF Life, Types, CurSet, NotYet, Made, Alive, PopsHead, Told, Orderly,
        MainPlaces, ThreadPlaces, mainVars, fdVars, heapVars, listVars, Running, Goto
<1>1. CASE LockList(t)
  BY <1>1 DEF LockList
<1>2. CASE Enlist(t)
  BY <1>2 DEF Enlist, LinkLast, NoteEarly
<1>3. CASE TurnAway(t)
  BY <1>3 DEF TurnAway, Close, NoteEarly
<1>4. CASE Leave(t)
  BY <1>4 DEF Leave
<1>5. CASE CloseSocket(t)
  BY <1>5 DEF CloseSocket, Close
<1>6. CASE FreeBlock(t)
  BY <1>6 DEF FreeBlock
<1> QED
  BY <1>1, <1>2, <1>3, <1>4, <1>5, <1>6

\* destroy_list_node tells by its fields whether a node is in the list.
LEMMA InsertedIsListed ==
  ASSUME Types, NEW s \in Seq(Threads), List(s), NEW t \in Threads, node[t] = "live"
  PROVE  /\ Inserted(t) <=> Has(s, t)
         /\ FollowsNull(t) <=> tid[t] = None
<1>1. Len(s) \in Nat /\ \A i \in 1..Len(s) : s[i] \in Threads /\ s[i] # None
  BY ElementOfSeq, ListAssumption
<1>2. Inserted(t) => Has(s, t)
  <2>1. ASSUME ~Has(s, t), Inserted(t) PROVE FALSE
    <3>1. next[t] = None /\ prev[t] = None
      BY <2>1 DEF List, Outsiders
    <3>2. head = t /\ t # None
      BY <2>1, <3>1 DEF Inserted, NotInserted
    <3>3. Len(s) # 0 /\ s[1] = t
      BY <3>2 DEF List, Linked
    <3> QED
      BY <1>1, <2>1, <3>3 DEF Has
  <2> QED
    BY <2>1
<1>3. ASSUME NEW k \in 1..Len(s), s[k] = t
      PROVE  Inserted(t) /\ (head = t \/ prev[t] # None)
  <2>1. CASE k = 1
    <3>1. head = t
      BY <1>1, <1>3, <2>1 DEF List, Linked
    <3> QED
      BY <1>1, <1>3, <3>1 DEF Inserted, NotInserted
  <2>2. CASE k # 1
    <3>1. k \in 2..Len(s) /\ k - 1 \in 1..Len(s)
      BY <1>1, <2>2
    <3>2. prev[t] = s[k - 1]
      BY <1>3, <3>1 DEF List, Linked
    <3>3. head # None
      BY <1>1, <3>1 DEF List, Linked
    <3> QED
      BY <1>1, <3>1, <3>2, <3>3 DEF Inserted, NotInserted
  <2> QED
    BY <2>1, <2>2
<1> QED
  BY <1>2, <1>3 DEF Has, FollowsNull

LEMMA UnlinkLife ==
  ASSUME Life, ListInv, Running, NEW t \in Threads, Unlink(t)
  PROVE  Life'
<1> USE ListAssumption DEF Life, Types, CurSet, NotYet, Made, Alive, PopsHead, Told, Orderly,
        MainPlaces, ThreadPlaces, mainVars, fdVars, heapVars, listVars, Running, Goto
<1>1. thr[t] = "unlinking" /\ thr' = [thr EXCEPT ![t] = "drain"] /\ list_lock' = None
      /\ UNCHANGED <<mpc, cur, kill_server, fd, open, blk, tid, cancelled, early, stolen>>
  BY DEF Unlink
<1>2. CASE UNCHANGED <<listVars, node, data, fault>>
  BY <1>1, <1>2
<1>3. CASE node[t] = "freed" /\ UNCHANGED <<listVars, node, data>> /\ fault' = "use_after_free"
  BY <1>1, <1>3
<1>4. PICK s \in Seq(Threads) : List(s)
  BY DEF ListInv
<1>5. CASE FollowsNull(t) /\ UNCHANGED <<listVars, node, data>> /\ fault' = "null_dereference"
  <2>1. ~kill_server => early # {}
    <3>1. ASSUME ~kill_server PROVE t \in early
      <4>1. node[t] = "live"
        BY <1>1, <3>1
      <4>2. tid[t] = None
        BY <1>4, <1>5, <4>1, InsertedIsListed
      <4> QED
        BY <1>1, <4>2
    <3> QED
      BY <3>1
  <2> QED
    BY <1>1, <1>5, <2>1
<1>6. CASE node[t] = "live" /\ FreeNode(t) /\ UNCHANGED <<listVars, fault>>
  BY <1>1, <1>6 DEF FreeNode
<1>7. CASE node[t] = "live" /\ TakeOut(t) /\ FreeNode(t) /\ UNCHANGED fault
  <2>1. next \in [Threads -> Threads \cup {None}] /\ prev \in [Threads -> Threads \cup {None}]
    OBVIOUS
  <2>2. next[t] \in Threads \cup {None} /\ prev[t] \in Threads \cup {None}
    BY <2>1
  <2>3. next' \in [Threads -> Threads \cup {None}] /\ prev' \in [Threads -> Threads \cup {None}]
    <3>1. CASE t = head
      BY <1>7, <2>1, <3>1 DEF TakeOut
    <3>2. CASE t # head
      <4>1. /\ next' = [next EXCEPT ![prev[t]] = next[t]]
            /\ prev' = [u \in Threads |-> IF u = next[t] THEN prev[t] ELSE prev[u]]
        BY <1>7, <3>2 DEF TakeOut, Bypass
      <4>2. \A u \in Threads : prev[u] \in Threads \cup {None}
        BY <2>1
      <4> QED
        BY <2>1, <2>2, <4>1, <4>2
    <3> QED
      BY <3>1, <3>2
  <2>4. head' \in Threads \cup {None} /\ (head # t => head' = head)
    BY <1>7, <2>2 DEF TakeOut, Bypass
  <2>5. tail' \in Threads \cup {None}
    BY <1>7, <2>2 DEF TakeOut, NewTail
  <2>6. node' = [node EXCEPT ![t] = "freed"] /\ data' = [data EXCEPT ![t] = "freed"]
    BY <1>7 DEF FreeNode
  <2>7. Types'
    BY <1>1, <1>7, <2>3, <2>4, <2>5, <2>6
  <2>8. NotYet' /\ Made' /\ CurSet' /\ Alive' /\ PopsHead' /\ Told'
    BY <1>1, <1>7, <2>4, <2>6
  <2>9. Orderly'
    BY <1>1, <1>7, <2>6
  <2> QED
    BY <2>7, <2>8, <2>9
<1> QED
  BY <1>2, <1>3, <1>5, <1>6, <1>7 DEF Unlink, DestroyListNode

-----------------------------------------------------------------------------
(* The list.                                                               *)

\* append_list_node puts the node at the end.
LEMMA EnlistList ==
  ASSUME Life, Running, NEW s \in Seq(Threads), List(s), NEW t \in Threads, Enlist(t)
  PROVE  \/ List(s)'
         \/ Append(s, t) \in Seq(Threads) /\ List(Append(s, t))'
<1>0. ServingKept
  BY DEF Enlist, NoteEarly, ServingKept, BeingJoined, mainVars
<1>1. /\ thr[t] = "enter" /\ thr' = [thr EXCEPT ![t] = "serve"]
      /\ UNCHANGED <<mainVars, fdVars, heapVars, cancelled>>
  BY DEF Enlist, Goto
<1>2. thr \in [Threads -> ThreadPlaces] /\ next \in [Threads -> Threads \cup {None}]
      /\ prev \in [Threads -> Threads \cup {None}]
  BY DEF Life, Types
<1>3. /\ thr'[t] = "serve" /\ \A u \in Threads : u # t => thr'[u] = thr[u]
  BY <1>1, <1>2
<1>4. node[t] = "live" /\ data[t] = "live"
  BY <1>1 DEF Life, Alive
<1>5. ~Has(s, t) /\ \A i \in 1..Len(s) : s[i] \in Threads /\ s[i] # t
  BY <1>1, ElementOfSeq DEF List, Members, Listable, Has
<1>6. CASE tid[t] # None
  <2> DEFINE r == Append(s, t)
             n == Len(s)
  <2>1. n \in Nat /\ r \in Seq(Threads) /\ Len(r) = n + 1 /\ r[n + 1] = t
    OBVIOUS
  <2>2. \A i \in 1..n : r[i] = s[i]
    OBVIOUS
  <2> HIDE DEF r
  <2>3. /\ LinkLast(t) /\ tail' = t /\ list_len' = list_len + 1
    BY <1>6 DEF Enlist
  <2>4. next[t] = None /\ prev[t] = None
    BY <1>4, <1>5 DEF List, Outsiders
  <2>5. \A u : Has(r, u) <=> Has(s, u) \/ u = t
    <3>1. \A i \in 1..(n + 1) : i \in 1..n \/ i = n + 1
      BY <2>1
    <3>2. \A i \in 1..n : i \in 1..(n + 1)
      BY <2>1
    <3>3. n + 1 \in 1..(n + 1)
      BY <2>1
    <3> QED
      BY <2>1, <2>2, <3>1, <3>2, <3>3 DEF Has
  <2>6. \A i, j \in 1..(n + 1) : r[i] = r[j] => i = j
    <3>1. \A i \in 1..(n + 1) : i \in 1..n \/ i = n + 1
      BY <2>1
    <3>2. \A i, j \in 1..n : s[i] = s[j] => i = j
      BY DEF List, Linked
    <3> QED
      BY <1>5, <2>1, <2>2, <3>1, <3>2
  <2>7. /\ list_len = n
        /\ head = IF n = 0 THEN None ELSE s[1]
        /\ tail = IF n = 0 THEN None ELSE s[n]
        /\ \A i \in 1..n : next[s[i]] = IF i = n THEN None ELSE s[i + 1]
        /\ \A i \in 2..n : prev[s[i]] = s[i - 1]
    BY DEF List, Linked
  <2>8. ASSUME n = 0 PROVE Linked(r)' /\ Outsiders(r)'
    <3>1. head' = t /\ UNCHANGED <<next, prev>>
      BY <2>3, <2>7, <2>8 DEF LinkLast
    <3>2. Linked(r)'
      BY <2>1, <2>3, <2>4, <2>6, <2>7, <2>8, <3>1 DEF Linked
    <3>3. Outsiders(r)'
      BY <1>1, <2>5, <3>1 DEF List, Outsiders, heapVars
    <3> QED
      BY <3>2, <3>3
  <2>9. ASSUME n # 0 PROVE Linked(r)' /\ Outsiders(r)'
    <3>1. n \in 1..n /\ 1 \in 1..n /\ s[n] \in Threads /\ s[n] # t
      BY <1>5, <2>1, <2>9
    <3>2. /\ head # None /\ tail = s[n]
          /\ next' = [next EXCEPT ![s[n]] = t] /\ prev' = [prev EXCEPT ![t] = s[n]] /\ head' = head
      BY <1>5, <2>3, <2>7, <2>9, <3>1, ListAssumption DEF LinkLast
    <3>3. /\ next'[s[n]] = t /\ \A u \in Threads : u # s[n] => next'[u] = next[u]
          /\ prev'[t] = s[n] /\ \A u \in Threads : u # t => prev'[u] = prev[u]
      BY <1>2, <3>1, <3>2
    <3>4. \A i \in 1..(n + 1) : next'[r[i]] = IF i = n + 1 THEN None ELSE r[i + 1]
      <4>1. ASSUME NEW i \in 1..(n + 1)
            PROVE  next'[r[i]] = IF i = n + 1 THEN None ELSE r[i + 1]
        <5>1. CASE i = n + 1
          BY <2>1, <2>4, <3>1, <3>3, <5>1
        <5>2. CASE i = n
          BY <2>1, <2>2, <2>9, <3>1, <3>3, <5>2
        <5>3. CASE i < n
          <6>1. i \in 1..n /\ i + 1 \in 1..n /\ i # n
            BY <2>1, <5>3
          <6>2. s[i] # s[n]
            BY <3>1, <6>1 DEF List, Linked
          <6> QED
            BY <1>5, <2>2, <2>7, <3>3, <6>1, <6>2, <5>3, <2>1
        <5> QED
          BY <2>1, <5>1, <5>2, <5>3
      <4> QED
        BY <4>1
    <3>5. \A i \in 2..(n + 1) : prev'[r[i]] = r[i - 1]
      <4>1. ASSUME NEW i \in 2..(n + 1) PROVE prev'[r[i]] = r[i - 1]
        <5>1. CASE i = n + 1
          BY <2>1, <2>2, <3>1, <3>3, <5>1
        <5>2. CASE i # n + 1
          <6>1. i \in 2..n /\ i \in 1..n /\ i - 1 \in 1..n
            BY <2>1, <5>2
          <6>2. r[i] = s[i] /\ r[i - 1] = s[i - 1] /\ prev[s[i]] = s[i - 1]
            BY <2>2, <2>7, <6>1
          <6> QED
            BY <1>5, <3>3, <6>1, <6>2
        <5> QED
          BY <5>1, <5>2
      <4> QED
        BY <4>1
    <3>6. /\ head' = IF Len(r) = 0 THEN None ELSE r[1]
          /\ tail' = IF Len(r) = 0 THEN None ELSE r[Len(r)]
          /\ list_len' = Len(r)
      BY <2>1, <2>2, <2>3, <2>7, <2>9, <3>1, <3>2
    <3>7. Linked(r)'
      BY <2>1, <2>6, <3>4, <3>5, <3>6 DEF Linked
    <3>8. Outsiders(r)'
      <4>1. Has(s, s[n])
        BY <3>1 DEF Has
      <4>2. ASSUME NEW u \in Threads, node[u] # "freed", ~Has(r, u)
            PROVE  next'[u] = None /\ prev'[u] = None
        <5>1. u # t /\ ~Has(s, u) /\ u # s[n]
          BY <2>5, <4>1, <4>2
        <5> QED
          BY <3>3, <4>2, <5>1 DEF List, Outsiders
      <4>3. node' = node
        BY <1>1 DEF heapVars
      <4> QED
        BY <4>2, <4>3 DEF Outsiders
    <3> QED
      BY <3>7, <3>8
  <2>10. Members(r)'
    <3>1. ASSUME NEW i \in 1..(n + 1) PROVE Listable(r[i])'
      <4>1. CASE i = n + 1
        BY <1>1, <1>3, <1>4, <1>6, <2>1, <4>1 DEF Listable, heapVars
      <4>2. CASE i # n + 1
        <5>1. i \in 1..n
          BY <2>1, <4>2
        <5>2. Listable(s[i])
          BY <5>1 DEF List, Members
        <5> QED
          BY <1>1, <1>3, <1>5, <2>2, <5>1, <5>2 DEF Listable, heapVars
      <4> QED
        BY <4>1, <4>2
    <3> QED
      BY <2>1, <3>1 DEF Members
  <2>11. Serving(r)'
    BY <1>0, <1>3, <2>5 DEF List, Serving, ServingKept
  <2> QED
    BY <2>1, <2>8, <2>9, <2>10, <2>11 DEF List, r
<1>7. CASE tid[t] = None
  <2>1. UNCHANGED listVars
    BY <1>7 DEF Enlist
  <2>2. t \in early'
    BY <1>7 DEF Enlist, NoteEarly
  <2>3. Linked(s)' /\ Outsiders(s)' /\ Serving(s)'
    BY <1>0, <1>1, <1>3, <2>1, <2>2
    DEF List, Linked, Outsiders, Serving, ServingKept, listVars, heapVars
  <2>4. Members(s)'
    BY <1>1, <1>3, <1>5 DEF List, Members, Listable, heapVars
  <2> QED
    BY <2>3, <2>4 DEF List
<1> QED
  BY <1>6, <1>7

\* What remains of the links when the node at k has been passed over.
LEMMA LinksWithout ==
  ASSUME NEW s \in Seq(Threads), Linked(s), NEW k \in 1..Len(s), Types,
         list_len' = list_len - 1,
         head' = IF k = 1 THEN next[s[1]] ELSE head,
         tail' = IF Len(s) = 1 THEN None ELSE IF k = Len(s) THEN s[k - 1] ELSE tail,
         \A i \in 1..Len(s) :
            i # k => next'[s[i]] = IF i + 1 = k THEN next[s[k]] ELSE next[s[i]],
         \A i \in 3..Len(s) :
            i # k => prev'[s[i]] = IF i - 1 = k THEN prev[s[k]] ELSE prev[s[i]],
         2 <= Len(s) /\ k # 1 /\ k # 2 => prev'[s[2]] = prev[s[2]]
  PROVE  Linked(Without(s, k))'
<1> DEFINE r == Without(s, k)
           n == Len(s)
<1>1. /\ r \in Seq(Threads) /\ Len(r) = n - 1
      /\ \A i \in 1..(n - 1) : r[i] = IF i < k THEN s[i] ELSE s[i + 1]
      /\ \A i, j \in 1..(n - 1) : r[i] = r[j] => i = j
  BY WithoutProperties DEF Linked
<1>2. n \in Nat /\ k \in Nat /\ 1 <= k /\ k <= n
  OBVIOUS
<1>3. /\ list_len = n /\ head = s[1] /\ tail = s[n]
      /\ \A i \in 1..n : next[s[i]] = IF i = n THEN None ELSE s[i + 1]
      /\ \A i \in 2..n : prev[s[i]] = s[i - 1]
  BY <1>2 DEF Linked
<1> HIDE DEF r, n
<1>4. head' = IF n - 1 = 0 THEN None ELSE r[1]
  <2>1. CASE k = 1
    <3>1. next[s[1]] = IF 1 = n THEN None ELSE s[2]
      BY <1>2, <1>3
    <3>2. n # 1 => r[1] = s[2]
      BY <1>1, <1>2, <2>1
    <3> QED
      BY <1>2, <2>1, <3>1, <3>2
  <2>2. CASE k # 1
    <3>1. n # 1 /\ r[1] = s[1]
      BY <1>1, <1>2, <2>2
    <3> QED
      BY <1>2, <1>3, <2>2, <3>1
  <2> QED
    BY <2>1, <2>2
<1>5. tail' = IF n - 1 = 0 THEN None ELSE r[n - 1]
  <2>1. CASE n = 1
    BY <2>1 DEF n
  <2>2. CASE n # 1 /\ k = n
    <3>1. r[n - 1] = s[n - 1]
      BY <1>1, <1>2, <2>2
    <3> QED
      BY <1>2, <2>2, <3>1 DEF n
  <2>3. CASE n # 1 /\ k # n
    <3>1. r[n - 1] = s[n]
      BY <1>1, <1>2, <2>3
    <3> QED
      BY <1>2, <1>3, <2>3, <3>1 DEF n
  <2> QED
    BY <2>1, <2>2, <2>3
<1>6. ASSUME NEW i \in 1..(n - 1)
      PROVE  next'[r[i]] = IF i = n - 1 THEN None ELSE r[i + 1]
  <2>1. i \in 1..n /\ i + 1 \in 1..n /\ i # n
    BY <1>2
  <2>2. CASE i < k
    <3>1. r[i] = s[i] /\ next[s[i]] = s[i + 1] /\ i # k
      BY <1>1, <1>2, <1>3, <2>1, <2>2
    <3>2. next'[s[i]] = IF i + 1 = k THEN next[s[k]] ELSE s[i + 1]
      BY <2>1, <3>1 DEF n
    <3>3. CASE i + 1 = k
      <4>1. next[s[k]] = IF k = n THEN None ELSE s[k + 1]
        BY <1>2, <1>3
      <4>2. k # n => r[i + 1] = s[k + 1]
        BY <1>1, <1>2, <3>3
      <4> QED
        BY <1>2, <3>1, <3>2, <3>3, <4>1, <4>2
    <3>4. CASE i + 1 # k
      <4>1. i # n - 1 /\ r[i + 1] = s[i + 1]
        BY <1>1, <1>2, <2>2, <3>4
      <4> QED
        BY <3>1, <3>2, <3>4, <4>1
    <3> QED
      BY <3>3, <3>4
  <2>3. CASE ~(i < k)
    <3>1. r[i] = s[i + 1] /\ i + 1 # k /\ (i + 1) + 1 # k
      BY <1>1, <1>2, <2>1, <2>3
    <3>2. next'[s[i + 1]] = next[s[i + 1]]
      BY <2>1, <3>1 DEF n
    <3>3. next[s[i + 1]] = IF i + 1 = n THEN None ELSE s[(i + 1) + 1]
      BY <1>3, <2>1
    <3>4. i + 1 # n => r[i + 1] = s[(i + 1) + 1]
      BY <1>1, <1>2, <2>1, <2>3
    <3> QED
      BY <1>2, <3>1, <3>2, <3>3, <3>4
  <2> QED
    BY <2>2, <2>3
<1>7. ASSUME NEW i \in 2..(n - 1)
      PROVE  prev'[r[i]] = r[i - 1]
  <2>1. i \in 2..n /\ i + 1 \in 3..n /\ i - 1 \in 1..(n - 1) /\ i \in 1..(n - 1)
    BY <1>2
  <2>2. CASE i < k
    <3>1. r[i] = s[i] /\ r[i - 1] = s[i - 1] /\ i # k /\ i - 1 # k
      BY <1>1, <1>2, <2>1, <2>2
    <3>2. prev[s[i]] = s[i - 1]
      BY <1>3, <2>1
    <3>3. prev'[s[i]] = prev[s[i]]
      <4>1. CASE i = 2
        BY <1>2, <2>1, <2>2, <4>1 DEF n
      <4>2. CASE i # 2
        <5>1. i \in 3..n
          BY <1>2, <2>1, <4>2
        <5> QED
          BY <3>1, <5>1 DEF n
      <4> QED
        BY <4>1, <4>2
    <3> QED
      BY <3>1, <3>2, <3>3
  <2>3. CASE ~(i < k)
    <3>1. r[i] = s[i + 1] /\ i + 1 # k
      BY <1>1, <1>2, <2>1, <2>3
    <3>2. prev'[s[i + 1]] = IF (i + 1) - 1 = k THEN prev[s[k]] ELSE prev[s[i + 1]]
      BY <2>1, <3>1 DEF n
    <3>3. CASE i = k
      <4>1. prev[s[k]] = s[k - 1]
        BY <1>3, <2>1, <3>3
      <4>2. r[i - 1] = s[k - 1]
        BY <1>1, <1>2, <2>1, <3>3
      <4> QED
        BY <1>2, <3>1, <3>2, <3>3, <4>1, <4>2
    <3>4. CASE i # k
      <4>1. r[i - 1] = s[i] /\ (i + 1) - 1 # k
        BY <1>1, <1>2, <2>1, <2>3, <3>4
      <4>2. prev[s[i + 1]] = s[i]
        BY <1>3, <2>1
      <4> QED
        BY <3>1, <3>2, <4>1, <4>2
    <3> QED
      BY <3>3, <3>4
  <2> QED
    BY <2>2, <2>3
<1> QED
  <2>1. list_len' = n - 1
    BY <1>3
  <2> QED
    BY <1>1, <1>4, <1>5, <1>6, <1>7, <2>1 DEF Linked, r

\* The rest of the list, once its node at k has been taken out and freed.
LEMMA ListWithout ==
  ASSUME Types, NEW s \in Seq(Threads), List(s), NEW k \in 1..Len(s), NEW t \in Threads, t = s[k],
         Linked(Without(s, k))', node' = [node EXCEPT ![t] = "freed"], UNCHANGED tid,
         \A u \in Threads : u # t => data'[u] = data[u] /\ thr'[u] = thr[u],
         \A u \in Threads : ~Has(s, u) /\ next[u] = None /\ prev[u] = None
                               => next'[u] = None /\ prev'[u] = None,
         ServingKept, thr'[t] # "serve" \/ BeingJoined(t)'
  PROVE  Without(s, k) \in Seq(Threads) /\ List(Without(s, k))'
<1> DEFINE r == Without(s, k)
           n == Len(s)
<1>1. /\ r \in Seq(Threads) /\ Len(r) = n - 1
      /\ \A u : Has(r, u) <=> Has(s, u) /\ u # t
  <2>1. \A i, j \in 1..Len(s) : s[i] = s[j] => i = j
    BY DEF List, Linked
  <2> QED
    BY <2>1, WithoutProperties
<1> HIDE DEF r
<1>2. node'[t] = "freed" /\ \A u \in Threads : u # t => node'[u] = node[u]
  BY DEF Types
<1>3. Members(r)'
  <2>1. ASSUME NEW i \in 1..Len(r) PROVE Listable(r[i])'
    <3>1. r[i] \in Threads /\ Has(r, r[i])
      BY <1>1, ElementOfSeq DEF Has
    <3>2. Has(s, r[i]) /\ r[i] # t
      BY <1>1, <3>1
    <3>3. Listable(r[i])
      BY <3>2 DEF List, Members, Has
    <3> QED
      BY <1>2, <3>1, <3>2, <3>3 DEF Listable
  <2> QED
    BY <2>1 DEF Members
<1>4. Outsiders(r)'
  BY <1>1, <1>2 DEF List, Outsiders
<1>5. Serving(r)'
  BY <1>1 DEF List, Serving, ServingKept
<1> QED
  BY <1>1, <1>3, <1>4, <1>5 DEF List, r

\* list_popfront takes the head away, and gives the new one no node before it.
LEMMA PopList ==
  ASSUME Life, Running, NEW s \in Seq(Threads), List(s), PopUnlink
  PROVE  \/ List(s)'
         \/ \E k \in 1..Len(s) : Without(s, k) \in Seq(Threads) /\ List(Without(s, k))'
<1>1. mpc = "pop" /\ cur \in Threads /\ UNCHANGED <<data, blk, tid, thr, next>>
  BY DEF PopUnlink, Life, CurSet
<1>2. ServingKept /\ BeingJoined(cur)'
  BY <1>1 DEF PopUnlink, ServingKept, BeingJoined
<1>3. CASE node[cur] = "live"
  <2>1. cur = head /\ cur # None
    BY <1>1, <1>3, ListAssumption DEF Life, PopsHead
  <2>2. Len(s) \in Nat /\ Len(s) # 0 /\ s[1] = cur /\ 1 \in 1..Len(s)
    BY <2>1 DEF List, Linked
  <2>3. /\ head' = next[cur] /\ tail' = IF head' = None THEN None ELSE tail
        /\ prev' = [t \in Threads |-> IF t = head' THEN None ELSE prev[t]]
        /\ list_len' = list_len - 1 /\ node' = [node EXCEPT ![cur] = "freed"]
    BY <1>3 DEF PopUnlink
  <2>4. /\ head' = IF Len(s) = 1 THEN None ELSE s[2]
        /\ \A i \in 1..Len(s) : s[i] \in Threads /\ s[i] # None
        /\ \A i, j \in 1..Len(s) : s[i] = s[j] => i = j
        /\ tail = s[Len(s)]
    BY <2>2, <2>3, ElementOfSeq, ListAssumption DEF List, Linked
  <2>5. tail' = IF Len(s) = 1 THEN None ELSE tail
    <3>1. Len(s) # 1 => 2 \in 1..Len(s)
      BY <2>2, TwoOrMore
    <3>2. head' = None <=> Len(s) = 1
      BY <2>4, <3>1
    <3> QED
      BY <2>3, <3>2
  <2>6. \A i \in 3..Len(s) : prev'[s[i]] = prev[s[i]]
    <3>1. ASSUME NEW i \in 3..Len(s) PROVE prev'[s[i]] = prev[s[i]]
      <4>1. i \in 1..Len(s) /\ 2 \in 1..Len(s) /\ i # 2 /\ Len(s) # 1
        BY <2>2, TwoOrMore
      <4>2. s[i] # head'
        BY <2>4, <4>1
      <4> QED
        BY <2>3, <2>4, <4>1, <4>2
    <3> QED
      BY <3>1
  <2>7. Linked(Without(s, 1))'
    <3>1. \A i \in 1..Len(s) :
             i # 1 => next'[s[i]] = IF i + 1 = 1 THEN next[s[1]] ELSE next[s[i]]
      BY <1>1
    <3>2. \A i \in 3..Len(s) :
             i # 1 => prev'[s[i]] = IF i - 1 = 1 THEN prev[s[1]] ELSE prev[s[i]]
      BY <2>2, <2>6
    <3>3. tail' = IF Len(s) = 1 THEN None ELSE IF 1 = Len(s) THEN s[1 - 1] ELSE tail
      BY <2>5
    <3>4. head' = IF 1 = 1 THEN next[s[1]] ELSE head
      BY <2>2, <2>3
    <3>5. Linked(s) /\ Types
      BY DEF List, Life
    <3> QED
      BY <2>2, <2>3, <3>1, <3>2, <3>3, <3>4, <3>5, LinksWithout
  <2>8. \A u \in Threads : ~Has(s, u) /\ next[u] = None /\ prev[u] = None
                               => next'[u] = None /\ prev'[u] = None
    BY <1>1, <2>3
  <2> QED
    <3>1. PICK t \in Threads : t = cur
      BY <1>1
    <3>2. /\ Types /\ 1 \in 1..Len(s) /\ t = s[1] /\ UNCHANGED tid
          /\ node' = [node EXCEPT ![t] = "freed"]
          /\ \A u \in Threads : u # t => data'[u] = data[u] /\ thr'[u] = thr[u]
      BY <1>1, <2>2, <2>3, <3>1 DEF Life
    <3>3. BeingJoined(t)'
      BY <3>1 DEF PopUnlink, BeingJoined
    <3> QED
      BY <1>2, <2>2, <2>7, <2>8, <3>2, <3>3, ListWithout
<1>4. CASE node[cur] = "freed"
  <2>1. UNCHANGED <<listVars, node>>
    BY <1>1, <1>4 DEF PopUnlink, listVars
  <2> QED
    BY <1>1, <1>2, <2>1, QuietList DEF Listable
<1> QED
  BY <1>3, <1>4 DEF PopUnlink

\* destroy_list_node takes the node out, wherever it is.
LEMMA UnlinkList ==
  ASSUME Life, Running, NEW s \in Seq(Threads), List(s), NEW t \in Threads, Unlink(t)
  PROVE  \/ List(s)'
         \/ \E k \in 1..Len(s) : Without(s, k) \in Seq(Threads) /\ List(Without(s, k))'
<1>0. ServingKept
  BY DEF Unlink, ServingKept, BeingJoined, mainVars
<1>1. /\ thr[t] = "unlinking" /\ thr' = [thr EXCEPT ![t] = "drain"] /\ UNCHANGED tid
  BY DEF Unlink, Goto
<1>2. Types /\ thr'[t] = "drain" /\ \A u \in Threads : u # t => thr'[u] = thr[u]
  BY <1>1 DEF Life, Types
<1>3. CASE node[t] = "live" /\ Inserted(t) /\ TakeOut(t) /\ FreeNode(t)
  <2>1. /\ node' = [node EXCEPT ![t] = "freed"] /\ data' = [data EXCEPT ![t] = "freed"]
    BY <1>3 DEF FreeNode
  <2>2. \A u \in Threads : u # t => data'[u] = data[u] /\ thr'[u] = thr[u]
    BY <1>2, <2>1 DEF Types
  <2>3. Has(s, t)
    BY <1>2, <1>3, InsertedIsListed
  <2>4. PICK k \in 1..Len(s) : s[k] = t
    BY <2>3 DEF Has
  <2>5. /\ Len(s) \in Nat /\ Len(s) # 0 /\ k \in Nat /\ 1 <= k /\ k <= Len(s)
        /\ \A i \in 1..Len(s) : s[i] \in Threads /\ s[i] # None
        /\ \A i, j \in 1..Len(s) : s[i] = s[j] => i = j
        /\ head = s[1] /\ tail = s[Len(s)]
        /\ \A i \in 1..Len(s) : next[s[i]] = IF i = Len(s) THEN None ELSE s[i + 1]
        /\ \A i \in 2..Len(s) : prev[s[i]] = s[i - 1]
    BY ElementOfSeq, ListAssumption DEF List, Linked
  <2>6. list_len' = list_len - 1 /\ tail' = NewTail(t)
    BY <1>3 DEF TakeOut
  <2>7. CASE k = 1
    <3>1. head = t /\ next[t] = IF 1 = Len(s) THEN None ELSE s[2]
      <4>1. 1 \in 1..Len(s)
        BY <2>7
      <4>2. next[s[1]] = IF 1 = Len(s) THEN None ELSE s[1 + 1]
        BY <2>5, <4>1
      <4> QED
        BY <2>4, <2>5, <2>7, <4>2
    <3>2. head' = next[t] /\ UNCHANGED <<next, prev>>
      BY <1>3, <3>1 DEF TakeOut, Bypass
    <3>3. Len(s) # 1 => s[2] # None
      <4>1. Len(s) \in Nat /\ Len(s) # 0
        BY <2>5
      <4>2. Len(s) # 1 => 2 \in 1..Len(s)
        BY <4>1, TwoOrMore
      <4> QED
        BY <2>5, <4>2
    <3>4. tail' = IF Len(s) = 1 THEN None ELSE tail
      BY <2>6, <3>1, <3>3 DEF NewTail
    <3>5. \A i \in 1..Len(s) :
             i # k => next'[s[i]] = IF i + 1 = k THEN next[s[k]] ELSE next[s[i]]
      BY <2>5, <2>7, <3>2
    <3>6. \A i \in 3..Len(s) :
             i # k => prev'[s[i]] = IF i - 1 = k THEN prev[s[k]] ELSE prev[s[i]]
      BY <2>5, <2>7, <3>2
    <3>7. head' = IF k = 1 THEN next[s[1]] ELSE head
      BY <2>4, <2>7, <3>2
    <3>8. tail' = IF Len(s) = 1 THEN None ELSE IF k = Len(s) THEN s[k - 1] ELSE tail
      BY <2>7, <3>4
    <3>9. 2 <= Len(s) /\ k # 1 /\ k # 2 => prev'[s[2]] = prev[s[2]]
      BY <2>7
    <3>10. Linked(Without(s, k))'
      BY <1>2, <2>6, <3>5, <3>6, <3>7, <3>8, <3>9, LinksWithout DEF List
    <3> QED
      BY <1>0, <1>1, <1>2, <2>1, <2>2, <2>4, <3>2, <3>10, ListWithout
  <2>8. CASE k # 1
    <3>1. 1 \in 1..Len(s) /\ k - 1 \in 1..Len(s) /\ k \in 2..Len(s) /\ k - 1 # k
      BY <2>5, <2>8
    <3>2. head # t /\ prev[t] = s[k - 1] /\ next[t] = IF k = Len(s) THEN None ELSE s[k + 1]
      BY <2>4, <2>5, <2>8, <3>1
    <3>3. /\ next' = [next EXCEPT ![s[k - 1]] = next[t]]
          /\ prev' = [u \in Threads |-> IF u = next[t] THEN s[k - 1] ELSE prev[u]]
          /\ head' = head
      BY <1>3, <3>2 DEF TakeOut, Bypass
    <3>4. /\ next'[s[k - 1]] = next[t]
          /\ \A u \in Threads : u # s[k - 1] => next'[u] = next[u]
      BY <1>2, <2>5, <3>1, <3>3 DEF Types
    <3>5. \A i \in 1..Len(s) :
             i # k => next'[s[i]] = IF i + 1 = k THEN next[s[k]] ELSE next[s[i]]
      <4>1. ASSUME NEW i \in 1..Len(s), i # k
            PROVE  next'[s[i]] = IF i + 1 = k THEN next[s[k]] ELSE next[s[i]]
        <5>1. CASE i + 1 = k
          <6>1. i = k - 1
            BY <2>5, <5>1
          <6> QED
            BY <2>4, <3>4, <5>1, <6>1
        <5>2. CASE i + 1 # k
          <6>1. i # k - 1
            BY <2>5, <5>2
          <6>2. s[i] # s[k - 1] /\ s[i] \in Threads
            BY <2>5, <3>1, <6>1
          <6> QED
            BY <3>4, <5>2, <6>2
        <5> QED
          BY <5>1, <5>2
      <4> QED
        BY <4>1
    <3>6. ASSUME NEW i \in 2..Len(s), i # k
          PROVE  prev'[s[i]] = IF i - 1 = k THEN prev[s[k]] ELSE prev[s[i]]
      <4>1. i \in 1..Len(s) /\ s[i] \in Threads /\ s[i] # None
        BY <2>5
      <4>2. CASE i - 1 = k
        <5>1. i = k + 1 /\ k # Len(s)
          BY <2>5, <4>2
        <5>2. s[i] = next[t]
          BY <3>2, <5>1
        <5> QED
          BY <2>4, <3>2, <3>3, <4>1, <4>2, <5>2
      <4>3. CASE i - 1 # k
        <5>1. s[i] # next[t]
          <6>1. CASE k = Len(s)
            BY <3>2, <4>1, <6>1
          <6>2. CASE k # Len(s)
            <7>1. k + 1 \in 1..Len(s) /\ i # k + 1
              BY <2>5, <4>3, <6>2
            <7> QED
              BY <2>5, <3>2, <4>1, <6>2, <7>1
          <6> QED
            BY <6>1, <6>2
        <5> QED
          BY <3>3, <4>1, <4>3, <5>1
      <4> QED
        BY <4>2, <4>3
    <3>7. head' = IF k = 1 THEN next[s[1]] ELSE head
      BY <2>8, <3>3
    <3>8. tail' = IF Len(s) = 1 THEN None ELSE IF k = Len(s) THEN s[k - 1] ELSE tail
      <4>1. t = tail <=> k = Len(s)
        BY <2>4, <2>5
      <4> QED
        BY <2>5, <2>6, <2>8, <3>2, <4>1 DEF NewTail
    <3>9. 2 <= Len(s) /\ k # 1 /\ k # 2 => prev'[s[2]] = prev[s[2]]
      <4>1. ASSUME 2 <= Len(s), k # 1, k # 2 PROVE prev'[s[2]] = prev[s[2]]
        <5>1. 2 \in 2..Len(s) /\ 2 - 1 # k
          BY <2>5, <4>1
        <5> QED
          BY <3>6, <4>1, <5>1
      <4> QED
        BY <4>1
    <3>10. Linked(Without(s, k))'
      <4>1. \A i \in 3..Len(s) :
               i # k => prev'[s[i]] = IF i - 1 = k THEN prev[s[k]] ELSE prev[s[i]]
        BY <2>5, <3>6
      <4> QED
        BY <1>2, <2>6, <3>5, <3>7, <3>8, <3>9, <4>1, LinksWithout DEF List
    <3>11. \A u \in Threads : ~Has(s, u) /\ next[u] = None /\ prev[u] = None
                               => next'[u] = None /\ prev'[u] = None
      <4>1. ASSUME NEW u \in Threads, ~Has(s, u), next[u] = None, prev[u] = None
            PROVE  next'[u] = None /\ prev'[u] = None
        <5>1. u # s[k - 1]
          BY <3>1, <4>1 DEF Has
        <5>2. u # next[t]
          <6>1. CASE k = Len(s)
            BY <3>2, <6>1, ListAssumption
          <6>2. CASE k # Len(s)
            <7>1. k + 1 \in 1..Len(s)
              BY <2>5, <6>2
            <7> QED
              BY <3>2, <4>1, <6>2, <7>1 DEF Has
          <6> QED
            BY <6>1, <6>2
        <5> QED
          BY <3>3, <3>4, <4>1, <5>1, <5>2
      <4> QED
        BY <4>1
    <3> QED
      BY <1>0, <1>1, <1>2, <2>1, <2>2, <2>4, <3>10, <3>11, ListWithout
  <2> QED
    BY <2>7, <2>8
<1>4. CASE node[t] = "live" /\ ~Inserted(t) /\ FreeNode(t) /\ UNCHANGED listVars
  <2>1. ~Has(s, t)
    BY <1>2, <1>4, InsertedIsListed
  <2>2. \A u \in Threads : u # t => node'[u] = node[u] /\ data'[u] = data[u]
    BY <1>2, <1>4 DEF Types, FreeNode
  <2>3. node'[t] = "freed"
    BY <1>2, <1>4 DEF Types, FreeNode
  <2> QED
    BY <1>0, <1>1, <1>2, <1>4, <2>1, <2>2, <2>3, QuietList DEF Listable
<1>5. CASE UNCHANGED <<listVars, node, data>> /\ (tid[t] = None \/ node[t] # "live")
  <2>1. \A u \in Threads : Has(s, u) /\ Listable(u) => Listable(u)'
    BY <1>1, <1>2, <1>5 DEF Listable
  <2> QED
    BY <1>0, <1>1, <1>2, <1>5, <2>1, QuietList
<1>6. FollowsNull(t) => tid[t] = None
  BY <1>2, InsertedIsListed DEF FollowsNull
<1> QED
  BY <1>3, <1>4, <1>5, <1>6 DEF Unlink, DestroyListNode

\* The steps that do not touch the list.
LEMMA QuietSteps ==
  ASSUME Life, Running, NEW s \in Seq(Threads), List(s),
         \/ LoopHead \/ Signal \/ Accept \/ CreateNode \/ CreateBlock \/ StartThread \/ SetTid
         \/ PopRead \/ CancelThread \/ JoinThread \/ Shutdown
         \/ \E t \in Threads : \/ LockList(t) \/ TurnAway(t) \/ Leave(t)
                             \/ CloseSocket(t) \/ FreeBlock(t)
  PROVE  List(s)'
<1>1. UNCHANGED listVars
  BY DEF LoopHead, Signal, Accept, CreateNode, CreateBlock, StartThread, SetTid, PopRead,
         CancelThread, JoinThread, Shutdown, LockList, TurnAway, Leave, CloseSocket, FreeBlock
<1>0. ServingKept
  BY DEF LoopHead, Signal, Accept, CreateNode, CreateBlock, StartThread, SetTid, PopRead,
         CancelThread, JoinThread, Shutdown, LockList, TurnAway, NoteEarly, Leave,
         CloseSocket, FreeBlock, ServingKept, BeingJoined, mainVars
<1> SUFFICES ASSUME NEW t \in Threads
             PROVE  /\ Listable(t) => Listable(t)'
                    /\ node'[t] # "freed" => node[t] # "freed"
                    /\ thr'[t] = "serve" => thr[t] = "serve"
  BY <1>0, <1>1, QuietList
<1> USE DEF Life, Types, CurSet, Made, Listable, heapVars
<1>2. CASE LoopHead \/ Signal \/ Accept \/ PopRead \/ CancelThread \/ JoinThread \/ Shutdown
  BY <1>2 DEF LoopHead, Signal, Accept, PopRead, CancelThread, JoinThread, Shutdown
<1>3. CASE CreateNode
  BY <1>3 DEF CreateNode
<1>4. CASE CreateBlock
  BY <1>4 DEF CreateBlock
<1>5. CASE StartThread
  BY <1>5 DEF StartThread
<1>6. CASE SetTid
  BY <1>6, ListAssumption DEF SetTid
<1>7. ASSUME NEW u \in Threads,
             LockList(u) \/ TurnAway(u) \/ Leave(u) \/ CloseSocket(u) \/ FreeBlock(u)
      PROVE  /\ Listable(t) => Listable(t)'
             /\ node'[t] # "freed" => node[t] # "freed"
             /\ thr'[t] = "serve" => thr[t] = "serve"
  BY <1>7 DEF LockList, TurnAway, Leave, CloseSocket, FreeBlock, Goto
<1> QED
  BY <1>2, <1>3, <1>4, <1>5, <1>6, <1>7

LEMMA ListStutter ==
  ASSUME LifeInv, UNCHANGED vars
  PROVE  LifeInv'
<1> USE DEF vars, mainVars, fdVars, heapVars, listVars
<1>1. Types' /\ CurSet' /\ NotYet' /\ Made' /\ PopsHead'
  BY DEF LifeInv, Life, Types, CurSet, NotYet, Made, PopsHead
<1>2. Alive' /\ Told' /\ Orderly'
  BY DEF LifeInv, Life, Alive, Told, Orderly
<1>3. PICK s \in Seq(Threads) : List(s)
  BY DEF LifeInv, ListInv
<1>4. List(s)'
  BY <1>3, QuietList DEF Listable, ServingKept, BeingJoined
<1> QED
  BY <1>1, <1>2, <1>4 DEF LifeInv, Life, ListInv

LEMMA ListStep ==
  ASSUME LifeInv, Next
  PROVE  LifeInv'
<1>1. PICK s \in Seq(Threads) : List(s)
  BY DEF LifeInv, ListInv
<1>2. CASE Stopped
  BY <1>2, ListStutter DEF Stopped
<1>3. CASE ~Stopped
  <2>1. Running
    BY <1>3 DEF Next, MainStep, ThreadStep, Environment
  <2>2. Life'
    BY <2>1, <1>3, AcceptLoopLife, ShutdownLife, ThreadLife, UnlinkLife
       DEF LifeInv, Next, MainStep, ThreadStep, Environment
  <2>3. ListInv'
    <3>1. \E r \in Seq(Threads) : List(r)'
      BY <1>1, <1>3, <2>1, QuietSteps, EnlistList, PopList, UnlinkList
         DEF LifeInv, Next, MainStep, ThreadStep, Environment
    <3> QED
      BY <3>1 DEF ListInv
  <2> QED
    BY <2>2, <2>3 DEF LifeInv
<1> QED
  BY <1>2, <1>3

LEMMA LifeInvAlways == Spec => []LifeInv
<1>1. Init => LifeInv
  <2> SUFFICES ASSUME Init PROVE LifeInv
    OBVIOUS
  <2>1. Life
    BY ListAssumption DEF Init, Life, Types, CurSet, NotYet, Made, Alive, PopsHead, Told, Orderly,
       MainPlaces, ThreadPlaces
  <2>2. List(<<>>)
    BY DEF Init, List, Linked, Members, Outsiders, Serving
  <2>3. <<>> \in Seq(Threads)
    OBVIOUS
  <2> QED
    BY <2>1, <2>2, <2>3 DEF LifeInv, ListInv
<1>2. LifeInv /\ [Next]_vars => LifeInv'
  <2>1. CASE Next
    BY <2>1, ListStep
  <2>2. CASE UNCHANGED vars
    BY <2>2, ListStutter
  <2> QED
    BY <2>1, <2>2
<1> QED
  BY <1>1, <1>2, PTL DEF Spec

-----------------------------------------------------------------------------
(* What the list is good for.                                              *)

\* The variables of the accept loop, the threads and the list have their
\* types, and the list is never longer than there are connections, whatever
\* fails and however the threads interleave.
THEOREM TypesAlways == Spec => []TypeOK
<1>1. LifeInv => TypeOK
  <2> SUFFICES ASSUME LifeInv PROVE TypeOK
    OBVIOUS
  <2>1. PICK s \in Seq(Threads) : List(s)
    BY DEF LifeInv, ListInv
  <2>2. Len(s) \in Nat /\ Len(s) <= Cardinality(Threads) /\ list_len = Len(s)
    BY <2>1, ListIsShort DEF List, Linked
  <2>3. Cardinality(Threads) \in Nat
    BY ListAssumption, FS_CardinalityType
  <2>4. list_len \in 0..Cardinality(Threads)
    BY <2>2, <2>3
  <2> QED
    BY <2>4 DEF LifeInv, Life, Types, TypeOK
<1> QED
  BY <1>1, LifeInvAlways, PTL

\* append_list_node, destroy_list_node and list_popfront, which takes no lock,
\* keep head, tail, next, prev and the length in agreement.
THEOREM ListShapeAlways == Spec => []ListShape
<1>1. LifeInv => ListShape
  <2> SUFFICES ASSUME LifeInv PROVE ListShape
    OBVIOUS
  <2>1. PICK s \in Seq(Threads) : List(s)
    BY DEF LifeInv, ListInv
  <2>2. Listed = s
    BY <2>1, WalkGivesList DEF List
  <2>3. \A i \in 1..Len(s) : s[i] \in Threads /\ s[i] # None
    BY ElementOfSeq, ListAssumption
  <2>4. Len(s) \in Nat /\ list_len = Len(s)
    BY <2>1 DEF List, Linked
  <2>5. Len(s) > 0 => 1 \in 1..Len(s) /\ Len(s) \in 1..Len(s)
    BY <2>4
  <2>6. head = None <=> Len(s) = 0
    BY <2>1, <2>3, <2>4, <2>5 DEF List, Linked
  <2>7. Len(s) > 0 => next[tail] = None
    BY <2>1, <2>4, <2>5 DEF List, Linked
  <2> QED
    BY <2>1, <2>2, <2>3, <2>4, <2>6, <2>7 DEF List, Linked, ListShape
<1> QED
  BY <1>1, LifeInvAlways, PTL

\* Whatever a walk of the list meets, its node, the id it holds and its block
\* have not been freed, whatever fails and with the shutdown on the way.
THEOREM OnlyLiveListedAlways == Spec => []OnlyLiveListed
<1>1. LifeInv => OnlyLiveListed
  <2> SUFFICES ASSUME LifeInv, NEW t \in Threads, InList(t)
               PROVE  node[t] = "live" /\ data[t] = "live" /\ blk[t] = "live"
    BY DEF OnlyLiveListed
  <2>1. PICK s \in Seq(Threads) : List(s)
    BY DEF LifeInv, ListInv
  <2>2. Has(s, t)
    BY <2>1, WalkGivesList DEF List
  <2>3. Listable(t)
    BY <2>1, <2>2 DEF List, Members, Has
  <2> QED
    BY <2>3 DEF LifeInv, Life, Alive, Listable
<1> QED
  BY <1>1, LifeInvAlways, PTL

\* A thread that serves is in the list, or the shutdown has just taken it from
\* there to join it: only one that asked for its node before set_thread_node_tid
\* is not.  Whatever fails and however many connections there are.
THEOREM EveryThreadListedAlways == Spec => []EveryThreadListed
<1>1. LifeInv => EveryThreadListed
  <2> SUFFICES ASSUME LifeInv, NEW t \in Threads, thr[t] = "serve"
               PROVE  InList(t) \/ BeingJoined(t) \/ t \in early
    BY DEF EveryThreadListed
  <2>1. PICK s \in Seq(Threads) : List(s)
    BY DEF LifeInv, ListInv
  <2>2. Has(s, t) \/ BeingJoined(t) \/ t \in early
    BY <2>1 DEF List, Serving
  <2> QED
    BY <2>1, <2>2, WalkGivesList DEF List
<1> QED
  BY <1>1, LifeInvAlways, PTL

\* The accept loop, the start of a thread and its end follow no pointer that is
\* NULL or freed, except on account of a thread that was past its start before
\* its block was told its node, of a failing pthread_create, or of a shutdown.
THEOREM NoFaultAlways == Spec => []NoFault
<1>1. LifeInv => NoFault
  BY DEF LifeInv, Life, Orderly, NoFault
<1> QED
  BY <1>1, LifeInvAlways, PTL

-----------------------------------------------------------------------------
(* The abstract list.                                                      *)

Decided == {t \in Threads : thr[t] \notin {"none", "init", "enter"}}

LEMMA WithoutIsCut ==
  ASSUME NEW s \in Seq(Threads), NEW k \in 1..Len(s),
         \A i, j \in 1..Len(s) : s[i] = s[j] => i = j
  PROVE  Without(s, k) = SubSeq(s, 1, k - 1) \o SubSeq(s, k + 1, Len(s))
<1> DEFINE n == Len(s)
           a == SubSeq(s, 1, k - 1)
           b == SubSeq(s, k + 1, n)
<1>1. n \in Nat /\ k \in Nat /\ 1 <= k /\ k <= n
  OBVIOUS
<1>2. /\ a \in Seq(Threads) /\ Len(a) = k - 1 /\ \A i \in 1..(k - 1) : a[i] = s[i]
  <2>1. \A i \in 1..(k - 1) : s[i] \in Threads
    BY <1>1, ElementOfSeq
  <2> QED
    BY <1>1, <2>1, SubSeqProperties
<1>3. /\ b \in Seq(Threads) /\ Len(b) = n - k /\ \A i \in 1..(n - k) : b[i] = s[i + k]
  <2>1. \A i \in (k + 1)..n : s[i] \in Threads
    BY <1>1, ElementOfSeq
  <2>2. Len(b) = IF k + 1 <= n THEN n - (k + 1) + 1 ELSE 0
    BY <1>1, SubSeqProperties
  <2> QED
    BY <1>1, <2>1, <2>2, SubSeqProperties
<1> HIDE DEF a, b, n
<1>4. /\ a \o b \in Seq(Threads) /\ Len(a \o b) = Len(a) + Len(b)
      /\ \A i \in 1..(Len(a) + Len(b)) :
            (a \o b)[i] = IF i <= Len(a) THEN a[i] ELSE b[i - Len(a)]
  <2>1. a \in Seq(Threads) /\ b \in Seq(Threads)
    BY <1>2, <1>3
  <2>2. a \o b \in Seq(Threads) /\ Len(a \o b) = Len(a) + Len(b)
    BY <2>1
  <2>3. \A i \in 1 .. Len(a) + Len(b) :
            (a \o b)[i] = IF i <= Len(a) THEN a[i] ELSE b[i - Len(a)]
    BY <2>1, ConcatProperties, Zenon
  <2> QED
    BY <2>2, <2>3
<1>5. Len(a) + Len(b) = n - 1 /\ Len(a) = k - 1
  BY <1>1, <1>2, <1>3
<1>6. ASSUME NEW i \in 1..(n - 1)
      PROVE  (a \o b)[i] = IF i < k THEN s[i] ELSE s[i + 1]
  <2>1. (a \o b)[i] = IF i <= k - 1 THEN a[i] ELSE b[i - (k - 1)]
    BY <1>4, <1>5
  <2>2. CASE i < k
    <3>1. i \in 1..(k - 1) /\ i <= k - 1
      BY <1>1, <2>2
    <3> QED
      BY <1>2, <2>1, <2>2, <3>1
  <2>3. CASE ~(i < k)
    <3>1. i - (k - 1) \in 1..(n - k) /\ ~(i <= k - 1) /\ (i - (k - 1)) + k = i + 1
      BY <1>1, <2>3
    <3> QED
      BY <1>3, <2>1, <2>3, <3>1
  <2> QED
    BY <2>2, <2>3
<1>7. /\ Without(s, k) \in Seq(Threads) /\ Len(Without(s, k)) = n - 1
      /\ \A i \in 1..(n - 1) : Without(s, k)[i] = IF i < k THEN s[i] ELSE s[i + 1]
  BY WithoutProperties DEF n
<1>8. Without(s, k) = a \o b
  <2>1. /\ a \o b \in Seq(Threads) /\ Len(Without(s, k)) = Len(a \o b)
        /\ \A i \in 1..Len(Without(s, k)) : Without(s, k)[i] = (a \o b)[i]
    BY <1>4, <1>5, <1>6, <1>7
  <2> QED
    BY <1>7, <2>1, SeqEqual, Zenon
<1> QED
  BY <1>8 DEF a, b, n

\* What the walk gives, before a step and after it.
WalkRight == \A s \in Seq(Threads) : List(s) => Listed = s

LEMMA WalkIsRight == WalkRight
BY WalkGivesList DEF List, WalkRight

\* Each step of the list by itself.
LEMMA SameRoster ==
  ASSUME LifeInv, WalkRight, WalkRight', NEW s \in Seq(Threads), List(s), List(s)', Decided' = Decided
  PROVE  UNCHANGED <<Listed, Decided>>
BY DEF WalkRight

LEMMA RosterAdmits ==
  ASSUME WalkRight, WalkRight', NEW s \in Seq(Threads), List(s), NEW t \in Threads,
         Append(s, t) \in Seq(Threads), List(Append(s, t))', t \notin Decided, Decided' = Decided \cup {t}
  PROVE  RosterOfList!Admit(t)
BY DEF WalkRight, RosterOfList!Admit, Decided

LEMMA RosterLeaves ==
  ASSUME WalkRight, WalkRight', NEW s \in Seq(Threads), List(s), NEW k \in 1..Len(s),
         Without(s, k) \in Seq(Threads), List(Without(s, k))', Decided' = Decided
  PROVE  \E t \in Threads : RosterOfList!Leave(t)
<1>1. Listed = s /\ Listed' = Without(s, k)
  BY DEF WalkRight
<1>2. Without(s, k) = SubSeq(s, 1, k - 1) \o SubSeq(s, k + 1, Len(s))
  BY WithoutIsCut DEF List, Linked
<1>3. s[k] \in Threads /\ k \in DOMAIN s
  BY ElementOfSeq
<1> QED
  BY <1>1, <1>2, <1>3 DEF RosterOfList!Leave, Decided

LEMMA RosterTurnsAway ==
  ASSUME WalkRight, WalkRight', NEW s \in Seq(Threads), List(s), NEW t \in Threads, List(s)',
         t \notin Decided, Decided' = Decided \cup {t}
  PROVE  RosterOfList!TurnAway(t)
BY DEF WalkRight, RosterOfList!TurnAway, Decided

\* A step of the code is a step of the abstract list, or none.
LEMMA RosterStep ==
  ASSUME LifeInv, [Next]_vars, WalkRight, WalkRight'
  PROVE  [RosterOfList!Next]_<<Listed, Decided>>
<1>1. PICK s \in Seq(Threads) : List(s)
  BY DEF LifeInv, ListInv
<1>2. CASE UNCHANGED vars
  <2>1. Decided' = Decided
    BY <1>2 DEF vars, Decided
  <2>2. List(s)'
    BY <1>1, <1>2, QuietList DEF vars, mainVars, heapVars, Listable, ServingKept, BeingJoined
  <2> QED
    BY <1>1, <2>1, <2>2, SameRoster
<1>3. CASE Next /\ ~UNCHANGED vars
  <2>1. Running /\ Life
    BY <1>3 DEF Next, MainStep, ThreadStep, Environment, Stopped, LifeInv
  <2>2. thr \in [Threads -> ThreadPlaces]
    BY <2>1 DEF Life, Types
  <2>3. CASE \/ LoopHead \/ Signal \/ Accept \/ CreateNode \/ CreateBlock \/ StartThread \/ SetTid
             \/ PopRead \/ CancelThread \/ JoinThread \/ Shutdown
    <3>1. Decided' = Decided
      <4>1. CASE StartThread
        BY <2>1, <2>2, <2>3, <4>1 DEF StartThread, Decided, Life, Made
      <4>2. CASE ~StartThread
        BY <2>3, <4>2 DEF LoopHead, Signal, Accept, CreateNode, CreateBlock, SetTid, PopRead,
           CancelThread, JoinThread, Shutdown, Decided
      <4> QED
        BY <4>1, <4>2
    <3>2. List(s)'
      BY <1>1, <2>1, <2>3, QuietSteps
    <3> QED
      BY <1>1, <3>1, <3>2, SameRoster
  <2>4. ASSUME NEW t \in Threads, LockList(t) \/ Leave(t) \/ CloseSocket(t) \/ FreeBlock(t)
        PROVE  [RosterOfList!Next]_<<Listed, Decided>>
    <3>1. Decided' = Decided
      BY <2>2, <2>4 DEF LockList, Leave, CloseSocket, FreeBlock, Goto, Decided
    <3>2. List(s)'
      BY <1>1, <2>1, <2>4, QuietSteps
    <3> QED
      BY <1>1, <3>1, <3>2, SameRoster
  <2>5. ASSUME NEW t \in Threads, TurnAway(t)
        PROVE  [RosterOfList!Next]_<<Listed, Decided>>
    <3>1. t \notin Decided /\ Decided' = Decided \cup {t}
      BY <2>2, <2>5 DEF TurnAway, Goto, Decided
    <3>2. List(s)'
      BY <1>1, <2>1, <2>5, QuietSteps
    <3> QED
      BY <1>1, <3>1, <3>2, RosterTurnsAway DEF RosterOfList!Next
  <2>6. ASSUME NEW t \in Threads, Enlist(t)
        PROVE  [RosterOfList!Next]_<<Listed, Decided>>
    <3>1. t \notin Decided /\ Decided' = Decided \cup {t}
      BY <2>2, <2>6 DEF Enlist, Goto, Decided
    <3> QED
      BY <1>1, <2>1, <2>6, <3>1, EnlistList, RosterTurnsAway, RosterAdmits DEF RosterOfList!Next
  <2>7. CASE PopUnlink
    <3>1. Decided' = Decided
      BY <2>7 DEF PopUnlink, Decided
    <3> QED
      BY <1>1, <2>1, <2>7, <3>1, PopList, SameRoster, RosterLeaves DEF RosterOfList!Next
  <2>8. ASSUME NEW t \in Threads, Unlink(t)
        PROVE  [RosterOfList!Next]_<<Listed, Decided>>
    <3>1. Decided' = Decided
      BY <2>2, <2>8 DEF Unlink, Goto, Decided
    <3> QED
      BY <1>1, <2>1, <2>8, <3>1, UnlinkList, SameRoster, RosterLeaves DEF RosterOfList!Next
  <2> QED
    BY <1>3, <2>3, <2>4, <2>5, <2>6, <2>7, <2>8
       DEF Next, MainStep, ThreadStep, Environment, Stopped
<1> QED
  BY <1>2, <1>3

\* The doubly linked list of the code, with its unlocked pop, its nodes that
\* were never put in and its cancelled threads, is the abstract list Roster,
\* whatever fails.
THEOREM RosterImplemented == Spec => ImplementsRoster
<1>1. Init => RosterOfList!Init
  BY DEF Init, RosterOfList!Init, Listed
<1>2. LifeInv /\ [Next]_vars /\ WalkRight /\ WalkRight'
        => [RosterOfList!Next]_<<Listed, {t \in Threads : thr[t] \notin {"none", "init", "enter"}}>>
  BY RosterStep DEF Decided
<1> QED
  BY <1>1, <1>2, LifeInvAlways, WalkIsRight, PTL DEF Spec, ImplementsRoster, RosterOfList!Spec

-----------------------------------------------------------------------------
(* Sockets.                                                                *)

Owns(t) == open[fd[t]] = t \/ t \in stolen

\* A descriptor is its connection's until destroy_thread_node closes it, or
\* until it is stolen.
OwnSockets ==
    \A t \in Threads : thr[t] \in {"init", "enter", "serve", "cleanup"} => Owns(t)

CurSocket == mpc \in {"node", "block", "start"} /\ fault = "none" => Owns(cur)

FdInv == OwnSockets /\ CurSocket

\* Who closes a descriptor that is not its own takes it from a connection that
\* is then stolen.
LEMMA CloseTakes ==
  ASSUME NEW u \in Threads, Close(u), thr[u] = "refused" \/ Owns(u),
         open \in [Fds -> Threads \cup {None}], UNCHANGED fd,
         NEW t \in Threads, t # u, fd[t] \in Fds, Owns(t)
  PROVE  Owns(t)'
<1>1. stolen \subseteq stolen'
  BY DEF Close
<1>2. CASE t \in stolen
  BY <1>1, <1>2 DEF Owns
<1>3. CASE open[fd[t]] = t /\ fd[t] # fd[u]
  <2>1. open'[fd[t]] = open[fd[t]]
    BY <1>3 DEF Close
  <2> QED
    BY <1>3, <2>1 DEF Owns
<1>4. CASE open[fd[t]] = t /\ fd[t] = fd[u]
  <2>1. open[fd[u]] = t /\ t # None
    BY <1>4, ListAssumption
  <2>2. thr[u] = "refused" \/ u \in stolen
    BY <2>1 DEF Owns
  <2> QED
    BY <2>1, <2>2 DEF Close, Owns
<1> QED
  BY <1>2, <1>3, <1>4 DEF Owns

LEMMA FdStep ==
  ASSUME LifeInv, FdInv, [Next]_vars
  PROVE  FdInv'
<1>1. /\ fd \in [Threads -> Fds \cup {0}] /\ open \in [Fds -> Threads \cup {None}]
      /\ thr \in [Threads -> ThreadPlaces]
  BY DEF LifeInv, Life, Types
<1>2. CASE UNCHANGED vars
  BY <1>2 DEF vars, mainVars, fdVars, FdInv, OwnSockets, CurSocket, Owns
<1>3. CASE Next /\ ~UNCHANGED vars
  <2>1. Running
    BY <1>3 DEF Next, MainStep, ThreadStep, Environment, Stopped
  <2>2. CASE Accept
    <3>1. PICK t \in Threads, f \in Fds :
                /\ fd[t] = 0 /\ open[f] = None /\ cur' = t
                /\ fd' = [fd EXCEPT ![t] = f] /\ open' = [open EXCEPT ![f] = t]
      BY <2>2 DEF Accept
    <3>2. UNCHANGED <<thr, fault, stolen>> /\ thr[t] = "none"
      BY <2>2, <3>1 DEF Accept, LifeInv, Life, NotYet
    <3>3. fd'[t] = f /\ open'[f] = t /\ \A u \in Threads : u # t => fd'[u] = fd[u]
      BY <1>1, <3>1
    <3>4. \A g \in Fds : g # f => open'[g] = open[g]
      BY <1>1, <3>1
    <3>5. ASSUME NEW u \in Threads, u # t, thr[u] # "none", Owns(u) PROVE Owns(u)'
      <4>1. CASE open[fd[u]] = u
        <5>1. u # None /\ fd[u] # f /\ fd[u] \in Fds
          BY <1>1, <3>1, <3>5, <4>1, ListAssumption DEF LifeInv, Life, NotYet
        <5> QED
          BY <3>3, <3>4, <3>5, <4>1, <5>1 DEF Owns
      <4>2. CASE u \in stolen
        BY <3>2, <4>2 DEF Owns
      <4> QED
        BY <3>5, <4>1, <4>2 DEF Owns
    <3> QED
      BY <3>1, <3>2, <3>3, <3>5 DEF FdInv, OwnSockets, CurSocket, Owns
  <2>3. ASSUME NEW u \in Threads, Close(u), thr[u] = "refused" \/ Owns(u), UNCHANGED fd,
               thr'[u] \notin {"init", "enter", "serve", "cleanup"},
               \A t \in Threads : t # u => thr'[t] = thr[t]
        PROVE  OwnSockets'
    <3> SUFFICES ASSUME NEW t \in Threads, t # u,
                        thr[t] \in {"init", "enter", "serve", "cleanup"}
                 PROVE  Owns(t)'
      BY <2>3 DEF OwnSockets
    <3>1. Owns(t) /\ fd[t] \in Fds
      BY <1>1 DEF FdInv, OwnSockets, LifeInv, Life, NotYet
    <3> QED
      BY <1>1, <2>3, <3>1, CloseTakes
  <2>4. mpc \in {"node", "block", "start"} =>
            cur \in Threads /\ thr[cur] = "none" /\ fd[cur] \in Fds /\ Owns(cur)
    BY <1>1, <2>1 DEF LifeInv, Life, Made, CurSet, FdInv, CurSocket, Running
  <2>5. CASE CreateNode \/ CreateBlock
    <3>1. CASE Close(cur) /\ mpc' = "head"
      <4>1. UNCHANGED <<fd, thr>>
        BY <2>5 DEF CreateNode, CreateBlock, fdVars
      <4> QED
        BY <2>3, <2>4, <2>5, <3>1, <4>1 DEF CreateNode, CreateBlock, FdInv, CurSocket
    <3>2. CASE UNCHANGED <<open, stolen>>
      BY <2>4, <2>5, <3>2
      DEF CreateNode, CreateBlock, FdInv, OwnSockets, CurSocket, Owns, fdVars
    <3> QED
      BY <2>5, <3>1, <3>2 DEF CreateNode, CreateBlock, fdVars
  <2>6. CASE StartThread
    <3>1. CASE Close(cur) /\ fault' = "null_dereference" /\ UNCHANGED thr
      BY <2>3, <2>4, <2>6, <3>1 DEF StartThread, FdInv, CurSocket
    <3>2. CASE UNCHANGED <<open, stolen>> /\ mpc' = "settid" /\ thr' = [thr EXCEPT ![cur] = "init"]
      BY <1>1, <2>4, <2>6, <3>2 DEF StartThread, FdInv, OwnSockets, CurSocket, Owns
    <3> QED
      BY <2>6, <3>1, <3>2 DEF StartThread
  <2>7. CASE LoopHead \/ Signal \/ SetTid \/ PopRead \/ PopUnlink \/ CancelThread
             \/ JoinThread \/ Shutdown
    BY <2>7 DEF LoopHead, Signal, SetTid, PopRead, PopUnlink, CancelThread, JoinThread, Shutdown,
       FdInv, OwnSockets, CurSocket, Owns, fdVars
  <2>8. ASSUME NEW t \in Threads,
               LockList(t) \/ Enlist(t) \/ Leave(t) \/ Unlink(t) \/ FreeBlock(t)
        PROVE  FdInv'
    BY <1>1, <2>1, <2>8 DEF LockList, Enlist, Leave, Unlink, FreeBlock, Goto, mainVars, fdVars,
       FdInv, OwnSockets, CurSocket, Owns, Running
  <2>9. ASSUME NEW t \in Threads, CloseSocket(t) \/ TurnAway(t)
        PROVE  FdInv'
    <3>1. thr[t] = "refused" \/ Owns(t)
      BY <2>9 DEF CloseSocket, TurnAway, FdInv, OwnSockets
    <3>2. Close(t) /\ UNCHANGED <<mpc, cur, fd>> /\ thr[t] # "none"
      BY <2>9 DEF CloseSocket, TurnAway, mainVars
    <3>3. /\ thr'[t] \notin {"init", "enter", "serve", "cleanup"}
          /\ \A u \in Threads : u # t => thr'[u] = thr[u]
      BY <1>1, <2>9 DEF CloseSocket, TurnAway, Goto
    <3>4. OwnSockets'
      BY <2>3, <3>1, <3>2, <3>3
    <3>5. CurSocket'
      <4> SUFFICES ASSUME mpc \in {"node", "block", "start"} PROVE Owns(cur)'
        BY <3>2 DEF CurSocket
      <4>1. cur \in Threads /\ cur # t /\ fd[cur] \in Fds /\ Owns(cur)
        BY <2>4, <3>2
      <4> QED
        <5>1. Owns(cur)'
          <6>1. PICK v \in Threads : v = cur
            BY <4>1
          <6>2. Owns(v)'
            BY <1>1, <3>1, <3>2, <4>1, <6>1, CloseTakes DEF Owns
          <6> QED
            BY <3>2, <6>1, <6>2 DEF Owns
        <5> QED
          BY <5>1
    <3> QED
      BY <3>4, <3>5 DEF FdInv
  <2> QED
    BY <1>3, <2>2, <2>5, <2>6, <2>7, <2>8, <2>9
       DEF Next, MainStep, ThreadStep, Environment, Stopped
<1> QED
  BY <1>2, <1>3

\* While a thread serves, the descriptor in its block is its own connection:
\* of all the places that close a socket, whatever fails and with the shutdown
\* on the way, only the second close of a thread that was turned away takes
\* the descriptor of another, and those that have lost theirs by it.
THEOREM SocketIsOwnAlways == Spec => []SocketIsOwn
<1>1. Init => FdInv
  BY DEF Init, FdInv, OwnSockets, CurSocket
<1>2. LifeInv /\ FdInv /\ [Next]_vars => FdInv'
  BY FdStep
<1>3. FdInv => SocketIsOwn
  BY DEF FdInv, OwnSockets, Owns, SocketIsOwn
<1> QED
  BY <1>1, <1>2, <1>3, LifeInvAlways, PTL DEF Spec
=============================================================================
