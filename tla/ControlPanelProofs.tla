------------------------- MODULE ControlPanelProofs -------------------------
(***************************************************************************)
(* The invariants of ControlPanel and ServerProcess hold for any number of *)
(* processes, whatever fails.                                              *)
(***************************************************************************)
EXTENDS ControlPanel, TLAPS

Places == {"none", "bind", "shutdown", "zombie", "reaped"} \cup Unready \cup Looping

Ready == {"sigaction", "bind", "shutdown"} \cup Looping

\* A process that is past the creation of the tables found a schema or made
\* one; a schema with a table missing has somebody who was to make it.
SetUpInv ==
    /\ \A p \in Procs : place[p] = "create_messages" => "users" \in tables
    /\ \A p \in Procs : place[p] \in Ready => schema
    /\ schema /\ tables # Tables
        => cut # {} \/ \E q \in Procs : place[q] \in SettingUp

\* No process is started, and none comes back to life.
NobodyStarts ==
    \A p \in Procs :
        /\ place[p] = "none" <=> place'[p] = "none"
        /\ place'[p] \notin {"none", "zombie", "reaped"} => Alive(p)

-----------------------------------------------------------------------------
(* The steps of a process.                                                 *)

\* A process ends, which may be just after it has made a table.
LEMMA ExitKeeps ==
    ASSUME ServerTypeOK, SetUpInv, NEW q \in Procs, place[q] # "none", Exit(q),
           kill_server' \in [Procs -> BOOLEAN], served' \in [Procs -> BOOLEAN],
           schema' = schema, stderr' \in BOOLEAN,
           tables \subseteq tables', tables' \subseteq Tables
    PROVE  ServerTypeOK' /\ SetUpInv' /\ NobodyStarts
  BY DEF ServerTypeOK, SetUpInv, NobodyStarts, Exit, Goto, Alive, Procs, Nobody,
         SettingUp, Unready, Ready, Looping, Tables

\* A process goes from one place to another.
LEMMA MoveKeeps ==
    ASSUME ServerTypeOK, SetUpInv, NEW q \in Procs, Alive(q),
           NEW to \in Places \ {"none", "zombie", "reaped"}, Goto(q, to),
           kill_server' \in [Procs -> BOOLEAN], served' \in [Procs -> BOOLEAN],
           schema' \in BOOLEAN, tables' \subseteq Tables, stderr' \in BOOLEAN,
           port' \in Procs \cup {Nobody}, lingering' \in BOOLEAN, cut' = cut,
           schema => schema', tables \subseteq tables',
           schema' # schema => to \in SettingUp,
           to = "create_messages" => "users" \in tables',
           to \in Ready => schema',
           place[q] \in SettingUp /\ to \notin SettingUp => tables' = Tables
    PROVE  ServerTypeOK' /\ SetUpInv' /\ NobodyStarts
<1>1. place' \in [Procs -> Places] /\ \A p \in Procs : place'[p] = IF p = q THEN to ELSE place[p]
  BY DEF ServerTypeOK, Goto, Places
<1>2. ServerTypeOK'
  BY <1>1 DEF ServerTypeOK, Places
<1>3. NobodyStarts
  BY <1>1 DEF NobodyStarts, Alive
<1>4. \A p \in Procs : place'[p] = "create_messages" => "users" \in tables'
  BY <1>1 DEF SetUpInv
<1>5. \A p \in Procs : place'[p] \in Ready => schema'
  BY <1>1 DEF SetUpInv
<1>6. ASSUME schema', tables' # Tables
      PROVE  cut' # {} \/ \E p \in Procs : place'[p] \in SettingUp
  <2>1. CASE schema' # schema
    BY <1>1, <2>1
  <2>2. CASE schema' = schema
    <3>1. tables # Tables
      BY <1>6 DEF ServerTypeOK
    <3>2. cut # {} \/ \E p \in Procs : place[p] \in SettingUp
      BY <1>6, <2>2, <3>1 DEF SetUpInv
    <3>. QED  BY <1>1, <1>6, <3>2
  <2>. QED  BY <2>1, <2>2
<1>. QED  BY <1>2, <1>3, <1>4, <1>5, <1>6 DEF SetUpInv

\* What SERVER_MSG is followed by.
LEMMA SayKeeps ==
    ASSUME ServerTypeOK, SetUpInv, NEW q \in Procs, Alive(q),
           NEW to \in Places \ {"none", "zombie", "reaped"}, Say(q, to),
           kill_server' \in [Procs -> BOOLEAN], served' \in [Procs -> BOOLEAN],
           UNCHANGED <<schema, stderr>>, tables' \in {tables, tables \cup {"users"}},
           to = "create_messages" => "users" \in tables',
           to \in Ready => schema,
           place[q] \in SettingUp => to \in SettingUp
    PROVE  ServerTypeOK' /\ SetUpInv' /\ NobodyStarts
<1>1. CASE stderr
  <2>1. Goto(q, to) /\ UNCHANGED <<port, lingering, cut>>
    BY <1>1 DEF Say, Continue
  <2>. QED  BY <2>1, MoveKeeps DEF ServerTypeOK, Tables
<1>2. CASE ~stderr
  BY <1>2, ExitKeeps DEF Say, Alive, ServerTypeOK, Tables
<1>. QED  BY <1>1, <1>2

LEMMA StepKeeps ==
    ASSUME ServerTypeOK, SetUpInv, NEW q \in Procs, ProcessStep(q)
    PROVE  ServerTypeOK' /\ SetUpInv' /\ NobodyStarts
<1>. USE DEF Alive, Ready, Looping, SettingUp, Places, Unready
<1>1. CASE OpenLogs(q)
  BY <1>1, SayKeeps DEF OpenLogs, ServerTypeOK
<1>2. CASE Connect(q)
  BY <1>2, SayKeeps DEF Connect, ServerTypeOK
<1>3. CASE CheckSchema(q)
  <2>1. CASE schema
    BY <1>3, <2>1, SayKeeps DEF CheckSchema, NeedsTables, ServerTypeOK
  <2>2. CASE ~schema
    BY <1>3, <2>2, SayKeeps DEF CheckSchema, NeedsTables, ServerTypeOK
  <2>. QED  BY <2>1, <2>2
<1>4. CASE CreateDb(q)
  BY <1>4, MoveKeeps DEF CreateDb, Continue, ServerTypeOK
<1>5. CASE CreateDbFails(q)
  BY <1>5, MoveKeeps DEF CreateDbFails, Continue, ServerTypeOK
<1>6. CASE CreateUsers(q)
  BY <1>6, SayKeeps DEF CreateUsers, ServerTypeOK
<1>7. CASE CreateMessages(q)
  <2>1. tables' = Tables
    BY <1>7 DEF CreateMessages, SetUpInv, ServerTypeOK, Tables
  <2>2. CASE stderr
    BY <1>7, <2>1, <2>2, MoveKeeps DEF CreateMessages, Say, Continue, ServerTypeOK
  <2>3. CASE ~stderr
    BY <1>7, <2>1, <2>3, ExitKeeps DEF CreateMessages, Say, ServerTypeOK
  <2>. QED  BY <2>2, <2>3
<1>8. CASE InstallHandler(q)
  BY <1>8, MoveKeeps DEF InstallHandler, Continue, ServerTypeOK, SetUpInv
<1>9. CASE Bind(q)
  <2>1. CASE stderr
    BY <1>9, <2>1, MoveKeeps DEF Bind, ServerTypeOK, SetUpInv
  <2>2. CASE ~stderr
    BY <1>9, <2>2, ExitKeeps DEF Bind, ServerTypeOK
  <2>. QED  BY <2>1, <2>2
<1>10. CASE Fatal(q)
  BY <1>10, ExitKeeps DEF Fatal, Refused, ServerTypeOK
<1>11. CASE LoopHead(q)
  <2>1. CASE StopAsked(q)
    BY <1>11, <2>1, SayKeeps DEF LoopHead, ServerTypeOK, SetUpInv
  <2>2. CASE ~StopAsked(q)
    BY <1>11, <2>2, MoveKeeps DEF LoopHead, Continue, ServerTypeOK, SetUpInv
  <2>. QED  BY <2>1, <2>2
<1>12. CASE Accept(q)
  BY <1>12, SayKeeps DEF Accept, ServerTypeOK, SetUpInv
<1>13. CASE Shutdown(q)
  BY <1>13, ExitKeeps DEF Shutdown, ServerTypeOK
<1>14. CASE Crash(q)
  BY <1>14, ExitKeeps DEF Crash, ServerTypeOK
<1>. QED
  BY <1>1, <1>2, <1>3, <1>4, <1>5, <1>6, <1>7, <1>8, <1>9, <1>10, <1>11, <1>12,
     <1>13, <1>14 DEF ProcessStep, Progress

LEMMA TimeWaitKeeps ==
    ASSUME ServerTypeOK, SetUpInv, TimeWaitEnds
    PROVE  ServerTypeOK' /\ SetUpInv' /\ NobodyStarts
  BY DEF TimeWaitEnds, processVars, ServerTypeOK, SetUpInv, NobodyStarts, Alive

\* SIGINT, and what it does to the process that gets it.
LEMMA InterruptKeeps ==
    ASSUME ServerTypeOK, SetUpInv, NEW q \in Procs, place[q] # "none", Interrupt(q)
    PROVE  ServerTypeOK' /\ SetUpInv' /\ NobodyStarts
<1>1. CASE place[q] \in Unready /\ Exit(q)
           /\ UNCHANGED <<kill_server, served, schema, tables, stderr>>
  BY <1>1, ExitKeeps DEF ServerTypeOK
<1>2. CASE /\ Alive(q) /\ place[q] = "accept" /\ Say(q, "shutdown")
           /\ kill_server' = [kill_server EXCEPT ![q] = TRUE]
           /\ UNCHANGED <<served, schema, tables, stderr>>
  BY <1>2, SayKeeps DEF ServerTypeOK, SetUpInv, Places, Ready, Looping, SettingUp
<1>3. CASE /\ UNCHANGED <<place, port, lingering, cut, served, schema, tables, stderr>>
           /\ kill_server' \in [Procs -> BOOLEAN]
  BY <1>3 DEF ServerTypeOK, SetUpInv, NobodyStarts, Alive
<1>. QED
  BY <1>1, <1>2, <1>3 DEF Interrupt, serverVars, processVars, hostVars, ServerTypeOK

LEMMA SpawnKeeps ==
    ASSUME ServerTypeOK, SetUpInv, NEW q \in Procs, Spawn(q)
    PROVE  /\ ServerTypeOK' /\ SetUpInv'
           /\ place[q] = "none" /\ place' = [place EXCEPT ![q] = "logs"]
  BY DEF Spawn, Goto, hostVars, ServerTypeOK, SetUpInv, SettingUp, Unready, Ready,
         Looping

-----------------------------------------------------------------------------
(* The panel.                                                              *)

\* The process that the panel has, and those it has stopped, were started;
\* a process started before the notice of another is hasty.
PanelInv ==
    /\ backprocess # Nobody => place[backprocess] # "none"
    /\ \A p \in told \cup watched : place[p] # "none"
    /\ test_serveron /\ watched # {backprocess} => backprocess \in hasty

IInv == TypeOK /\ SetUpInv /\ OnIsOwn /\ UnseenOnlyIfHasty /\ PanelInv

LEMMA InitIInv == Init => IInv
<1>. SUFFICES ASSUME Init PROVE IInv
  OBVIOUS
<1>1. TypeOK
  BY DEF Init, ServerInit, TypeOK, ServerTypeOK, Unready, Looping
<1>2. SetUpInv
  BY DEF Init, ServerInit, SetUpInv, Ready, Looping
<1>3. OnIsOwn /\ UnseenOnlyIfHasty /\ PanelInv
  BY DEF Init, ServerInit, OnIsOwn, UnseenOnlyIfHasty, PanelInv, Alive
<1>. QED  BY <1>1, <1>2, <1>3 DEF IInv

\* The server moves, the panel does not.
LEMMA ServerMoves ==
    ASSUME IInv, UNCHANGED panelVars, ServerTypeOK', SetUpInv', NobodyStarts
    PROVE  IInv'
<1>1. TypeOK' /\ OnIsOwn'
  BY DEF IInv, TypeOK, OnIsOwn, panelVars
<1>2. UnseenOnlyIfHasty'
  BY DEF IInv, UnseenOnlyIfHasty, panelVars, NobodyStarts, Alive
<1>3. PanelInv'
  BY DEF IInv, TypeOK, PanelInv, panelVars, NobodyStarts
<1>. QED  BY <1>1, <1>2, <1>3 DEF IInv

LEMMA ClickStartKeeps == IInv /\ ClickStart => IInv'
<1>. SUFFICES ASSUME IInv, ClickStart PROVE IInv'
  OBVIOUS
<1>1. PICK p \in Procs :
        /\ Spawn(p) /\ backprocess' = p /\ watched' = watched \cup {p}
        /\ timout_id' = p /\ ticking' = ticking \cup {p}
        /\ hasty' = IF watched # {} THEN hasty \cup {p} ELSE hasty
  BY DEF ClickStart, Watched, Clock
<1>2. /\ ~test_serveron /\ test_serveron' = TRUE /\ told' = told
      /\ UNCHANGED <<window, network_config, database_config>>
  BY DEF ClickStart, MayStart
<1>3. /\ ServerTypeOK' /\ SetUpInv'
      /\ place[p] = "none" /\ place' = [place EXCEPT ![p] = "logs"]
  BY <1>1, SpawnKeeps DEF IInv, TypeOK
<1>4. TypeOK'
  BY <1>1, <1>2, <1>3 DEF IInv, TypeOK, Procs, Nobody
<1>5. OnIsOwn'
  BY <1>1, <1>2, <1>3 DEF IInv, OnIsOwn, PanelInv
<1>6. UnseenOnlyIfHasty'
  BY <1>1, <1>2, <1>3 DEF IInv, TypeOK, ServerTypeOK, UnseenOnlyIfHasty, Alive
<1>7. PanelInv'
  <2>1. \A q \in Procs : place[q] # "none" => place'[q] # "none"
    BY <1>3 DEF IInv, TypeOK, ServerTypeOK
  <2>2. place'[p] # "none"
    BY <1>3 DEF IInv, TypeOK, ServerTypeOK
  <2>. QED  BY <1>1, <1>2, <2>1, <2>2 DEF IInv, TypeOK, PanelInv
<1>. QED  BY <1>3, <1>4, <1>5, <1>6, <1>7 DEF IInv

LEMMA ClickStartFailsKeeps == IInv /\ ClickStartFails => IInv'
<1>. SUFFICES ASSUME IInv, ClickStartFails PROVE IInv'
  OBVIOUS
<1>1. /\ ~test_serveron /\ backprocess' = Nobody
      /\ UNCHANGED <<window, network_config, database_config, test_serveron, timout_id,
                     ticking, watched, told, hasty>>
      /\ UNCHANGED serverVars
  BY DEF ClickStartFails, MayStart
<1>2. TypeOK' /\ SetUpInv'
  BY <1>1 DEF IInv, TypeOK, ServerTypeOK, SetUpInv, serverVars, processVars, hostVars
<1>3. OnIsOwn' /\ UnseenOnlyIfHasty' /\ PanelInv'
  BY <1>1 DEF IInv, OnIsOwn, UnseenOnlyIfHasty, PanelInv, Alive, serverVars, processVars
<1>. QED  BY <1>2, <1>3 DEF IInv

\* A signal to the process that the panel has.
LEMMA SignalKeeps ==
    ASSUME IInv, Signal(backprocess)
    PROVE  /\ ServerTypeOK' /\ SetUpInv' /\ NobodyStarts
           /\ told' = IF backprocess = Nobody THEN told ELSE told \cup {backprocess}
<1>1. CASE backprocess = Nobody
  BY <1>1 DEF Signal, IInv, TypeOK, ServerTypeOK, SetUpInv, NobodyStarts, Alive,
              serverVars, processVars, hostVars
<1>2. CASE backprocess # Nobody
  BY <1>2, InterruptKeeps DEF Signal, IInv, TypeOK, PanelInv
<1>. QED  BY <1>1, <1>2

LEMMA ClickStopKeeps == IInv /\ ClickStop => IInv'
<1>. SUFFICES ASSUME IInv, ClickStop PROVE IInv'
  OBVIOUS
<1>1. /\ test_serveron /\ ~test_serveron' /\ ticking' = ticking \ {timout_id}
      /\ UNCHANGED <<window, network_config, database_config, backprocess, timout_id,
                     watched, hasty>>
  BY DEF ClickStop, Stopped
<1>2. /\ ServerTypeOK' /\ SetUpInv' /\ NobodyStarts
      /\ told' = IF backprocess = Nobody THEN told ELSE told \cup {backprocess}
  BY SignalKeeps DEF ClickStop
<1>3. backprocess \in Procs /\ backprocess # Nobody
  BY <1>1 DEF IInv, TypeOK, OnIsOwn, Procs, Nobody
<1>4. TypeOK'
  BY <1>1, <1>2, <1>3 DEF ClickStop, IInv, TypeOK
<1>5. OnIsOwn'
  BY <1>1 DEF IInv, OnIsOwn
<1>6. UnseenOnlyIfHasty'
  BY <1>1, <1>2, <1>3 DEF IInv, UnseenOnlyIfHasty, NobodyStarts, Alive
<1>7. PanelInv'
  BY <1>1, <1>2, <1>3 DEF IInv, TypeOK, PanelInv, NobodyStarts
<1>. QED  BY <1>2, <1>4, <1>5, <1>6, <1>7 DEF IInv

LEMMA ExitNoticeKeeps ==
    ASSUME IInv, NEW p \in Procs, ExitNotice(p)
    PROVE  IInv'
<1>1. /\ p \in watched /\ watched' = watched \ {p} /\ ~test_serveron'
      /\ ticking' = ticking \ {timout_id} /\ place[p] = "zombie"
      /\ UNCHANGED <<hostVars, kill_server, served, window, network_config,
                     database_config, backprocess, timout_id, told, hasty>>
  BY DEF ExitNotice, ShownAfterExit, Stopped
<1>2. /\ place' \in [Procs -> Places]
      /\ \A q \in Procs : place'[q] = IF q = p THEN "reaped" ELSE place[q]
  BY DEF ExitNotice, Goto, IInv, TypeOK, ServerTypeOK, Places
<1>3. TypeOK'
  BY <1>1, <1>2 DEF ExitNotice, ShownAfterExit, IInv, TypeOK, ServerTypeOK, Places,
                    hostVars
<1>4. SetUpInv'
  BY <1>1, <1>2 DEF IInv, SetUpInv, hostVars, SettingUp, Ready, Looping
<1>5. NobodyStarts
  BY <1>1, <1>2 DEF NobodyStarts, Alive
<1>6. OnIsOwn'
  BY <1>1 DEF IInv, OnIsOwn
<1>7. UnseenOnlyIfHasty'
  <2>. SUFFICES ASSUME NEW q \in Procs, Alive(q)', q \notin told
                PROVE  q \in hasty
    BY <1>1 DEF UnseenOnlyIfHasty
  <2>1. Alive(q) /\ q # p
    BY <1>1, <1>2, <1>5 DEF NobodyStarts, Alive
  <2>2. CASE test_serveron /\ backprocess = q
    BY <1>1, <2>1, <2>2 DEF IInv, PanelInv
  <2>3. CASE ~(test_serveron /\ backprocess = q)
    BY <2>1, <2>3 DEF IInv, UnseenOnlyIfHasty
  <2>. QED  BY <2>2, <2>3
<1>8. PanelInv'
  BY <1>1, <1>5 DEF IInv, TypeOK, PanelInv, NobodyStarts
<1>. QED  BY <1>3, <1>4, <1>6, <1>7, <1>8 DEF IInv

LEMMA CloseWindowKeeps == IInv /\ CloseWindow => IInv'
<1>. SUFFICES ASSUME IInv, CloseWindow PROVE IInv'
  OBVIOUS
<1>1. /\ window' = "closed"
      /\ UNCHANGED <<network_config, database_config, test_serveron, backprocess,
                     timout_id, ticking, watched, hasty>>
  BY DEF CloseWindow
<1>2. /\ ServerTypeOK' /\ SetUpInv' /\ NobodyStarts
      /\ told' = IF backprocess = Nobody THEN told ELSE told \cup {backprocess}
  BY SignalKeeps DEF CloseWindow
<1>3. TypeOK'
  BY <1>1, <1>2 DEF IInv, TypeOK
<1>4. OnIsOwn'
  BY <1>1 DEF IInv, OnIsOwn
<1>5. UnseenOnlyIfHasty'
  BY <1>1, <1>2 DEF IInv, UnseenOnlyIfHasty, NobodyStarts, Alive
<1>6. PanelInv'
  BY <1>1, <1>2 DEF IInv, TypeOK, PanelInv, NobodyStarts
<1>. QED  BY <1>2, <1>3, <1>4, <1>5, <1>6 DEF IInv

LEMMA PanelExitsKeeps == IInv /\ PanelExits => IInv'
<1>. SUFFICES ASSUME IInv, PanelExits PROVE IInv'
  OBVIOUS
<1>. USE DEF PanelExits, processVars
<1>1. TypeOK'
  BY DEF IInv, TypeOK, ServerTypeOK
<1>2. SetUpInv'
  BY DEF IInv, SetUpInv
<1>3. OnIsOwn' /\ UnseenOnlyIfHasty' /\ PanelInv'
  BY DEF IInv, OnIsOwn, UnseenOnlyIfHasty, PanelInv, Alive
<1>. QED  BY <1>1, <1>2, <1>3 DEF IInv

\* The popovers only set what the button looks at.
LEMMA SaveKeeps == IInv /\ (SaveNetwork \/ SaveDatabase) => IInv'
<1>. SUFFICES ASSUME IInv, SaveNetwork \/ SaveDatabase PROVE IInv'
  OBVIOUS
<1>1. /\ UNCHANGED <<place, kill_server, served, schema, tables, port, lingering, stderr,
                     cut, window, test_serveron, backprocess, timout_id, ticking,
                     watched, told, hasty>>
      /\ network_config' \in {network_config, TRUE}
      /\ database_config' \in {database_config, TRUE}
  BY DEF SaveNetwork, SaveDatabase, serverVars, processVars, hostVars
<1>2. ServerTypeOK' /\ SetUpInv'
  BY <1>1 DEF IInv, TypeOK, ServerTypeOK, SetUpInv
<1>3. TypeOK'
  BY <1>1, <1>2 DEF IInv, TypeOK
<1>4. OnIsOwn' /\ UnseenOnlyIfHasty' /\ PanelInv'
  BY <1>1 DEF IInv, OnIsOwn, UnseenOnlyIfHasty, PanelInv, Alive
<1>. QED  BY <1>2, <1>3, <1>4 DEF IInv

LEMMA NextIInv == IInv /\ [Next]_vars => IInv'
<1>. SUFFICES ASSUME IInv, [Next]_vars PROVE IInv'
  OBVIOUS
<1>1. CASE UNCHANGED vars
  <2>. USE <1>1 DEF vars, panelVars, serverVars, processVars, hostVars
  <2>1. TypeOK' /\ SetUpInv'
    BY DEF IInv, TypeOK, ServerTypeOK, SetUpInv
  <2>2. OnIsOwn' /\ UnseenOnlyIfHasty' /\ PanelInv'
    BY DEF IInv, OnIsOwn, UnseenOnlyIfHasty, PanelInv, Alive
  <2>. QED  BY <2>1, <2>2 DEF IInv
<1>2. CASE PanelStep
  BY <1>2, SaveKeeps, ClickStartKeeps, ClickStartFailsKeeps, ClickStopKeeps,
     CloseWindowKeeps, PanelExitsKeeps, ExitNoticeKeeps DEF PanelStep
<1>3. CASE ((\E p \in Procs : ProcessStep(p)) \/ TimeWaitEnds) /\ UNCHANGED panelVars
  BY <1>3, StepKeeps, TimeWaitKeeps, ServerMoves DEF IInv, TypeOK
<1>. QED  BY <1>1, <1>2, <1>3 DEF Next

THEOREM InvariantAlways == Spec => []IInv
  BY InitIInv, NextIInv, PTL DEF Spec

-----------------------------------------------------------------------------
\* The variables of the panel and of the processes keep their types.
THEOREM TypeCorrect == Spec => []TypeOK
  BY InvariantAlways, PTL DEF IInv

\* What the switch shows as running is a process of the panel's own, not
\* stopped, whose end it will hear of.
THEOREM OnIsOwnAlways == Spec => []OnIsOwn
  BY InvariantAlways, PTL DEF IInv

\* The panel loses sight of a running server only when it was started before
\* the panel had the notice of an earlier one.
THEOREM UnseenOnlyIfHastyAlways == Spec => []UnseenOnlyIfHasty
  BY InvariantAlways, PTL DEF IInv

\* A server listens without its tables only if another was stopped while it
\* created them, or is creating them.
THEOREM TablesMissingAlways == Spec => []TablesMissingOnlyIfCut
<1>1. IInv => TablesMissingOnlyIfCut
  BY DEF IInv, SetUpInv, TablesMissingOnlyIfCut, Ready
<1>. QED  BY <1>1, InvariantAlways, PTL
=============================================================================
