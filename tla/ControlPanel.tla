---------------------------- MODULE ControlPanel ----------------------------
(***************************************************************************)
(* The control panel (gui/main.py): one button starts the server as a      *)
(* child process and stops it with SIGINT, a child watch tells the panel   *)
(* that a process has ended, and closing the window sends SIGINT once      *)
(* more.  The panel is one thread: a callback runs to its end.  Its        *)
(* processes are ServerProcess; they run while it waits.                   *)
(***************************************************************************)
EXTENDS ServerProcess

VARIABLES
    window,             \* "open", "closed" (Gtk.main_quit), "exited"
    network_config, database_config,    \* server_info
    test_serveron,      \* what the button and the switch show
    backprocess,        \* the pid of the last process, Nobody if there is none
    timout_id,          \* the source of the uptime clock that was added last
    ticking,            \* the sources of the clock that run
    watched,            \* processes with a child watch that has not come
    told,               \* history: processes that the panel has sent SIGINT
    hasty               \* history: processes started before the notice of
                        \* an earlier one's end

panelVars == <<window, network_config, database_config, test_serveron,
               backprocess, timout_id, ticking, watched, told, hasty>>
vars == <<serverVars, panelVars>>

Init ==
    /\ ServerInit
    /\ window = "open"
    /\ network_config = FALSE /\ database_config = FALSE
    /\ test_serveron = FALSE
    /\ backprocess = Nobody
    /\ timout_id = Nobody /\ ticking = {}
    /\ watched = {}
    /\ told = {} /\ hasty = {}

-----------------------------------------------------------------------------
(* The popovers.                                                           *)

\* The save button of the network popover, with an address that is one.
SaveNetwork ==
    /\ window = "open" /\ ~network_config
    /\ network_config' = TRUE
    /\ UNCHANGED <<serverVars, window, database_config, test_serveron, backprocess,
                   timout_id, ticking, watched, told, hasty>>

\* The save button of the database popover, when a connection can be made.
SaveDatabase ==
    /\ window = "open" /\ ~database_config
    /\ database_config' = TRUE
    /\ UNCHANGED <<serverVars, window, network_config, test_serveron, backprocess,
                   timout_id, ticking, watched, told, hasty>>

-----------------------------------------------------------------------------
(* The button, StartToolButton.run.                                        *)

\* Mutant of MayStart: the switch is not looked at.
MayAlwaysStart == window = "open" /\ network_config /\ database_config

MayStart == window = "open" /\ ~test_serveron /\ network_config /\ database_config

Watched(p) == watched \cup {p}

\* Mutant of Clock: it is named before there is a new process.
ClockOfLast(p) == backprocess

\* The source of the uptime clock.
Clock(p) == p

\* The process is spawned, watched, and its clock is started.
ClickStart ==
    /\ MayStart
    /\ \E p \in Procs :
        /\ \A q \in Procs : q < p => place[q] # "none"
        /\ Spawn(p)
        /\ backprocess' = p
        /\ watched' = Watched(p)
        /\ timout_id' = Clock(p) /\ ticking' = ticking \cup {Clock(p)}
        /\ hasty' = IF watched # {} THEN hasty \cup {p} ELSE hasty
    /\ test_serveron' = TRUE
    /\ UNCHANGED <<window, network_config, database_config, told>>

\* spawn returns False: backprocess is already the new object, without a pid.
ClickStartFails ==
    /\ MayStart /\ MayFail
    /\ backprocess' = Nobody
    /\ UNCHANGED <<serverVars, window, network_config, database_config,
                   test_serveron, timout_id, ticking, watched, told, hasty>>

\* send_signal(SIGINT).
Signal(p) ==
    IF p = Nobody
      THEN UNCHANGED <<serverVars, told>>
      ELSE Interrupt(p) /\ told' = told \cup {p}

\* Mutant of Stopped: the clock goes on.
StoppedNever == ticking

\* source_remove(timer.timout_id).
Stopped == ticking \ {timout_id}

ClickStop ==
    /\ window = "open" /\ test_serveron
    /\ ticking' = Stopped
    /\ Signal(backprocess)
    /\ test_serveron' = FALSE
    /\ UNCHANGED <<window, network_config, database_config, backprocess, timout_id,
                   watched, hasty>>

-----------------------------------------------------------------------------
(* What the panel is called back for.                                      *)

\* Mutant of ShownAfterExit: the switch keeps its state.
ShownAfterExitStays == test_serveron

ShownAfterExit == FALSE

\* watch_child_process.  It does not look which process has ended: the switch
\* and the clock are those of the process started last.
ExitNotice(p) ==
    /\ window = "open"
    /\ p \in watched /\ place[p] = "zombie"
    /\ Goto(p, "reaped")
    /\ watched' = watched \ {p}
    /\ test_serveron' = ShownAfterExit
    /\ ticking' = Stopped
    /\ UNCHANGED <<kill_server, served, hostVars, window, network_config,
                   database_config, backprocess, timout_id, told, hasty>>

\* on_delete.
CloseWindow ==
    /\ window = "open"
    /\ window' = "closed"
    /\ Signal(backprocess)
    /\ UNCHANGED <<network_config, database_config, test_serveron, backprocess,
                   timout_id, ticking, watched, hasty>>

\* The interpreter exits: nobody reads the standard error any more.
PanelExits ==
    /\ window = "closed"
    /\ window' = "exited"
    /\ stderr' = FALSE
    /\ UNCHANGED <<processVars, schema, tables, port, lingering, cut, network_config,
                   database_config, test_serveron, backprocess, timout_id, ticking,
                   watched, told, hasty>>

-----------------------------------------------------------------------------
PanelStep ==
    \/ SaveNetwork \/ SaveDatabase
    \/ ClickStart \/ ClickStartFails \/ ClickStop
    \/ CloseWindow \/ PanelExits
    \/ \E p \in Procs : ExitNotice(p)

Next ==
    \/ PanelStep
    \/ ((\E p \in Procs : ProcessStep(p)) \/ TimeWaitEnds) /\ UNCHANGED panelVars

Spec == Init /\ [][Next]_vars

\* A process that can run does, and the main loop of the panel delivers the
\* notices.  Nobody has to click or connect, and threads need not let
\* themselves be joined.
FairSpec ==
    Spec /\ \A p \in Procs :
        WF_vars(Progress(p) /\ UNCHANGED panelVars) /\ WF_vars(ExitNotice(p))
-----------------------------------------------------------------------------
(* Properties.                                                             *)

TypeOK ==
    /\ ServerTypeOK
    /\ window \in {"open", "closed", "exited"}
    /\ {network_config, database_config, test_serveron} \subseteq BOOLEAN
    /\ {backprocess, timout_id} \subseteq Procs \cup {Nobody}
    /\ ticking \subseteq Procs /\ watched \subseteq Procs
    /\ told \subseteq Procs /\ hasty \subseteq Procs

\* While the switch is on, the panel holds a process that it has not stopped
\* and will hear of, and the clock is that of this process; while it is off
\* no clock runs.  The notice of an earlier process may come at any time.
OnIsOwn ==
    IF test_serveron
      THEN /\ backprocess \in watched
           /\ window = "open" => backprocess \notin told
           /\ ticking = {backprocess} /\ timout_id = backprocess
      ELSE ticking = {}

\* A server that runs while the switch does not show it, and that nobody told
\* to stop, was started before the panel had the notice of an earlier one.
UnseenOnlyIfHasty ==
    \A p \in Procs :
        Alive(p) /\ p \notin told /\ ~(test_serveron /\ backprocess = p)
            => p \in hasty

\* A process that was told to stop leaves its accept loop, unless it waits for
\* a connection for ever: the signal may come between the test of the flag and
\* accept.
StopIsHeard ==
    \A p \in Procs :
        [](p \in told => <>(Ended(p) \/ place[p] = "shutdown")
                         \/ <>[](place[p] = "accept"))

\* The end of the process that the switch shows is shown.
EndIsShown ==
    \A p \in Procs :
        (test_serveron /\ backprocess = p /\ Ended(p))
            ~> (~test_serveron \/ window # "open")
=============================================================================
