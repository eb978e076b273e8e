------------------------------ MODULE AppHost ------------------------------
(***************************************************************************)
(* The desktop application as a whole (main/index.ts, main/shutdown.ts,    *)
(* main/tray.ts): the parts it makes when they are first needed, the       *)
(* window that hides in the tray, and the shutdown that disposes them one  *)
(* after the other, without waiting for those that take their time, and    *)
(* leaves a moment later.                                                  *)
(***************************************************************************)
EXTENDS Naturals, Sequences, FiniteSets, SequencesExt

\* shutdownSteps, in the order they are registered.
Steps == <<"campaigns", "store", "recorder", "bridge", "codex", "gateway", "services", "approvals", "modules", "window", "tray">>
Parts == ToSet(Steps)
\* createMainServices, and the stores it is given.
Made == {"services", "campaigns", "store", "recorder", "bridge", "gateway"}
\* What each part still uses while it is disposed.
Uses == [p \in Parts |->
  CASE p \in {"recorder", "bridge"} -> {"store"}
    [] p = "services" -> {"store", "campaigns", "recorder", "bridge", "gateway"}
    [] p = "approvals" -> {"services"}
    [] p = "modules" -> {"services", "approvals", "store", "gateway", "codex", "bridge"}
    [] p = "tray" -> {"services"}
    [] OTHER -> {}]

VARIABLES phase,    \* booting, up, disposing (within begin), quitting, gone
          live,     \* parts that exist
          hidden,   \* the window is hidden
          todo,     \* steps not run yet
          told,     \* parts that were disposed of
          faulty,   \* parts whose disposer throws
          child,    \* the app-server process: none, up, stopping (dispose waits for it)
          late      \* history: events that came after the disposal
hostVars == <<phase, live, hidden, todo, told, faulty, child, late>>

Init ==
  /\ phase = "booting" /\ live = {} /\ hidden = FALSE /\ todo = <<>> /\ told = {} /\ child = "none" /\ late = {}
  /\ faulty \in {{}, {"services"}, {"modules", "window"}, {"bridge"}, {"store"}}

\* whenReady: the recorder, the bridge and what they need, then the modules,
\* the window and the tray.
Boot ==
  /\ phase = "booting" /\ phase' = "up" /\ live' = Parts \ {"codex"}
  /\ UNCHANGED <<hidden, todo, told, faulty, child, late>>
\* getCodex, for the copilot, an analysis or a voice session.
NeedsCodex ==
  /\ phase = "up" /\ "codex" \notin live /\ live' = live \cup {"codex"} /\ child' = "up"
  /\ UNCHANGED <<phase, hidden, todo, told, faulty, late>>
ChildExits ==
  /\ phase # "disposing" /\ child # "none" /\ child' = "none" /\ live' = live \ {"codex"}
  /\ UNCHANGED <<phase, hidden, todo, told, faulty, late>>

(***************************************************************************)
(* The window                                                               *)
(***************************************************************************)
\* handleWindowClose, with the setting minimizeToTray: only the window goes.
CloseWindow(tray) ==
  /\ phase \in {"up", "quitting"} /\ "window" \in live /\ ~hidden
  /\ IF phase = "up" /\ tray THEN hidden' = TRUE /\ UNCHANGED live ELSE live' = live \ {"window"} /\ UNCHANGED hidden
  /\ UNCHANGED <<phase, todo, told, faulty, child, late>>
\* showMainWindow: a second instance, the dock, or the tray; it makes a window
\* when there is none, also while the application quits.
ShowWindow ==
  /\ phase \in {"up", "quitting"} /\ (hidden \/ "window" \notin live)
  /\ hidden' = FALSE /\ live' = live \cup {"window"}
  /\ late' = IF phase = "quitting" THEN late \cup {"window"} ELSE late
  /\ UNCHANGED <<phase, todo, told, faulty, child>>

(***************************************************************************)
(* Shutdown                                                                 *)
(***************************************************************************)
\* Mutant: the parts are disposed of in the order they were made.
Quit_inorder ==
  /\ phase = "up" /\ phase' = "disposing" /\ todo' = Steps
  /\ UNCHANGED <<live, hidden, told, faulty, child, late>>
\* before-quit: begin, once.
Quit ==
  /\ phase = "up" /\ phase' = "disposing" /\ todo' = Reverse(Steps)
  /\ UNCHANGED <<live, hidden, told, faulty, child, late>>
\* A step takes its part out of the variable that holds it, and disposes it;
\* when it throws, the others are run all the same.  The client of the
\* app-server first asks it to stop, and is not waited for.
Step ==
  /\ phase = "disposing" /\ todo # <<>> /\ todo' = Tail(todo)
  /\ LET p == Head(todo) IN
     /\ live' = live \ {p} /\ told' = IF p \in live THEN told \cup {p} ELSE told
     /\ child' = IF p = "codex" /\ child = "up" THEN "stopping" ELSE child
  /\ UNCHANGED <<phase, hidden, faulty, late>>
Begun ==
  /\ phase = "disposing" /\ todo = <<>> /\ phase' = "quitting"
  /\ UNCHANGED <<live, hidden, todo, told, faulty, child, late>>
\* handleCodexNotification asks for the services, whatever the phase: what was
\* disposed of is made again, the call store is opened again.
Notification ==
  /\ phase \in {"up", "quitting"} /\ child # "none" /\ live' = live \cup Made
  /\ late' = IF phase = "quitting" THEN late \cup {"notification"} ELSE late
  /\ UNCHANGED <<phase, hidden, todo, told, faulty, child>>
\* A window made while the application quits asks for what it shows.
WindowAsks ==
  /\ phase \in {"up", "quitting"} /\ "window" \in live /\ live' = live \cup Made
  /\ UNCHANGED <<phase, hidden, todo, told, faulty, child, late>>
\* commitExit, 100 ms later, or forceExit at the deadline: nobody is asked.
Leave ==
  /\ phase = "quitting" /\ phase' = "gone" /\ live' = {} /\ child' = "none"
  /\ UNCHANGED <<hidden, todo, told, faulty, late>>

Next ==
  \/ Boot \/ NeedsCodex \/ ChildExits \/ ShowWindow \/ Quit \/ Step \/ Begun \/ Notification \/ WindowAsks \/ Leave
  \/ \E tray \in BOOLEAN : CloseWindow(tray)
Fairness == WF_hostVars(Step) /\ WF_hostVars(Begun) /\ WF_hostVars(Leave)
Spec == Init /\ [][Next]_hostVars /\ Fairness

(***************************************************************************)
(* Properties                                                               *)
(***************************************************************************)
\* Every variable has its type.
TypeOK ==
  /\ phase \in {"booting", "up", "disposing", "quitting", "gone"} /\ live \cup told \cup faulty \subseteq Parts
  /\ hidden \in BOOLEAN /\ ToSet(todo) \subseteq Parts /\ child \in {"none", "up", "stopping"}
  /\ late \subseteq {"notification", "window"}

\* Nothing that was there when the application began to quit is left without
\* being disposed of, although the disposers of others throw.
NothingIsLeftBehind == phase \in {"quitting", "gone"} => Parts \ {"codex", "window"} \subseteq told

\* A part is disposed of before what it uses is.
UsersFirst ==
  [][\A p \in Parts : phase = "disposing" /\ p \in told' \ told => \A q \in Parts \ told : p \in Uses[q] => q \notin live]_hostVars

\* Once everything is disposed of, a store is open again only because the
\* app-server or a new window asked for something in the time that was left.
ReopenedByEventOnly == phase = "quitting" /\ live \ {"codex"} # {} => late # {}

\* Who quits has quit, although the app-server does not stop when it is asked.
QuitEnds == phase = "disposing" ~> phase = "gone"
=============================================================================
