--------------------------- MODULE ControlServer ---------------------------
(***************************************************************************)
(* The server behind the local interfaces: McpServerController             *)
(* (main/mcp/server.ts), which listens on a loopback port it names in the  *)
(* endpoint file.  Listening is awaited, so that operations (of the        *)
(* window, of a REST route or of a tool) may cross; the application may    *)
(* stop, and what it wrote stays.                                          *)
(***************************************************************************)
EXTENDS Naturals

CONSTANTS MaxServers,    \* bound: servers made
          MaxLives       \* bound: times the application starts

Servers == 1..MaxServers

VARIABLES life,       \* the application's starts so far
          running,    \* it runs
          attached,   \* the controller serves the admin operations
          enabled,    \* settings.enabled in memory
          saved,      \* and in settings.json
          listener,   \* each server: none, binding, up, closed
          held,       \* httpServer and endpoint: the server they are of, 0 for none
          timer,      \* the endpoint health check runs
          named,      \* the server endpoint.json names, 0 for no file
          stale,      \* history: what it named when the application stopped
          crossed     \* history: an operation came while a server was binding
serverVars == <<life, running, attached, enabled, saved, listener, held, timer, named, stale, crossed>>

Init ==
  /\ life = 0 /\ running = FALSE /\ attached = FALSE /\ enabled = FALSE /\ saved \in BOOLEAN
  /\ listener = [s \in Servers |-> "none"] /\ held = 0 /\ timer = FALSE /\ named = 0 /\ stale = 0 /\ crossed = FALSE

Binding == \E s \in Servers : listener[s] = "binding"
Crossing == crossed' = (crossed \/ Binding)

\* start: nothing when the server it holds listens; otherwise a new one.
StartServer ==
  IF held # 0 THEN UNCHANGED listener
  ELSE \E s \in Servers : /\ listener[s] = "none" /\ \A t \in 1..(s - 1) : listener[t] # "none"
                          /\ listener' = [listener EXCEPT ![s] = "binding"]
\* stop: the file goes, and the server it holds with all its connections.
StopServer ==
  /\ held' = 0 /\ timer' = FALSE /\ named' = 0
  /\ listener' = IF held = 0 THEN listener ELSE [listener EXCEPT ![held] = "closed"]
\* The rest of start, once it listens; writing the file may fail.
Bound(s) ==
  /\ running /\ listener[s] = "binding" /\ listener' = [listener EXCEPT ![s] = "up"] /\ held' = s
  /\ \/ named' = s /\ timer' = TRUE
     \/ UNCHANGED <<named, timer>>
  /\ UNCHANGED <<life, running, attached, enabled, saved, stale, crossed>>
BindFails(s) ==
  /\ running /\ listener[s] = "binding" /\ listener' = [listener EXCEPT ![s] = "closed"]
  /\ UNCHANGED <<life, running, attached, enabled, saved, held, timer, named, stale, crossed>>
\* The constructor and initialize, with the settings of the file.
Launch ==
  /\ ~running /\ life < MaxLives /\ life' = life + 1 /\ running' = TRUE /\ attached' = TRUE /\ enabled' = saved
  /\ IF saved THEN StartServer ELSE UNCHANGED listener
  /\ UNCHANGED <<saved, held, timer, named, stale, crossed>>
\* setEnabled: the setting is saved before the server is started or stopped.
SetEnabled(on) ==
  /\ enabled' = on /\ saved' = on /\ Crossing
  /\ IF on THEN StartServer /\ UNCHANGED <<held, timer, named>> ELSE StopServer
Switch(on) ==
  /\ running /\ attached /\ SetEnabled(on)
  /\ UNCHANGED <<life, running, attached, stale>>
\* The setting cannot be saved: it holds until the application stops.
SaveFails(on) ==
  /\ running /\ attached /\ enabled' = on
  /\ UNCHANGED <<life, running, attached, saved, listener, held, timer, named, stale, crossed>>
\* dispose.
Dispose ==
  /\ running /\ attached /\ attached' = FALSE /\ StopServer /\ Crossing
  /\ UNCHANGED <<life, running, enabled, saved, stale>>
FileLost ==
  /\ named # 0 /\ named' = 0
  /\ UNCHANGED <<life, running, attached, enabled, saved, listener, held, timer, stale, crossed>>
\* Mutant: the check asks the setting instead of the server.
HealthCheck_setting ==
  /\ running /\ timer /\ held # 0 /\ enabled /\ named = 0 /\ named' = held
  /\ UNCHANGED <<life, running, attached, enabled, saved, listener, held, timer, stale, crossed>>
\* ensureEndpointFile, every 30 seconds and with every status.
HealthCheck ==
  /\ running /\ timer /\ held # 0 /\ named = 0 /\ named' = held
  /\ UNCHANGED <<life, running, attached, enabled, saved, listener, held, timer, stale, crossed>>
\* The application stops: its servers are gone, the file is not.
Halt ==
  /\ running /\ running' = FALSE /\ attached' = FALSE /\ held' = 0 /\ timer' = FALSE /\ stale' = named
  /\ listener' = [s \in Servers |-> IF listener[s] = "none" THEN "none" ELSE "closed"]
  /\ UNCHANGED <<life, enabled, saved, named, crossed>>

Next ==
  \/ Launch \/ Dispose \/ FileLost \/ HealthCheck \/ Halt
  \/ \E on \in BOOLEAN : Switch(on) \/ SaveFails(on)
  \/ \E s \in Servers : Bound(s) \/ BindFails(s)
\* The health check is a timer; a listen is answered one way or the other.
Fairness == WF_serverVars(HealthCheck) /\ \A s \in Servers : WF_serverVars(Bound(s) \/ BindFails(s))
Spec == Init /\ [][Next]_serverVars /\ Fairness

(***************************************************************************)
(* Properties                                                               *)
(***************************************************************************)
\* Every variable has its type.
TypeOK ==
  /\ life \in 0..MaxLives /\ {running, attached, enabled, saved, timer, crossed} \subseteq BOOLEAN
  /\ listener \in [Servers -> {"none", "binding", "up", "closed"}] /\ {held, named, stale} \subseteq 0..MaxServers

\* What the endpoint file and the status name does listen, whatever
\* operations crossed; a file of a life that ended may name nothing any more.
NamedListens ==
  /\ running /\ held # 0 => listener[held] = "up"
  /\ running /\ named # 0 /\ named # stale => listener[named] = "up"

\* Switched off or disposed of, nothing listens, unless an operation came
\* while a server was still being opened.
OffIsClosed ==
  running /\ (~attached \/ (~enabled /\ ~saved)) /\ ~crossed /\ ~Binding => \A s \in Servers : listener[s] # "up"

\* A server that runs and checks its file has one again.
FileComesBack == running /\ timer /\ held # 0 /\ named = 0 ~> ~running \/ ~timer \/ named # 0
=============================================================================
