------------------------------ MODULE Settings ------------------------------
(***************************************************************************)
(* The settings of the desktop application, one file a category, and what  *)
(* they decide when the application starts.  Telephone line, voice and     *)
(* OpenAI settings are written to a temporary file that is renamed; the    *)
(* general, appointment and CRM settings are written in place.  The last   *)
(* two are read whenever they are needed and refuse a file they cannot     *)
(* parse; the others are read once and start from defaults instead.        *)
(* The telephone mode is chosen at the start, from an override of the      *)
(* user's environment or from the settings, and stays until a relaunch.    *)
(***************************************************************************)
EXTENDS Integers, FiniteSets

CONSTANTS MaxWrites,  \* bound: saves
          None,       \* the absent value
          Torn        \* what a crash leaves of a file written in place

VARIABLES disk,      \* category -> None, Torn or the settings stored
          memory,    \* category that is read once -> its value
          acked,     \* category -> the settings its last successful save answered
          cut,       \* history: category -> settings in the file whose save was cut off
          saving,    \* the save whose file is being written, None otherwise
          override,  \* LIVE_PHONE_USE_MOCKS as the user set it: "1", "0" or None
          env,       \* LIVE_PHONE_USE_MOCKS in the environment of the process
          running,   \* mode of the running application, None while it is down
          line,      \* a call is stored as active
          relaunch,  \* the timer of an accepted relaunch is set
          writes

vars == <<disk, memory, acked, cut, saving, override, env, running, line, relaunch, writes>>

Renamed  == {"twilio", "voice"}
InPlace  == {"general", "appointments"}
ReadOnce == {"twilio", "voice", "general"}
Categories == Renamed \cup InPlace

\* Two fields stand for a category: for the telephone line its mode and
\* whether the credentials are complete, for the others any two.
Fields == {"first", "second"}
Values == {"default", "set"}
Default == [f \in Fields |-> "default"]

Readable(c) == disk[c] # Torn
Stored(c) == IF disk[c] \in {None, Torn} THEN Default ELSE disk[c]

\* What a client is shown: the appointments are read from the file.
Shown(c) == IF c \in ReadOnce THEN memory[c] ELSE Stored(c)

\* resolveMockMode: the override, a mode that was chosen ("set" for mock), or
\* automatically by the credentials.
Resolved(value, forced) ==
  IF forced = "1" THEN "mock" ELSE IF forced = "0" THEN "twilio"
  ELSE IF value["first"] = "set" \/ value["second"] = "default" THEN "mock" ELSE "twilio"

Init ==
  /\ disk = [c \in Categories |-> None]
  /\ memory = [c \in ReadOnce |-> Default]
  /\ acked = [c \in Categories |-> None]
  /\ cut = [c \in Categories |-> None]
  /\ saving = None /\ line = FALSE /\ relaunch = FALSE /\ writes = 0
  /\ override \in {"0", "1", None} /\ env = override
  /\ running = Resolved(Default, override)

\* save merges the fields given with the settings in force.  Voice settings do
\* not change during a call; a torn file of appointments refuses every save.
Save(c) ==
  /\ running # None /\ saving = None /\ writes < MaxWrites
  /\ c = "voice" => ~line
  /\ c \in ReadOnce \/ Readable(c)
  /\ \E f \in Fields, v \in Values : saving' = [category |-> c, value |-> [Shown(c) EXCEPT ![f] = v]]
  /\ writes' = writes + 1
  /\ UNCHANGED <<cut, disk, memory, acked, override, env, running, line, relaunch>>

\* The file is complete, by rename or by the end of the write, and the value
\* is taken over and answered.
Saved ==
  /\ saving # None
  /\ disk' = [disk EXCEPT ![saving.category] = saving.value]
  /\ memory' = [c \in ReadOnce |-> IF c = saving.category THEN saving.value ELSE memory[c]]
  /\ acked' = [acked EXCEPT ![saving.category] = saving.value]
  /\ cut' = [cut EXCEPT ![saving.category] = None]
  /\ saving' = None
  /\ UNCHANGED <<override, env, running, line, relaunch, writes>>

\* Mutant: a file that is renamed is torn as well.
Remains_anyfile(save) == {disk[save.category], save.value} \cup {Torn}
\* What a crash in the middle of a save leaves: the old file, the new one, whose
\* save was not answered, or, of a file written in place, a part.
Remains(save) == {disk[save.category], save.value} \cup (IF save.category \in InPlace THEN {Torn} ELSE {})

\* The application dies, in the middle of a write perhaps.
Crash ==
  /\ running # None
  /\ IF saving = None THEN UNCHANGED <<disk, cut>>
     ELSE \E left \in Remains(saving) :
            /\ disk' = [disk EXCEPT ![saving.category] = left]
            /\ cut' = [cut EXCEPT ![saving.category] = IF left = saving.value THEN left ELSE @]
  /\ running' = None /\ saving' = None /\ relaunch' = FALSE
  /\ env' = override
  /\ UNCHANGED <<memory, acked, override, line, writes>>

\* index.ts reads the files and resolves the mode; a call left active is
\* not known to the new process.
Start ==
  /\ running = None
  /\ memory' = [c \in ReadOnce |-> Stored(c)]
  /\ running' = Resolved(Stored("twilio"), env)
  /\ line' = FALSE
  /\ UNCHANGED <<cut, disk, acked, saving, override, env, relaunch, writes>>

\* The write is synchronous: nothing else of the process runs before its end.
Call ==
  /\ running # None /\ saving = None
  /\ line' = ~line
  /\ UNCHANGED <<cut, disk, memory, acked, saving, override, env, running, relaunch, writes>>

\* relaunch is refused during a call, and happens 50 ms later.
Relaunch ==
  /\ running # None /\ saving = None /\ ~line
  /\ relaunch' = TRUE
  /\ UNCHANGED <<cut, disk, memory, acked, saving, override, env, running, line, writes>>

\* restoreExplicitMockOverride keeps the user's override for the new process
\* and drops whatever was derived.
RelaunchTimer ==
  /\ relaunch /\ saving = None
  /\ env' = override
  /\ running' = None /\ relaunch' = FALSE
  /\ UNCHANGED <<cut, disk, memory, acked, saving, override, line, writes>>

Next ==
  \/ \E c \in Categories : Save(c)
  \/ Saved \/ Crash \/ Start \/ Call \/ Relaunch \/ RelaunchTimer

\* The user opens the application again, a write ends, and a timer fires.
Fairness == WF_vars(Start) /\ WF_vars(Saved) /\ WF_vars(RelaunchTimer)
Spec == Init /\ [][Next]_vars /\ Fairness

TypeOK ==
  /\ running \in {"mock", "twilio", None}
  /\ \A c \in Categories : disk[c] \in {None, Torn} \cup [Fields -> Values]
  /\ relaunch \in BOOLEAN /\ writes \in 0..MaxWrites

\* What a save of a renamed file has answered survives every crash: the file
\* is whole and holds the last settings answered, or newer ones whose answer
\* was cut off, and a start brings it back.
AnsweredIsDurable ==
  \A c \in Renamed :
    /\ disk[c] # None => disk[c] \in {acked[c], cut[c]}
    /\ acked[c] # None => disk[c] # None
    /\ running # None => memory[c] = Stored(c)

\* A save changes one field: the other keeps what the client was shown, unless
\* a crash tore a file in between.
SaveKeepsTheRest ==
  [][\A c \in Categories :
       (disk'[c] # disk[c] /\ disk'[c] # Torn) =>
         \E f \in Fields : disk'[c][f] = Shown(c)[f]]_vars

\* A telephone mode that was chosen takes effect with the next start, never
\* before, and no mode derived earlier outlives a relaunch.
ModeChangesByStart ==
  [][running' # running =>
       \/ running' = None
       \/ running = None /\ running' = Resolved(Stored("twilio"), override)]_vars

\* An accepted relaunch brings the application back.
RelaunchReturns == relaunch ~> (~relaunch /\ running # None)
=============================================================================
