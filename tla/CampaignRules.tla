--------------------------- MODULE CampaignRules ---------------------------
(***************************************************************************)
(* What a campaign allows: the policy as a client writes it, as            *)
(* normalizeCampaignPolicy leaves it, and the guards and instructions of a *)
(* call read from it (packages/core/src/policy).  A policy is normalised   *)
(* when it is saved and again whenever it is read.  A field of the wrong   *)
(* type falls back to its default, a bad element of a list is dropped, a   *)
(* number out of range is clamped; nothing is refused.                     *)
(***************************************************************************)
EXTENDS Integers

CONSTANTS Numbers,    \* telephone numbers
          Slots,      \* bound: moments of a day
          Lengths,    \* lengths of texts, in units of the limit
          MaxCompiled \* MAX_COMPILED_INSTRUCTIONS in the same unit

VARIABLES written,  \* the policy as the client sent it
          policy,   \* the policy in force, "none" before it was saved
          dialled,  \* the dial guard's last question and answer
          compiled  \* the instructions last compiled, by their lengths

vars == <<written, policy, dialled, compiled>>

None == [none |-> TRUE]
Days == 0..1
Times == 0..(Slots - 1)

\* A number as people write it: with or without separators, or not E.164.
Spelled == [number : Numbers, as : {"plain", "dashed", "local"}]
Windows == [days : {{}, {0}, Days}, start : Times \cup {-1}, end : Times]

\* -1 is an absent or malformed duration; the unit is half a minute.
Durations == {-1, 0, 1, 20, 120, 121}

\* What an assistant may do.  "bad" is a value of the wrong type; the risks it
\* may take without asking are a list (of which what is
\* no risk is dropped as an external write is), absent, or bad.
Risks == {"read", "draft-write", "external-write"}
Copilots == [enabled : {"yes", "no", "bad"}, mayEnd : {"yes", "no", "bad"},
             given : {"list", "absent", "bad"}, risks : SUBSET Risks, cap : {-1, 0, 1, 3, 10, 11}]
DefaultCopilot == [enabled |-> "no", mayEnd |-> "yes", given |-> "list", risks |-> {"read"}, cap |-> 3]

\* A list is the set of its entries: nothing is read from their order.
Policies == [doNotCall : SUBSET Spelled, windows : SUBSET Windows, duration : Durations, copilot : Copilots]

\* bound: at most one entry beside at most one window; any list, and any
\* assistant, with a policy that is otherwise plain.
Plain == [doNotCall |-> {}, windows |-> {}, duration |-> 1, copilot |-> DefaultCopilot]
Written ==
  [doNotCall : {{}} \cup {{n} : n \in Spelled}, windows : {{}} \cup {{w} : w \in Windows},
   duration : Durations, copilot : {DefaultCopilot}]
  \cup {[Plain EXCEPT !.doNotCall = l] : l \in SUBSET Spelled}
  \cup {[Plain EXCEPT !.copilot = c] :
         c \in {c \in Copilots : c.given = "list" \/ c.risks = {}}}

\* normalizePhoneList: separators are dropped, what is not E.164 and what is
\* there already is left out.
NormalizePhones(list) ==
  {[number |-> entry.number, as |-> "plain"] : entry \in {entry \in list : entry.as # "local"}}

\* normalizeCallingHours: a window without days or with a malformed time is
\* left out.
NormalizeWindows(list) == {w \in list : w.days # {} /\ w.start >= 0}

Clamp(n) == IF n < 1 THEN 1 ELSE IF n > 120 THEN 120 ELSE n
NormalizeDuration(n) == IF n = -1 THEN 20 ELSE Clamp(n)

\* normalizeCopilot: what is malformed takes its default, which allows an
\* assistant to end the call, to read without asking, and is not enabled.
\* Mutant: what the list names is kept.
NormalizeCopilot_any(c) ==
  [enabled |-> IF c.enabled = "yes" THEN "yes" ELSE "no",
   mayEnd  |-> IF c.mayEnd = "no" THEN "no" ELSE "yes",
   given   |-> "list",
   risks   |-> IF c.given = "list" THEN c.risks ELSE {"read"},
   cap     |-> IF c.cap = -1 THEN 3 ELSE IF c.cap < 1 THEN 1 ELSE IF c.cap > 10 THEN 10 ELSE c.cap]
NormalizeCopilot(c) ==
  [enabled |-> IF c.enabled = "yes" THEN "yes" ELSE "no",
   mayEnd  |-> IF c.mayEnd = "no" THEN "no" ELSE "yes",
   given   |-> "list",
   risks   |-> IF c.given = "list" THEN c.risks \cap {"read", "draft-write"} ELSE {"read"},
   cap     |-> IF c.cap = -1 THEN 3 ELSE IF c.cap < 1 THEN 1 ELSE IF c.cap > 10 THEN 10 ELSE c.cap]

NormalizeCampaignPolicy(w) ==
  [doNotCall |-> NormalizePhones(w.doNotCall), windows |-> NormalizeWindows(w.windows),
   duration |-> NormalizeDuration(w.duration), copilot |-> NormalizeCopilot(w.copilot)]

\* guardrails.ts compares the two numbers without their separators.
NormalizePhone(n) == IF n.as = "dashed" THEN [number |-> n.number, as |-> "plain"] ELSE n
\* Mutant: the numbers are compared as they are spelled.
IsDoNotCall_spelled(p, peer) ==
  \E entry \in p.doNotCall : entry = peer
IsDoNotCall(p, peer) ==
  \E entry \in p.doNotCall : NormalizePhone(entry) = NormalizePhone(peer)

\* isHourMinuteAfter: a window that ends before it starts runs over midnight,
\* an empty one never opens.
InWindow(start, end, time) ==
  /\ start # end
  /\ IF start < end THEN time >= start /\ time < end ELSE time >= start \/ time < end

IsWithinCallingHours(p, day, time) ==
  \/ p.windows = {}
  \/ \E w \in p.windows : day \in w.days /\ InWindow(w.start, w.end, time)

EvaluateDialGuard(p, peer, day, time) ==
  IF IsDoNotCall(p, peer) THEN "dnc"
  ELSE IF ~IsWithinCallingHours(p, day, time) THEN "outside_calling_hours" ELSE "allowed"

HasExceededMaxDuration(p, answered, now) ==
  answered > 0 /\ now > answered /\ now - answered >= p.duration

\* build(opening) of compilePolicyInstructions, by lengths: the platform's
\* rule and everything but the opening, then the opening under its header.
Header == 1
Build(fixed, opening) == fixed + (IF opening = 0 THEN 0 ELSE Header + opening)

\* compileWithCampaignOpeningLimit; -1 is the error that refuses the call.
CompileFitted(fixed, opening) ==
  LET without  == Build(fixed, 0)
      overhead == Build(fixed, 1) - without - 1
      budget   == MaxCompiled - without - overhead
      fitted   == Build(fixed, IF opening < budget THEN opening ELSE budget)
  IN  IF Build(fixed, opening) <= MaxCompiled THEN Build(fixed, opening)
      ELSE IF opening = 0 \/ without > MaxCompiled THEN -1
      ELSE IF budget <= 0 \/ fitted > MaxCompiled THEN without ELSE fitted

\* appendTaskGoal
AppendTaskGoal(instructions, goal) ==
  IF goal = 0 \/ instructions = -1 THEN instructions
  ELSE IF instructions + Header + goal > MaxCompiled THEN -1 ELSE instructions + Header + goal

Init ==
  /\ written \in Written
  /\ policy = None /\ dialled = None /\ compiled = None

Save ==
  /\ policy = None
  /\ policy' = NormalizeCampaignPolicy(written)
  /\ UNCHANGED <<written, dialled, compiled>>

Dial ==
  /\ policy # None /\ dialled = None
  /\ written.copilot = DefaultCopilot \* bound
  /\ \E peer \in {n \in Spelled : n.as # "local"}, day \in Days, time \in Times :
       dialled' = [peer |-> peer, day |-> day, time |-> time,
                   answer |-> EvaluateDialGuard(policy, peer, day, time)]
  /\ UNCHANGED <<written, policy, compiled>>

Compile ==
  /\ policy # None /\ compiled = None /\ written = Plain \* bound
  /\ \E fixed, opening, goal \in Lengths :
       compiled' = [fixed |-> fixed, opening |-> opening, goal |-> goal,
                    instructions |-> CompileFitted(fixed, opening),
                    withGoal |-> AppendTaskGoal(CompileFitted(fixed, opening), goal)]
  /\ UNCHANGED <<written, policy, dialled>>

Next == Save \/ Dial \/ Compile
Spec == Init /\ [][Next]_vars

TypeOK ==
  /\ written \in Written
  /\ policy = None \/ policy \in Policies
  /\ dialled = None \/ dialled.answer \in {"dnc", "outside_calling_hours", "allowed"}
  /\ compiled = None \/ compiled.instructions \in Int

\* Reading a stored policy again changes nothing: what was accepted on saving
\* is what every call is judged by (normalizeCampaignPolicy on both sides).
StoredIsStable == policy # None => NormalizeCampaignPolicy(policy) = policy

\* A number on the do-not-call list is not dialled, however the entry and the
\* dialled number are spelled, as long as the entry is a number at all.
ListedIsNotDialled ==
  dialled # None =>
    (\E entry \in written.doNotCall :
       entry.as # "local" /\ entry.number = dialled.peer.number) <=> dialled.answer = "dnc"

\* A window and the one with its ends exchanged share out the whole day: no
\* moment is in both or in neither (the boundaries of isHourMinuteAfter).
WindowsShareTheDay ==
  \A start, end, time \in Times :
    start # end => (InWindow(start, end, time) <=> ~InWindow(end, start, time))

\* Outside the hours the client wrote nobody is dialled, unless not one of the
\* windows was well formed: a policy whose every window is dropped is open
\* at all hours.
ClosedMeansClosed ==
  (dialled # None /\ dialled.answer = "allowed") =>
    \/ \E w \in written.windows :
         dialled.day \in w.days /\ w.start >= 0 /\ InWindow(w.start, w.end, dialled.time)
    \/ \A w \in written.windows : w.days = {} \/ w.start = -1

\* A call is cut at its limit, never before and whatever was written: a call
\* of half a minute always passes and none lasts over an hour.
LimitIsKept ==
  policy # None =>
    /\ ~HasExceededMaxDuration(policy, 1, 1)
    /\ HasExceededMaxDuration(policy, 1, 121)
    /\ policy.duration > 1 => ~HasExceededMaxDuration(policy, 1, 2)

\* Whatever was written, an assistant asks before it writes outside (the
\* executor runs unasked what the policy lists), it is enabled only by being
\* enabled, an empty list makes it ask for everything, and a turn has a limit.
AssistantAsks ==
  policy # None =>
    LET mine == policy.copilot
        was  == written.copilot
    IN  /\ "external-write" \notin mine.risks
        /\ mine.enabled = "yes" => was.enabled = "yes"
        /\ mine.risks \subseteq was.risks \cup (IF was.given = "list" THEN {} ELSE {"read"})
        /\ mine.cap \in 1..10
        /\ was.mayEnd = "no" => mine.mayEnd = "no"

\* Instructions are refused only when what the campaign must keep is too long
\* by itself; otherwise they fit, hold all of the fixed part, and an opening
\* is cut no shorter than needed (compileWithCampaignOpeningLimit).
OpeningYields ==
  compiled # None =>
    /\ (compiled.instructions = -1) = (compiled.fixed > MaxCompiled)
    /\ compiled.instructions # -1 =>
         /\ compiled.instructions \in compiled.fixed..MaxCompiled
         /\ \/ compiled.instructions = Build(compiled.fixed, compiled.opening)
            \/ compiled.instructions = MaxCompiled
            \/ compiled.instructions = compiled.fixed /\ compiled.fixed + Header >= MaxCompiled
=============================================================================
