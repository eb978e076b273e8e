------------------------------ MODULE DialGate ------------------------------
(***************************************************************************)
(* How much the application may call: the budget of autonomous calls       *)
(* (services/budget-service.ts), which says whether a task dials unasked,  *)
(* its switch in the tray, and the limits of rate that every managed dial  *)
(* meets (checkRateLimit of services/task-service.ts).  The limits are     *)
(* tested when a dial begins and counted when it is answered; in between   *)
(* are the approval and the renderer, which may answer too late. Who       *)
(* waits for a dial, its key, and a status that is out of date are         *)
(* TaskQueue's; whom the campaign lets be called is CampaignRules'.        *)
(***************************************************************************)
EXTENDS Integers, Sequences, FiniteSets, FiniteSetsExt, SequencesExt

CONSTANTS Peers, Allowed,  \* numbers called, and those of them the budget allows
          DayLength, Minute, Cooldown,  \* a day, the window of the rate, the rest of a number
          MaxPerMinute, \* managed calls a minute, 3 in the code
          DailyMax,     \* dailyMaxCalls of the budgets that are saved
          MaxTime,      \* bound: the last moment
          MaxDialled,   \* bound: calls
          MaxSaves      \* bound: saves of the budget

VARIABLES now,
          budget,    \* the row call_budgets
          dial,      \* the managed dial in progress: None, or what was decided of it
          late,      \* numbers of dials given up that the renderer may still dial
          calls,     \* outbound rows of call_sessions, as they begin
          line,      \* the one that is live, 0 if none
          dialTimes, \* the managed dials that were answered, by their rows, the older than a
                     \* minute dropped
          peerAt,    \* peerDialTimes, -1 for none
          saves,
          paused,    \* unasked calls since the switch is on (history)
          earlier    \* calls of earlier lives of the application (history)

gateVars == <<now, budget, dial, late, calls, line, dialTimes, peerAt, saves, paused, earlier>>

None == [none |-> TRUE]
Day(t) == t \div DayLength
\* A window of hours; a time of -1 is malformed.
Windows == [days : {{0}}, start : {-1, 0}, end : {1}]
Budgets == [enabled : BOOLEAN, killSwitch : BOOLEAN, dailyMaxCalls : {DailyMax}, dailyMaxMinutes : {1},
            allowed : {Allowed}, hours : {<<>>} \cup {<<w>> : w \in Windows}]   \* bound: the fields saved
Fields == {"killSwitch", "hours"}

\* validateBudget and validateHours: unlike the hours of a campaign, what is
\* malformed is refused.
ValidBudget(b) ==
  /\ b.dailyMaxCalls >= 0 /\ b.dailyMaxMinutes >= 0
  /\ \A i \in DOMAIN b.hours : b.hours[i].start >= 0

InWindow(start, end, time) ==
  /\ start # end
  /\ IF start < end THEN start <= time /\ time < end ELSE start <= time \/ time < end
IsWithinHours(hours, t) ==
  \/ hours = <<>>
  \/ \E w \in ToSet(hours) : Day(t) \in w.days /\ InWindow(w.start, w.end, t % DayLength)

\* getDailyCallUsage, from startOfUtcDay on: every outbound call, whoever
\* placed it; a call that is live has lasted no time yet.
Today == {i \in DOMAIN calls : calls[i].at >= Day(now) * DayLength}
DailyUsage == [calls |-> Cardinality(Today), minutes |-> MapThenSumSet(LAMBDA i : calls[i].lasted, Today)]

\* evaluate: whether no reason speaks against the call.
Evaluate(peer) ==
  /\ budget.enabled /\ ~budget.killSwitch
  /\ DailyUsage.calls < budget.dailyMaxCalls /\ DailyUsage.minutes < budget.dailyMaxMinutes
  /\ peer \in budget.allowed /\ IsWithinHours(budget.hours, now)

\* checkRateLimit, which drops what is older than a minute.
Recent == {i \in dialTimes : calls[i].at >= now - Minute}
CheckRateLimit(peer, bypass) ==
  /\ Cardinality(Recent) < MaxPerMinute
  /\ bypass \/ peerAt[peer] = -1 \/ peerAt[peer] <= now - Cooldown

Init ==
  /\ now = 0 /\ dial = None /\ late = {} /\ calls = <<>> /\ line = 0
  /\ dialTimes = {} /\ peerAt = [p \in Peers |-> -1] /\ saves = 0 /\ paused = 0 /\ earlier = 0
  /\ budget \in {b \in Budgets : b.hours = <<>> /\ b.enabled /\ ~b.killSwitch}

Tick ==
  /\ now < MaxTime /\ now' = now + 1
  /\ UNCHANGED <<budget, dial, late, calls, line, dialTimes, peerAt, saves, paused, earlier>>

\* save: the fields given replace those stored, and all is looked at.
SavedWith(next) == ValidBudget(next) /\ budget' = next
Save ==
  /\ saves < MaxSaves /\ saves' = saves + 1
  /\ \E next \in Budgets, f \in Fields :
       /\ \A g \in DOMAIN next \ {f} : next[g] = budget[g]
       /\ SavedWith(next)
       /\ paused' = IF f = "killSwitch" THEN 0 ELSE paused
  /\ UNCHANGED <<now, dial, late, calls, line, dialTimes, peerAt, earlier>>

\* startManagedDial, with no call live and no dial in progress.
Begins(peer, asked, retry) ==
  /\ line = 0 /\ dial = None /\ CheckRateLimit(peer, retry)
  /\ dial' = [peer |-> peer, asked |-> asked, retry |-> retry, stage |-> IF asked THEN "approval" ELSE "sent"]
  /\ dialTimes' = Recent
  /\ UNCHANGED <<now, budget, late, calls, line, peerAt, saves, paused, earlier>>
\* A task, on its first attempt or a later one; the switch fails it.
TaskDials(peer, retry) == ~budget.killSwitch /\ Begins(peer, ~Evaluate(peer), retry)
\* A client: always by approval, whatever the budget says.
ClientDials(peer) == Begins(peer, TRUE, FALSE)

Decided(approved) ==
  /\ dial # None /\ dial.stage = "approval"
  /\ dial' = IF approved THEN [dial EXCEPT !.stage = "sent"] ELSE None
  /\ UNCHANGED <<now, budget, late, calls, line, dialTimes, peerAt, saves, paused, earlier>>

\* A call begins: its row, by whom it was placed.
Places(peer, how, retry) ==
  /\ line = 0 /\ Len(calls) < MaxDialled
  /\ calls' = Append(calls, [peer |-> peer, at |-> now, lasted |-> 0, how |-> how, retry |-> retry])
  /\ line' = Len(calls) + 1
\* completeDial, answered: only now is the dial counted.
Answered ==
  /\ dial # None /\ dial.stage = "sent"
  /\ Places(dial.peer, IF dial.asked THEN "asked" ELSE "unasked", dial.retry)
  /\ dialTimes' = dialTimes \cup {line'} /\ peerAt' = [peerAt EXCEPT ![dial.peer] = now]
  /\ dial' = None
  /\ paused' = IF budget.killSwitch /\ ~dial.asked THEN paused + 1 ELSE paused
  /\ UNCHANGED <<now, budget, late, saves, earlier>>
\* The renderer refuses, or the gateway gives up on it: nothing is counted.
Fails(givenUp) ==
  /\ dial # None /\ dial.stage = "sent" /\ (givenUp => late = {})
  /\ dial' = None /\ late' = IF givenUp THEN {dial.peer} ELSE late
  /\ UNCHANGED <<now, budget, calls, line, dialTimes, peerAt, saves, paused, earlier>>
LateCall ==
  /\ \E p \in late : Places(p, "late", FALSE)
  /\ late' = {} /\ UNCHANGED <<now, budget, dial, dialTimes, peerAt, saves, paused, earlier>>
\* The owner dials in the window, which asks nobody.
OwnerDials ==
  /\ Places(CHOOSE p \in Peers : TRUE, "owner", FALSE)
  /\ UNCHANGED <<now, budget, dial, late, dialTimes, peerAt, saves, paused, earlier>>
CallEnds ==
  /\ line # 0 /\ line' = 0
  /\ calls' = [calls EXCEPT ![line].lasted = IF now > calls[line].at THEN 1 ELSE 0]   \* bound: of a minute
  /\ UNCHANGED <<now, budget, dial, late, dialTimes, peerAt, saves, paused, earlier>>

\* The application stops and starts: rows and budget are kept, the dials that
\* were counted are forgotten, and a call that was live never ends its row.
Restart ==
  /\ earlier = 0 /\ calls # <<>> /\ earlier' = Len(calls)   \* bound: one restart
  /\ dial' = None /\ late' = {} /\ line' = 0
  /\ dialTimes' = {} /\ peerAt' = [p \in Peers |-> -1]
  /\ UNCHANGED <<now, budget, calls, saves, paused>>

Next ==
  \/ Tick \/ Save \/ Answered \/ LateCall \/ OwnerDials \/ CallEnds \/ Restart
  \/ \E p \in Peers : ClientDials(p) \/ \E retry \in BOOLEAN : TaskDials(p, retry)
  \/ \E b \in BOOLEAN : Decided(b) \/ Fails(b)
Spec == Init /\ [][Next]_gateVars

(***************************************************************************)
(* Properties                                                               *)
(***************************************************************************)
\* Every variable has its type.
TypeOK ==
  /\ now \in 0..MaxTime /\ budget \in Budgets /\ saves \in 0..MaxSaves
  /\ line \in 0..Len(calls) /\ earlier \in 0..Len(calls)
  /\ dial = None \/ dial.stage \in {"approval", "sent"}
  /\ \A i \in DOMAIN calls : calls[i].how \in {"asked", "unasked", "late", "owner"}

\* No more calls of a day are placed unasked than the budget has, with those of
\* the owner and of clients counted or not; only a dial that was given up and
\* carried out later comes on top, and no restart gives the day back (docs/
\* tasks.md: usage is below dailyMaxCalls).
DayIsKept ==
  \A d \in {Day(calls[i].at) : i \in DOMAIN calls} :
    Cardinality({i \in DOMAIN calls : Day(calls[i].at) = d /\ calls[i].how = "unasked"})
      <= budget.dailyMaxCalls

\* In no minute of a life of the application begin more managed calls than are
\* allowed, however long their approvals took, but for those that were given
\* up; and a number rests, unless it is a task's that tries again.
Managed == {i \in (earlier + 1)..Len(calls) : calls[i].how \in {"asked", "unasked"}}
RateIsKept ==
  /\ \A i \in Managed :
       Cardinality({j \in Managed : calls[j].at \in calls[i].at..(calls[i].at + Minute)}) <= MaxPerMinute
  /\ \A i, j \in Managed :
       i < j /\ calls[i].peer = calls[j].peer /\ calls[j].at < calls[i].at + Cooldown => calls[j].retry

\* Once the switch is on, one unasked call at most begins: that of the dial
\* that was in progress (docs/background-mode.md: pause tasks).
PauseIsKept == paused <= 1
=============================================================================
