----------------------------- MODULE ControlApi -----------------------------
(***************************************************************************)
(* The requests of the local interfaces: the REST routes with their memory *)
(* of idempotency keys (main/http/router.ts) and the tools with their      *)
(* scopes (handleRequest of main/mcp/server.ts, main/mcp/tools.ts).  A     *)
(* client may hang or give the same key again, over either interface and   *)
(* after the application was started anew.                                 *)
(***************************************************************************)
EXTENDS Naturals

CONSTANTS MaxRequests,   \* bound: requests
          MaxStarts      \* bound: times the application starts

Requests == 1..MaxRequests
\* POST /v1/tasks and POST /v1/calls with one idempotency key, the tool
\* task_submit with the same key, GET /v1/tasks/{id}/wait, and POST .../decide.
Keyed == {"tasks", "calls"}
Routes == Keyed \cup {"submit", "wait", "decide"}
Idle == [route |-> "none", state |-> "idle", life |-> 0, answer |-> "none", audits |-> 0]

VARIABLES life,       \* the application's starts so far
          running,    \* it runs
          scoped,     \* the scope of task_submit is granted
          token,      \* the token is the one clients know
          reqs,       \* the requests
          cache,      \* the idempotency map: of each keyed route, the request that was dispatched, 0 for none
          runs,       \* history: dispatches of each keyed route in this life
          tasks,      \* tasks in the store with the key
          spare,      \* an ephemeral campaign was made for the key and no task has it
          approval    \* the first approval that is asked for in a life: none, pending, settled
apiVars == <<life, running, scoped, token, reqs, cache, runs, tasks, spare, approval>>

Init ==
  /\ life = 1 /\ running = TRUE /\ scoped \in BOOLEAN /\ token = TRUE
  /\ reqs = [r \in Requests |-> Idle] /\ cache = [k \in Keyed |-> 0] /\ runs = [k \in Keyed |-> 0]
  /\ tasks = 0 /\ spare = FALSE /\ approval = "none"

Reading(r, routes) == running /\ reqs[r].state = "reading" /\ reqs[r].route \in routes
machine == <<life, running, scoped, token>>
stored == <<tasks, spare>>

(***************************************************************************)
(* The application                                                          *)
(***************************************************************************)
\* What requests wait for when the application stops is never answered; the
\* memory of keys and the pending approval are gone with it.  A submission it
\* was at may have got as far as its campaign or its task.
Halt ==
  /\ running /\ life < MaxStarts /\ running' = FALSE
  /\ reqs' = [r \in Requests |-> IF reqs[r].state \in {"reading", "waiting"} THEN [reqs[r] EXCEPT !.state = "gone"] ELSE reqs[r]]
  /\ cache' = [k \in Keyed |-> 0] /\ runs' = [k \in Keyed |-> 0] /\ approval' = "none"
  /\ \/ UNCHANGED stored
     \/ /\ tasks = 0 /\ \E r \in Requests : Reading(r, {"tasks", "submit"})
        /\ \/ spare' = TRUE /\ UNCHANGED tasks
           \/ tasks' = 1 /\ UNCHANGED spare
  /\ UNCHANGED <<life, scoped, token>>
Launch ==
  /\ ~running /\ running' = TRUE /\ life' = life + 1
  /\ UNCHANGED <<scoped, token, reqs, cache, runs, stored, approval>>
SetScopes == running /\ scoped' = ~scoped /\ UNCHANGED <<life, running, token, reqs, cache, runs, stored, approval>>
\* rotateToken: what clients know is refused from now on.
RotateToken == running /\ token' = FALSE /\ UNCHANGED <<life, running, scoped, reqs, cache, runs, stored, approval>>

(***************************************************************************)
(* Requests                                                                 *)
(***************************************************************************)
\* handleRequest: the token is checked, then the body is read, which is awaited.
Arrive(r, route) ==
  /\ running /\ reqs[r].state = "idle" /\ \A q \in 1..(r - 1) : reqs[q].state # "idle"
  /\ reqs' = [reqs EXCEPT ![r] =
       [route |-> route, life |-> life,
        state |-> IF token THEN "reading" ELSE "answered", answer |-> IF token THEN "none" ELSE "refused",
        audits |-> IF token \/ route = "submit" THEN 0 ELSE 1]]
  /\ UNCHANGED <<machine, cache, runs, stored, approval>>
\* The answer and its audits, of which there is one.
Told(r, what, audits) ==
  [reqs EXCEPT ![r] = [route |-> reqs[r].route, life |-> reqs[r].life, state |-> "answered", answer |-> what,
                       audits |-> reqs[r].audits + audits]]
Answered(r, what) == Told(r, what, 1)
\* A hung or broken body: nothing is dispatched, and a tool is not audited.
BodyFails(r) ==
  /\ Reading(r, Routes) /\ UNCHANGED <<machine, cache, runs, stored, approval>>
  /\ reqs' = Told(r, "failed", IF reqs[r].route = "submit" THEN 0 ELSE 1)
\* handle, for a key that was seen: the answer of the first request, failed or not.
Replayed(r) ==
  /\ Reading(r, Keyed) /\ cache[reqs[r].route] # 0 /\ UNCHANGED <<machine, cache, runs, stored, approval>>
  /\ reqs' = Answered(r, reqs[cache[reqs[r].route]].answer)
\* normalizeSubmit: what is asked for is refused, or the campaign given with it
\* is made; it is spare until a task has it.
Normalized(inline, made) == spare' = (spare \/ (inline /\ ~made))
\* createCallTask
Created == tasks' = tasks + 1
\* Mutant: the key is looked up after the rest of what is asked for.
Submitted_late(what) ==
  \/ what = "failed" /\ UNCHANGED stored
  \/ \E inline \in BOOLEAN : Normalized(inline, what = "done" /\ tasks = 0) /\ (IF what = "done" /\ tasks = 0 THEN Created ELSE UNCHANGED tasks)
\* Mutant: the key is not looked up in the store.
Submitted_blind(what) == IF what = "done" THEN Created /\ UNCHANGED spare ELSE UNCHANGED stored
\* normalizeInlineContact: the contact is looked at when the campaign was made.
ContactRefused(what) == what = "failed" /\ tasks = 0 /\ Normalized(TRUE, FALSE) /\ UNCHANGED tasks
\* tasks.submit: the task with the key, or a new one.
Submitted(what) ==
  \/ what = "failed" /\ UNCHANGED stored
  \/ what = "done" /\ tasks # 0 /\ UNCHANGED stored
  \/ ContactRefused(what)
  \/ what = "done" /\ tasks = 0 /\ Created /\ \E inline \in BOOLEAN : Normalized(inline, TRUE)
\* handle, for a new key: dispatch, whose promise is remembered at once.
Dispatched(r, what) ==
  LET k == reqs[r].route IN
  /\ Reading(r, Keyed) /\ cache[k] = 0 /\ UNCHANGED machine
  /\ cache' = [cache EXCEPT ![k] = r] /\ runs' = [runs EXCEPT ![k] = @ + 1]
  /\ IF k = "tasks" THEN Submitted(what) ELSE UNCHANGED stored
  /\ approval' = IF k = "calls" /\ what = "done" /\ approval = "none" THEN "pending" ELSE approval
  /\ reqs' = Answered(r, what)
\* The tool task_submit: the scopes are read when it is invoked.
Invoked(r) ==
  /\ Reading(r, {"submit"}) /\ UNCHANGED <<machine, cache, runs, approval>>
  /\ IF scoped THEN \E what \in {"done", "failed"} : Submitted(what) /\ reqs' = Answered(r, what)
     ELSE UNCHANGED stored /\ reqs' = Answered(r, "denied")
\* .../wait is answered when the task is over, or in time.
Waits(r) ==
  /\ Reading(r, {"wait"}) /\ UNCHANGED <<machine, cache, runs, stored, approval>>
  /\ reqs' = [reqs EXCEPT ![r].state = "waiting"]
WaitEnds(r) ==
  /\ running /\ reqs[r].state = "waiting" /\ UNCHANGED <<machine, cache, runs, stored, approval>>
  /\ reqs' = Answered(r, "done")
\* .../decide, and the window's own decision, of which one counts.
Decides(r) ==
  /\ Reading(r, {"decide"}) /\ UNCHANGED <<machine, cache, runs, stored>>
  /\ IF approval = "pending" THEN approval' = "settled" /\ reqs' = Answered(r, "done")
     ELSE UNCHANGED approval /\ reqs' = Answered(r, "failed")
\* The dial of a task, or of a tool, asks for an approval as well.
Asked ==
  /\ running /\ approval = "none" /\ approval' = "pending"
  /\ UNCHANGED <<machine, reqs, cache, runs, stored>>
WindowDecides ==
  /\ running /\ approval = "pending" /\ approval' = "settled"
  /\ UNCHANGED <<machine, reqs, cache, runs, stored>>

Handle(r) ==
  \/ BodyFails(r) \/ Replayed(r) \/ Invoked(r) \/ Waits(r) \/ WaitEnds(r) \/ Decides(r)
  \/ \E what \in {"done", "failed"} : Dispatched(r, what)
Next ==
  \/ Halt \/ Launch \/ SetScopes \/ RotateToken \/ Asked \/ WindowDecides
  \/ \E r \in Requests : Handle(r) \/ \E route \in Routes : Arrive(r, route)
\* Every wait has a time limit, and a body that does not come is given up.
Fairness == \A r \in Requests : WF_apiVars(Handle(r))
Spec == Init /\ [][Next]_apiVars /\ Fairness

(***************************************************************************)
(* Properties                                                               *)
(***************************************************************************)
\* Every variable has its type.
TypeOK ==
  /\ life \in 1..MaxStarts /\ {running, scoped, token} \subseteq BOOLEAN /\ approval \in {"none", "pending", "settled"}
  /\ reqs \in [Requests -> [route : Routes \cup {"none"}, state : {"idle", "reading", "waiting", "answered", "gone"},
                            life : 0..MaxStarts, answer : {"none", "done", "failed", "denied", "refused"}, audits : 0..1]]
  /\ cache \in [Keyed -> 0..MaxRequests] /\ runs \in [Keyed -> Nat] /\ tasks \in Nat /\ spare \in BOOLEAN

\* A key is acted on once in a life of the application, and who gives it
\* again is told what the first was told.
OneAnswerPerKey ==
  /\ \A k \in Keyed : runs[k] <= 1
  /\ \A k \in Keyed : cache[k] # 0 => \A r \in Requests :
       reqs[r].route = k /\ reqs[r].life = life /\ reqs[r].answer = "done" => reqs[cache[k]].answer = "done"

\* One task is made for a key, in whatever life and by whichever of the two
\* interfaces it was given, and who is told it was made has one.  A campaign
\* is left without a task only by a request that was not told it succeeded.
OneTaskPerKey ==
  /\ tasks <= 1
  /\ spare => \E r \in Requests : /\ reqs[r].route \in {"tasks", "submit"}
                                 /\ (reqs[r].answer = "failed" \/ reqs[r].state = "gone")
  /\ \A r \in Requests : reqs[r].route \in {"tasks", "submit"} /\ reqs[r].answer = "done" => tasks = 1

\* Of those who decide on one approval, one is told that it did.
OneDecision ==
  \A q, r \in Requests :
    reqs[q].route = "decide" /\ reqs[r].route = "decide" /\ reqs[q].answer = "done" /\ reqs[r].answer = "done"
      /\ reqs[q].life = reqs[r].life => q = r

\* Every request whose token was good is answered, or the application
\* stopped; of those to the REST routes each is audited.
AllAnswered ==
  \A r \in Requests : reqs[r].state \in {"reading", "waiting"} ~>
    \/ reqs[r].state = "gone"
    \/ reqs[r].state = "answered" /\ (reqs[r].route # "submit" => reqs[r].audits = 1)
=============================================================================
