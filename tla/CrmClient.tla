----------------------------- MODULE CrmClient ------------------------------
(***************************************************************************)
(* The client of the CRM and who asks it: CrmService, which keeps what is  *)
(* configured and the client made from it (services/crm-service.ts,        *)
(* crm/config-store.ts, crm/zoho/secrets.ts), ZohoCrmClient with its       *)
(* access token (crm/zoho/client.ts, auth.ts), MockCrmAdapter, the tool    *)
(* crm_add_note (crm/tools.ts) and the test of the connection.  The        *)
(* operator saves while they wait for answers; an exchange of a grant code *)
(* is itself awaited.  Credentials are numbered by the account they are of.*)
(***************************************************************************)
EXTENDS Naturals

CONSTANTS MaxClients,    \* bound: Zoho clients made
          MaxAttempts    \* MAX_ATTEMPTS of a request

\* An operation: crm_add_note, which looks the customer up and adds the note, or test.
Ops == {"note", "test"}
Clients == 1..MaxClients
Local == [kind |-> "mock", id |-> 0, account |-> 0]
Unset == [kind |-> "missing", id |-> 0, account |-> 0]
Zoho(id, account) == [kind |-> "zoho", id |-> id, account |-> account]

VARIABLES config,    \* the stored provider, and whether it is marked as connected
          secrets,   \* the account of the stored credentials, 0 for none
          client,    \* CrmService.clientValue
          clients,   \* Zoho clients made so far
          auth,      \* of each: its cached token, and requests for a new one in flight
          op,        \* an operation: where it is, its request, the client of it, attempts, where the
             \* customer was found, whether the token it goes with had time left
          landed,    \* notes that were added, by account
          lied,      \* notes added by a request that was answered with an error
          exchange,  \* an exchange of a grant code is awaited
          failed,    \* history: the last save failed, in its exchange
          crossed    \* history: the mark connected is of a test of something else than is configured
clientVars == <<config, secrets, client, clients, auth, op, landed, lied, exchange, failed, crossed>>

Idle == [pc |-> "idle", at |-> 1, client |-> Local, tries |-> 0, found |-> 0, valid |-> FALSE]
NoAuth == [c \in Clients |-> [cached |-> FALSE, refreshing |-> 0]]

Init ==
  /\ config = [provider |-> "mock", connected |-> TRUE] /\ secrets = 0 /\ client = Local /\ clients = 0
  /\ auth = NoAuth /\ op = [o \in Ops |-> Idle] /\ landed = [a \in 0..MaxClients |-> 0] /\ lied = 0
  /\ exchange = FALSE /\ failed = FALSE /\ crossed = FALSE

settings == <<config, secrets, client, clients, exchange, failed, crossed>>
Made(provider, account, id) ==
  IF provider = "mock" THEN Local ELSE IF account = 0 THEN Unset ELSE Zoho(id, account)

Of(c) == <<c.kind, c.account>>
\* What the stored settings are of.
Configured == Of(Made(config.provider, secrets, 0))

(***************************************************************************)
(* Saving                                                                   *)
(***************************************************************************)
\* Mutant: a provider that was connected stays marked so.
Persisted_keeps(provider, account) ==
  /\ config' = [config EXCEPT !.provider = provider, !.connected = @ \/ provider = "mock"]
  /\ secrets' = account /\ failed' = FALSE /\ crossed' = FALSE
  /\ clients' = IF provider = "zoho" /\ account # 0 THEN clients + 1 ELSE clients
  /\ client' = Made(provider, account, clients + 1)
\* persistCrmConfig to its end, and the client that save makes of it.
Persisted(provider, account) ==
  /\ config' = [provider |-> provider, connected |-> provider = "mock"]
  /\ secrets' = account /\ failed' = FALSE /\ crossed' = FALSE
  /\ clients' = IF provider = "zoho" /\ account # 0 THEN clients + 1 ELSE clients
  /\ client' = Made(provider, account, clients + 1)
\* save of the provider, with a refresh token of another account or with what
\* is stored.
Save(provider) ==
  /\ clients < MaxClients /\ UNCHANGED <<auth, op, landed, lied, exchange>>
  /\ \E account \in {secrets} \cup (IF provider = "zoho" THEN {clients + 1} ELSE {}) : Persisted(provider, account)
\* save with a grant code: exchangeGrantCode is awaited.
SaveGrant == ~exchange /\ clients < MaxClients /\ exchange' = TRUE
             /\ UNCHANGED <<config, secrets, client, clients, failed, crossed, auth, op, landed, lied>>
Exchanged ==
  /\ exchange /\ exchange' = FALSE /\ clients < MaxClients /\ Persisted("zoho", clients + 1)
  /\ UNCHANGED <<auth, op, landed, lied>>
\* The provider is stored, the client stays what it was.
ExchangeFails ==
  /\ exchange /\ exchange' = FALSE /\ config' = [provider |-> "zoho", connected |-> FALSE] /\ failed' = TRUE
  /\ crossed' = FALSE /\ UNCHANGED <<secrets, client, clients, auth, op, landed, lied>>
\* The application starts anew: whoever waited is gone.
Restart ==
  /\ clients < MaxClients /\ failed' = FALSE /\ exchange' = FALSE
  /\ client' = Made(config.provider, secrets, clients + 1)
  /\ clients' = IF client'.kind = "zoho" THEN clients + 1 ELSE clients
  /\ op' = [o \in Ops |-> IF op[o].pc \in {"token", "sent", "pause"} THEN [Idle EXCEPT !.pc = "gone"] ELSE op[o]]
  /\ auth' = NoAuth /\ UNCHANGED <<config, secrets, landed, lied, crossed>>

(***************************************************************************)
(* The token of a client                                                    *)
(***************************************************************************)
\* Mutant: a token is taken as long as there is one.
TokenFor_stale(c, o, q) ==
  \E valid \in BOOLEAN :
    IF auth[c].cached THEN op' = [op EXCEPT ![o] = [q EXCEPT !.pc = "sent", !.valid = valid]] /\ UNCHANGED auth
    ELSE /\ op' = [op EXCEPT ![o] = [q EXCEPT !.pc = "token"]]
         /\ auth' = [auth EXCEPT ![c].refreshing = IF @ = 0 THEN 1 ELSE @]
\* accessToken: the cached token, if it has more than a minute left by now, or
\* the refresh that is under way, or a new one.
TokenFor(c, o, q) ==
  \E valid \in BOOLEAN :
    IF auth[c].cached /\ valid THEN op' = [op EXCEPT ![o] = [q EXCEPT !.pc = "sent", !.valid = valid]] /\ UNCHANGED auth
    ELSE /\ op' = [op EXCEPT ![o] = [q EXCEPT !.pc = "token"]]
         /\ auth' = [auth EXCEPT ![c].refreshing = IF @ = 0 THEN 1 ELSE @]
Waiting(c) == {o \in Ops : op[o].pc = "token" /\ op[o].client.id = c}
Refreshed(c) ==
  /\ auth[c].refreshing > 0 /\ auth' = [auth EXCEPT ![c] = [cached |-> TRUE, refreshing |-> @.refreshing - 1]]
  /\ op' = [o \in Ops |-> IF o \in Waiting(c) THEN [op[o] EXCEPT !.pc = "sent", !.valid = TRUE] ELSE op[o]]
  /\ UNCHANGED <<settings, landed, lied>>
\* Who tests a connection that cannot be had marks it so.
Marked(ok, asked) ==
  /\ config' = [config EXCEPT !.connected = config.provider = "mock" \/ ok]
  /\ crossed' = (ok /\ Of(asked) # Configured)
Concluded(set) ==
  IF "test" \in set THEN Marked(FALSE, client) ELSE UNCHANGED <<config, crossed>>
RefreshFails(c) ==
  /\ auth[c].refreshing > 0 /\ auth' = [auth EXCEPT ![c].refreshing = @ - 1]
  /\ op' = [o \in Ops |-> IF o \in Waiting(c) THEN [op[o] EXCEPT !.pc = "failed"] ELSE op[o]]
  /\ Concluded(Waiting(c)) /\ UNCHANGED <<secrets, client, clients, exchange, failed, landed, lied>>
(***************************************************************************)
(* Operations                                                               *)
(***************************************************************************)
\* requireRecord: the mock keeps no record of another CRM.
Knows(account) == account = 0
\* Mutant: the mock takes any record.
Knows_any(account) == TRUE
\* The first request of an operation, or its next one, with the client there is
\* now: the mock answers at once.
Asks(o, at, found) ==
  LET q == [pc |-> "sent", at |-> at, client |-> client, tries |-> 0, found |-> found, valid |-> FALSE] IN
  CASE client.kind = "zoho" -> TokenFor(client.id, o, q) /\ UNCHANGED <<config, crossed, landed>>
    [] client.kind = "mock" /\ (at = 1 \/ Knows(found)) ->
         /\ op' = [op EXCEPT ![o] = [q EXCEPT !.pc = "done"]] /\ UNCHANGED auth
         /\ landed' = IF o = "note" THEN [landed EXCEPT ![0] = @ + 1] ELSE landed
         /\ IF o = "test" THEN Marked(TRUE, client) ELSE UNCHANGED <<config, crossed>>
    [] OTHER -> /\ op' = [op EXCEPT ![o] = [q EXCEPT !.pc = "failed"]] /\ UNCHANGED <<auth, landed>>
                /\ Concluded({o})
rest == <<secrets, client, clients, exchange, failed>>
Start(o) == op[o].pc = "idle" /\ Asks(o, 1, 0) /\ UNCHANGED <<rest, lied>>

Sent(o) == op[o].pc = "sent"
Writes(o) == o = "note" /\ op[o].at = 2
Account(o) == op[o].client.account
\* The request is answered.  A note is added to a record of its own account only.
Accepted(o) ==
  /\ Sent(o) /\ (Writes(o) => op[o].found = Account(o)) /\ UNCHANGED <<rest, lied>>
  /\ IF o = "note" /\ op[o].at = 1 THEN Asks(o, 2, Account(o))
     ELSE /\ op' = [op EXCEPT ![o].pc = "done", ![o].tries = @ + 1] /\ UNCHANGED auth
          /\ landed' = IF Writes(o) THEN [landed EXCEPT ![Account(o)] = @ + 1] ELSE landed
          /\ IF o = "test" THEN Marked(TRUE, op[o].client) ELSE UNCHANGED <<config, crossed>>
\* An answer of 4xx, or no answer at all: the request is not made again.
Refused(o) ==
  /\ Sent(o) /\ op' = [op EXCEPT ![o].pc = "failed", ![o].tries = @ + 1] /\ Concluded({o})
  /\ UNCHANGED <<rest, auth, landed, lied>>
\* An answer of 429 or 5xx, to a note that was added or not: again, after a pause.
Busy(o) ==
  /\ Sent(o) /\ UNCHANGED <<rest, auth>>
  /\ op' = [op EXCEPT ![o].tries = @ + 1, ![o].pc = IF op[o].tries + 1 < MaxAttempts THEN "pause" ELSE "failed"]
  /\ IF op'[o].pc = "failed" THEN Concluded({o}) ELSE UNCHANGED <<config, crossed>>
  /\ \/ UNCHANGED <<landed, lied>>
     \/ Writes(o) /\ op[o].found = Account(o) /\ landed' = [landed EXCEPT ![Account(o)] = @ + 1] /\ lied' = lied + 1
Retry(o) == op[o].pc = "pause" /\ TokenFor(op[o].client.id, o, op[o]) /\ UNCHANGED <<settings, landed, lied>>

Answers(o) == Accepted(o) \/ Refused(o) \/ Busy(o)
Refreshes(c) == Refreshed(c) \/ RefreshFails(c)
Next ==
  \/ \E provider \in {"mock", "zoho"} : Save(provider)
  \/ SaveGrant \/ Exchanged \/ ExchangeFails \/ Restart
  \/ \E c \in Clients : Refreshes(c)
  \/ \E o \in Ops : Start(o) \/ Answers(o) \/ Retry(o)
\* A request is answered or fails, a pause ends.
Fairness ==
  /\ \A o \in Ops : WF_clientVars(Answers(o)) /\ WF_clientVars(Retry(o))
  /\ \A c \in Clients : WF_clientVars(Refreshes(c))
Spec == Init /\ [][Next]_clientVars /\ Fairness

(***************************************************************************)
(* Properties                                                               *)
(***************************************************************************)
\* Every variable has its type; a client has one refresh in flight at most, and
\* a request is made MAX_ATTEMPTS times at most.
TypeOK ==
  /\ config \in [provider : {"mock", "zoho"}, connected : BOOLEAN]
  /\ {secrets, clients, client.id, client.account} \subseteq 0..MaxClients /\ client.kind \in {"mock", "missing", "zoho"}
  /\ auth \in [Clients -> [cached : BOOLEAN, refreshing : 0..1]]
  /\ \A o \in Ops : /\ op[o].pc \in {"idle", "token", "sent", "pause", "done", "failed", "gone"}
                    /\ op[o].at \in {1, 2} /\ op[o].tries \in 0..MaxAttempts /\ op[o].found \in 0..MaxClients
  /\ \A a \in 0..MaxClients : landed[a] \in 0..MaxAttempts
  /\ {exchange, failed, crossed} \subseteq BOOLEAN /\ lied \in 0..MaxAttempts

\* Who asks the CRM asks the one that is configured, unless the last save
\* failed in its exchange, which stores the provider and keeps the client.
ClientIsConfigured ==
  failed \/ Of(client) = Configured

\* What is marked as connected was asked, since it was configured, or is the
\* mock; a test that a save crossed marks what it did not ask, and so does one
\* of the client that a failed exchange kept.
ConnectedWasAsked ==
  config.connected /\ config.provider = "zoho" /\ ~crossed =>
    op["test"].pc \in {"done", "gone"} /\ op["test"].client.account = secrets

\* A note is added in the CRM in which its customer was found, and once, but
\* for requests that were carried out and answered with an error.
NoteOnceInItsPlace ==
  LET o == op["note"] IN
  /\ o.at = 2 => \A a \in 0..MaxClients : landed[a] > 0 => a = o.found
  /\ \A a \in 0..MaxClients : landed[a] <= 1 + lied
  /\ o.pc = "done" => \E a \in 0..MaxClients : landed[a] > 0

\* No request is on its way with a token that had run out when it was sent.
TokenIsValid == \A o \in Ops : op[o].pc = "sent" => op[o].valid

\* Every operation ends, whatever is saved meanwhile: a refresh that fails lets
\* those who wait go, and the next one try again.
OperationsEnd == \A o \in Ops : op[o].pc \in {"token", "sent", "pause"} ~> op[o].pc \in {"done", "failed", "gone"}
=============================================================================
