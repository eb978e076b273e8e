--------------------------- MODULE SettingsForms ---------------------------
(***************************************************************************)
(* The forms of the application window that show and change what the main  *)
(* process stores: the sections of SettingsPanel with their hooks, and the *)
(* editor of CampaignPanel.  They differ in when the stored values replace *)
(* what the form shows, in what they lock meanwhile, and in what a save    *)
(* sends.  A behaviour is one form, which is mounted twice at most.        *)
(* A form has a field that is chosen and one that is written; 0 is what    *)
(* both show before anything is loaded, and a blank text.                  *)
(***************************************************************************)
EXTENDS Naturals, Sequences, SequencesExt

CONSTANTS MaxOthers,   \* bound: writes of the tray, of clients and of other windows
          MaxActs      \* bound: what the operator does while the form is mounted

Fields == {"choice", "text"}
Forms == {"webhook", "crm", "appointments", "budget", "twilio", "voice", "general", "scopes", "campaign"}
Instant == {"voice", "general", "scopes"}            \* a click is a save
Partial == {"voice", "general"}                      \* of the field clicked alone
LockedLoading == {"webhook", "crm", "general", "scopes"}   \* disabled until the first answer
LockedBusy == Instant \cup {"crm", "appointments", "twilio"}
NeedsConfig == {"appointments", "voice", "campaign"} \* no save before something was loaded
HydratesOnce == {"webhook", "crm"}
ReadsBack == {"general", "scopes"}                   \* a refused save is followed by a read
KeepsFailed == {"scopes", "crm"}                     \* the server may fail after it has changed

VARIABLES
  kind,      \* which form this is
  store,     \* what the main process has
  shown,     \* the fields of the form
  touched,   \* fields changed by the operator and not saved since
  hydrated,  \* the fields were loaded
  known,     \* the last configuration received, where the form uses it
  loading, busy,
  queue,     \* requests in their order
  mounts, others, acts,   \* counters of the bounds
  raced      \* history: somebody else wrote since the fields were loaded, or an older answer replaced one
formVars == <<kind, store, shown, touched, hydrated, known, loading, busy, queue, mounts, others, acts, raced>>

Default == [f \in Fields |-> 0]
Values == [Fields -> 0..1]
None == [f \in Fields |-> 2]
Form == <<shown, touched, hydrated, known, loading, busy>>

Request(op, sent, fields, mine) ==
  [op |-> op, sent |-> sent, fields |-> fields, mine |-> mine, sure |-> hydrated, frees |-> FALSE,
   live |-> TRUE, state |-> "sent", result |-> Default]
\* The read of a form, which may free it from a save.
Reading(frees) ==
  [op |-> "read", sent |-> Default, fields |-> {}, mine |-> {}, sure |-> FALSE, frees |-> frees,
   live |-> TRUE, state |-> "sent", result |-> Default]

Init ==
  /\ kind \in Forms /\ store = [f \in Fields |-> 1]
  /\ shown = Default /\ touched = {} /\ hydrated = FALSE /\ known = None /\ loading = FALSE /\ busy = FALSE
  /\ queue = <<>>
  /\ mounts = 0 /\ others = 0 /\ acts = 0 /\ raced = FALSE

(***************************************************************************)
(* The operator                                                             *)
(***************************************************************************)
Unlocked == mounts > 0 /\ (kind \in LockedLoading => ~loading) /\ (kind \in LockedBusy => ~busy)
Opened == kind = "campaign" => hydrated
\* onChange of a field.
Edit(f) ==
  /\ acts < MaxActs /\ acts' = acts + 1
  /\ kind \notin Instant /\ Unlocked /\ Opened
  /\ shown' = [shown EXCEPT ![f] = 1 - @] /\ touched' = touched \cup {f}
  /\ UNCHANGED <<kind, store, hydrated, known, loading, busy, queue, mounts, others, raced>>
\* What a save sends: Twilio's fields are kept when they are blank.
Sent == IF kind = "twilio" THEN {"choice"} \cup {f \in Fields : shown[f] # 0} ELSE Fields
Save ==
  /\ acts < MaxActs /\ acts' = acts + 1
  /\ kind \notin Instant /\ Unlocked /\ Opened /\ ~busy
  /\ kind \in NeedsConfig => known # None
  /\ queue' = Append(queue, Request("save", shown, Sent, touched))
  /\ busy' = (kind # "budget")
  /\ UNCHANGED <<kind, store, shown, touched, hydrated, known, loading, mounts, others, raced>>
\* A switch of a form that saves at once; the scopes are shown before the answer, if any were read.
Click(f) ==
  /\ acts < MaxActs /\ acts' = acts + 1
  /\ kind \in Instant /\ Unlocked
  /\ kind \in NeedsConfig => known # None
  /\ LET next == [shown EXCEPT ![f] = 1 - @] IN
     /\ queue' = Append(queue, Request("save", next, IF kind \in Partial THEN {f} ELSE Fields, touched \cup {f}))
     /\ shown' = IF kind = "scopes" /\ hydrated THEN next ELSE shown
  /\ touched' = touched \cup {f} /\ busy' = TRUE
  /\ UNCHANGED <<kind, store, hydrated, known, loading, mounts, others, raced>>
\* Refresh of the CRM, and the one that follows a test of the webhook.
Refresh ==
  /\ acts < MaxActs /\ acts' = acts + 1
  /\ mounts > 0 /\ kind \in HydratesOnce /\ (kind = "webhook" => ~loading)
  /\ queue' = Append(queue, Reading(FALSE))
  /\ UNCHANGED <<kind, store, Form, mounts, others, raced>>
\* Twilio's import from a file.
Import ==
  /\ acts < MaxActs /\ acts' = acts + 1
  /\ mounts > 0 /\ kind = "twilio" /\ ~busy
  /\ queue' = Append(queue, Request("import", Default, {}, {})) /\ busy' = TRUE
  /\ UNCHANGED <<kind, store, shown, touched, hydrated, known, loading, mounts, others, raced>>
\* The editor of a campaign starts from the workspace as it was last read.
OpenEditor ==
  /\ kind = "campaign" /\ ~hydrated /\ known # None
  /\ shown' = known /\ hydrated' = TRUE /\ raced' = (known # store)
  /\ UNCHANGED <<kind, store, touched, known, loading, busy, queue, mounts, others, acts>>
CloseEditor ==
  /\ kind = "campaign" /\ hydrated /\ ~busy
  /\ shown' = Default /\ touched' = {} /\ hydrated' = FALSE
  /\ UNCHANGED <<kind, store, known, loading, busy, queue, mounts, others, acts, raced>>
\* The tab is entered, and left and entered again: what was asked is done, and answers nobody.
Left(n) == [k \in 1..(Len(queue) - n) |-> [queue[k + n] EXCEPT !.live = FALSE]]
Mount ==
  /\ mounts < (IF kind = "campaign" THEN 1 ELSE 2) /\ mounts' = mounts + 1
  /\ shown' = Default /\ touched' = {} /\ hydrated' = FALSE /\ known' = None /\ loading' = TRUE /\ busy' = FALSE
  /\ \E n \in 0..Len(queue) :
       /\ \A k \in DOMAIN queue : queue[k].state = "sent" <=> k > n
       /\ queue' = Append(Left(n), Reading(FALSE))
  /\ acts' = 0
  /\ UNCHANGED <<kind, store, others, raced>>

(***************************************************************************)
(* The main process handles requests in their order                         *)
(***************************************************************************)
Merged(r) == [f \in Fields |-> IF f \in r.fields THEN r.sent[f] ELSE store[f]]
\* A save of a form that was not loaded, or was left meanwhile, is somebody else's.
Alien(r) == ~r.sure \/ ~r.live
Answered(r, state, values) ==
  [r EXCEPT !.state = state, !.mine = {}, !.sure = FALSE, !.result = values]
Handle ==
  \E k \in DOMAIN queue :
    /\ queue[k].state = "sent" /\ \A j \in 1..(k-1) : queue[j].state # "sent"
    /\ \E state \in {"done", "failed"} :
         /\ \/ queue[k].op = "read" /\ UNCHANGED <<store, raced>>
            \/ queue[k].op = "save" /\ state = "done" /\ store' = Merged(queue[k]) /\ raced' = (raced \/ Alien(queue[k]))
            \/ queue[k].op = "save" /\ state = "failed" /\ UNCHANGED <<store, raced>>
            \/ queue[k].op = "save" /\ state = "failed" /\ kind \in KeepsFailed
               /\ store' = Merged(queue[k]) /\ raced' = (raced \/ Alien(queue[k]))
            \/ queue[k].op = "import" /\ state = "done" /\ store' \in Values /\ raced' = TRUE
            \/ queue[k].op = "import" /\ state = "failed" /\ UNCHANGED <<store, raced>>
         /\ queue' = IF queue[k].live
                     THEN [queue EXCEPT ![k] = Answered(queue[k], state, IF state = "done" THEN store' ELSE Default)]
                     ELSE RemoveAt(queue, k)
    /\ UNCHANGED <<kind, Form, mounts, others, acts>>
\* The tray switches the budget off, a client of the control server changes a campaign.
Other ==
  /\ others < MaxOthers /\ others' = others + 1
  /\ store' \in Values \ {store} /\ raced' = TRUE
  /\ UNCHANGED <<kind, Form, queue, mounts, acts>>

(***************************************************************************)
(* Answers                                                                  *)
(***************************************************************************)
\* shouldHydrateConfig, and the test of CrmSection, which does not ask for edits.
Hydrates_always == ~hydrated
Hydrates == ~hydrated /\ (kind = "webhook" => touched = {})
Filled(values) == shown' = values /\ touched' = {} /\ hydrated' = TRUE /\ raced' = (values # store \/ Len(queue) > 1)
Known(values) == known' = IF kind \in NeedsConfig THEN values ELSE None
Kept == UNCHANGED <<shown, touched, hydrated, raced>>
\* A configuration arrives that the form did not send.
Loaded(values) ==
  IF kind = "campaign" \/ (kind \in HydratesOnce /\ ~Hydrates) THEN Kept ELSE Filled(values)
\* What is as it was sent is no longer an edit, if this was all that was sent.
Settled(r) == {f \in touched : f \notin r.fields \/ shown[f] # r.sent[f] \/ Len(queue) > 1}
Saved(r) ==
  \/ kind \in Instant /\ Filled(r.result)
  \/ kind \in HydratesOnce /\ Hydrates /\ Filled(r.result)
  \/ kind = "campaign" /\ shown' = Default /\ touched' = {} /\ hydrated' = FALSE /\ UNCHANGED raced
  \/ kind = "budget"
     /\ shown' = [shown EXCEPT !["choice"] = r.result["choice"]] /\ touched' = Settled(r)
     /\ raced' = (raced \/ r.result["choice"] # shown["choice"]) /\ UNCHANGED hydrated
  \/ (kind \in {"appointments", "twilio"} \/ (kind \in HydratesOnce /\ ~Hydrates))
     /\ touched' = Settled(r) /\ UNCHANGED <<shown, hydrated, raced>>

Answer ==
  /\ queue # <<>> /\ Head(queue).state # "sent"
  /\ UNCHANGED <<kind, store, mounts, others, acts>>
  /\ LET r == Head(queue) IN
     \/ /\ r.op = "read"
        /\ queue' = Tail(queue) /\ loading' = FALSE /\ busy' = (busy /\ ~r.frees)
        /\ IF r.state = "done" THEN Known(r.result) /\ Loaded(r.result) ELSE UNCHANGED known /\ Kept
     \/ /\ r.op = "save" /\ r.state = "done"
        /\ queue' = Tail(queue) /\ busy' = FALSE /\ Known(r.result) /\ Saved(r)
        /\ UNCHANGED loading
     \* saveAndTest: the configuration is read again, and the form is free after that.
     \/ /\ r.op = "save" /\ kind = "crm"
        /\ queue' = Append(Tail(queue), Reading(TRUE))
        /\ touched' = IF r.state = "done" THEN Settled(r) ELSE touched
        /\ UNCHANGED <<shown, hydrated, known, loading, busy, raced>>
     \/ /\ r.op = "save" /\ r.state = "failed" /\ busy' = FALSE
        /\ queue' = IF kind \in ReadsBack THEN Append(Tail(queue), Reading(FALSE)) ELSE Tail(queue)
        /\ UNCHANGED <<known, loading>> /\ Kept
     \/ /\ r.op = "import" /\ queue' = Tail(queue) /\ busy' = FALSE
        /\ shown' = IF r.state = "done" THEN [shown EXCEPT !["choice"] = r.result["choice"]] ELSE shown
        /\ UNCHANGED <<touched, hydrated, known, loading, raced>>

Next ==
  \/ \E f \in Fields : Edit(f) \/ Click(f)
  \/ Save \/ Refresh \/ Import \/ OpenEditor \/ CloseEditor \/ Mount
  \/ Handle \/ Other \/ Answer
Fairness == WF_formVars(Handle) /\ WF_formVars(Answer)
Spec == Init /\ [][Next]_formVars /\ Fairness

(***************************************************************************)
(* Properties                                                               *)
(***************************************************************************)
\* Every variable has its type.
TypeOK ==
  /\ kind \in Forms /\ {store, shown} \subseteq Values /\ touched \subseteq Fields
  /\ {hydrated, loading, busy, raced} \subseteq BOOLEAN /\ known \in Values \cup {None}
  /\ acts \in 0..MaxActs

\* What the operator has changed is not replaced by an answer, in the forms
\* that load their fields once: shouldHydrateConfig and its test promise so.
EditsAreKept ==
  [][(Len(queue') < Len(queue) /\ mounts' = mounts /\ (kind = "webhook" \/ (kind = "crm" /\ hydrated)))
       => \A f \in touched : shown'[f] = shown[f]]_formVars

\* A save changes what the operator has changed and nothing else, unless the
\* form was never loaded, or somebody else has written since.
OnlyTouchedIsChanged ==
  [][\A k \in DOMAIN queue :
       (queue[k].op = "save" /\ queue[k].state = "sent" /\ k \in DOMAIN queue' /\ queue'[k].state \in {"done", "failed"}
         /\ queue'[k].op = "save" /\ Len(queue') = Len(queue))
       => \A f \in Fields : store'[f] # store[f] => (f \in queue[k].mine \/ ~queue[k].sure \/ raced)]_formVars

\* A form at rest shows what is stored, although saves and readings fail half-way,
\* unless somebody else has written.
ShowsStored ==
  (queue = <<>> /\ hydrated /\ touched = {} /\ ~raced) => shown = store

\* A form that is locked by its save is free again.
FormIsFreed == busy ~> ~busy
=============================================================================
