----------------------------- MODULE Directory -----------------------------
(***************************************************************************)
(* The campaigns: CampaignStore and CampaignService.  A campaign is a row, *)
(* the selected one is a setting in another table, and no transaction      *)
(* joins the two: the application may stop between the writes.  Clients    *)
(* read campaigns with their numbers masked, unless they ask for them, and *)
(* write back fields, or all of what they have read.                       *)
(***************************************************************************)
EXTENDS Integers, FiniteSets

CONSTANTS Campaigns,  \* identities a campaign may get
          Numbers,    \* numbers of the do-not-call lists
          None        \* the absent value

VARIABLES row,       \* campaign -> None, or its row
          age,       \* campaign -> its place in the order of updated_at, 0 the last updated
          selected,  \* the setting selected_campaign_id
          pending,   \* the second write of an operation that was not done yet
          answer,    \* the workspace last answered, None after a stop
          held       \* campaign -> the policy a client has read of it

vars == <<row, age, selected, pending, answer, held>>

Stored == {c \in Campaigns : row[c] # None}
Selectable == {c \in Stored : ~row[c].ephemeral}
\* The campaign is updated: those updated after it move one place.
Newest(c) == [d \in Campaigns |-> IF d = c THEN 0 ELSE IF age[d] < age[c] THEN age[d] + 1 ELSE age[d]]

\* listCampaigns(false)[0]
FirstSelectable == CHOOSE c \in Selectable : \A d \in Selectable : age[c] <= age[d]

\* getWorkspace repairs a selection that names no selectable campaign.
Workspace(choice) ==
  LET valid == IF choice \in Selectable THEN choice ELSE FirstSelectable
  IN  /\ selected' = valid
      /\ answer' = [selected |-> valid, campaigns |-> Selectable]

Rows == [ephemeral : BOOLEAN, doNotCall : SUBSET Numbers]
SecondWrites == [do : {"select", "reselect"}, campaign : Campaigns]
\* The places of those there are not are passed over.
Ages == {f \in [Campaigns -> 0..(Cardinality(Campaigns) - 1)] : \A c, d \in Campaigns : f[c] = f[d] => c = d}

Default == [ephemeral |-> FALSE, doNotCall |-> {}]

\* ensureDefaultCampaign of a new database
Init ==
  /\ \E c \in Campaigns :
       /\ row = [d \in Campaigns |-> IF d = c THEN Default ELSE None]
       /\ selected = c
  /\ age \in Ages
  /\ pending = None /\ answer = None
  /\ held = None

Idle == pending = None

GetWorkspace ==
  /\ Idle
  /\ Workspace(selected)
  /\ UNCHANGED <<row, age, pending, held>>

\* get: what a client sees of a policy, with the numbers or without.
Get(c) ==
  /\ Idle /\ row[c] # None
  /\ \E reveal \in BOOLEAN :
       held' = [campaign |-> c, masked |-> ~reveal, doNotCall |-> row[c].doNotCall]
  /\ UNCHANGED <<row, age, selected, pending, answer>>

\* save: the row is written first, then the selection of a campaign that is
\* not ephemeral; the stop of the application may come between them.
Written(c, value) ==
  /\ row' = [row EXCEPT ![c] = value]
  /\ age' = Newest(c)
  /\ pending' = [do |-> "select", campaign |-> IF value.ephemeral THEN selected ELSE c]
  /\ UNCHANGED <<selected, answer, held>>

Create(c) ==
  /\ Idle /\ row[c] = None
  /\ \E ephemeral \in BOOLEAN, list \in SUBSET Numbers :
       Written(c, [ephemeral |-> ephemeral, doNotCall |-> list])

\* Mutant: the stored campaign is merged as clients see it.
Rename_masked(c) ==
  /\ Idle /\ row[c] # None
  /\ Written(c, [ephemeral |-> row[c].ephemeral, doNotCall |-> {}])
\* update merges a patch, here of the name alone, with the stored campaign as
\* it is behind the mask.
Rename(c) ==
  /\ Idle /\ row[c] # None
  /\ Written(c, row[c])

\* A client writes back the policy it read: normalizePhoneList drops numbers
\* that are masked.
WriteBack(c) ==
  /\ Idle /\ row[c] # None /\ held # None
  /\ held.campaign = c
  /\ Written(c, [ephemeral |-> row[c].ephemeral, doNotCall |-> IF held.masked THEN {} ELSE held.doNotCall])

Delete(c) ==
  /\ Idle /\ row[c] # None
  /\ row[c].ephemeral \/ Cardinality(Selectable) > 1
  /\ row' = [row EXCEPT ![c] = None]
  /\ pending' = [do |-> "reselect", campaign |-> c]
  /\ held' = IF held # None /\ held.campaign = c THEN None ELSE held
  /\ UNCHANGED <<age, selected, answer>>

\* The second write of save and of delete, and the workspace answered.
Finish ==
  /\ pending # None
  /\ pending' = None
  /\ IF pending.do = "select" THEN Workspace(pending.campaign)
     ELSE Workspace(IF selected = pending.campaign THEN FirstSelectable ELSE selected)
  /\ UNCHANGED <<row, age, held>>

Select(c) ==
  /\ Idle /\ c \in Selectable
  /\ Workspace(c)
  /\ UNCHANGED <<row, age, pending, held>>

\* The application stops and is started again.
Restart ==
  /\ pending' = None /\ answer' = None
  /\ UNCHANGED <<row, age, selected, held>>

Next ==
  \/ GetWorkspace \/ Finish \/ Restart
  \/ \E c \in Campaigns :
       Get(c) \/ Create(c) \/ Rename(c) \/ WriteBack(c) \/ Delete(c) \/ Select(c)

Spec == Init /\ [][Next]_vars

TypeOK ==
  /\ \A c \in Stored : row[c].ephemeral \in BOOLEAN /\ row[c].doNotCall \subseteq Numbers
  /\ \A c, d \in Campaigns : age[c] = age[d] => c = d
  /\ selected \in Campaigns

\* A call always finds a campaign: whatever was deleted, made ephemeral or cut
\* short by a stop, one selectable campaign is left, and the selection that a
\* client or a call is told of exists and is not ephemeral.
SelectionIsThere ==
  /\ Selectable # {}
  /\ answer # None => answer.selected \in answer.campaigns
  /\ (Idle /\ answer # None) => answer.campaigns = Selectable

\* A patch that says nothing of the policy keeps the do-not-call list, though
\* clients are shown masks of it: only the policy some client has read and
\* writes back takes its place.
OthersKeepTheList ==
  [][\A c \in Campaigns :
       (row[c] # None /\ row'[c] # None /\ row[c].doNotCall # row'[c].doNotCall) =>
         held # None /\ held.campaign = c]_vars

\* An ephemeral campaign is never selected, and stays ephemeral.
EphemeralStaysAside ==
  [][\A c \in Campaigns :
       (row[c] # None /\ row[c].ephemeral) =>
         /\ row'[c] # None => row'[c].ephemeral
         /\ selected' = c => selected = c]_vars
=============================================================================
