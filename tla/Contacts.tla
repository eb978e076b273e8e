------------------------------ MODULE Contacts ------------------------------
(***************************************************************************)
(* The contact cards: ContactService and the contact tables of CallStore.  *)
(* Clients write the fields they know of a contact, one card or many at a  *)
(* time and each in a statement of its own; a card may expire; a call      *)
(* keeps the card as it was when the call was first looked up.             *)
(***************************************************************************)
EXTENDS Integers, FiniteSets

CONSTANTS Numbers, Calls,
          None   \* the absent value

VARIABLES card,      \* number -> None, or tier, notes and whether it has expired
          batch,     \* cards of upsertMany that are still to be written
          peer,      \* call -> the number on it
          snapshot   \* call -> None, or the summary attached to it

vars == <<card, batch, peer, snapshot>>

Tiers == {"unset", "vip", "known"}
Cards == [tier : Tiers, notes : 0..1, expired : BOOLEAN]
\* What a client sends: a field it leaves out keeps what is there.
Inputs == [tier : {"vip", "known", "same"}, notes : {1, 2}, lasting : BOOLEAN]
KeptNotes == 2

Init ==
  /\ card = [n \in Numbers |-> None] /\ batch = {}
  /\ peer \in [Calls -> Numbers]
  /\ snapshot = [c \in Calls |-> None]

\* ContactService.normalize: the input merged with the card it finds.
Merged(old, input) ==
  [tier    |-> IF input.tier # "same" THEN input.tier ELSE IF old = None THEN "unset" ELSE old.tier,
   notes   |-> IF input.notes # KeptNotes THEN input.notes ELSE IF old = None THEN 0 ELSE old.notes,
   expired |-> IF input.lasting \/ old = None THEN FALSE ELSE old.expired]

\* find leaves out an expired card.
Found(n) == card[n] # None /\ ~card[n].expired

\* upsert, whose read and write are one step of the main process
Upsert(n) ==
  /\ batch = {}
  /\ \E input \in Inputs : card' = [card EXCEPT ![n] = Merged(@, input)]
  /\ UNCHANGED <<batch, peer, snapshot>>

\* upsertMany merges all of its inputs first, then writes them one by one.
UpsertMany ==
  /\ batch = {}
  /\ \E ns \in SUBSET Numbers, input \in Inputs :
       /\ Cardinality(ns) > 1
       /\ batch' = {[number |-> n, value |-> Merged(card[n], input)] : n \in ns}
  /\ UNCHANGED <<card, peer, snapshot>>

WriteOne ==
  /\ \E w \in batch :
       /\ batch' = batch \ {w}
       /\ card' = [card EXCEPT ![w.number] = w.value]
  /\ UNCHANGED <<peer, snapshot>>

\* A stop in the middle leaves the rest of a batch unwritten.
Stop ==
  /\ batch # {}
  /\ batch' = {}
  /\ UNCHANGED <<card, peer, snapshot>>

DeleteContactCard(n) ==
  /\ batch = {} /\ card[n] # None
  /\ card' = [card EXCEPT ![n] = None]
  /\ UNCHANGED <<batch, peer, snapshot>>

Expire(n) ==
  /\ batch = {} /\ card[n] # None /\ ~card[n].expired
  /\ card' = [card EXCEPT ![n].expired = TRUE]
  /\ UNCHANGED <<batch, peer, snapshot>>

\* snapshotForCall and attachContactCard: the first summary stays.
SnapshotForCall(c) ==
  /\ batch = {} /\ Found(peer[c])
  /\ snapshot' = [snapshot EXCEPT ![c] =
       IF @ = None THEN [tier |-> card[peer[c]].tier, notes |-> card[peer[c]].notes] ELSE @]
  /\ UNCHANGED <<card, batch, peer>>

Next ==
  \/ UpsertMany \/ WriteOne \/ Stop
  \/ \E n \in Numbers : Upsert(n) \/ DeleteContactCard(n) \/ Expire(n)
  \/ \E c \in Calls : SnapshotForCall(c)

Spec == Init /\ [][Next]_vars

TypeOK ==
  /\ \A n \in Numbers : card[n] = None \/ card[n] \in Cards
  /\ \A c \in Calls : snapshot[c] = None \/ snapshot[c].tier \in Tiers

\* What a call knew of its contact is history: no later edit, expiry or second
\* lookup changes it.
SnapshotIsHistory == [][\A c \in Calls : snapshot[c] # None => snapshot'[c] = snapshot[c]]_vars

\* Writing what one knows of a contact never erases what another client knew:
\* once somebody gave a card its tier, only deleting the card takes it away,
\* however single writes and interrupted batches mix.
KnownStaysKnown ==
  [][\A n \in Numbers :
       (card[n] # None /\ card[n].tier # "unset" /\ card'[n] # None) => card'[n].tier # "unset"]_vars
=============================================================================
