-------------------------- MODULE AssistantProofs --------------------------
(***************************************************************************)
(* Proofs of what MCAssistant keeps: how much the application may call     *)
(* (DialGate), what it may tell a caller (Knowledge) and what it knows of  *)
(* them (Contacts); the policy its calls go by (CampaignRules), and the    *)
(* campaigns and the client of the CRM that its tools work with            *)
(* (Directory, CrmClient); the client of the app-server and the extraction *)
(* that use its process (AppServer, Extraction), the tools its agents ask  *)
(* for (ToolRequests), and the copilot of a call (Copilot): for any words, *)
(* calls, sessions, numbers, items, rows, days and limits.                 *)
(***************************************************************************)
EXTENDS MCAssistant, Sequences, FiniteSetTheorems, WellFoundedInduction, TLAPS

-----------------------------------------------------------------------------
(* What a caller may be told *)

\* The levels of trust, as numbers.
LEMMA Levels ==
  /\ Answers!Level("unverified") = 1 /\ Answers!Level("number_match") = 2
  /\ Answers!Level("verified_contact") = 3 /\ Answers!Level("verified_vip") = 4
BY SMT DEF Answers!Level, Answers!Trusts

\* The callers there are.
LEMMA TrustsAre ==
  {Answers!Trusts[i] : i \in 1..4} = {"unverified", "number_match", "verified_contact", "verified_vip"}
BY SMT DEF Answers!Trusts

\* An item that may be told to a caller may be told to one who is trusted more.
LEMMA TrustIsMonotone ==
  ASSUME NEW i, NEW t \in {Answers!Trusts[k] : k \in 1..4}, NEW u \in {Answers!Trusts[k] : k \in 1..4},
         Answers!Level(u) > Answers!Level(t), Answers!Decision(i, t) = "allow"
  PROVE  Answers!Decision(i, u) = "allow"
<1> DEFINE v == Answers!ClassifyVisibility(i)
           s == kItem[i].sensitive
<1>1. Answers!StepUp(Answers!MatrixDecision(t, v), s, t) = "allow"
    BY DEF Answers!Decision
<1> HIDE DEF v, s
<1>2. /\ t \in {"unverified", "number_match", "verified_contact", "verified_vip"}
      /\ u \in {"unverified", "number_match", "verified_contact", "verified_vip"}
    BY TrustsAre
<1>3. Answers!MatrixDecision(t, v) = "allow"
    BY <1>1, Zenon DEF Answers!StepUp
<1>4. Answers!MatrixDecision(u, v) = "allow"
    BY <1>2, <1>3, Levels, SMT DEF Answers!MatrixDecision
<1>5. Answers!StepUp("allow", s, u) = "allow"
    BY <1>1, <1>2, <1>3, Levels, SMT DEF Answers!StepUp
<1> QED BY <1>4, <1>5 DEF Answers!Decision, v, s

\* What is decided of an item that is not kept private.
LEMMA DecisionIs ==
  ASSUME NEW i, NEW t
  PROVE  /\ Answers!Decision(i, t) \in {"deny", "transfer_to_owner", "verification_required", "allow"}
         /\ Answers!Decision(i, t) = "allow" =>
              kItem[i].sensitive # "credential" /\ Answers!ClassifyVisibility(i) # "never"
<1>1. Answers!MatrixDecision(t, Answers!ClassifyVisibility(i))
        \in {"deny", "transfer_to_owner", "verification_required", "allow"}
    BY Zenon DEF Answers!MatrixDecision
<1> QED BY <1>1, SMT DEF Answers!Decision, Answers!StepUp, Answers!MatrixDecision

\* Of decisions there are, the strictest is one, and is allow only if all are.
LEMMA StrictestIs ==
  ASSUME NEW D \in SUBSET {"deny", "transfer_to_owner", "verification_required", "allow"}, D # {}
  PROVE  /\ Answers!Strictest(D) \in D
         /\ Answers!Strictest(D) = "allow" => \A d \in D : d = "allow"
<1>1. /\ Answers!Strictness["deny"] = 4 /\ Answers!Strictness["transfer_to_owner"] = 3
      /\ Answers!Strictness["verification_required"] = 2 /\ Answers!Strictness["allow"] = 1
    BY DEF Answers!Strictness
<1>2. \E d \in D : \A e \in D : Answers!Strictness[d] >= Answers!Strictness[e]
    <2>1. CASE "deny" \in D
        BY <1>1, <2>1, SMT
    <2>2. CASE "deny" \notin D /\ "transfer_to_owner" \in D
        BY <1>1, <2>2, SMT
    <2>3. CASE "deny" \notin D /\ "transfer_to_owner" \notin D /\ "verification_required" \in D
        BY <1>1, <2>3, SMT
    <2>4. CASE D = {"allow"}
        BY <1>1, <2>4, SMT
    <2> QED BY <2>1, <2>2, <2>3, <2>4
<1>3. /\ Answers!Strictest(D) \in D
      /\ \A e \in D : Answers!Strictness[Answers!Strictest(D)] >= Answers!Strictness[e]
    BY <1>2, Zenon DEF Answers!Strictest
<1> QED BY <1>1, <1>3, SMT

\* What was told was valid when it was, for the caller as they were trusted; it
\* only loses its validity.
AnswersInv ==
  /\ kItem \in [Items -> Answers!Attributes]
  /\ kTrust \in {Answers!Trusts[i] : i \in 1..4}
  /\ kTold.decision \in DOMAIN Answers!Strictness
  /\ kTold.allowed \in SUBSET Items
  /\ \A i \in kTold.allowed :
       i \in Answers!Fresh => i \notin Answers!Conflicting /\ Answers!Decision(i, kTrust) = "allow"

\* What an answer shows, and that one given as a whole shows all that is live.
LEMMA DiscloseIs ==
  ASSUME NEW t
  PROVE  /\ Answers!Disclose(t).allowed = {i \in Answers!Live : Answers!Decision(i, t) = "allow"}
         /\ Answers!Disclose(t).decision \in DOMAIN Answers!Strictness
         /\ Answers!Disclose(t).decision = "allow" =>
              /\ Answers!Live # {}
              /\ \A i \in Answers!Live : Answers!Decision(i, t) = "allow"
<1> DEFINE D == {Answers!Decision(i, t) : i \in Answers!Live}
           S4 == {"deny", "transfer_to_owner", "verification_required", "allow"}
<1>1. D \in SUBSET S4
    BY DecisionIs
<1>2. Answers!Live # {} => Answers!Strictest(D) \in S4
    BY <1>1, StrictestIs
<1>3. Answers!Live # {} /\ Answers!Strictest(D) = "allow"
       => \A i \in Answers!Live : Answers!Decision(i, t) = "allow"
    BY <1>1, StrictestIs
<1>4. S4 \cup {"no_match"} \subseteq DOMAIN Answers!Strictness
    BY DEF Answers!Strictness
<1>5. Answers!Disclose(t).decision
        = IF Answers!Shown = {} THEN IF Answers!Ours # {} THEN "deny" ELSE "no_match"
          ELSE IF Answers!Live = {} THEN "verification_required" ELSE Answers!Strictest(D)
    BY DEF Answers!Disclose
<1>6. Answers!Disclose(t).allowed = {i \in Answers!Live : Answers!Decision(i, t) = "allow"}
    BY DEF Answers!Disclose
<1> HIDE DEF D
<1> QED BY <1>2, <1>3, <1>4, <1>5, <1>6

\* The invariant is kept, and a new answer never shows less of what is live.
LEMMA AnswersStep ==
  AnswersInv /\ [Answers!Next]_(Answers!vars)
    => AnswersInv' /\ \A i \in kTold.allowed \ kTold'.allowed : i \notin Answers!Live
<1> SUFFICES ASSUME AnswersInv, [Answers!Next]_(Answers!vars)
             PROVE  AnswersInv' /\ \A i \in kTold.allowed \ kTold'.allowed : i \notin Answers!Live
    OBVIOUS
<1>1. CASE Answers!Ask
    <2>1. kTold' = Answers!Disclose(kTrust) /\ UNCHANGED <<kItem, kTrust>>
        BY <1>1 DEF Answers!Ask
    <2>2. /\ Answers!Fresh' = Answers!Fresh /\ Answers!Conflicting' = Answers!Conflicting
          /\ \A i : Answers!Decision(i, kTrust)' = Answers!Decision(i, kTrust)
        BY <2>1, Zenon DEF Answers!Fresh, Answers!Conflicting, Answers!Shown, Answers!Ours,
           Answers!Decision,
           Answers!ClassifyVisibility
    <2>3. Answers!Live \subseteq Items
        BY DEF Answers!Live, Answers!Fresh, Answers!Shown, Answers!Ours
    <2>4. /\ kTold'.allowed = {i \in Answers!Live : Answers!Decision(i, kTrust) = "allow"}
          /\ kTold'.decision \in DOMAIN Answers!Strictness
        BY <2>1, DiscloseIs
    <2>5. AnswersInv'
        BY <2>1, <2>2, <2>3, <2>4 DEF AnswersInv, Answers!Live
    <2>6. \A i \in kTold.allowed : i \in Answers!Live => Answers!Decision(i, kTrust) = "allow"
        BY DEF AnswersInv, Answers!Live
    <2> QED BY <2>4, <2>5, <2>6
<1>2. CASE Answers!Trusted
    <2>1. PICK t \in {Answers!Trusts[k] : k \in 1..4} :
             Answers!Level(t) > Answers!Level(kTrust) /\ kTrust' = t
        BY <1>2 DEF Answers!Trusted
    <2>2. UNCHANGED <<kItem, kTold>>
        BY <1>2 DEF Answers!Trusted
    <2>3. /\ Answers!Fresh' = Answers!Fresh /\ Answers!Conflicting' = Answers!Conflicting
          /\ \A i : Answers!Decision(i, kTrust)' = Answers!Decision(i, t)
        BY <2>1, <2>2, Zenon DEF Answers!Fresh, Answers!Conflicting, Answers!Shown, Answers!Ours,
           Answers!Decision,
           Answers!ClassifyVisibility
    <2>4. \A i : Answers!Decision(i, kTrust) = "allow" => Answers!Decision(i, t) = "allow"
        BY <2>1, TrustIsMonotone DEF AnswersInv
    <2> QED BY <2>1, <2>2, <2>3, <2>4 DEF AnswersInv
<1>3. CASE Answers!Restricted
    <2>1. PICK i \in Items :
             \/ ~kItem[i].stale /\ kItem' = [kItem EXCEPT ![i].stale = TRUE]
             \/ kItem[i].visibility # "never" /\ kItem' = [kItem EXCEPT ![i].visibility = "never"]
        BY <1>3 DEF Answers!Restricted
    <2>2. UNCHANGED <<kTrust, kTold>>
        BY <1>3 DEF Answers!Restricted
    <2>3. kItem' \in [Items -> Answers!Attributes]
        <3>1. kItem \in [Items -> Answers!Attributes] /\ kItem[i] \in Answers!Attributes
            BY DEF AnswersInv
        <3>2. /\ [kItem[i] EXCEPT !.stale = TRUE] \in Answers!Attributes
              /\ [kItem[i] EXCEPT !.visibility = "never"] \in Answers!Attributes
            BY <3>1 DEF Answers!Attributes
        <3>3. CASE ~kItem[i].stale /\ kItem' = [kItem EXCEPT ![i].stale = TRUE]
            BY <3>1, <3>2, <3>3
        <3>4. CASE kItem' = [kItem EXCEPT ![i].visibility = "never"]
            BY <3>1, <3>2, <3>4
        <3> QED BY <2>1, <3>3, <3>4
    <2>4. \A j \in Items : /\ kItem'[j].conflictsWith = kItem[j].conflictsWith
                           /\ kItem'[j].tenant = kItem[j].tenant
                           /\ kItem'[j].sensitive = kItem[j].sensitive
                           /\ kItem[j].stale => kItem'[j].stale
                           /\ (kItem'[j].visibility = kItem[j].visibility) \/ kItem'[j].visibility = "never"
        <3>1. kItem \in [Items -> Answers!Attributes] /\ kItem[i] \in Answers!Attributes
            BY DEF AnswersInv
        <3>2. CASE ~kItem[i].stale /\ kItem' = [kItem EXCEPT ![i].stale = TRUE]
            BY <3>1, <3>2 DEF Answers!Attributes
        <3>3. CASE kItem' = [kItem EXCEPT ![i].visibility = "never"]
            BY <3>1, <3>3 DEF Answers!Attributes
        <3> QED BY <2>1, <3>2, <3>3
    <2>fresh.
          /\ \A j : j \in Answers!Fresh <=>
                 /\ j \in Items /\ kItem[j].tenant = "ours" /\ ~kItem[j].stale
                 /\ kItem[j].visibility \notin {"never", "unknown"}
          /\ \A j : j \in Answers!Fresh' <=>
                 /\ j \in Items /\ kItem'[j].tenant = "ours" /\ ~kItem'[j].stale
                 /\ kItem'[j].visibility \notin {"never", "unknown"}
        BY Zenon DEF Answers!Fresh, Answers!Shown, Answers!Ours, Answers!ClassifyVisibility
    <2>5. Answers!Fresh' \subseteq Answers!Fresh
        BY <2>4, <2>fresh, Zenon
    <2>conflicting.
          /\ \A j : j \in Answers!Conflicting <=>
                 /\ j \in Answers!Fresh
                 /\ \E k \in Answers!Fresh : j \in kItem[k].conflictsWith \/ k \in kItem[j].conflictsWith
          /\ \A j : j \in Answers!Conflicting' <=>
                 /\ j \in Answers!Fresh'
                 /\ \E k \in Answers!Fresh' : j \in kItem'[k].conflictsWith \/ k \in kItem'[j].conflictsWith
        BY Zenon DEF Answers!Conflicting
    <2>6. \A j \in Answers!Fresh' : j \notin Answers!Conflicting => j \notin Answers!Conflicting'
        BY <2>4, <2>5, <2>fresh, <2>conflicting, Zenon
    <2>7. \A j \in Answers!Fresh' : Answers!Decision(j, kTrust)' = Answers!Decision(j, kTrust)
        <3>1. \A j \in Answers!Fresh' : /\ kItem'[j].visibility = kItem[j].visibility
                                        /\ kItem'[j].sensitive = kItem[j].sensitive
            BY <2>4, <2>fresh
        <3> QED BY <2>2, <3>1, Zenon DEF Answers!Decision, Answers!ClassifyVisibility
    <2> QED BY <2>2, <2>3, <2>5, <2>6, <2>7 DEF AnswersInv
<1>4. CASE UNCHANGED Answers!vars
    <2>1. UNCHANGED <<kItem, kTrust, kTold>>
        BY <1>4 DEF Answers!vars
    <2>2. /\ Answers!Fresh' = Answers!Fresh /\ Answers!Conflicting' = Answers!Conflicting
          /\ \A i : Answers!Decision(i, kTrust)' = Answers!Decision(i, kTrust)
        BY <2>1, Zenon DEF Answers!Fresh, Answers!Conflicting, Answers!Shown, Answers!Ours,
           Answers!Decision,
           Answers!ClassifyVisibility
    <2> QED BY <2>1, <2>2 DEF AnswersInv
<1> QED BY <1>1, <1>2, <1>3, <1>4 DEF Answers!Next

\* What the run checks follows from the invariant.
LEMMA AnswersInvGives == AnswersInv => Answers!TypeOK /\ Answers!NeverTold /\ Answers!AllowedIsComplete
<1> SUFFICES ASSUME AnswersInv PROVE Answers!TypeOK /\ Answers!NeverTold /\ Answers!AllowedIsComplete
    OBVIOUS
<1>1. Answers!TypeOK
    BY DEF AnswersInv, Answers!TypeOK
<1>2. ASSUME NEW t \in {Answers!Trusts[k] : k \in 1..4}, NEW i \in Answers!Disclose(t).allowed
      PROVE  /\ kItem[i].tenant = "ours" /\ kItem[i].visibility \in {"public", "known", "vip"}
             /\ ~kItem[i].stale /\ kItem[i].sensitive # "credential"
             /\ \A j \in Answers!Fresh : i \notin kItem[j].conflictsWith /\ j \notin kItem[i].conflictsWith
    <2>1. i \in Answers!Live /\ Answers!Decision(i, t) = "allow"
        BY <1>2, DiscloseIs
    <2>2. /\ i \in Items /\ kItem[i].tenant = "ours" /\ ~kItem[i].stale
          /\ \A j \in Answers!Fresh : i \notin kItem[j].conflictsWith /\ j \notin kItem[i].conflictsWith
        BY <2>1 DEF Answers!Live, Answers!Conflicting, Answers!Fresh, Answers!Shown, Answers!Ours
    <2>3. kItem[i].sensitive # "credential" /\ Answers!ClassifyVisibility(i) # "never"
        BY <2>1, DecisionIs
    <2>4. kItem[i].visibility \in {"public", "known", "vip", "never", "unknown"}
        BY <2>2 DEF AnswersInv, Answers!Attributes
    <2> QED BY <2>2, <2>3, <2>4 DEF Answers!ClassifyVisibility
<1>3. Answers!AllowedIsComplete
    BY DiscloseIs DEF Answers!AllowedIsComplete
<1> QED BY <1>1, <1>2, <1>3 DEF Answers!NeverTold

\* Knowledge keeps its promise.
LEMMA AnswersSafe ==
  Answers!Spec => /\ [](Answers!TypeOK /\ Answers!NeverTold /\ Answers!AllowedIsComplete)
                  /\ Answers!TrustOnlyAdds
<1>1. Answers!Init => AnswersInv
    <2> SUFFICES ASSUME Answers!Init PROVE AnswersInv
        OBVIOUS
    <2>1. kItem \in [Items -> Answers!Attributes] /\ kTrust = Answers!Trusts[1]
        BY DEF Answers!Init
    <2>2. kTold.decision = "no_match" /\ kTold.allowed = {}
        BY DEF Answers!Init
    <2>3. "no_match" \in DOMAIN Answers!Strictness
        BY DEF Answers!Strictness
    <2> QED BY <2>1, <2>2, <2>3 DEF AnswersInv
<1>2. AnswersInv /\ [Answers!Next]_(Answers!vars)
        => [\A i \in kTold.allowed \ kTold'.allowed : i \notin Answers!Live]_(Answers!vars)
    BY AnswersStep
<1> QED BY <1>1, <1>2, AnswersStep, AnswersInvGives, PTL DEF Answers!Spec, Answers!TrustOnlyAdds

-----------------------------------------------------------------------------
(* What is known of a contact *)

\* A batch holds one card of a number, and none that lost what is known.
ContactInv ==
  /\ cCard \in [Callers -> Contact!Cards \cup {Absent}]
  /\ cSnapshot \in [{"call"} -> [tier : Contact!Tiers, notes : 0..1] \cup {Absent}]
  /\ cPeer \in [{"call"} -> Callers]
  /\ cBatch \subseteq [number : Callers, value : Contact!Cards]
  /\ \A w, v \in cBatch : w.number = v.number => w = v
  /\ \A w \in cBatch :
       (cCard[w.number] # Absent /\ cCard[w.number].tier # "unset") => w.value.tier # "unset"

\* Merging an input keeps a tier that was given.
LEMMA MergedIs ==
  ASSUME NEW old \in Contact!Cards \cup {Absent}, NEW input \in Contact!Inputs
  PROVE  /\ Contact!Merged(old, input) \in Contact!Cards
         /\ (old # Absent /\ old.tier # "unset") => Contact!Merged(old, input).tier # "unset"
<1> DEFINE m == Contact!Merged(old, input)
<1>1. /\ input.tier \in {"vip", "known", "same"} /\ input.notes \in {1, 2} /\ input.lasting \in BOOLEAN
      /\ old # Absent => old.tier \in Contact!Tiers /\ old.notes \in 0..1 /\ old.expired \in BOOLEAN
    BY DEF Contact!Inputs, Contact!Cards
<1>2. m = [tier |-> m.tier, notes |-> m.notes, expired |-> m.expired]
    BY DEF Contact!Merged
<1>3. m.tier \in Contact!Tiers /\ ((old # Absent /\ old.tier # "unset") => m.tier # "unset")
    BY <1>1 DEF Contact!Merged, Contact!Tiers
<1>4. m.notes \in 0..1
    BY <1>1, SMT DEF Contact!Merged, Contact!KeptNotes
<1>5. m.expired \in BOOLEAN
    BY <1>1 DEF Contact!Merged
<1> HIDE DEF m
<1>6. m \in Contact!Cards
    BY <1>2, <1>3, <1>4, <1>5 DEF Contact!Cards
<1> QED BY <1>3, <1>6 DEF m

\* The invariant is kept; the snapshot of a call stays what it was, and a
\* tier that was given is not lost.
LEMMA ContactStep ==
  ContactInv /\ [Contact!Next]_(Contact!vars) =>
    /\ ContactInv'
    /\ \A c \in {"call"} : cSnapshot[c] # Absent => cSnapshot'[c] = cSnapshot[c]
    /\ \A n \in Callers :
         (cCard[n] # Absent /\ cCard[n].tier # "unset" /\ cCard'[n] # Absent) => cCard'[n].tier # "unset"
<1> DEFINE History == \A c \in {"call"} : cSnapshot[c] # Absent => cSnapshot'[c] = cSnapshot[c]
           KeepsTier == \A n \in Callers :
             (cCard[n] # Absent /\ cCard[n].tier # "unset" /\ cCard'[n] # Absent) => cCard'[n].tier # "unset"
<1> SUFFICES ASSUME ContactInv, [Contact!Next]_(Contact!vars) PROVE ContactInv' /\ History /\ KeepsTier
    OBVIOUS
<1>1. /\ cCard \in [Callers -> Contact!Cards \cup {Absent}]
      /\ cSnapshot \in [{"call"} -> [tier : Contact!Tiers, notes : 0..1] \cup {Absent}]
      /\ cPeer \in [{"call"} -> Callers]
      /\ cBatch \subseteq [number : Callers, value : Contact!Cards]
      /\ \A w, v \in cBatch : w.number = v.number => w = v
      /\ \A w \in cBatch :
           (cCard[w.number] # Absent /\ cCard[w.number].tier # "unset") => w.value.tier # "unset"
    BY DEF ContactInv
<1>2. ASSUME NEW n \in Callers, Contact!Upsert(n) PROVE ContactInv' /\ History /\ KeepsTier
    <2>1. PICK input \in Contact!Inputs : cCard' = [cCard EXCEPT ![n] = Contact!Merged(cCard[n], input)]
        BY <1>2 DEF Contact!Upsert
    <2>2. cBatch = {} /\ UNCHANGED <<cBatch, cPeer, cSnapshot>>
        BY <1>2 DEF Contact!Upsert
    <2>3. PICK m \in Contact!Cards : /\ cCard' = [cCard EXCEPT ![n] = m]
                                     /\ (cCard[n] # Absent /\ cCard[n].tier # "unset") => m.tier # "unset"
        <3>1. cCard[n] \in Contact!Cards \cup {Absent}
            BY <1>1
        <3>2. /\ Contact!Merged(cCard[n], input) \in Contact!Cards
              /\ (cCard[n] # Absent /\ cCard[n].tier # "unset")
                   => Contact!Merged(cCard[n], input).tier # "unset"
            BY <3>1, MergedIs
        <3> QED BY <2>1, <3>2, Zenon
    <2> QED BY <1>1, <2>2, <2>3 DEF ContactInv
<1>3. CASE Contact!UpsertMany
    <2>1. PICK ns \in SUBSET Callers, input \in Contact!Inputs :
             cBatch' = {[number |-> n, value |-> Contact!Merged(cCard[n], input)] : n \in ns}
        BY <1>3 DEF Contact!UpsertMany
    <2>2. UNCHANGED <<cCard, cPeer, cSnapshot>>
        BY <1>3 DEF Contact!UpsertMany
    <2>3. \A n \in ns : /\ Contact!Merged(cCard[n], input) \in Contact!Cards
                        /\ (cCard[n] # Absent /\ cCard[n].tier # "unset")
                             => Contact!Merged(cCard[n], input).tier # "unset"
        BY <1>1, MergedIs
    <2>4. \A w \in cBatch' : \E n \in ns : w = [number |-> n, value |-> Contact!Merged(cCard[n], input)]
        BY <2>1
    <2>5. \A w \in cBatch' : /\ w.number \in ns
                             /\ w = [number |-> w.number, value |-> Contact!Merged(cCard[w.number], input)]
        BY <2>4
    <2>6. cBatch' \subseteq [number : Callers, value : Contact!Cards]
        BY <2>3, <2>5
    <2> QED BY <1>1, <2>2, <2>3, <2>5, <2>6 DEF ContactInv
<1>4. CASE Contact!WriteOne
    <2>1. PICK w \in cBatch : cBatch' = cBatch \ {w} /\ cCard' = [cCard EXCEPT ![w.number] = w.value]
        BY <1>4 DEF Contact!WriteOne
    <2>2. UNCHANGED <<cPeer, cSnapshot>>
        BY <1>4 DEF Contact!WriteOne
    <2>3. w.number \in Callers /\ w.value \in Contact!Cards
        BY <1>1
    <2>4. \A v \in cBatch' : v \in cBatch /\ v.number # w.number /\ cCard'[v.number] = cCard[v.number]
        BY <1>1, <2>1
    <2>5. cCard' \in [Callers -> Contact!Cards \cup {Absent}]
        BY <1>1, <2>1, <2>3
    <2> QED BY <1>1, <2>1, <2>2, <2>3, <2>4, <2>5 DEF ContactInv
<1>5. CASE Contact!Stop
    BY <1>1, <1>5 DEF Contact!Stop, ContactInv
<1>6. ASSUME NEW n \in Callers, Contact!DeleteContactCard(n) PROVE ContactInv' /\ History /\ KeepsTier
    BY <1>1, <1>6 DEF Contact!DeleteContactCard, ContactInv
<1>7. ASSUME NEW n \in Callers, Contact!Expire(n) PROVE ContactInv' /\ History /\ KeepsTier
    <2>1. /\ cBatch = {} /\ cCard[n] # Absent /\ cCard' = [cCard EXCEPT ![n].expired = TRUE]
          /\ UNCHANGED <<cBatch, cPeer, cSnapshot>>
        BY <1>7 DEF Contact!Expire
    <2>2. PICK m \in Contact!Cards : cCard' = [cCard EXCEPT ![n] = m] /\ m.tier = cCard[n].tier
        <3>1. cCard[n] \in Contact!Cards
            BY <1>1, <2>1
        <3>2. /\ [cCard[n] EXCEPT !.expired = TRUE] \in Contact!Cards
              /\ [cCard[n] EXCEPT !.expired = TRUE].tier = cCard[n].tier
            BY <3>1 DEF Contact!Cards
        <3> QED BY <2>1, <3>2
    <2> QED BY <1>1, <2>1, <2>2 DEF ContactInv
<1>8. ASSUME NEW c \in {"call"}, Contact!SnapshotForCall(c) PROVE ContactInv' /\ History /\ KeepsTier
    <2>1. /\ cCard[cPeer[c]] # Absent /\ UNCHANGED <<cCard, cBatch, cPeer>>
          /\ cSnapshot' = [cSnapshot EXCEPT ![c] = IF cSnapshot[c] = Absent
                             THEN [tier |-> cCard[cPeer[c]].tier, notes |-> cCard[cPeer[c]].notes]
                             ELSE cSnapshot[c]]
        BY <1>8 DEF Contact!SnapshotForCall, Contact!Found
    <2>2. [tier |-> cCard[cPeer[c]].tier, notes |-> cCard[cPeer[c]].notes]
            \in [tier : Contact!Tiers, notes : 0..1]
        <3>1. cCard[cPeer[c]] \in Contact!Cards
            BY <1>1, <2>1
        <3> QED BY <3>1 DEF Contact!Cards
    <2> QED BY <1>1, <2>1, <2>2 DEF ContactInv
<1>9. CASE UNCHANGED Contact!vars
    BY <1>1, <1>9 DEF Contact!vars, ContactInv
<1> HIDE DEF History, KeepsTier
<1> QED BY <1>2, <1>3, <1>4, <1>5, <1>6, <1>7, <1>8, <1>9 DEF Contact!Next

\* Contacts keeps its promise.
LEMMA ContactSafe ==
  Contact!Spec => []Contact!TypeOK /\ Contact!SnapshotIsHistory /\ Contact!KnownStaysKnown
<1>1. Contact!Init => ContactInv
    BY DEF Contact!Init, ContactInv
<1>2. ContactInv => Contact!TypeOK
    <2> SUFFICES ASSUME ContactInv PROVE Contact!TypeOK
        OBVIOUS
    <2>1. \A n \in Callers : cCard[n] = Absent \/ cCard[n] \in Contact!Cards
        BY DEF ContactInv
    <2>2. \A c \in {"call"} :
            cSnapshot[c] = Absent \/ cSnapshot[c] \in [tier : Contact!Tiers, notes : 0..1]
        BY DEF ContactInv
    <2>3. \A c \in {"call"} : cSnapshot[c] = Absent \/ cSnapshot[c].tier \in Contact!Tiers
        BY <2>2
    <2> QED BY <2>1, <2>3 DEF Contact!TypeOK
<1>3. ContactInv /\ [Contact!Next]_(Contact!vars)
        => [\A c \in {"call"} : cSnapshot[c] # Absent => cSnapshot'[c] = cSnapshot[c]]_(Contact!vars)
    BY ContactStep
<1>4. ContactInv /\ [Contact!Next]_(Contact!vars)
        => [\A n \in Callers :
              (cCard[n] # Absent /\ cCard[n].tier # "unset" /\ cCard'[n] # Absent)
                => cCard'[n].tier # "unset"]_(Contact!vars)
    BY ContactStep
<1> QED BY <1>1, <1>2, <1>3, <1>4, ContactStep, PTL
        DEF Contact!Spec, Contact!SnapshotIsHistory, Contact!KnownStaysKnown

-----------------------------------------------------------------------------
(* How much may be called *)

\* The day a time falls in.
LEMMA DivisionIs ==
  ASSUME NEW L \in Nat \ {0}, NEW t \in Nat
  PROVE  t \div L \in Nat /\ (t \div L) * L <= t /\ t < ((t \div L) + 1) * L
OBVIOUS

\* Days follow one another as times do.
LEMMA DivisionGrows ==
  ASSUME NEW L \in Nat \ {0}, NEW t \in Nat, NEW n \in Nat, t <= n
  PROVE  t \div L <= n \div L
<1> DEFINE a == t \div L
           b == n \div L
<1>1. a \in Nat /\ b \in Nat /\ a * L <= t /\ n < (b + 1) * L
    BY DivisionIs
<1>2. a * L < (b + 1) * L
    BY <1>1
<1> HIDE DEF a, b
<1>3. a < b + 1
    BY <1>1, <1>2, SMT
<1> QED BY <1>1, <1>3 DEF a, b

\* Sets of rows, and how many there are.
LEMMA FewerRows ==
  ASSUME NEW n \in Nat, NEW S \in SUBSET (1..n)
  PROVE  /\ IsFiniteSet(S) /\ Cardinality(S) \in Nat
         /\ \A T \in SUBSET S : Cardinality(T) <= Cardinality(S)
         /\ \A T, x : T \subseteq S \cup {x} => Cardinality(T) <= Cardinality(S) + 1
<1>1. IsFiniteSet(1..n)
    BY FS_Interval
<1>2. IsFiniteSet(S) /\ Cardinality(S) \in Nat
    BY <1>1, FS_Subset, FS_CardinalityType
<1>3. ASSUME NEW T \in SUBSET S PROVE Cardinality(T) <= Cardinality(S)
    BY <1>2, FS_Subset
<1>4. ASSUME NEW T, NEW x, T \subseteq S \cup {x} PROVE Cardinality(T) <= Cardinality(S) + 1
    <2>1. /\ IsFiniteSet(S \cup {x}) /\ Cardinality(S \cup {x}) \in Nat
          /\ Cardinality(S \cup {x}) <= Cardinality(S) + 1
        <3>1. IsFiniteSet(S \cup {x})
              /\ Cardinality(S \cup {x}) = IF x \in S THEN Cardinality(S) ELSE Cardinality(S) + 1
            BY <1>2, FS_AddElement
        <3> QED BY <1>2, <3>1
    <2>2. IsFiniteSet(T) /\ Cardinality(T) <= Cardinality(S \cup {x}) /\ Cardinality(T) \in Nat
        BY <1>4, <2>1, FS_Subset, FS_CardinalityType
    <2> QED BY <1>2, <2>1, <2>2, SMT
<1> QED BY <1>2, <1>3, <1>4

CallRow == [peer : Numbers, at : 0..MaxTime, lasted : 0..1, how : {"asked", "unasked", "late", "owner"},
            retry : BOOLEAN]
DialRow == [peer : Numbers, asked : BOOLEAN, retry : BOOLEAN, stage : {"approval", "sent"}]

\* What has a type; no call began later than now.
GateTypes ==
  /\ gNow \in 0..MaxTime /\ gBudget \in Gate!Budgets /\ gSaves \in 0..MaxSaves
  /\ gCalls \in Seq(CallRow) /\ gLine \in 0..Len(gCalls) /\ gEarlier \in 0..Len(gCalls)
  /\ gDial = Gate!None \/ gDial \in DialRow
  /\ gLate \in SUBSET Numbers /\ gPeerAt \in [Numbers -> 0..MaxTime \cup {-1}]
  /\ gDialTimes \in SUBSET ((gEarlier + 1)..Len(gCalls))
  /\ \A i \in 1..Len(gCalls) : gCalls[i].at <= gNow

\* The rows of c are those of b, but for how long they lasted.
SameRows(b, c) ==
  /\ Len(c) = Len(b)
  /\ \A i \in 1..Len(b) : /\ c[i].peer = b[i].peer /\ c[i].at = b[i].at
                          /\ c[i].how = b[i].how /\ c[i].retry = b[i].retry

\* A step that places no call, and begins no dial.
Waits ==
  /\ SameRows(gCalls, gCalls') /\ gNow' \in Nat /\ gNow' >= gNow
  /\ UNCHANGED <<gEarlier, gDialTimes, gPeerAt>>
  /\ gDial' = Gate!None \/ (/\ gDial # Gate!None /\ gDial'.peer = gDial.peer
                            /\ gDial'.asked = gDial.asked /\ gDial'.retry = gDial.retry)
\* A step that begins a dial.
Starts(peer, ask, retry) ==
  /\ gDial = Gate!None /\ Gate!CheckRateLimit(peer, retry)
  /\ gDial'.peer = peer /\ gDial'.asked = ask /\ gDial'.retry = retry
  /\ gDialTimes' = Gate!Recent /\ UNCHANGED <<gNow, gCalls, gEarlier, gPeerAt>>
\* A step that places a call.
Books(peer, how, retry) ==
  LET n == Len(gCalls) + 1
  IN  /\ Len(gCalls') = n /\ \A i \in 1..Len(gCalls) : gCalls'[i] = gCalls[i]
      /\ gCalls'[n].peer = peer /\ gCalls'[n].at = gNow
      /\ gCalls'[n].how = how /\ gCalls'[n].retry = retry
      /\ UNCHANGED <<gNow, gEarlier>>
\* The call is the one that was dialled, or another.
Placed ==
  \/ /\ gDial # Gate!None /\ gDial' = Gate!None
     /\ Books(gDial.peer, IF gDial.asked THEN "asked" ELSE "unasked", gDial.retry)
     /\ gDialTimes' = gDialTimes \cup {Len(gCalls) + 1}
      /\ gPeerAt' = [gPeerAt EXCEPT ![gDial.peer] = gNow]
  \/ /\ \E peer : \E how \in {"late", "owner"} : Books(peer, how, FALSE)
     /\ UNCHANGED <<gDial, gDialTimes, gPeerAt>>
Restarts ==
  /\ gEarlier' = Len(gCalls) /\ gDial' = Gate!None /\ gDialTimes' = {} /\ UNCHANGED <<gNow, gCalls>>

GateMove ==
  \/ Waits
  \/ \E p \in Numbers, retry \in BOOLEAN :
       Starts(p, TRUE, retry) \/ (Gate!Evaluate(p) /\ Starts(p, FALSE, retry))
  \/ Placed \/ Restarts

\* Every step keeps the types, and is a move.
LEMMA GateTypesStep ==
  GateTypes /\ [Gate!Next]_(Gate!gateVars) => GateTypes' /\ GateMove
<1> SUFFICES ASSUME GateTypes, [Gate!Next]_(Gate!gateVars) PROVE GateTypes' /\ GateMove
    OBVIOUS
<1>1. /\ gNow \in 0..MaxTime /\ gBudget \in Gate!Budgets /\ gSaves \in 0..MaxSaves
      /\ gCalls \in Seq(CallRow) /\ gLine \in 0..Len(gCalls) /\ gEarlier \in 0..Len(gCalls)
      /\ gDial = Gate!None \/ gDial \in DialRow
      /\ gLate \in SUBSET Numbers /\ gPeerAt \in [Numbers -> 0..MaxTime \cup {-1}]
      /\ gDialTimes \in SUBSET ((gEarlier + 1)..Len(gCalls))
      /\ \A i \in 1..Len(gCalls) : gCalls[i].at <= gNow
      /\ Len(gCalls) \in Nat /\ MaxTime \in Nat /\ MaxSaves \in Nat /\ gNow \in Nat /\ gEarlier \in Nat
      /\ \A i \in 1..Len(gCalls) : gCalls[i] \in CallRow
    <2>1. /\ gNow \in 0..MaxTime /\ gBudget \in Gate!Budgets /\ gSaves \in 0..MaxSaves
          /\ gCalls \in Seq(CallRow) /\ gLine \in 0..Len(gCalls) /\ gEarlier \in 0..Len(gCalls)
          /\ gDial = Gate!None \/ gDial \in DialRow
          /\ gLate \in SUBSET Numbers /\ gPeerAt \in [Numbers -> 0..MaxTime \cup {-1}]
          /\ gDialTimes \in SUBSET ((gEarlier + 1)..Len(gCalls))
          /\ \A i \in 1..Len(gCalls) : gCalls[i].at <= gNow
        BY Zenon DEF GateTypes
    <2>2. Len(gCalls) \in Nat /\ \A i \in 1..Len(gCalls) : gCalls[i] \in CallRow
        BY <2>1
    <2>3. MaxTime \in Nat /\ MaxSaves \in Nat
        BY LimitsAssumption
    <2>4. gNow \in Nat /\ gEarlier \in Nat
        BY <2>1, <2>2, <2>3
    <2> QED BY <2>1, <2>2, <2>3, <2>4, Zenon
<1>same. ASSUME UNCHANGED gCalls PROVE SameRows(gCalls, gCalls')
    BY <1>same DEF SameRows
<1>2. CASE Gate!Tick
    <2>1. gNow < MaxTime /\ gNow' = gNow + 1
          /\ UNCHANGED <<gBudget, gDial, gLate, gCalls, gLine,
                         gDialTimes, gPeerAt, gSaves, gPaused, gEarlier>>
        BY <1>2 DEF Gate!Tick
    <2>2. gNow' \in 0..MaxTime /\ gNow' >= gNow /\ \A i \in 1..Len(gCalls) : gCalls[i].at <= gNow'
        BY <1>1, <2>1, SMT DEF CallRow
    <2>3. Waits
        BY <1>1, <1>same, <2>1, <2>2 DEF Waits
    <2> QED BY <1>1, <2>1, <2>2, <2>3 DEF GateTypes, GateMove
<1>3. CASE Gate!Save
    <2>1. /\ gSaves < MaxSaves /\ gSaves' = gSaves + 1 /\ gBudget' \in Gate!Budgets
          /\ UNCHANGED <<gNow, gDial, gLate, gCalls, gLine, gDialTimes, gPeerAt, gEarlier>>
        BY <1>3 DEF Gate!Save, Gate!SavedWith
    <2>2. gSaves' \in 0..MaxSaves
        BY <1>1, <2>1, SMT
    <2>3. Waits
        BY <1>1, <1>same, <2>1 DEF Waits
    <2> QED BY <1>1, <2>1, <2>2, <2>3 DEF GateTypes, GateMove
<1>4. ASSUME NEW p \in Numbers, NEW ask \in BOOLEAN, NEW retry \in BOOLEAN, Gate!Begins(p, ask, retry)
      PROVE  GateTypes' /\ Starts(p, ask, retry)
    <2>1. /\ gDial = Gate!None /\ Gate!CheckRateLimit(p, retry)
          /\ gDial' = [peer |-> p, asked |-> ask, retry |-> retry,
                       stage |-> IF ask THEN "approval" ELSE "sent"]
          /\ gDialTimes' = Gate!Recent
          /\ UNCHANGED <<gNow, gBudget, gLate, gCalls, gLine, gPeerAt, gSaves, gPaused, gEarlier>>
        BY <1>4 DEF Gate!Begins
    <2>2. gDial' \in DialRow /\ gDial'.peer = p /\ gDial'.asked = ask /\ gDial'.retry = retry
        BY <2>1 DEF DialRow
    <2>3. gDialTimes' \in SUBSET gDialTimes
        BY <2>1 DEF Gate!Recent
    <2>4. Starts(p, ask, retry)
        BY <2>1, <2>2 DEF Starts
    <2> QED BY <1>1, <2>1, <2>2, <2>3, <2>4 DEF GateTypes
<1>5. ASSUME NEW p \in Numbers, NEW retry \in BOOLEAN, Gate!TaskDials(p, retry)
      PROVE  GateTypes' /\ GateMove
    <2>1. CASE Gate!Evaluate(p)
        <3>1. Gate!Begins(p, FALSE, retry)
            BY <1>5, <2>1, Zenon DEF Gate!TaskDials
        <3> QED BY <1>4, <2>1, <3>1 DEF GateMove
    <2>2. CASE ~Gate!Evaluate(p)
        <3>1. Gate!Begins(p, TRUE, retry)
            BY <1>5, <2>2, Zenon DEF Gate!TaskDials
        <3> QED BY <1>4, <3>1 DEF GateMove
    <2> QED BY <2>1, <2>2
<1>6. ASSUME NEW p \in Numbers, Gate!ClientDials(p) PROVE GateTypes' /\ GateMove
    BY <1>4, <1>6 DEF Gate!ClientDials, GateMove
<1>7. ASSUME NEW b \in BOOLEAN, Gate!Decided(b) PROVE GateTypes' /\ GateMove
    <2>1. /\ gDial # Gate!None /\ gDial' = IF b THEN [gDial EXCEPT !.stage = "sent"] ELSE Gate!None
          /\ UNCHANGED <<gNow, gBudget, gLate, gCalls, gLine,
                         gDialTimes, gPeerAt, gSaves, gPaused, gEarlier>>
        BY <1>7 DEF Gate!Decided
    <2>2. gDial' = Gate!None \/ (/\ gDial' \in DialRow /\ gDial'.peer = gDial.peer
                                 /\ gDial'.asked = gDial.asked /\ gDial'.retry = gDial.retry)
        BY <1>1, <2>1 DEF DialRow
    <2>3. Waits
        BY <1>1, <1>same, <2>1, <2>2 DEF Waits
    <2> QED BY <1>1, <2>1, <2>2, <2>3 DEF GateTypes, GateMove
<1>8. ASSUME NEW b \in BOOLEAN, Gate!Fails(b) PROVE GateTypes' /\ GateMove
    <2>1. /\ gDial # Gate!None /\ gDial' = Gate!None /\ gLate' = IF b THEN {gDial.peer} ELSE gLate
          /\ UNCHANGED <<gNow, gBudget, gCalls, gLine, gDialTimes, gPeerAt, gSaves, gPaused, gEarlier>>
        BY <1>8 DEF Gate!Fails
    <2>2. gLate' \in SUBSET Numbers
        BY <1>1, <2>1 DEF DialRow
    <2>3. Waits
        BY <1>1, <1>same, <2>1 DEF Waits
    <2> QED BY <1>1, <2>1, <2>2, <2>3 DEF GateTypes, GateMove
\* The row that is added, whoever placed the call.
<1>9. ASSUME NEW p \in Numbers, NEW how \in {"asked", "unasked", "late", "owner"}, NEW retry \in BOOLEAN,
             Gate!Places(p, how, retry), UNCHANGED <<gNow, gEarlier>>
      PROVE  /\ gCalls' \in Seq(CallRow) /\ gLine' \in 0..Len(gCalls') /\ gEarlier' \in 0..Len(gCalls')
             /\ \A i \in 1..Len(gCalls') : gCalls'[i].at <= gNow'
             /\ Books(p, how, retry) /\ Len(gCalls') = Len(gCalls) + 1 /\ gLine' = Len(gCalls) + 1
    <2> DEFINE new == [peer |-> p, at |-> gNow, lasted |-> 0, how |-> how, retry |-> retry]
    <2>1. gCalls' = Append(gCalls, new) /\ gLine' = Len(gCalls) + 1
        BY <1>9 DEF Gate!Places
    <2>2. new \in CallRow /\ new.peer = p /\ new.at = gNow /\ new.how = how /\ new.retry = retry
        BY <1>1 DEF CallRow
    <2> HIDE DEF new
    <2>3. /\ gCalls' \in Seq(CallRow) /\ Len(gCalls') = Len(gCalls) + 1
          /\ \A i \in 1..Len(gCalls) : gCalls'[i] = gCalls[i]
          /\ gCalls'[Len(gCalls) + 1] = new
        BY <1>1, <2>1, <2>2
    <2>4. \A i \in 1..Len(gCalls') : gCalls'[i].at <= gNow'
        <3>1. \A i \in 1..Len(gCalls') : i \in 1..Len(gCalls) \/ i = Len(gCalls) + 1
            BY <1>1, <2>3, SMT
        <3>2. gNow <= gNow
            BY <1>1
        <3> QED BY <1>1, <1>9, <2>2, <2>3, <3>1, <3>2, Zenon
    <2> QED BY <1>1, <1>9, <2>1, <2>2, <2>3, <2>4 DEF Books
<1>10. CASE Gate!Answered
    <2>1. /\ gDial # Gate!None
          /\ Gate!Places(gDial.peer, IF gDial.asked THEN "asked" ELSE "unasked", gDial.retry)
          /\ gDialTimes' = gDialTimes \cup {gLine'} /\ gPeerAt' = [gPeerAt EXCEPT ![gDial.peer] = gNow]
          /\ gDial' = Gate!None /\ UNCHANGED <<gNow, gBudget, gEarlier, gLate, gSaves>>
        BY <1>10 DEF Gate!Answered
    <2>2. gDial.peer \in Numbers /\ gDial.retry \in BOOLEAN
        BY <1>1, <2>1 DEF DialRow
    <2>3. /\ gCalls' \in Seq(CallRow) /\ gLine' \in 0..Len(gCalls') /\ gEarlier' \in 0..Len(gCalls')
          /\ \A i \in 1..Len(gCalls') : gCalls'[i].at <= gNow'
          /\ Books(gDial.peer, IF gDial.asked THEN "asked" ELSE "unasked", gDial.retry)
          /\ Len(gCalls') = Len(gCalls) + 1 /\ gLine' = Len(gCalls) + 1
        BY <1>9, <2>1, <2>2
    <2>4. /\ gDialTimes' \in SUBSET ((gEarlier' + 1)..Len(gCalls'))
          /\ gPeerAt' \in [Numbers -> 0..MaxTime \cup {-1}]
        <3>1. gDialTimes' \in SUBSET ((gEarlier + 1)..(Len(gCalls) + 1))
            <4>1. gEarlier \in Nat /\ Len(gCalls) \in Nat /\ gEarlier <= Len(gCalls)
                BY <1>1
            <4>2. /\ gDialTimes \in SUBSET ((gEarlier + 1)..Len(gCalls))
                  /\ gDialTimes' = gDialTimes \cup {Len(gCalls) + 1}
                BY <1>1, <2>1, <2>3
            <4>3. ASSUME NEW x \in gDialTimes PROVE x \in (gEarlier + 1)..(Len(gCalls) + 1)
                <5>1. x \in (gEarlier + 1)..Len(gCalls)
                    BY <4>2
                <5> QED BY <4>1, <5>1, SMT
            <4>4. Len(gCalls) + 1 \in (gEarlier + 1)..(Len(gCalls) + 1)
                BY <4>1, SMT
            <4> QED BY <4>2, <4>3, <4>4, Zenon
        <3>2. gPeerAt' \in [Numbers -> 0..MaxTime \cup {-1}]
            BY <1>1, <2>1, <2>2
        <3> QED BY <2>1, <2>3, <3>1, <3>2
    <2>5. Placed
        BY <2>1, <2>3 DEF Placed
    <2> QED BY <1>1, <2>1, <2>3, <2>4, <2>5 DEF GateTypes, GateMove
<1>11. ASSUME NEW p \in Numbers, NEW how \in {"late", "owner"}, Gate!Places(p, how, FALSE),
              gLate' \in SUBSET Numbers,
              UNCHANGED <<gNow, gBudget, gDial, gDialTimes, gPeerAt, gSaves, gEarlier>>
       PROVE  GateTypes' /\ GateMove
    <2>1. /\ gCalls' \in Seq(CallRow) /\ gLine' \in 0..Len(gCalls') /\ gEarlier' \in 0..Len(gCalls')
          /\ \A i \in 1..Len(gCalls') : gCalls'[i].at <= gNow'
          /\ Books(p, how, FALSE) /\ Len(gCalls') = Len(gCalls) + 1
        BY <1>9, <1>11
    <2>2. gDialTimes' \in SUBSET ((gEarlier' + 1)..Len(gCalls'))
        BY <1>1, <1>11, <2>1
    <2>3. Placed
        BY <1>11, <2>1 DEF Placed
    <2> QED BY <1>1, <1>11, <2>1, <2>2, <2>3 DEF GateTypes, GateMove
<1>12. CASE Gate!LateCall
    <2>1. PICK p \in gLate : Gate!Places(p, "late", FALSE)
        BY <1>12 DEF Gate!LateCall
    <2> QED BY <1>1, <1>11, <1>12, <2>1 DEF Gate!LateCall
<1>13. CASE Gate!OwnerDials
    <2>1. (CHOOSE p \in Numbers : TRUE) \in Numbers
        BY LimitsAssumption
    <2> QED BY <1>1, <1>11, <1>13, <2>1 DEF Gate!OwnerDials
<1>14. CASE Gate!CallEnds
    <2>1. /\ gLine # 0 /\ gLine' = 0
          /\ gCalls' = [gCalls EXCEPT ![gLine].lasted = IF gNow > gCalls[gLine].at THEN 1 ELSE 0]
          /\ UNCHANGED <<gNow, gBudget, gDial, gLate, gDialTimes, gPeerAt, gSaves, gPaused, gEarlier>>
        BY <1>14 DEF Gate!CallEnds
    <2>2. gLine \in 1..Len(gCalls) /\ gCalls[gLine] \in CallRow
        BY <1>1, <2>1
    <2>3. PICK s \in CallRow : /\ gCalls' = [gCalls EXCEPT ![gLine] = s]
                               /\ s.peer = gCalls[gLine].peer /\ s.at = gCalls[gLine].at
                               /\ s.how = gCalls[gLine].how /\ s.retry = gCalls[gLine].retry
        <3>1. PICK k \in 0..1 : gCalls' = [gCalls EXCEPT ![gLine].lasted = k]
            <4>1. (IF gNow > gCalls[gLine].at THEN 1 ELSE 0) \in 0..1
                BY SMT
            <4> QED BY <2>1, <4>1, Zenon
        <3>2. /\ [gCalls[gLine] EXCEPT !.lasted = k] \in CallRow
              /\ [gCalls[gLine] EXCEPT !.lasted = k].peer = gCalls[gLine].peer
              /\ [gCalls[gLine] EXCEPT !.lasted = k].at = gCalls[gLine].at
              /\ [gCalls[gLine] EXCEPT !.lasted = k].how = gCalls[gLine].how
              /\ [gCalls[gLine] EXCEPT !.lasted = k].retry = gCalls[gLine].retry
            BY <2>2 DEF CallRow
        <3> QED BY <3>1, <3>2
    <2>4. gCalls' \in Seq(CallRow) /\ Len(gCalls') = Len(gCalls)
          /\ \A i \in 1..Len(gCalls) : gCalls'[i] = IF i = gLine THEN s ELSE gCalls[i]
        BY <1>1, <2>2, <2>3
    <2>5. SameRows(gCalls, gCalls')
        BY <2>3, <2>4 DEF SameRows
    <2>6. \A i \in 1..Len(gCalls') : gCalls'[i].at <= gNow
        BY <1>1, <2>4, <2>5 DEF SameRows
    <2>7. Waits
        BY <1>1, <2>1, <2>5 DEF Waits
    <2> QED BY <1>1, <2>1, <2>4, <2>6, <2>7 DEF GateTypes, GateMove
<1>15. CASE Gate!Restart
    <2>1. /\ gEarlier' = Len(gCalls) /\ gDial' = Gate!None /\ gLate' = {} /\ gLine' = 0
          /\ gDialTimes' = {} /\ gPeerAt' = [p \in Numbers |-> -1]
          /\ UNCHANGED <<gNow, gBudget, gCalls, gSaves, gPaused>>
        BY <1>15 DEF Gate!Restart
    <2>2. Restarts
        BY <2>1 DEF Restarts
    <2> QED BY <1>1, <2>1, <2>2 DEF GateTypes, GateMove
<1>16. CASE UNCHANGED Gate!gateVars
    <2>1. UNCHANGED <<gNow, gBudget, gDial, gLate, gCalls, gLine, gDialTimes,
                      gPeerAt, gSaves, gPaused, gEarlier>>
        BY <1>16 DEF Gate!gateVars
    <2>2. Waits
        BY <1>1, <1>same, <2>1 DEF Waits
    <2> QED BY <1>1, <2>1, <2>2 DEF GateTypes, GateMove
<1> QED BY <1>2, <1>3, <1>5, <1>6, <1>7, <1>8, <1>10, <1>12, <1>13, <1>14, <1>15, <1>16
           DEF Gate!Next

\* The unasked calls of a day, and those of this life of the application that
\* were asked of it.
UnaskedOn(c, d) == {i \in 1..Len(c) : Gate!Day(c[i].at) = d /\ c[i].how = "unasked"}
ManagedOf(c, e) == {i \in (e + 1)..Len(c) : c[i].how \in {"asked", "unasked"}}

\* While an unasked dial is in progress its day has room for it.
DayInv ==
  /\ \A d \in Nat : Cardinality(UnaskedOn(gCalls, d)) <= DailyMax
  /\ (gDial # Gate!None /\ ~gDial.asked) => Cardinality(UnaskedOn(gCalls, Gate!Day(gNow))) < DailyMax

\* The operator of FiniteSets under the name the instance has for it.
LEMMA SameCardinality == ASSUME NEW S PROVE Gate!Cardinality(S) = Cardinality(S)
BY Zenon DEF Gate!Cardinality, Cardinality

\* What the rows of the calls are made of, and the day each is of.
LEMMA RowsGive ==
  ASSUME GateTypes
  PROVE  /\ gNow \in Nat /\ Len(gCalls) \in Nat /\ gEarlier \in 0..Len(gCalls)
         /\ \A i \in 1..Len(gCalls) : /\ gCalls[i].at \in Nat /\ gCalls[i].at <= gNow
                                      /\ gCalls[i].peer \in Numbers /\ gCalls[i].retry \in BOOLEAN
         /\ \A d : UnaskedOn(gCalls, d) \in SUBSET (1..Len(gCalls))
         /\ Gate!Day(gNow) \in Nat
         /\ \A i \in 1..Len(gCalls) : Gate!Day(gCalls[i].at) \in Nat
<1>1. /\ gNow \in 0..MaxTime /\ MaxTime \in Nat /\ gCalls \in Seq(CallRow) /\ gEarlier \in 0..Len(gCalls)
      /\ \A i \in 1..Len(gCalls) : gCalls[i].at <= gNow
    BY LimitsAssumption DEF GateTypes
<1>2. Len(gCalls) \in Nat /\ \A i \in 1..Len(gCalls) : gCalls[i] \in CallRow
    BY <1>1
<1>3. gNow \in Nat /\ \A i \in 1..Len(gCalls) : /\ gCalls[i].at \in Nat /\ gCalls[i].peer \in Numbers
                                                /\ gCalls[i].retry \in BOOLEAN
    BY <1>1, <1>2, SMT DEF CallRow
<1>4. Gate!Day(gNow) \in Nat /\ \A i \in 1..Len(gCalls) : Gate!Day(gCalls[i].at) \in Nat
    BY <1>3, LimitsAssumption, DivisionIs DEF Gate!Day
<1> QED BY <1>1, <1>2, <1>3, <1>4 DEF UnaskedOn

\* No move takes a day over its limit.
LEMMA DayStep ==
  ASSUME GateTypes, GateTypes', GateMove, DayInv
  PROVE  DayInv'
<1>1. /\ gNow \in Nat /\ Len(gCalls) \in Nat /\ DailyMax \in Nat
      /\ \A i \in 1..Len(gCalls) : gCalls[i].at \in Nat /\ gCalls[i].at <= gNow
      /\ \A d : UnaskedOn(gCalls, d) \in SUBSET (1..Len(gCalls))
      /\ \A d : Cardinality(UnaskedOn(gCalls, d)) \in Nat
      /\ \A d \in Nat : Cardinality(UnaskedOn(gCalls, d)) <= DailyMax
      /\ (gDial # Gate!None /\ ~gDial.asked) => Cardinality(UnaskedOn(gCalls, Gate!Day(gNow))) < DailyMax
      /\ Gate!Day(gNow) \in Nat
    BY RowsGive, FewerRows, LimitsAssumption DEF DayInv
<1>2. CASE Waits
    <2>1. /\ SameRows(gCalls, gCalls') /\ gNow' \in Nat /\ gNow' >= gNow
          /\ gDial' # Gate!None => gDial # Gate!None /\ gDial'.asked = gDial.asked
        BY <1>2 DEF Waits
    <2>2. \A d : UnaskedOn(gCalls', d) = UnaskedOn(gCalls, d)
        BY <2>1 DEF UnaskedOn, SameRows
    <2>3. ASSUME gDial # Gate!None, ~gDial.asked
          PROVE  Cardinality(UnaskedOn(gCalls, Gate!Day(gNow'))) < DailyMax
        <3>1. CASE Gate!Day(gNow') = Gate!Day(gNow)
            BY <1>1, <2>3, <3>1
        <3>2. CASE Gate!Day(gNow') # Gate!Day(gNow)
            <4>1. \A i \in 1..Len(gCalls) : Gate!Day(gCalls[i].at) <= Gate!Day(gNow)
                BY <1>1, LimitsAssumption, DivisionGrows DEF Gate!Day
            <4>2. Gate!Day(gNow') > Gate!Day(gNow)
                <5>1. Gate!Day(gNow') >= Gate!Day(gNow) /\ Gate!Day(gNow') \in Nat
                    BY <1>1, <2>1, LimitsAssumption, DivisionGrows, DivisionIs DEF Gate!Day
                <5> QED BY <1>1, <3>2, <5>1, SMT
            <4>3. \A i \in 1..Len(gCalls) : Gate!Day(gCalls[i].at) # Gate!Day(gNow')
                <5>1. \A i \in 1..Len(gCalls) : Gate!Day(gCalls[i].at) \in Nat
                    BY RowsGive
                <5>2. Gate!Day(gNow') \in Nat
                    BY <2>1, LimitsAssumption, DivisionIs DEF Gate!Day
                <5> QED BY <1>1, <4>1, <4>2, <5>1, <5>2, SMT
            <4>4. UnaskedOn(gCalls, Gate!Day(gNow')) = {}
                BY <4>3, Zenon DEF UnaskedOn
            <4>5. Cardinality(UnaskedOn(gCalls, Gate!Day(gNow))) < DailyMax
                BY <1>1, <2>3
            <4> QED BY <1>1, <4>4, <4>5, FS_EmptySet
        <3> QED BY <3>1, <3>2
    <2>4. Gate!Day(gNow)' = Gate!Day(gNow')
        BY DEF Gate!Day
    <2> QED BY <1>1, <2>1, <2>2, <2>3, <2>4 DEF DayInv
<1>3. ASSUME NEW p \in Numbers, NEW retry \in BOOLEAN, Starts(p, TRUE, retry) PROVE DayInv'
    BY <1>1, <1>3 DEF Starts, DayInv
<1>4. ASSUME NEW p \in Numbers, NEW retry \in BOOLEAN, Gate!Evaluate(p), Starts(p, FALSE, retry)
      PROVE  DayInv'
    <2>1. UNCHANGED <<gNow, gCalls>>
        BY <1>4 DEF Starts
    <2>2. Cardinality(Gate!Today) < gBudget.dailyMaxCalls
        <3>1. Gate!DailyUsage.calls < gBudget.dailyMaxCalls
            BY <1>4 DEF Gate!Evaluate
        <3>2. Gate!DailyUsage.calls = Gate!Cardinality(Gate!Today)
            BY Zenon DEF Gate!DailyUsage
        <3> QED BY <3>1, <3>2, SameCardinality
    <2>3. gBudget.dailyMaxCalls = DailyMax
        BY DEF GateTypes, Gate!Budgets
    <2>4. DOMAIN gCalls = 1..Len(gCalls)
        BY DEF GateTypes
    <2>5. Gate!Today \in SUBSET (1..Len(gCalls)) /\ UnaskedOn(gCalls, Gate!Day(gNow)) \subseteq Gate!Today
        <3>1. \A i \in 1..Len(gCalls) :
                Gate!Day(gCalls[i].at) = Gate!Day(gNow) => gCalls[i].at >= Gate!Day(gNow) * DayLength
            <4>1. \A i \in 1..Len(gCalls) : Gate!Day(gCalls[i].at) * DayLength <= gCalls[i].at
                BY <1>1, LimitsAssumption, DivisionIs DEF Gate!Day
            <4>2. \A i \in 1..Len(gCalls) : Gate!Day(gCalls[i].at) \in Nat
                BY RowsGive
            <4> QED BY <1>1, <4>1, <4>2, LimitsAssumption
        <3> QED BY <2>4, <3>1 DEF Gate!Today, UnaskedOn
    <2>6. Cardinality(UnaskedOn(gCalls, Gate!Day(gNow))) < DailyMax
        <3>1. /\ Cardinality(UnaskedOn(gCalls, Gate!Day(gNow))) <= Cardinality(Gate!Today)
              /\ Cardinality(Gate!Today) \in Nat
            BY <1>1, <2>5, FewerRows
        <3> QED BY <1>1, <2>2, <2>3, <3>1
    <2> QED BY <1>1, <2>1, <2>6 DEF DayInv, Gate!Day
<1>5. CASE Placed
    <2> DEFINE n == Len(gCalls) + 1
               unasked == gCalls'[n].how = "unasked"
    <2>1. /\ Len(gCalls') = n /\ \A i \in 1..Len(gCalls) : gCalls'[i] = gCalls[i]
          /\ gCalls'[n].at = gNow /\ gNow' = gNow
          /\ unasked => gDial # Gate!None /\ ~gDial.asked /\ gDial' = Gate!None
          /\ gDial' = Gate!None \/ gDial' = gDial
        <3>1. CASE /\ gDial # Gate!None /\ gDial' = Gate!None
                   /\ Books(gDial.peer, IF gDial.asked THEN "asked" ELSE "unasked", gDial.retry)
            BY <3>1 DEF Books
        <3>2. ASSUME NEW p, NEW how \in {"late", "owner"}, Books(p, how, FALSE), gDial' = gDial
              PROVE  <2>1!:
            BY <3>2 DEF Books
        <3> QED BY <1>5, <3>1, <3>2 DEF Placed
    <2>2. \A i : i \in 1..Len(gCalls') <=> i \in 1..Len(gCalls) \/ i = n
        <3>1. Len(gCalls) \in Nat /\ Len(gCalls') = Len(gCalls) + 1
            BY <1>1, <2>1
        <3> QED BY <3>1, SMT
    <2>3. n \notin 1..Len(gCalls)
        BY <1>1, SMT
    <2> HIDE DEF n
    <2>4. \A d : UnaskedOn(gCalls', d) \subseteq UnaskedOn(gCalls, d) \cup {n}
        BY <2>1, <2>2 DEF UnaskedOn
    <2>5. \A d : (~unasked \/ d # Gate!Day(gNow)) => UnaskedOn(gCalls', d) = UnaskedOn(gCalls, d)
        BY <2>1, <2>2, <2>3, Zenon DEF UnaskedOn
    <2>6. ASSUME unasked PROVE DayInv'
        <3>1. Cardinality(UnaskedOn(gCalls, Gate!Day(gNow))) < DailyMax
            BY <1>1, <2>1, <2>6
        <3>2. /\ Cardinality(UnaskedOn(gCalls', Gate!Day(gNow)))
                   <= Cardinality(UnaskedOn(gCalls, Gate!Day(gNow))) + 1
              /\ Cardinality(UnaskedOn(gCalls', Gate!Day(gNow))) \in Nat
            <4>1. UnaskedOn(gCalls', Gate!Day(gNow)) \in SUBSET (1..Len(gCalls')) /\ Len(gCalls') \in Nat
                BY <1>1, <2>1 DEF UnaskedOn, n
            <4> QED BY <1>1, <2>4, <4>1, FewerRows
        <3>3. Cardinality(UnaskedOn(gCalls', Gate!Day(gNow))) <= DailyMax
            BY <1>1, <3>1, <3>2, SMT
        <3>4. \A d \in Nat : Cardinality(UnaskedOn(gCalls', d)) <= DailyMax
            BY <1>1, <2>5, <3>3
        <3> QED BY <2>1, <2>6, <3>4 DEF DayInv
    <2>7. ASSUME ~unasked PROVE DayInv'
        BY <1>1, <2>1, <2>5, <2>7 DEF DayInv, Gate!Day
    <2> QED BY <2>6, <2>7
<1>6. CASE Restarts
    BY <1>1, <1>6 DEF Restarts, DayInv
<1> QED BY <1>2, <1>3, <1>4, <1>5, <1>6 DEF GateMove

\* What began in the last minute is among the dials that are counted, which
\* have room while one is in progress; and a number's last dial is known.
RateInv ==
  /\ \A i \in ManagedOf(gCalls, gEarlier) :
       /\ gCalls[i].at >= gNow - Minute => i \in gDialTimes
       /\ gPeerAt[gCalls[i].peer] >= gCalls[i].at
       /\ Cardinality({j \in ManagedOf(gCalls, gEarlier) :
                         gCalls[j].at \in gCalls[i].at..(gCalls[i].at + Minute)}) <= MaxPerMinute
  /\ \A i, j \in ManagedOf(gCalls, gEarlier) :
       (i < j /\ gCalls[i].peer = gCalls[j].peer /\ gCalls[j].at < gCalls[i].at + Cooldown)
         => gCalls[j].retry
  /\ gDial # Gate!None =>
       /\ Cardinality({i \in gDialTimes : gCalls[i].at >= gNow - Minute}) < MaxPerMinute
       /\ gDial.peer \in Numbers
       /\ ~gDial.retry => \A i \in ManagedOf(gCalls, gEarlier) :
                            gCalls[i].peer = gDial.peer => gCalls[i].at + Cooldown <= gNow

\* No move takes a minute over its limit, or comes too soon for a number.
LEMMA RateStep ==
  ASSUME GateTypes, GateTypes', GateMove, RateInv
  PROVE  RateInv'
<1> DEFINE M == ManagedOf(gCalls, gEarlier)
<1>1. /\ gNow \in Nat /\ Len(gCalls) \in Nat /\ gEarlier \in 0..Len(gCalls)
      /\ Minute \in Nat /\ Cooldown \in Nat /\ MaxPerMinute \in Nat
      /\ \A i \in 1..Len(gCalls) : /\ gCalls[i].at \in Nat /\ gCalls[i].at <= gNow
                                   /\ gCalls[i].peer \in Numbers
      /\ gDialTimes \in SUBSET ((gEarlier + 1)..Len(gCalls))
      /\ gPeerAt \in [Numbers -> 0..MaxTime \cup {-1}]
    BY RowsGive, LimitsAssumption DEF GateTypes
<1>2. M \in SUBSET (1..Len(gCalls)) /\ gDialTimes \in SUBSET (1..Len(gCalls))
    BY <1>1, SMT DEF ManagedOf
<1>3. CASE Waits
    <2>1. /\ SameRows(gCalls, gCalls') /\ gNow' \in Nat /\ gNow' >= gNow
          /\ UNCHANGED <<gEarlier, gDialTimes, gPeerAt>>
          /\ gDial' # Gate!None => (/\ gDial # Gate!None /\ gDial'.peer = gDial.peer
                                    /\ gDial'.retry = gDial.retry)
        BY <1>3 DEF Waits
    <2>2. \A i \in 1..Len(gCalls) : /\ gCalls'[i].at = gCalls[i].at /\ gCalls'[i].peer = gCalls[i].peer
                                    /\ gCalls'[i].retry = gCalls[i].retry /\ gCalls'[i].how = gCalls[i].how
        BY <2>1 DEF SameRows
    <2>3. ManagedOf(gCalls', gEarlier') = M
        <3>1. Len(gCalls') = Len(gCalls)
            BY <2>1 DEF SameRows
        <3>2. \A i \in (gEarlier + 1)..Len(gCalls) : i \in 1..Len(gCalls)
            BY <1>1, SMT
        <3> QED BY <2>1, <2>2, <3>1, <3>2, Zenon DEF ManagedOf
    <2>4. ASSUME NEW i \in M
          PROVE  /\ gCalls'[i].at >= gNow' - Minute => i \in gDialTimes'
                 /\ gPeerAt'[gCalls'[i].peer] >= gCalls'[i].at
                 /\ Cardinality({j \in M : gCalls'[j].at \in gCalls'[i].at..(gCalls'[i].at + Minute)})
                      <= MaxPerMinute
        <3>1. {j \in M : gCalls'[j].at \in gCalls'[i].at..(gCalls'[i].at + Minute)}
                = {j \in M : gCalls[j].at \in gCalls[i].at..(gCalls[i].at + Minute)}
            BY <1>2, <2>2, Zenon
        <3>2. gCalls[i].at >= gNow' - Minute => gCalls[i].at >= gNow - Minute
            BY <1>1, <1>2, <2>1, SMT
        <3> QED BY <1>2, <2>1, <2>2, <3>1, <3>2 DEF RateInv
    <2>5. ASSUME NEW i \in M, NEW j \in M, i < j, gCalls'[i].peer = gCalls'[j].peer,
                 gCalls'[j].at < gCalls'[i].at + Cooldown
          PROVE  gCalls'[j].retry
        BY <1>2, <2>2, <2>5 DEF RateInv
    <2>6. ASSUME gDial' # Gate!None
          PROVE  /\ Cardinality({i \in gDialTimes' : gCalls'[i].at >= gNow' - Minute}) < MaxPerMinute
                 /\ gDial'.peer \in Numbers
                 /\ ~gDial'.retry => \A i \in M :
                       gCalls'[i].peer = gDial'.peer => gCalls'[i].at + Cooldown <= gNow'
        <3> DEFINE new == {i \in gDialTimes' : gCalls'[i].at >= gNow' - Minute}
                   old == {i \in gDialTimes : gCalls[i].at >= gNow - Minute}
        <3>1. Cardinality(old) < MaxPerMinute /\ gDial # Gate!None
            BY <2>1, <2>6 DEF RateInv
        <3>2. old \in SUBSET (1..Len(gCalls)) /\ new \in SUBSET old
            BY <1>1, <1>2, <2>1, <2>2
        <3> HIDE DEF new, old
        <3>3. Cardinality(new) <= Cardinality(old) /\ Cardinality(old) \in Nat /\ Cardinality(new) \in Nat
            <4>1. new \in SUBSET (1..Len(gCalls))
                BY <3>2
            <4> QED BY <1>1, <3>2, <4>1, FewerRows
        <3>4. Cardinality(new) < MaxPerMinute
            BY <1>1, <3>1, <3>3, SMT
        <3>5. gDial.peer \in Numbers /\ (~gDial.retry => \A i \in M :
                gCalls[i].peer = gDial.peer => gCalls[i].at + Cooldown <= gNow)
            BY <3>1 DEF RateInv
        <3> QED BY <1>1, <1>2, <2>1, <2>2, <2>6, <3>4, <3>5 DEF new
    <2> HIDE DEF M
    <2> QED BY <2>3, <2>4, <2>5, <2>6 DEF RateInv
<1>4. ASSUME NEW p \in Numbers, NEW ask, NEW retry, Starts(p, ask, retry) PROVE RateInv'
    <2>1. /\ gDial'.peer = p /\ gDial'.retry = retry /\ Gate!CheckRateLimit(p, retry)
          /\ gDialTimes' = Gate!Recent /\ UNCHANGED <<gNow, gCalls, gEarlier, gPeerAt>>
        BY <1>4 DEF Starts
    <2>2. gDialTimes' = {i \in gDialTimes : gCalls[i].at >= gNow - Minute}
        BY <2>1 DEF Gate!Recent
    <2>3. \A i \in M : gCalls[i].at >= gNow - Minute => i \in gDialTimes'
        BY <2>2 DEF RateInv
    <2>4. {i \in gDialTimes' : gCalls[i].at >= gNow - Minute} = gDialTimes'
        BY <2>2
    <2>5. Cardinality(gDialTimes') < MaxPerMinute
        BY <2>1, SameCardinality DEF Gate!CheckRateLimit
    <2>6. ASSUME ~retry, NEW i \in M, gCalls[i].peer = p PROVE gCalls[i].at + Cooldown <= gNow
        <3>1. gPeerAt[p] = -1 \/ gPeerAt[p] <= gNow - Cooldown
            BY <2>1, <2>6 DEF Gate!CheckRateLimit
        <3>2. gPeerAt[p] >= gCalls[i].at
            BY <2>6 DEF RateInv
        <3>3. gCalls[i].at \in Nat
            BY <1>1, <1>2, <2>6, Zenon
        <3>4. gPeerAt[p] \in 0..MaxTime \cup {-1} /\ MaxTime \in Nat
            BY <1>1, LimitsAssumption, Zenon
        <3>5. ASSUME NEW x \in Nat, NEW y \in Int, y = -1 \/ y <= gNow - Cooldown, y >= x
              PROVE  x + Cooldown <= gNow
            BY <1>1, <3>5, SMT
        <3>6. gPeerAt[p] \in Int
            BY <3>4, SMT
        <3> QED BY <3>1, <3>2, <3>3, <3>5, <3>6, Zenon
    <2> HIDE DEF M
    <2>7. M' = M
        BY <2>1 DEF M
    <2> QED BY <2>1, <2>3, <2>4, <2>5, <2>6, <2>7 DEF RateInv, M
\* A call that was dialled.
<1>5. ASSUME gDial # Gate!None, gDial' = Gate!None,
             Books(gDial.peer, IF gDial.asked THEN "asked" ELSE "unasked", gDial.retry),
             gDialTimes' = gDialTimes \cup {Len(gCalls) + 1},
             gPeerAt' = [gPeerAt EXCEPT ![gDial.peer] = gNow]
      PROVE  RateInv'
    <2> DEFINE n == Len(gCalls) + 1
               last == {i \in gDialTimes : gCalls[i].at >= gNow - Minute}
               near(t) == {j \in ManagedOf(gCalls', gEarlier') : gCalls'[j].at \in t..(t + Minute)}
    <2>1. /\ Len(gCalls') = n /\ \A i \in 1..Len(gCalls) : gCalls'[i] = gCalls[i]
          /\ gCalls'[n].peer = gDial.peer /\ gCalls'[n].at = gNow /\ gCalls'[n].retry = gDial.retry
          /\ gCalls'[n].how \in {"asked", "unasked"} /\ UNCHANGED <<gNow, gEarlier>>
        BY <1>5 DEF Books
    <2>2. n \in Nat /\ n \notin 1..Len(gCalls) /\ \A i \in 1..Len(gCalls) : i < n
        BY <1>1, SMT
    <2>3. \A i : i \in (gEarlier + 1)..n <=> i \in (gEarlier + 1)..Len(gCalls) \/ i = n
        <3>1. Len(gCalls) \in Nat /\ gEarlier \in 0..Len(gCalls)
            BY <1>1
        <3> QED BY <3>1, SMT
    <2> HIDE DEF n
    <2>4. ManagedOf(gCalls', gEarlier') = M \cup {n}
        <3>1. \A i \in (gEarlier + 1)..Len(gCalls) : gCalls'[i].how = gCalls[i].how
            <4>1. \A i \in (gEarlier + 1)..Len(gCalls) : i \in 1..Len(gCalls)
                BY <1>1, SMT
            <4> QED BY <2>1, <4>1
        <3>2. \A i : i \in ManagedOf(gCalls', gEarlier') <=> i \in M \/ i = n
            BY <2>1, <2>3, <3>1, Zenon DEF ManagedOf
        <3> QED BY <3>2
    <2>5. last \in SUBSET (1..Len(gCalls)) /\ Cardinality(last) < MaxPerMinute /\ gDial.peer \in Numbers
        BY <1>2, <1>5 DEF RateInv
    <2>6. \A i \in M : gCalls'[i] = gCalls[i]
        BY <1>2, <2>1
    <2> HIDE DEF M, last
    <2>7. ASSUME NEW t \in Nat, t + Minute >= gNow PROVE Cardinality(near(t)) <= MaxPerMinute
        <3>1. \A j \in M : gCalls[j].at \in t..(t + Minute) => j \in last
            <4>1. \A j \in M : gCalls[j].at \in t..(t + Minute) => gCalls[j].at >= gNow - Minute
                BY <1>1, <1>2, <2>7, SMT
            <4> QED BY <4>1 DEF RateInv, last, M
        <3>2. near(t) \subseteq last \cup {n}
            BY <2>4, <2>6, <3>1
        <3>3. near(t) \in SUBSET (1..n)
            <4>1. 1..Len(gCalls) \cup {n} \subseteq 1..n
                BY <1>1 DEF n
            <4> QED BY <1>2, <2>4, <4>1
        <3> HIDE DEF near
        <3>4. Cardinality(near(t)) <= Cardinality(last) + 1
            BY <1>1, <2>5, <3>2, FewerRows
        <3>5. Cardinality(last) \in Nat /\ Cardinality(near(t)) \in Nat
            <4>1. Cardinality(last) \in Nat
                BY <1>1, <2>5, FewerRows
            <4>2. Cardinality(near(t)) \in Nat
                BY <2>2, <3>3, FewerRows
            <4> QED BY <4>1, <4>2
        <3> QED BY <1>1, <2>5, <3>4, <3>5, SMT
    <2>8. ASSUME NEW i \in M PROVE Cardinality(near(gCalls'[i].at)) <= MaxPerMinute
        <3>1. gCalls'[i].at = gCalls[i].at /\ gCalls[i].at \in Nat
            BY <1>1, <1>2, <2>6
        <3>2. CASE gCalls[i].at + Minute >= gNow
            BY <2>7, <3>1, <3>2
        <3>3. CASE ~(gCalls[i].at + Minute >= gNow)
            <4>1. gCalls'[n].at \notin gCalls[i].at..(gCalls[i].at + Minute)
                BY <1>1, <2>1, <3>1, <3>3
            <4>2. near(gCalls[i].at) = {j \in M : gCalls[j].at \in gCalls[i].at..(gCalls[i].at + Minute)}
                BY <2>4, <2>6, <4>1, Zenon
            <4> QED BY <3>1, <4>2 DEF RateInv, M
        <3> QED BY <3>2, <3>3
    <2>9. Cardinality(near(gCalls'[n].at)) <= MaxPerMinute
        BY <1>1, <2>1, <2>7
    <2>10. ASSUME NEW i \in M \cup {n}
           PROVE  /\ gCalls'[i].at >= gNow' - Minute => i \in gDialTimes'
                  /\ gPeerAt'[gCalls'[i].peer] >= gCalls'[i].at
        <3>1. CASE i = n
            <4>1. gPeerAt'[gDial.peer] = gNow
                BY <1>1, <1>5, <2>5
            <4> QED BY <1>1, <1>5, <2>1, <3>1, <4>1 DEF n
        <3>2. CASE i \in M
            <4>1. gPeerAt'[gCalls[i].peer] = gNow \/ gPeerAt'[gCalls[i].peer] = gPeerAt[gCalls[i].peer]
                BY <1>1, <1>5
            <4>2. gPeerAt[gCalls[i].peer] >= gCalls[i].at /\ gCalls[i].at <= gNow
                BY <1>1, <1>2, <3>2 DEF RateInv, M
            <4>3. gCalls[i].at >= gNow - Minute => i \in gDialTimes
                BY <3>2 DEF RateInv, M
            <4>4. gNow >= gCalls[i].at
                BY <1>1, <1>2, <3>2, <4>2
            <4>5. gPeerAt'[gCalls[i].peer] >= gCalls[i].at
                BY <4>1, <4>2, <4>4
            <4> QED BY <1>5, <2>1, <2>6, <3>2, <4>3, <4>5
        <3> QED BY <3>1, <3>2
    <2>11. ASSUME NEW i \in M \cup {n}, NEW j \in M \cup {n}, i < j, gCalls'[i].peer = gCalls'[j].peer,
                  gCalls'[j].at < gCalls'[i].at + Cooldown
           PROVE  gCalls'[j].retry
        <3>1. i \in M
            BY <1>1, <1>2, <2>2, <2>11
        <3>2. CASE j \in M
            BY <2>6, <2>11, <3>1, <3>2 DEF RateInv, M
        <3>3. CASE j = n
            <4>1. gCalls[i].peer = gDial.peer /\ gNow < gCalls[i].at + Cooldown
                BY <2>1, <2>6, <2>11, <3>1, <3>3
            <4>2. ~gDial.retry => gCalls[i].at + Cooldown <= gNow
                BY <1>5, <3>1, <4>1 DEF RateInv, M
            <4>3. gCalls[i].at \in Nat
                BY <1>1, <1>2, <3>1
            <4>4. ~(gCalls[i].at + Cooldown <= gNow)
                BY <1>1, <4>1, <4>3, SMT
            <4>5. gDial.retry
                BY <4>2, <4>4
            <4> QED BY <2>1, <3>3, <4>5
        <3> QED BY <3>2, <3>3
    <2> QED BY <1>5, <2>4, <2>8, <2>9, <2>10, <2>11 DEF RateInv
\* Another call.
<1>6. ASSUME NEW p, NEW how \in {"late", "owner"}, Books(p, how, FALSE),
             UNCHANGED <<gDial, gDialTimes, gPeerAt>>
      PROVE  RateInv'
    <2> DEFINE n == Len(gCalls) + 1
               near(t) == {j \in ManagedOf(gCalls', gEarlier') : gCalls'[j].at \in t..(t + Minute)}
    <2>1. /\ Len(gCalls') = n /\ \A i \in 1..Len(gCalls) : gCalls'[i] = gCalls[i]
          /\ gCalls'[n].how \in {"late", "owner"} /\ UNCHANGED <<gNow, gEarlier>>
        BY <1>6 DEF Books
    <2>2. \A i : i \in (gEarlier + 1)..n <=> i \in (gEarlier + 1)..Len(gCalls) \/ i = n
        <3>1. Len(gCalls) \in Nat /\ gEarlier \in 0..Len(gCalls)
            BY <1>1
        <3> QED BY <3>1, SMT
    <2> HIDE DEF n
    <2>3. ManagedOf(gCalls', gEarlier') = M
        <3>1. \A i \in (gEarlier + 1)..Len(gCalls) : gCalls'[i].how = gCalls[i].how
            <4>1. \A i \in (gEarlier + 1)..Len(gCalls) : i \in 1..Len(gCalls)
                BY <1>1, SMT
            <4> QED BY <2>1, <4>1
        <3>2. gCalls'[n].how \notin {"asked", "unasked"}
            BY <2>1
        <3>3. \A i : i \in ManagedOf(gCalls', gEarlier') <=> i \in M
            BY <2>1, <2>2, <3>1, <3>2, Zenon DEF ManagedOf
        <3> QED BY <3>3
    <2>4. \A i \in M : gCalls'[i] = gCalls[i]
        BY <1>2, <2>1
    <2>5. \A i \in gDialTimes : gCalls'[i] = gCalls[i]
        BY <1>2, <2>1
    <2> HIDE DEF M
    <2>6. ASSUME NEW i \in M PROVE Cardinality(near(gCalls'[i].at)) <= MaxPerMinute
        <3>1. near(gCalls'[i].at) = {j \in M : gCalls[j].at \in gCalls[i].at..(gCalls[i].at + Minute)}
            BY <2>3, <2>4, Zenon
        <3> QED BY <3>1 DEF RateInv, M
    <2>7. {i \in gDialTimes' : gCalls'[i].at >= gNow' - Minute}
            = {i \in gDialTimes : gCalls[i].at >= gNow - Minute}
        BY <1>6, <2>1, <2>5, Zenon
    <2>8. ASSUME NEW i \in M
          PROVE  /\ gCalls'[i].at >= gNow' - Minute => i \in gDialTimes'
                 /\ gPeerAt'[gCalls'[i].peer] >= gCalls'[i].at
        BY <1>6, <2>1, <2>4 DEF RateInv, M
    <2>9. ASSUME NEW i \in M, NEW j \in M, i < j, gCalls'[i].peer = gCalls'[j].peer,
                 gCalls'[j].at < gCalls'[i].at + Cooldown
          PROVE  gCalls'[j].retry
        BY <2>4, <2>9 DEF RateInv, M
    <2>10. gDial' # Gate!None =>
             /\ Cardinality({i \in gDialTimes' : gCalls'[i].at >= gNow' - Minute}) < MaxPerMinute
             /\ gDial'.peer \in Numbers
             /\ ~gDial'.retry => \A i \in M :
                  gCalls'[i].peer = gDial'.peer => gCalls'[i].at + Cooldown <= gNow'
        BY <1>6, <2>1, <2>4, <2>7 DEF RateInv, M
    <2> QED BY <2>3, <2>6, <2>8, <2>9, <2>10 DEF RateInv
<1>7. CASE Restarts
    <2>1. gEarlier' = Len(gCalls) /\ gDial' = Gate!None /\ gCalls' = gCalls
        BY <1>7 DEF Restarts
    <2>2. (Len(gCalls) + 1)..Len(gCalls) = {}
        BY <1>1, SMT
    <2>3. ManagedOf(gCalls', gEarlier') = {}
        BY <2>1, <2>2, Zenon DEF ManagedOf
    <2> QED BY <2>1, <2>3 DEF RateInv
<1> QED BY <1>3, <1>4, <1>5, <1>6, <1>7 DEF GateMove, Placed

\* While the switch is on the unasked dial it found in progress counts: none
\* begins, and the call of that one is the last.
PauseInv ==
  /\ gPaused \in 0..1
  /\ gPaused = 1 => gBudget.killSwitch /\ (gDial = Gate!None \/ gDial.asked)

\* No step lets a second unasked call through the switch.
LEMMA PauseStep ==
  ASSUME GateTypes, PauseInv, [Gate!Next]_(Gate!gateVars)
  PROVE  PauseInv'
<1>1. gPaused \in 0..1 /\ (gPaused = 1 => gBudget.killSwitch /\ (gDial = Gate!None \/ gDial.asked))
    BY DEF PauseInv
<1>2. ASSUME UNCHANGED <<gPaused, gBudget>>,
             gDial' = Gate!None \/ gDial' = gDial \/ (gDial # Gate!None /\ gDial'.asked = gDial.asked)
      PROVE  PauseInv'
    BY <1>1, <1>2 DEF PauseInv
<1>3. CASE Gate!Tick \/ Gate!LateCall \/ Gate!OwnerDials \/ Gate!CallEnds \/ Gate!Restart
    BY <1>2, <1>3 DEF Gate!Tick, Gate!LateCall, Gate!OwnerDials, Gate!CallEnds, Gate!Restart
<1>4. CASE Gate!Save
    <2>1. PICK next \in Gate!Budgets, f \in Gate!Fields :
             /\ \A g \in DOMAIN next \ {f} : next[g] = gBudget[g]
             /\ gBudget' = next /\ gPaused' = IF f = "killSwitch" THEN 0 ELSE gPaused
        BY <1>4 DEF Gate!Save, Gate!SavedWith
    <2>2. gDial' = gDial
        BY <1>4 DEF Gate!Save
    <2>3. CASE f = "killSwitch"
        BY <2>1, <2>3 DEF PauseInv
    <2>4. CASE f # "killSwitch"
        <3>1. "killSwitch" \in DOMAIN next
            BY DEF Gate!Budgets
        <3>2. next.killSwitch = gBudget.killSwitch
            BY <2>1, <2>4, <3>1
        <3> QED BY <1>1, <2>1, <2>2, <2>4, <3>2 DEF PauseInv
    <2> QED BY <2>3, <2>4
<1>5. ASSUME NEW p \in Numbers, NEW retry \in BOOLEAN, Gate!TaskDials(p, retry) PROVE PauseInv'
    <2>1. ~gBudget.killSwitch /\ UNCHANGED <<gPaused, gBudget>>
        BY <1>5 DEF Gate!TaskDials, Gate!Begins
    <2> QED BY <1>1, <2>1 DEF PauseInv
<1>6. ASSUME NEW p \in Numbers, Gate!ClientDials(p) PROVE PauseInv'
    <2>1. gDial'.asked /\ UNCHANGED <<gPaused, gBudget>>
        BY <1>6 DEF Gate!ClientDials, Gate!Begins
    <2> QED BY <1>1, <2>1 DEF PauseInv
<1>7. ASSUME NEW b \in BOOLEAN, Gate!Decided(b) \/ Gate!Fails(b) PROVE PauseInv'
    <2>1. gDial # Gate!None => gDial \in DialRow
        BY DEF GateTypes
    <2>2. /\ UNCHANGED <<gPaused, gBudget>> /\ gDial # Gate!None
          /\ (gDial' = Gate!None \/ gDial' = [gDial EXCEPT !.stage = "sent"])
        BY <1>7, Zenon DEF Gate!Decided, Gate!Fails
    <2>3. [gDial EXCEPT !.stage = "sent"].asked = gDial.asked
        BY <2>1, <2>2 DEF DialRow
    <2> QED BY <1>2, <2>2, <2>3
<1>8. CASE Gate!Answered
    <2>1. /\ gDial # Gate!None /\ gDial' = Gate!None /\ gBudget' = gBudget
          /\ gPaused' = IF gBudget.killSwitch /\ ~gDial.asked THEN gPaused + 1 ELSE gPaused
        BY <1>8 DEF Gate!Answered
    <2>2. CASE gBudget.killSwitch /\ ~gDial.asked
        <3>1. gPaused = 0
            BY <1>1, <2>1, <2>2
        <3> QED BY <2>1, <2>2, <3>1 DEF PauseInv
    <2>3. CASE ~(gBudget.killSwitch /\ ~gDial.asked)
        <3>1. gPaused' = gPaused /\ gBudget' = gBudget /\ gDial' = Gate!None
            BY <2>1, <2>3, Zenon
        <3>2. gPaused \in 0..1 /\ (gPaused = 1 => gBudget.killSwitch)
            BY <1>1, Zenon
        <3> QED BY <3>1, <3>2, Zenon DEF PauseInv
    <2> QED BY <2>2, <2>3
<1>9. CASE UNCHANGED Gate!gateVars
    BY <1>2, <1>9 DEF Gate!gateVars
<1> QED BY <1>3, <1>4, <1>5, <1>6, <1>7, <1>8, <1>9 DEF Gate!Next

\* DialGate keeps its promise.
LEMMA GateSafe == Gate!Spec => [](Gate!TypeOK /\ Gate!DayIsKept /\ Gate!RateIsKept /\ Gate!PauseIsKept)
<1> DEFINE I == GateTypes /\ DayInv /\ RateInv /\ PauseInv
<1>1. Gate!Init => I
    <2> SUFFICES ASSUME Gate!Init PROVE I
        OBVIOUS
    <2>1. /\ gNow = 0 /\ gDial = Gate!None /\ gLate = {} /\ gCalls = <<>> /\ gLine = 0 /\ gDialTimes = {}
          /\ gPeerAt = [p \in Numbers |-> -1] /\ gSaves = 0 /\ gPaused = 0 /\ gEarlier = 0
          /\ gBudget \in Gate!Budgets
        BY DEF Gate!Init
    <2>2. Len(gCalls) = 0 /\ gCalls \in Seq(CallRow)
        BY <2>1
    <2>3. GateTypes
        BY <2>1, <2>2, LimitsAssumption DEF GateTypes
    <2>4. (\A d : UnaskedOn(gCalls, d) = {}) /\ ManagedOf(gCalls, gEarlier) = {}
        BY <2>1, <2>2 DEF UnaskedOn, ManagedOf
    <2>5. DayInv
        <3>1. Cardinality({}) = 0 /\ 0 <= DailyMax
            BY FS_EmptySet, LimitsAssumption
        <3> QED BY <2>1, <2>4, <3>1, Zenon DEF DayInv
    <2>6. RateInv
        BY <2>1, <2>4 DEF RateInv
    <2> QED BY <2>1, <2>3, <2>5, <2>6 DEF PauseInv
<1>2. I /\ [Gate!Next]_(Gate!gateVars) => I'
    BY GateTypesStep, DayStep, RateStep, PauseStep
<1>3. I => Gate!TypeOK /\ Gate!DayIsKept /\ Gate!RateIsKept /\ Gate!PauseIsKept
    <2> SUFFICES ASSUME I PROVE Gate!TypeOK /\ Gate!DayIsKept /\ Gate!RateIsKept /\ Gate!PauseIsKept
        OBVIOUS
    <2>1. gCalls \in Seq(CallRow) /\ DOMAIN gCalls = 1..Len(gCalls) /\ gBudget.dailyMaxCalls = DailyMax
        BY DEF GateTypes, Gate!Budgets
    <2>2. Gate!TypeOK
        <3>1. gDial = Gate!None \/ gDial.stage \in {"approval", "sent"}
            BY DEF GateTypes, DialRow
        <3>2. \A i \in DOMAIN gCalls : gCalls[i].how \in {"asked", "unasked", "late", "owner"}
            <4>1. \A i \in DOMAIN gCalls : gCalls[i] \in CallRow
                BY <2>1
            <4> QED BY <4>1 DEF CallRow
        <3> QED BY <3>1, <3>2 DEF GateTypes, Gate!TypeOK
    <2>3. Gate!DayIsKept
        <3>1. \A d \in {Gate!Day(gCalls[i].at) : i \in DOMAIN gCalls} : d \in Nat
            BY <2>1, RowsGive
        <3>2. \A d : {i \in DOMAIN gCalls : Gate!Day(gCalls[i].at) = d /\ gCalls[i].how = "unasked"}
                       = UnaskedOn(gCalls, d)
            BY <2>1, Zenon DEF UnaskedOn
        <3>3. \A d \in Nat : Cardinality(UnaskedOn(gCalls, d)) <= DailyMax
            BY DEF DayInv
        <3> QED BY <2>1, <3>1, <3>2, <3>3, SameCardinality, Zenon DEF Gate!DayIsKept
    <2>4. Gate!RateIsKept
        <3>1. Gate!Managed = ManagedOf(gCalls, gEarlier)
            BY DEF Gate!Managed, ManagedOf
        <3>2. \A i \in Gate!Managed :
                Cardinality({j \in Gate!Managed : gCalls[j].at \in gCalls[i].at..(gCalls[i].at + Minute)})
                  <= MaxPerMinute
            BY <3>1 DEF RateInv
        <3>3. \A i, j \in Gate!Managed :
                (i < j /\ gCalls[i].peer = gCalls[j].peer /\ gCalls[j].at < gCalls[i].at + Cooldown)
                  => gCalls[j].retry
            BY <3>1 DEF RateInv
        <3> QED BY <3>2, <3>3, SameCardinality, Zenon DEF Gate!RateIsKept
    <2>5. Gate!PauseIsKept
        BY DEF PauseInv, Gate!PauseIsKept
    <2> QED BY <2>2, <2>3, <2>4, <2>5
<1> QED BY <1>1, <1>2, <1>3, PTL DEF Gate!Spec

-----------------------------------------------------------------------------
(* The policy of a call *)

\* What is dialled was judged by the policy as it was saved, and what was
\* compiled was compiled from what was given.
RulesInv ==
  /\ rWritten \in Rules!Written
  /\ rPolicy = Rules!None \/ rPolicy = Rules!NormalizeCampaignPolicy(rWritten)
  /\ rDialled # Rules!None =>
       /\ rDialled.peer \in Rules!Spelled /\ rDialled.peer.as # "local"
       /\ rDialled.answer
            = Rules!EvaluateDialGuard(Rules!NormalizeCampaignPolicy(rWritten), rDialled.peer, rDialled.day,
                                      rDialled.time)
  /\ rCompiled # Rules!None =>
       /\ rCompiled.fixed \in Nat /\ rCompiled.opening \in Nat
       /\ rCompiled.instructions = Rules!CompileFitted(rCompiled.fixed, rCompiled.opening)

\* A policy as it is written in the model is a policy.
LEMMA WrittenIs == Rules!Written \subseteq Rules!Policies
<1>1. /\ Rules!DefaultCopilot \in Rules!Copilots
      /\ 1 \in Rules!Durations
    BY DEF Rules!DefaultCopilot, Rules!Copilots, Rules!Durations, Rules!Risks
<1>2. \A l \in SUBSET Rules!Spelled : [Rules!Plain EXCEPT !.doNotCall = l] \in Rules!Policies
    BY <1>1 DEF Rules!Plain, Rules!Policies
<1>3. \A c \in Rules!Copilots : [Rules!Plain EXCEPT !.copilot = c] \in Rules!Policies
    BY <1>1 DEF Rules!Plain, Rules!Policies
<1> QED BY <1>1, <1>2, <1>3 DEF Rules!Written, Rules!Policies

\* An assistant normalised is one, and normalising it again changes nothing.
LEMMA CopilotIs ==
  ASSUME NEW c \in Rules!Copilots
  PROVE  LET n == Rules!NormalizeCopilot(c)
         IN  /\ n \in Rules!Copilots /\ Rules!NormalizeCopilot(n) = n
             /\ n.enabled = "yes" => c.enabled = "yes"
             /\ "external-write" \notin n.risks
             /\ n.risks \subseteq c.risks \cup (IF c.given = "list" THEN {} ELSE {"read"})
             /\ n.cap \in 1..10
             /\ c.mayEnd = "no" => n.mayEnd = "no"
<1> DEFINE n == Rules!NormalizeCopilot(c)
           m == Rules!NormalizeCopilot(n)
<1>1. /\ c.enabled \in {"yes", "no", "bad"} /\ c.mayEnd \in {"yes", "no", "bad"}
      /\ c.given \in {"list", "absent", "bad"} /\ c.risks \in SUBSET {"read", "draft-write", "external-write"}
      /\ c.cap \in {-1, 0, 1, 3, 10, 11}
    BY DEF Rules!Copilots, Rules!Risks
<1>2. /\ n.enabled = (IF c.enabled = "yes" THEN "yes" ELSE "no")
      /\ n.mayEnd = (IF c.mayEnd = "no" THEN "no" ELSE "yes")
      /\ n.given = "list"
      /\ n.risks = (IF c.given = "list" THEN c.risks \cap {"read", "draft-write"} ELSE {"read"})
      /\ n.cap = (IF c.cap = -1 THEN 3 ELSE IF c.cap < 1 THEN 1 ELSE IF c.cap > 10 THEN 10 ELSE c.cap)
    BY DEF Rules!NormalizeCopilot
<1>3. n = [enabled |-> n.enabled, mayEnd |-> n.mayEnd, given |-> n.given, risks |-> n.risks, cap |-> n.cap]
    BY DEF Rules!NormalizeCopilot
<1>4. /\ m = [enabled |-> m.enabled, mayEnd |-> m.mayEnd, given |-> m.given, risks |-> m.risks, cap |-> m.cap]
      /\ m.enabled = (IF n.enabled = "yes" THEN "yes" ELSE "no")
      /\ m.mayEnd = (IF n.mayEnd = "no" THEN "no" ELSE "yes")
      /\ m.given = "list"
      /\ m.risks = (IF n.given = "list" THEN n.risks \cap {"read", "draft-write"} ELSE {"read"})
      /\ m.cap = (IF n.cap = -1 THEN 3 ELSE IF n.cap < 1 THEN 1 ELSE IF n.cap > 10 THEN 10 ELSE n.cap)
    BY DEF Rules!NormalizeCopilot
<1> HIDE DEF n, m
<1>5. n.cap \in {1, 3, 10}
    BY <1>1, <1>2, SMT
<1>6. n.enabled \in {"yes", "no"} /\ n.mayEnd \in {"yes", "no"} /\ n.risks \in SUBSET {"read", "draft-write"}
    BY <1>1, <1>2
<1>7. n \in Rules!Copilots
    BY <1>2, <1>3, <1>5, <1>6 DEF Rules!Copilots, Rules!Risks
<1>8. m.enabled = n.enabled /\ m.mayEnd = n.mayEnd /\ m.given = n.given /\ m.risks = n.risks
    BY <1>2, <1>4, <1>6
<1>9. m.cap = n.cap
    BY <1>4, <1>5, SMT
<1>10. m = n
    BY <1>3, <1>4, <1>8, <1>9
<1>11. n.cap \in 1..10
    BY <1>5
<1> QED BY <1>1, <1>2, <1>6, <1>7, <1>10, <1>11 DEF n, m

\* A policy that was normalised is one, and normalising it again changes
\* nothing: its numbers are plain, its windows well formed, its limit in range.
LEMMA NormalizedIs ==
  ASSUME NEW w \in Rules!Policies
  PROVE  LET p == Rules!NormalizeCampaignPolicy(w)
         IN  /\ p \in Rules!Policies /\ Rules!NormalizeCampaignPolicy(p) = p
             /\ p.duration \in 1..120
<1> DEFINE p == Rules!NormalizeCampaignPolicy(w)
           q == Rules!NormalizeCampaignPolicy(p)
<1>1. /\ w.doNotCall \in SUBSET Rules!Spelled /\ w.windows \in SUBSET Rules!Windows
      /\ w.duration \in Rules!Durations /\ w.copilot \in Rules!Copilots
    BY DEF Rules!Policies
<1>2. /\ p.doNotCall = Rules!NormalizePhones(w.doNotCall) /\ p.windows = Rules!NormalizeWindows(w.windows)
      /\ p.duration = Rules!NormalizeDuration(w.duration) /\ p.copilot = Rules!NormalizeCopilot(w.copilot)
      /\ p = [doNotCall |-> p.doNotCall, windows |-> p.windows, duration |-> p.duration, copilot |-> p.copilot]
    BY DEF Rules!NormalizeCampaignPolicy
<1>3. /\ q.doNotCall = Rules!NormalizePhones(p.doNotCall) /\ q.windows = Rules!NormalizeWindows(p.windows)
      /\ q.duration = Rules!NormalizeDuration(p.duration) /\ q.copilot = Rules!NormalizeCopilot(p.copilot)
      /\ q = [doNotCall |-> q.doNotCall, windows |-> q.windows, duration |-> q.duration, copilot |-> q.copilot]
    BY DEF Rules!NormalizeCampaignPolicy
<1> HIDE DEF p, q
<1>4. /\ \A e \in p.doNotCall : e \in Rules!Spelled /\ e.as = "plain" /\ e = [number |-> e.number, as |-> e.as]
      /\ q.doNotCall = p.doNotCall
    <2>1. \A e \in Rules!Spelled : [number |-> e.number, as |-> "plain"] \in Rules!Spelled
        BY DEF Rules!Spelled
    <2>2. \A e \in p.doNotCall : e \in Rules!Spelled /\ e.as = "plain" /\ e = [number |-> e.number, as |-> e.as]
        BY <1>1, <1>2, <2>1 DEF Rules!NormalizePhones
    <2>3. \A e \in p.doNotCall : e \in q.doNotCall
        BY <1>3, <2>2 DEF Rules!NormalizePhones
    <2>4. \A e \in q.doNotCall : e \in p.doNotCall
        BY <1>3, <2>2 DEF Rules!NormalizePhones
    <2> QED BY <2>2, <2>3, <2>4
<1>5. p.windows \in SUBSET Rules!Windows /\ q.windows = p.windows
    BY <1>1, <1>2, <1>3 DEF Rules!NormalizeWindows
<1>6. p.duration \in {1, 20, 120} /\ q.duration = p.duration
    BY <1>1, <1>2, <1>3, SMT DEF Rules!NormalizeDuration, Rules!Clamp, Rules!Durations
<1>7. p.copilot \in Rules!Copilots /\ q.copilot = p.copilot
    BY <1>1, <1>2, <1>3, CopilotIs
<1>8. p \in Rules!Policies
    BY <1>2, <1>4, <1>5, <1>6, <1>7 DEF Rules!Policies, Rules!Durations
<1>9. q = p
    BY <1>2, <1>3, <1>4, <1>5, <1>6, <1>7
<1>10. p.duration \in 1..120
    BY <1>6
<1> QED BY <1>8, <1>9, <1>10 DEF p, q

\* A moment of the day is in a window or in the one with its ends exchanged.
LEMMA WindowsAre ==
  ASSUME NEW start \in Int, NEW end \in Int, NEW time \in Int, start # end
  PROVE  Rules!InWindow(start, end, time) <=> ~Rules!InWindow(end, start, time)
<1>1. CASE start < end
    BY <1>1, SMT DEF Rules!InWindow
<1>2. CASE end < start
    BY <1>2, SMT DEF Rules!InWindow
<1> QED BY <1>1, <1>2, SMT

\* What the compiler of instructions answers.
LEMMA CompiledIs ==
  ASSUME NEW fixed \in Nat, NEW opening \in Nat
  PROVE  LET n == Rules!CompileFitted(fixed, opening)
         IN  /\ n \in Int /\ (n = -1) = (fixed > MaxCompiled)
             /\ n # -1 =>
                  /\ n \in fixed..MaxCompiled
                  /\ \/ n = Rules!Build(fixed, opening) \/ n = MaxCompiled
                     \/ n = fixed /\ fixed + Rules!Header >= MaxCompiled
<1>1. MaxCompiled \in Nat
    BY LimitsAssumption
<1>2. /\ Rules!Build(fixed, 0) = fixed /\ Rules!Header = 1
      /\ \A o \in Int : o # 0 => Rules!Build(fixed, o) = fixed + 1 + o
    BY SMT DEF Rules!Build, Rules!Header
<1> DEFINE budget == MaxCompiled - fixed - 1
           fitted == Rules!Build(fixed, IF opening < budget THEN opening ELSE budget)
<1>3. Rules!CompileFitted(fixed, opening)
        = IF Rules!Build(fixed, opening) <= MaxCompiled THEN Rules!Build(fixed, opening)
          ELSE IF opening = 0 \/ fixed > MaxCompiled THEN -1
          ELSE IF budget <= 0 \/ fitted > MaxCompiled THEN fixed ELSE fitted
    <2>1. Rules!Build(fixed, 1) - Rules!Build(fixed, 0) - 1 = 1 /\ Rules!Build(fixed, 0) = fixed
        BY <1>2, SMT
    <2> QED BY <2>1 DEF Rules!CompileFitted
<1>4. CASE Rules!Build(fixed, opening) <= MaxCompiled
    BY <1>1, <1>2, <1>3, <1>4, SMT
<1>5. CASE ~(Rules!Build(fixed, opening) <= MaxCompiled) /\ (opening = 0 \/ fixed > MaxCompiled)
    BY <1>1, <1>2, <1>3, <1>5, SMT
<1>6. CASE ~(Rules!Build(fixed, opening) <= MaxCompiled) /\ ~(opening = 0 \/ fixed > MaxCompiled)
    BY <1>1, <1>2, <1>3, <1>6, SMT
<1> QED BY <1>4, <1>5, <1>6

\* The invariant is kept.
LEMMA RulesStep == RulesInv /\ [Rules!Next]_(Rules!vars) => RulesInv'
<1> SUFFICES ASSUME RulesInv, [Rules!Next]_(Rules!vars) PROVE RulesInv'
    OBVIOUS
<1>1. CASE Rules!Save
    BY <1>1, Zenon DEF Rules!Save, RulesInv
<1>2. CASE Rules!Dial
    <2>1. PICK peer \in {n \in Rules!Spelled : n.as # "local"}, day \in Rules!Days, time \in Rules!Times :
             rDialled' = [peer |-> peer, day |-> day, time |-> time,
                          answer |-> Rules!EvaluateDialGuard(rPolicy, peer, day, time)]
        BY <1>2, Zenon DEF Rules!Dial
    <2>2. rPolicy # Rules!None /\ UNCHANGED <<rWritten, rPolicy, rCompiled>>
        BY <1>2 DEF Rules!Dial
    <2>3. /\ rDialled'.peer = peer /\ rDialled'.day = day /\ rDialled'.time = time
          /\ rDialled'.answer = Rules!EvaluateDialGuard(rPolicy, peer, day, time)
        BY <2>1, Zenon
    <2>4. rPolicy = Rules!NormalizeCampaignPolicy(rWritten)
        BY <2>2 DEF RulesInv
    <2> QED BY <2>2, <2>3, <2>4, Zenon DEF RulesInv
<1>3. CASE Rules!Compile
    <2>1. PICK fixed \in Lengths, opening \in Lengths, goal \in Lengths :
             rCompiled' = [fixed |-> fixed, opening |-> opening, goal |-> goal,
                    instructions |-> Rules!CompileFitted(fixed, opening),
                    withGoal |-> Rules!AppendTaskGoal(Rules!CompileFitted(fixed, opening), goal)]
        BY <1>3, Zenon DEF Rules!Compile
    <2>2. UNCHANGED <<rWritten, rPolicy, rDialled>>
        BY <1>3 DEF Rules!Compile
    <2>3. /\ rCompiled'.fixed = fixed /\ rCompiled'.opening = opening
          /\ rCompiled'.instructions = Rules!CompileFitted(fixed, opening)
        BY <2>1, Zenon
    <2>4. fixed \in Nat /\ opening \in Nat
        BY LimitsAssumption
    <2> QED BY <2>2, <2>3, <2>4, Zenon DEF RulesInv
<1>4. CASE UNCHANGED Rules!vars
    <2>1. UNCHANGED <<rWritten, rPolicy, rDialled, rCompiled>>
        BY <1>4 DEF Rules!vars
    <2> QED BY <2>1, Zenon DEF RulesInv
<1> QED BY <1>1, <1>2, <1>3, <1>4 DEF Rules!Next

\* A number dialled is on the list in force just when the client wrote it as a
\* number, however it was spelled.
LEMMA ListIs ==
  ASSUME NEW w \in Rules!Policies, NEW peer \in Rules!Spelled, peer.as # "local"
  PROVE  Rules!IsDoNotCall(Rules!NormalizeCampaignPolicy(w), peer)
           <=> \E entry \in w.doNotCall : entry.as # "local" /\ entry.number = peer.number
<1>1. /\ Rules!NormalizeCampaignPolicy(w).doNotCall = Rules!NormalizePhones(w.doNotCall)
      /\ w.doNotCall \in SUBSET Rules!Spelled
    BY DEF Rules!NormalizeCampaignPolicy, Rules!Policies
<1>2. Rules!NormalizePhone(peer) = [number |-> peer.number, as |-> "plain"]
    <2>1. peer.as \in {"plain", "dashed"} /\ peer = [number |-> peer.number, as |-> peer.as]
        BY DEF Rules!Spelled
    <2> QED BY <2>1 DEF Rules!NormalizePhone
<1>3. \A entry : Rules!NormalizePhone([number |-> entry.number, as |-> "plain"])
                   = [number |-> entry.number, as |-> "plain"]
    BY DEF Rules!NormalizePhone
<1>4. \A m, n : [number |-> m, as |-> "plain"] = [number |-> n, as |-> "plain"] <=> m = n
    OBVIOUS
<1>5. Rules!IsDoNotCall(Rules!NormalizeCampaignPolicy(w), peer)
        <=> \E entry \in {entry \in w.doNotCall : entry.as # "local"} :
              Rules!NormalizePhone([number |-> entry.number, as |-> "plain"]) = Rules!NormalizePhone(peer)
    BY <1>1, Zenon DEF Rules!IsDoNotCall, Rules!NormalizePhones
<1>6. \A entry : Rules!NormalizePhone([number |-> entry.number, as |-> "plain"]) = Rules!NormalizePhone(peer)
                   <=> entry.number = peer.number
    BY <1>2, <1>3, <1>4, Zenon
<1> QED BY <1>5, <1>6, Zenon

\* The invariant gives what is promised of a policy.
LEMMA RulesInvGives ==
  RulesInv => /\ Rules!TypeOK /\ Rules!StoredIsStable /\ Rules!ListedIsNotDialled /\ Rules!ClosedMeansClosed
              /\ Rules!WindowsShareTheDay /\ Rules!LimitIsKept /\ Rules!AssistantAsks /\ Rules!OpeningYields
<1> SUFFICES ASSUME RulesInv
             PROVE  /\ Rules!TypeOK /\ Rules!StoredIsStable /\ Rules!ListedIsNotDialled
                    /\ Rules!ClosedMeansClosed /\ Rules!WindowsShareTheDay /\ Rules!LimitIsKept
                    /\ Rules!AssistantAsks /\ Rules!OpeningYields
    OBVIOUS
<1> DEFINE p == Rules!NormalizeCampaignPolicy(rWritten)
<1>1. /\ rWritten \in Rules!Written /\ rWritten \in Rules!Policies
      /\ rWritten.copilot \in Rules!Copilots /\ rWritten.windows \in SUBSET Rules!Windows
    BY WrittenIs DEF RulesInv, Rules!Policies
<1>2. rPolicy = Rules!None \/ rPolicy = p
    BY DEF RulesInv
<1>3. /\ p \in Rules!Policies /\ Rules!NormalizeCampaignPolicy(p) = p /\ p.duration \in 1..120
    BY <1>1, NormalizedIs
<1>4. /\ p.windows = Rules!NormalizeWindows(rWritten.windows)
      /\ p.copilot = Rules!NormalizeCopilot(rWritten.copilot)
    BY DEF Rules!NormalizeCampaignPolicy
<1>5. rDialled # Rules!None =>
        /\ rDialled.peer \in Rules!Spelled /\ rDialled.peer.as # "local"
        /\ rDialled.answer = Rules!EvaluateDialGuard(p, rDialled.peer, rDialled.day, rDialled.time)
    BY DEF RulesInv
<1>6. rCompiled # Rules!None =>
        /\ rCompiled.fixed \in Nat /\ rCompiled.opening \in Nat
        /\ rCompiled.instructions = Rules!CompileFitted(rCompiled.fixed, rCompiled.opening)
    BY DEF RulesInv
<1>7. \A peer \in Rules!Spelled : peer.as # "local" =>
        (Rules!IsDoNotCall(p, peer)
           <=> \E entry \in rWritten.doNotCall : entry.as # "local" /\ entry.number = peer.number)
    BY <1>1, ListIs
<1> HIDE DEF p
<1>8. Rules!TypeOK
    <2>1. rDialled = Rules!None \/ rDialled.answer \in {"dnc", "outside_calling_hours", "allowed"}
        BY <1>5 DEF Rules!EvaluateDialGuard
    <2>2. rCompiled = Rules!None \/ rCompiled.instructions \in Int
        BY <1>6, CompiledIs
    <2> QED BY <1>1, <1>2, <1>3, <2>1, <2>2, Zenon DEF Rules!TypeOK
<1>9. Rules!StoredIsStable
    BY <1>2, <1>3, Zenon DEF Rules!StoredIsStable
<1>10. Rules!ListedIsNotDialled
    <2>1. rDialled # Rules!None => (rDialled.answer = "dnc" <=> Rules!IsDoNotCall(p, rDialled.peer))
        BY <1>5, SMT DEF Rules!EvaluateDialGuard
    <2> QED BY <1>5, <1>7, <2>1, Zenon DEF Rules!ListedIsNotDialled
<1>11. Rules!ClosedMeansClosed
    <2>1. rDialled # Rules!None /\ rDialled.answer = "allowed"
            => Rules!IsWithinCallingHours(p, rDialled.day, rDialled.time)
        BY <1>5, SMT DEF Rules!EvaluateDialGuard
    <2>2. \A w \in rWritten.windows : w.start >= 0 \/ w.start = -1
        <3>1. \A w \in Rules!Windows : w.start \in Rules!Times \cup {-1}
            BY DEF Rules!Windows
        <3> QED BY <1>1, <3>1, SMT DEF Rules!Times
    <2>3. p.windows = {w \in rWritten.windows : w.days # {} /\ w.start >= 0}
        BY <1>4 DEF Rules!NormalizeWindows
    <2> QED BY <2>1, <2>2, <2>3, Zenon DEF Rules!ClosedMeansClosed, Rules!IsWithinCallingHours
<1>12. Rules!WindowsShareTheDay
    <2>1. Rules!Times \subseteq Int
        BY DEF Rules!Times
    <2> QED BY WindowsAre, <2>1, Zenon DEF Rules!WindowsShareTheDay
<1>13. Rules!LimitIsKept
    <2>1. \A d \in 1..120 : /\ ~(1 - 1 >= d) /\ 121 - 1 >= d /\ (d > 1 => ~(2 - 1 >= d))
        BY SMT
    <2> QED BY <1>2, <1>3, <2>1 DEF Rules!LimitIsKept, Rules!HasExceededMaxDuration
<1>14. Rules!AssistantAsks
    BY <1>1, <1>2, <1>4, CopilotIs, Zenon DEF Rules!AssistantAsks
<1>15. Rules!OpeningYields
    BY <1>6, CompiledIs, Zenon DEF Rules!OpeningYields
<1> QED BY <1>8, <1>9, <1>10, <1>11, <1>12, <1>13, <1>14, <1>15

\* What is promised of a policy, for every behaviour of its module.
LEMMA RulesSafe ==
  Rules!Spec => [](/\ Rules!TypeOK /\ Rules!StoredIsStable /\ Rules!ListedIsNotDialled
                   /\ Rules!ClosedMeansClosed /\ Rules!WindowsShareTheDay /\ Rules!LimitIsKept
                   /\ Rules!AssistantAsks /\ Rules!OpeningYields)
<1>1. Rules!Init => RulesInv
    BY Zenon DEF Rules!Init, RulesInv
<1> QED BY <1>1, RulesStep, RulesInvGives, PTL DEF Rules!Spec

-----------------------------------------------------------------------------
(* The campaigns *)

\* Of some natural numbers one is the least.
LEMMA NatMin == ASSUME NEW T \in SUBSET Nat, T # {} PROVE \E x \in T : \A y \in T : x <= y
<1> DEFINE R == OpToRel(<, Nat)
<1>1. \E x \in T : \A y \in T : ~(<<y, x>> \in R)
    BY NatLessThanWellFounded, WFMin
<1>2. \A x \in T, y \in T : ~(<<y, x>> \in R) => x <= y
    BY DEF OpToRel
<1> HIDE DEF R
<1> QED BY <1>1, <1>2

\* What the store holds: one campaign at least can be selected, and what was
\* answered is what there is, when nothing is half written.
DirectoryInv ==
  /\ dRow \in [Campaigns -> Campaign!Rows \cup {Absent}]
  /\ dAge \in [Campaigns -> Nat] /\ \A c, d \in Campaigns : dAge[c] = dAge[d] => c = d
  /\ dSelected \in Campaigns
  /\ dPending = Absent \/ dPending \in Campaign!SecondWrites
  /\ dHeld = Absent \/ dHeld.doNotCall \in SUBSET Numbers
  /\ Campaign!Selectable # {}
  /\ dAnswer # Absent => dAnswer.selected \in dAnswer.campaigns
  /\ dPending = Absent /\ dAnswer # Absent => dAnswer.campaigns = Campaign!Selectable

\* What a step may not do to a campaign: replace the list by what nobody read,
\* take it out of its call, or select an ephemeral one.
DirectoryKeeps ==
  \A c \in Campaigns :
    /\ dRow[c] # Absent /\ dRow'[c] # Absent /\ dRow[c].doNotCall # dRow'[c].doNotCall
         => dHeld # Absent /\ dHeld.campaign = c
    /\ dRow[c] # Absent /\ dRow[c].ephemeral
         => /\ dRow'[c] # Absent => dRow'[c].ephemeral
            /\ dSelected' = c => dSelected = c

\* There is a campaign to select, the last updated of them.
LEMMA FirstIs == ASSUME DirectoryInv PROVE Campaign!FirstSelectable \in Campaign!Selectable
<1> DEFINE S == Campaign!Selectable
<1>1. S # {} /\ S \subseteq Campaigns
    BY DEF DirectoryInv, Campaign!Selectable, Campaign!Stored
<1> HIDE DEF S
<1>2. {dAge[c] : c \in S} \in SUBSET Nat /\ {dAge[c] : c \in S} # {}
    BY <1>1 DEF DirectoryInv
<1>3. \E x \in {dAge[c] : c \in S} : \A y \in {dAge[c] : c \in S} : x <= y
    BY <1>2, NatMin
<1>4. \E c \in S : \A d \in S : dAge[c] <= dAge[d]
    BY <1>3
<1> QED BY <1>4, Zenon DEF Campaign!FirstSelectable, S

\* An answer repairs the selection.
LEMMA AnswerKeeps ==
  ASSUME DirectoryInv, NEW choice, Campaign!Workspace(choice), UNCHANGED <<dRow, dAge, dHeld>>,
         dPending' = Absent
  PROVE  DirectoryInv' /\ DirectoryKeeps
<1>1. /\ dSelected' \in Campaign!Selectable
      /\ dAnswer' = [selected |-> dSelected', campaigns |-> Campaign!Selectable]
    BY FirstIs, Zenon DEF Campaign!Workspace
<1>2. Campaign!Selectable' = Campaign!Selectable
    BY DEF Campaign!Selectable, Campaign!Stored
<1>3. dAnswer'.selected = dSelected' /\ dAnswer'.campaigns = Campaign!Selectable
    BY <1>1, Zenon
<1>4. dSelected' \in Campaigns /\ dRow[dSelected'] # Absent /\ ~dRow[dSelected'].ephemeral
    BY <1>1 DEF Campaign!Selectable, Campaign!Stored
<1>5. DirectoryInv'
    BY <1>1, <1>2, <1>3, <1>4, Zenon DEF DirectoryInv
<1>6. DirectoryKeeps
    BY <1>4, Zenon DEF DirectoryKeeps
<1> QED BY <1>5, <1>6

\* A campaign written is there, and is ephemeral if it was.
LEMMA WrittenKeeps ==
  ASSUME DirectoryInv, NEW c \in Campaigns, NEW value \in Campaign!Rows, Campaign!Written(c, value),
         dRow[c] # Absent => /\ value.ephemeral = dRow[c].ephemeral
                             /\ value.doNotCall # dRow[c].doNotCall => dHeld # Absent /\ dHeld.campaign = c
  PROVE  DirectoryInv' /\ DirectoryKeeps
<1>1. /\ dRow' = [dRow EXCEPT ![c] = value] /\ dAge' = Campaign!Newest(c)
      /\ dPending' = [do |-> "select", campaign |-> IF value.ephemeral THEN dSelected ELSE c]
      /\ dSelected' = dSelected /\ dAnswer' = dAnswer /\ dHeld' = dHeld
    BY DEF Campaign!Written
<1>2. dPending' \in Campaign!SecondWrites /\ dPending' # Absent /\ value # Absent
    BY <1>1, AbsentAssumption DEF DirectoryInv, Campaign!SecondWrites
<1>3. dRow' \in [Campaigns -> Campaign!Rows \cup {Absent}] /\ dRow'[c] = value
      /\ \A d \in Campaigns : d # c => dRow'[d] = dRow[d]
    BY <1>1 DEF DirectoryInv
<1>4. dAge' \in [Campaigns -> Nat] /\ \A d, e \in Campaigns : dAge'[d] = dAge'[e] => d = e
    BY <1>1, SMT DEF DirectoryInv, Campaign!Newest
<1>5. Campaign!Selectable \subseteq Campaign!Selectable'
    <2> SUFFICES ASSUME NEW d \in Campaign!Selectable PROVE d \in Campaign!Selectable'
        OBVIOUS
    <2>1. d \in Campaigns /\ dRow[d] # Absent /\ ~dRow[d].ephemeral
        BY DEF Campaign!Selectable, Campaign!Stored
    <2>2. dRow'[d] # Absent /\ ~dRow'[d].ephemeral
        BY <1>2, <1>3, <2>1
    <2> QED BY <2>1, <2>2 DEF Campaign!Selectable, Campaign!Stored
<1>6. DirectoryInv'
    BY <1>1, <1>2, <1>3, <1>4, <1>5, Zenon DEF DirectoryInv
<1>7. DirectoryKeeps
    BY <1>1, <1>3, Zenon DEF DirectoryKeeps
<1> QED BY <1>6, <1>7

\* The last campaign that can be selected is not deleted.
LEMMA DeleteKeeps ==
  ASSUME DirectoryInv, NEW c \in Campaigns, Campaign!Delete(c)
  PROVE  DirectoryInv' /\ DirectoryKeeps
<1>1. /\ dRow[c] # Absent /\ (dRow[c].ephemeral \/ Campaign!Cardinality(Campaign!Selectable) > 1)
      /\ dRow' = [dRow EXCEPT ![c] = Absent] /\ dAge' = dAge
      /\ dPending' = [do |-> "reselect", campaign |-> c]
      /\ dHeld' = (IF dHeld # Absent /\ dHeld.campaign = c THEN Absent ELSE dHeld)
      /\ dSelected' = dSelected /\ dAnswer' = dAnswer
    BY DEF Campaign!Delete
<1>2. dPending' \in Campaign!SecondWrites /\ dPending' # Absent
    BY <1>1, AbsentAssumption DEF Campaign!SecondWrites
<1>3. dRow' \in [Campaigns -> Campaign!Rows \cup {Absent}] /\ dRow'[c] = Absent
      /\ \A d \in Campaigns : d # c => dRow'[d] = dRow[d]
    BY <1>1 DEF DirectoryInv
<1>4. Campaign!Selectable \ {c} \subseteq Campaign!Selectable'
    BY <1>3 DEF Campaign!Selectable, Campaign!Stored
<1>5. Campaign!Selectable \ {c} # {}
    <2>1. CASE dRow[c].ephemeral
        <3>1. c \notin Campaign!Selectable
            BY <2>1 DEF Campaign!Selectable
        <3> QED BY <3>1 DEF DirectoryInv
    <2>2. CASE Campaign!Cardinality(Campaign!Selectable) > 1
        <3>1. Campaign!Cardinality(Campaign!Selectable) = Cardinality(Campaign!Selectable)
            BY Zenon DEF Campaign!Cardinality, Cardinality
        <3>2. Cardinality({}) = 0 /\ Cardinality({c}) = 1
            BY FS_EmptySet, FS_Singleton
        <3>3. Campaign!Selectable # {} /\ Campaign!Selectable # {c}
            BY <2>2, <3>1, <3>2
        <3> QED BY <3>3
    <2> QED BY <1>1, <2>1, <2>2
<1>6. DirectoryInv'
    BY <1>1, <1>2, <1>3, <1>4, <1>5, Zenon DEF DirectoryInv
<1>7. DirectoryKeeps
    BY <1>1, <1>3, Zenon DEF DirectoryKeeps
<1> QED BY <1>6, <1>7

\* The invariant is kept, whatever clients do and wherever the application
\* stops.
LEMMA DirectoryStep ==
  ASSUME DirectoryInv, [Campaign!Next]_(Campaign!vars)
  PROVE  DirectoryInv' /\ DirectoryKeeps
<1>1. CASE Campaign!GetWorkspace
    BY <1>1, AnswerKeeps DEF Campaign!GetWorkspace, Campaign!Idle
<1>2. CASE Campaign!Finish
    <2>1. PICK choice : Campaign!Workspace(choice)
        BY <1>2, Zenon DEF Campaign!Finish
    <2> QED BY <1>2, <2>1, AnswerKeeps DEF Campaign!Finish
<1>3. CASE Campaign!Restart
    <2>1. /\ dPending' = Absent /\ dAnswer' = Absent /\ dRow' = dRow /\ dAge' = dAge
          /\ dSelected' = dSelected /\ dHeld' = dHeld
        BY <1>3 DEF Campaign!Restart
    <2>2. Campaign!Selectable' = Campaign!Selectable
        BY <2>1 DEF Campaign!Selectable, Campaign!Stored
    <2> QED BY <2>1, <2>2, Zenon DEF DirectoryInv, DirectoryKeeps
<1>4. ASSUME NEW c \in Campaigns, Campaign!Get(c)
      PROVE  DirectoryInv' /\ DirectoryKeeps
    <2>1. /\ dRow[c] # Absent /\ dPending' = dPending /\ dAnswer' = dAnswer /\ dRow' = dRow
          /\ dAge' = dAge /\ dSelected' = dSelected
        BY <1>4 DEF Campaign!Get
    <2>2. dHeld'.doNotCall = dRow[c].doNotCall
        BY <1>4 DEF Campaign!Get
    <2>3. dRow[c].doNotCall \in SUBSET Numbers
        BY <2>1 DEF DirectoryInv, Campaign!Rows
    <2>4. Campaign!Selectable' = Campaign!Selectable
        BY <2>1 DEF Campaign!Selectable, Campaign!Stored
    <2> QED BY <2>1, <2>2, <2>3, <2>4, Zenon DEF DirectoryInv, DirectoryKeeps
<1>5. ASSUME NEW c \in Campaigns, Campaign!Create(c)
      PROVE  DirectoryInv' /\ DirectoryKeeps
    <2>1. PICK e \in BOOLEAN, l \in SUBSET Numbers :
            Campaign!Written(c, [ephemeral |-> e, doNotCall |-> l])
        BY <1>5 DEF Campaign!Create
    <2>2. dRow[c] = Absent
        BY <1>5 DEF Campaign!Create
    <2>3. [ephemeral |-> e, doNotCall |-> l] \in Campaign!Rows
        BY DEF Campaign!Rows
    <2> QED BY <2>1, <2>2, <2>3, WrittenKeeps
<1>6. ASSUME NEW c \in Campaigns, Campaign!Rename(c)
      PROVE  DirectoryInv' /\ DirectoryKeeps
    <2>1. dRow[c] # Absent /\ Campaign!Written(c, dRow[c])
        BY <1>6 DEF Campaign!Rename
    <2>2. dRow[c] \in Campaign!Rows
        BY <2>1 DEF DirectoryInv
    <2> QED BY <2>1, <2>2, WrittenKeeps
<1>7. ASSUME NEW c \in Campaigns, Campaign!WriteBack(c)
      PROVE  DirectoryInv' /\ DirectoryKeeps
    <2> DEFINE value == [ephemeral |-> dRow[c].ephemeral,
                         doNotCall |-> IF dHeld.masked THEN {} ELSE dHeld.doNotCall]
    <2>1. dRow[c] # Absent /\ dHeld # Absent /\ dHeld.campaign = c /\ Campaign!Written(c, value)
        BY <1>7 DEF Campaign!WriteBack
    <2>2. dRow[c] \in Campaign!Rows /\ dHeld.doNotCall \in SUBSET Numbers
        BY <2>1 DEF DirectoryInv
    <2>3. value \in Campaign!Rows /\ value.ephemeral = dRow[c].ephemeral
        BY <2>2 DEF Campaign!Rows
    <2> HIDE DEF value
    <2> QED BY <2>1, <2>3, WrittenKeeps
<1>8. ASSUME NEW c \in Campaigns, Campaign!Delete(c)
      PROVE  DirectoryInv' /\ DirectoryKeeps
    BY <1>8, DeleteKeeps
<1>9. ASSUME NEW c \in Campaigns, Campaign!Select(c)
      PROVE  DirectoryInv' /\ DirectoryKeeps
    BY <1>9, AnswerKeeps DEF Campaign!Select, Campaign!Idle
<1>10. CASE UNCHANGED Campaign!vars
    <2>1. /\ dPending' = dPending /\ dAnswer' = dAnswer /\ dRow' = dRow
          /\ dAge' = dAge /\ dSelected' = dSelected /\ dHeld' = dHeld
        BY <1>10 DEF Campaign!vars
    <2>2. Campaign!Selectable' = Campaign!Selectable
        BY <2>1 DEF Campaign!Selectable, Campaign!Stored
    <2> QED BY <2>1, <2>2, Zenon DEF DirectoryInv, DirectoryKeeps
<1> QED BY <1>1, <1>2, <1>3, <1>4, <1>5, <1>6, <1>7, <1>8, <1>9, <1>10, Zenon DEF Campaign!Next

\* What is promised of the campaigns, for every behaviour of their module.
LEMMA CampaignsSafe ==
  Campaign!Spec => /\ [](Campaign!TypeOK /\ Campaign!SelectionIsThere)
                   /\ Campaign!OthersKeepTheList /\ Campaign!EphemeralStaysAside
<1>1. Campaign!Init => DirectoryInv
    <2> SUFFICES ASSUME Campaign!Init PROVE DirectoryInv
        OBVIOUS
    <2>1. PICK c \in Campaigns :
            dRow = [d \in Campaigns |-> IF d = c THEN Campaign!Default ELSE Absent] /\ dSelected = c
        BY Zenon DEF Campaign!Init
    <2>2. Campaign!Default \in Campaign!Rows /\ ~Campaign!Default.ephemeral
        BY DEF Campaign!Default, Campaign!Rows
    <2>3. dAge \in Campaign!Ages /\ dPending = Absent /\ dAnswer = Absent /\ dHeld = Absent
        BY DEF Campaign!Init
    <2>4. dAge \in [Campaigns -> Nat] /\ \A d, e \in Campaigns : dAge[d] = dAge[e] => d = e
        BY <2>3 DEF Campaign!Ages
    <2>5. c \in Campaign!Selectable
        BY <2>1, <2>2, AbsentAssumption DEF Campaign!Selectable, Campaign!Stored
    <2>6. dRow \in [Campaigns -> Campaign!Rows \cup {Absent}]
        BY <2>1, <2>2
    <2> QED BY <2>1, <2>3, <2>4, <2>5, <2>6, Zenon DEF DirectoryInv
<1>2. DirectoryInv => Campaign!TypeOK /\ Campaign!SelectionIsThere
    <2> SUFFICES ASSUME DirectoryInv PROVE Campaign!TypeOK /\ Campaign!SelectionIsThere
        OBVIOUS
    <2>1. \A c \in Campaign!Stored : dRow[c].ephemeral \in BOOLEAN /\ dRow[c].doNotCall \subseteq Numbers
        <3>1. \A c \in Campaign!Stored : dRow[c] \in Campaign!Rows
            BY DEF DirectoryInv, Campaign!Stored
        <3> QED BY <3>1 DEF Campaign!Rows
    <2>2. Campaign!TypeOK
        BY <2>1, Zenon DEF DirectoryInv, Campaign!TypeOK
    <2>3. Campaign!SelectionIsThere
        BY Zenon DEF DirectoryInv, Campaign!SelectionIsThere, Campaign!Idle
    <2> QED BY <2>2, <2>3
<1>3. DirectoryInv /\ [Campaign!Next]_(Campaign!vars) => DirectoryInv' /\ DirectoryKeeps
    BY DirectoryStep
<1>4. DirectoryKeeps => /\ \A c \in Campaigns :
                              (dRow[c] # Absent /\ dRow'[c] # Absent /\ dRow[c].doNotCall # dRow'[c].doNotCall)
                                => dHeld # Absent /\ dHeld.campaign = c
                        /\ \A c \in Campaigns :
                              (dRow[c] # Absent /\ dRow[c].ephemeral)
                                => /\ dRow'[c] # Absent => dRow'[c].ephemeral
                                   /\ dSelected' = c => dSelected = c
    BY Zenon DEF DirectoryKeeps
<1> QED BY <1>1, <1>2, <1>3, <1>4, PTL DEF Campaign!Spec, Campaign!OthersKeepTheList,
        Campaign!EphemeralStaysAside

-----------------------------------------------------------------------------
(* The client of the CRM *)

\* A client of the CRM: only one of Zoho has an account.
CrmClients == {c \in [kind : {"mock", "missing", "zoho"}, id : 0..MaxClients, account : 0..MaxClients] :
                 IF c.kind = "zoho" THEN c.id \in 1..MaxClients /\ c.account # 0 ELSE c.account = 0}
CrmOps == [pc : {"idle", "token", "sent", "pause", "done", "failed", "gone"}, at : {1, 2},
           client : CrmClients, tries : 0..MaxAttempts, found : 0..MaxClients, valid : BOOLEAN]
CrmWaits == {"token", "sent", "pause"}
CrmAuths == [cached : BOOLEAN, refreshing : 0..1]

\* The types, and what an operation under way is: one of a client of Zoho, with
\* an attempt left, and a token that was valid when its request was sent.
CrmTypes ==
  /\ zConfig \in [provider : {"mock", "zoho"}, connected : BOOLEAN]
  /\ zSecrets \in 0..MaxClients /\ zClients \in 0..MaxClients /\ zClient \in CrmClients
  /\ zAuth \in [Crm!Clients -> CrmAuths]
  /\ zOp \in [Crm!Ops -> CrmOps]
  /\ zLanded \in [0..MaxClients -> Nat] /\ zLied \in Nat
  /\ zExchange \in BOOLEAN /\ zFailed \in BOOLEAN /\ zCrossed \in BOOLEAN
  /\ \A o \in Crm!Ops :
       /\ zOp[o].pc \in CrmWaits => zOp[o].client.kind = "zoho" /\ zOp[o].tries < MaxAttempts
       /\ zOp[o].pc = "sent" => zOp[o].valid

\* What was added of the note: nothing before it is written, then once, but
\* for the requests that were answered with an error.
NoteInv ==
  LET n == zOp["note"] IN
  /\ \A a \in 0..MaxClients : zLanded[a] <= zLied + (IF n.pc = "done" THEN 1 ELSE 0)
  /\ n.pc = "idle" => n.at = 1
  /\ n.at = 1 /\ n.pc # "gone" => zLied = 0
  /\ n.at = 2 => zLied <= n.tries /\ \A a \in 0..MaxClients : zLanded[a] > 0 => a = n.found
  /\ n.pc = "gone" => zLied <= MaxAttempts
  /\ n.pc = "done" => zLied + 1 <= MaxAttempts /\ \E a \in 0..MaxClients : zLanded[a] > 0

CrmInv == CrmTypes /\ NoteInv /\ Crm!ClientIsConfigured /\ Crm!ConnectedWasAsked

\* What a request with a token leaves.
LEMMA TokenIs ==
  ASSUME CrmTypes, NEW c \in Crm!Clients, NEW o \in Crm!Ops, NEW q \in CrmOps, Crm!TokenFor(c, o, q)
  PROVE  /\ zOp' \in [Crm!Ops -> CrmOps] /\ zAuth' \in [Crm!Clients -> CrmAuths]
         /\ \A p \in Crm!Ops : p # o => zOp'[p] = zOp[p]
         /\ zOp'[o].pc \in {"sent", "token"} /\ (zOp'[o].pc = "sent" => zOp'[o].valid)
         /\ zOp'[o].at = q.at /\ zOp'[o].client = q.client /\ zOp'[o].tries = q.tries
         /\ zOp'[o].found = q.found
<1>1. CASE zOp' = [zOp EXCEPT ![o] = [q EXCEPT !.pc = "sent", !.valid = TRUE]] /\ UNCHANGED zAuth
    <2>1. [q EXCEPT !.pc = "sent", !.valid = TRUE] \in CrmOps
        BY DEF CrmOps
    <2> QED BY <1>1, <2>1 DEF CrmTypes, CrmOps
<1>2. CASE /\ zOp' = [zOp EXCEPT ![o] = [q EXCEPT !.pc = "token"]]
           /\ zAuth' = [zAuth EXCEPT ![c].refreshing = IF @ = 0 THEN 1 ELSE @]
    <2>1. [q EXCEPT !.pc = "token"] \in CrmOps
        BY DEF CrmOps
    <2>2. zAuth' \in [Crm!Clients -> CrmAuths]
        BY <1>2 DEF CrmTypes, CrmAuths
    <2> QED BY <1>2, <2>1, <2>2 DEF CrmTypes, CrmOps
<1> QED BY <1>1, <1>2, Zenon DEF Crm!TokenFor

\* What the first request of an operation, or of its second part, leaves.
Asked(o, at, found) ==
  /\ zOp' \in [Crm!Ops -> CrmOps] /\ zAuth' \in [Crm!Clients -> CrmAuths]
  /\ \A p \in Crm!Ops : p # o => zOp'[p] = zOp[p]
  /\ zOp'[o].at = at /\ zOp'[o].client = zClient /\ zOp'[o].tries = 0 /\ zOp'[o].found = found
  /\ \/ /\ zOp'[o].pc \in {"sent", "token"} /\ (zOp'[o].pc = "sent" => zOp'[o].valid)
        /\ zClient.kind = "zoho" /\ UNCHANGED <<zConfig, zCrossed, zLanded>>
     \/ /\ zOp'[o].pc = "done" /\ (at = 1 \/ found = 0)
        /\ zLanded' = IF o = "note" THEN [zLanded EXCEPT ![0] = @ + 1] ELSE zLanded
        /\ IF o = "test" THEN Crm!Marked(TRUE, zClient) ELSE UNCHANGED <<zConfig, zCrossed>>
     \/ zOp'[o].pc = "failed" /\ UNCHANGED zLanded /\ Crm!Concluded({o})

\* An operation that asks for what it needs leaves that.
LEMMA AsksIs ==
  ASSUME CrmTypes, NEW o \in Crm!Ops, NEW at \in {1, 2}, NEW found \in 0..MaxClients,
         Crm!Asks(o, at, found)
  PROVE  Asked(o, at, found)
<1> SUFFICES
         /\ zOp' \in [Crm!Ops -> CrmOps] /\ zAuth' \in [Crm!Clients -> CrmAuths]
         /\ \A p \in Crm!Ops : p # o => zOp'[p] = zOp[p]
         /\ zOp'[o].at = at /\ zOp'[o].client = zClient /\ zOp'[o].tries = 0 /\ zOp'[o].found = found
         /\ \/ /\ zOp'[o].pc \in {"sent", "token"} /\ (zOp'[o].pc = "sent" => zOp'[o].valid)
               /\ zClient.kind = "zoho" /\ UNCHANGED <<zConfig, zCrossed, zLanded>>
            \/ /\ zOp'[o].pc = "done" /\ (at = 1 \/ found = 0)
               /\ zLanded' = IF o = "note" THEN [zLanded EXCEPT ![0] = @ + 1] ELSE zLanded
               /\ IF o = "test" THEN Crm!Marked(TRUE, zClient) ELSE UNCHANGED <<zConfig, zCrossed>>
            \/ zOp'[o].pc = "failed" /\ UNCHANGED zLanded /\ Crm!Concluded({o})
    BY Zenon DEF Asked
<1> DEFINE q == [pc |-> "sent", at |-> at, client |-> zClient, tries |-> 0, found |-> found, valid |-> FALSE]
<1>1. /\ q \in CrmOps /\ q.at = at /\ q.client = zClient /\ q.tries = 0 /\ q.found = found
      /\ [q EXCEPT !.pc = "done"] \in CrmOps /\ [q EXCEPT !.pc = "failed"] \in CrmOps
    <2>1. zClient \in CrmClients /\ 0 \in 0..MaxAttempts
        BY LimitsAssumption DEF CrmTypes
    <2>2. q \in CrmOps
        BY <2>1, Zenon DEF CrmOps
    <2>3. q.at = at /\ q.client = zClient /\ q.tries = 0 /\ q.found = found
        BY Zenon
    <2>4. [q EXCEPT !.pc = "done"] \in CrmOps /\ [q EXCEPT !.pc = "failed"] \in CrmOps
        <3> HIDE DEF q
        <3> QED BY <2>2 DEF CrmOps
    <2> QED BY <2>2, <2>3, <2>4
<1>2. \/ zClient.kind = "zoho" /\ Crm!TokenFor(zClient.id, o, q) /\ UNCHANGED <<zConfig, zCrossed, zLanded>>
      \/ /\ at = 1 \/ Crm!Knows(found)
         /\ zOp' = [zOp EXCEPT ![o] = [q EXCEPT !.pc = "done"]] /\ UNCHANGED zAuth
         /\ zLanded' = IF o = "note" THEN [zLanded EXCEPT ![0] = @ + 1] ELSE zLanded
         /\ IF o = "test" THEN Crm!Marked(TRUE, zClient) ELSE UNCHANGED <<zConfig, zCrossed>>
      \/ /\ zOp' = [zOp EXCEPT ![o] = [q EXCEPT !.pc = "failed"]] /\ UNCHANGED <<zAuth, zLanded>>
         /\ Crm!Concluded({o})
    BY Zenon DEF Crm!Asks
<1>3. zClient.kind = "zoho" => zClient.id \in Crm!Clients
    BY DEF CrmTypes, CrmClients, Crm!Clients
<1>4. CASE zClient.kind = "zoho" /\ Crm!TokenFor(zClient.id, o, q) /\ UNCHANGED <<zConfig, zCrossed, zLanded>>
    <2> HIDE DEF q
    <2>0. zClient.id \in Crm!Clients /\ q \in CrmOps /\ Crm!TokenFor(zClient.id, o, q)
        BY <1>1, <1>3, <1>4
    <2>1. /\ zOp' \in [Crm!Ops -> CrmOps] /\ zAuth' \in [Crm!Clients -> CrmAuths]
          /\ \A p \in Crm!Ops : p # o => zOp'[p] = zOp[p]
          /\ zOp'[o].pc \in {"sent", "token"} /\ (zOp'[o].pc = "sent" => zOp'[o].valid)
          /\ zOp'[o].at = q.at /\ zOp'[o].client = q.client /\ zOp'[o].tries = q.tries
          /\ zOp'[o].found = q.found
        BY <2>0, TokenIs
    <2> QED BY <1>1, <1>4, <2>1, Zenon
<1>5. CASE /\ at = 1 \/ Crm!Knows(found)
           /\ zOp' = [zOp EXCEPT ![o] = [q EXCEPT !.pc = "done"]] /\ UNCHANGED zAuth
           /\ zLanded' = IF o = "note" THEN [zLanded EXCEPT ![0] = @ + 1] ELSE zLanded
           /\ IF o = "test" THEN Crm!Marked(TRUE, zClient) ELSE UNCHANGED <<zConfig, zCrossed>>
    <2>1. /\ zOp' \in [Crm!Ops -> CrmOps] /\ zAuth' \in [Crm!Clients -> CrmAuths]
          /\ \A p \in Crm!Ops : p # o => zOp'[p] = zOp[p]
          /\ zOp'[o] = [q EXCEPT !.pc = "done"]
        BY <1>1, <1>5 DEF CrmTypes
    <2>2. /\ zOp'[o].pc = "done" /\ zOp'[o].at = at /\ zOp'[o].client = zClient /\ zOp'[o].tries = 0
          /\ zOp'[o].found = found
        BY <2>1
    <2>3. at = 1 \/ found = 0
        BY <1>5 DEF Crm!Knows
    <2> QED BY <1>5, <2>1, <2>2, <2>3, Zenon
<1>6. CASE /\ zOp' = [zOp EXCEPT ![o] = [q EXCEPT !.pc = "failed"]] /\ UNCHANGED <<zAuth, zLanded>>
           /\ Crm!Concluded({o})
    <2>1. /\ zOp' \in [Crm!Ops -> CrmOps] /\ zAuth' \in [Crm!Clients -> CrmAuths]
          /\ \A p \in Crm!Ops : p # o => zOp'[p] = zOp[p]
          /\ zOp'[o] = [q EXCEPT !.pc = "failed"]
        BY <1>1, <1>6 DEF CrmTypes
    <2>2. /\ zOp'[o].pc = "failed" /\ zOp'[o].at = at /\ zOp'[o].client = zClient /\ zOp'[o].tries = 0
          /\ zOp'[o].found = found
        BY <2>1
    <2> QED BY <1>6, <2>1, <2>2, Zenon
<1> QED BY <1>2, <1>4, <1>5, <1>6, Zenon

\* What configures the client is kept by an operation, which marks the
\* connection at most.
CrmMarks ==
  /\ UNCHANGED <<zSecrets, zClient, zClients, zExchange, zFailed>>
  /\ \/ UNCHANGED <<zConfig, zCrossed>>
     \/ Crm!Marked(FALSE, zClient)
     \/ zOp'["test"].pc = "done" /\ Crm!Marked(TRUE, zOp'["test"].client)

\* The client stays the one that is configured, and a connection that is marked
\* was asked.
LEMMA MarksKeep ==
  ASSUME CrmInv, CrmMarks, zOp' \in [Crm!Ops -> CrmOps],
         zOp["test"].pc \in {"done", "gone"} => zOp'["test"] = zOp["test"]
  PROVE  /\ zConfig' \in [provider : {"mock", "zoho"}, connected : BOOLEAN] /\ zCrossed' \in BOOLEAN
         /\ Crm!ClientIsConfigured' /\ Crm!ConnectedWasAsked'
<1>1. /\ zSecrets' = zSecrets /\ zClient' = zClient /\ zFailed' = zFailed
      /\ zConfig \in [provider : {"mock", "zoho"}, connected : BOOLEAN]
      /\ zCrossed \in BOOLEAN /\ zSecrets \in 0..MaxClients
    BY DEF CrmMarks, CrmInv, CrmTypes
<1>2. \A ok \in BOOLEAN : \A whom :
        Crm!Marked(ok, whom) =>
          /\ zConfig'.provider = zConfig.provider /\ zConfig'.connected = (zConfig.provider = "mock" \/ ok)
          /\ zConfig' \in [provider : {"mock", "zoho"}, connected : BOOLEAN]
          /\ zCrossed' = (ok /\ Crm!Of(whom) # Crm!Configured)
    <2> SUFFICES ASSUME NEW ok \in BOOLEAN, NEW whom, Crm!Marked(ok, whom)
                 PROVE  /\ zConfig'.provider = zConfig.provider
                        /\ zConfig'.connected = (zConfig.provider = "mock" \/ ok)
                        /\ zConfig' \in [provider : {"mock", "zoho"}, connected : BOOLEAN]
                        /\ zCrossed' = (ok /\ Crm!Of(whom) # Crm!Configured)
        OBVIOUS
    <2>1. zConfig' = [zConfig EXCEPT !.connected = zConfig.provider = "mock" \/ ok]
        BY Zenon DEF Crm!Marked
    <2>2. zConfig'.provider = zConfig.provider
        BY <1>1, <2>1
    <2>3. zConfig'.connected = (zConfig.provider = "mock" \/ ok)
        BY <1>1, <2>1, Zenon
    <2>4. zConfig' \in [provider : {"mock", "zoho"}, connected : BOOLEAN]
        <3>1. (zConfig.provider = "mock" \/ ok) \in BOOLEAN
            OBVIOUS
        <3> QED BY <1>1, <2>1, <3>1, Zenon
    <2> QED BY <2>2, <2>3, <2>4, Zenon DEF Crm!Marked
<1>3. /\ zConfig'.provider = zConfig.provider /\ zCrossed' \in BOOLEAN
      /\ zConfig' \in [provider : {"mock", "zoho"}, connected : BOOLEAN]
    BY <1>1, <1>2, Zenon DEF CrmMarks
<1>4. Crm!Configured' = Crm!Configured
    BY <1>1, <1>3, Zenon DEF Crm!Configured
<1>5. Crm!ClientIsConfigured'
    BY <1>1, <1>4, Zenon DEF CrmInv, Crm!ClientIsConfigured
<1>6. Crm!ConnectedWasAsked'
    <2> SUFFICES ASSUME zConfig'.connected, zConfig'.provider = "zoho", ~zCrossed'
                 PROVE  zOp'["test"].pc \in {"done", "gone"} /\ zOp'["test"].client.account = zSecrets'
        BY Zenon DEF Crm!ConnectedWasAsked
    <2>1. CASE UNCHANGED <<zConfig, zCrossed>>
        BY <1>1, <2>1, Zenon DEF CrmInv, Crm!ConnectedWasAsked
    <2>2. CASE Crm!Marked(FALSE, zClient)
        BY <1>2, <1>3, <2>2
    <2>3. CASE zOp'["test"].pc = "done" /\ Crm!Marked(TRUE, zOp'["test"].client)
        <3>1. Crm!Of(zOp'["test"].client) = Crm!Configured
            BY <1>2, <2>3, Zenon
        <3>2. Crm!Configured = Crm!Of(Crm!Made("zoho", zSecrets, 0))
            BY <1>3 DEF Crm!Configured
        <3>3. Crm!Made("zoho", zSecrets, 0).account = zSecrets
            BY <1>1 DEF Crm!Made, Crm!Unset, Crm!Zoho
        <3>4. zOp'["test"].client.account = zSecrets
            BY <3>1, <3>2, <3>3 DEF Crm!Of
        <3> QED BY <1>1, <2>3, <3>4
    <2> QED BY <2>1, <2>2, <2>3, Zenon DEF CrmMarks
<1> QED BY <1>3, <1>5, <1>6

\* What the note needs of the step of an operation, given what it did to it.
LEMMA OthersNote ==
  ASSUME NoteInv, zOp'["note"] = zOp["note"], zLanded' = zLanded, zLied' = zLied
  PROVE  NoteInv'
BY Zenon DEF NoteInv

\* An operation that was not under way asks with the client there is.
LEMMA AsksKeeps ==
  ASSUME CrmInv, NEW o \in Crm!Ops, NEW at \in {1, 2}, NEW found \in 0..MaxClients, Crm!Asks(o, at, found),
         UNCHANGED <<zSecrets, zClient, zClients, zExchange, zFailed, zLied>>,
         zOp[o].pc = "idle" \/ (zOp[o].pc = "sent" /\ zOp[o].at = 1), at = 2 => o = "note"
  PROVE  CrmInv'
<1>a. Asked(o, at, found)
    <2>1. CrmTypes
        BY DEF CrmInv
    <2> QED BY <2>1, AsksIs, Zenon
<1>1. /\ zOp' \in [Crm!Ops -> CrmOps] /\ zAuth' \in [Crm!Clients -> CrmAuths]
      /\ \A p \in Crm!Ops : p # o => zOp'[p] = zOp[p]
      /\ zOp'[o].at = at /\ zOp'[o].client = zClient /\ zOp'[o].tries = 0 /\ zOp'[o].found = found
    BY <1>a, Zenon DEF Asked
<1>2. \/ /\ zOp'[o].pc \in {"sent", "token"} /\ (zOp'[o].pc = "sent" => zOp'[o].valid)
         /\ zClient.kind = "zoho" /\ UNCHANGED <<zConfig, zCrossed, zLanded>>
      \/ /\ zOp'[o].pc = "done" /\ (at = 1 \/ found = 0)
         /\ zLanded' = IF o = "note" THEN [zLanded EXCEPT ![0] = @ + 1] ELSE zLanded
         /\ IF o = "test" THEN Crm!Marked(TRUE, zClient) ELSE UNCHANGED <<zConfig, zCrossed>>
      \/ zOp'[o].pc = "failed" /\ UNCHANGED zLanded /\ Crm!Concluded({o})
    BY <1>a, Zenon DEF Asked
<1>3. o \in {"note", "test"} /\ "note" \in Crm!Ops /\ "test" \in Crm!Ops
    BY DEF Crm!Ops
<1>4. CrmMarks
    <2>1. CASE UNCHANGED <<zConfig, zCrossed>>
        BY <2>1, Zenon DEF CrmMarks
    <2>2. CASE zOp'[o].pc = "done" /\ o = "test" /\ Crm!Marked(TRUE, zClient)
        BY <1>1, <2>2, Zenon DEF CrmMarks
    <2>3. CASE Crm!Concluded({o})
        BY <2>3, Zenon DEF CrmMarks, Crm!Concluded
    <2> QED BY <1>2, <1>3, <2>1, <2>2, <2>3, Zenon
<1>5. zOp["test"].pc \in {"done", "gone"} => zOp'["test"] = zOp["test"]
    BY <1>1, <1>3
<1>6. /\ zConfig' \in [provider : {"mock", "zoho"}, connected : BOOLEAN] /\ zCrossed' \in BOOLEAN
      /\ Crm!ClientIsConfigured' /\ Crm!ConnectedWasAsked'
    BY <1>1, <1>4, <1>5, MarksKeep
<1>7. zLanded \in [0..MaxClients -> Nat] /\ zLied \in Nat /\ 0 \in 0..MaxClients
    BY LimitsAssumption DEF CrmInv, CrmTypes
<1>8. CrmTypes'
    <2>1. zLanded' \in [0..MaxClients -> Nat] /\ zLied' \in Nat
        <3>1. zLanded' = zLanded \/ zLanded' = [zLanded EXCEPT ![0] = @ + 1]
            BY <1>2, Zenon
        <3> QED BY <1>7, <3>1
    <2>2. \A p \in Crm!Ops :
            /\ zOp'[p].pc \in CrmWaits => zOp'[p].client.kind = "zoho" /\ zOp'[p].tries < MaxAttempts
            /\ zOp'[p].pc = "sent" => zOp'[p].valid
        <3>1. 0 < MaxAttempts
            BY LimitsAssumption
        <3>2. zOp'[o].pc \in CrmWaits => zClient.kind = "zoho" /\ (zOp'[o].pc = "sent" => zOp'[o].valid)
            BY <1>2 DEF CrmWaits
        <3> QED BY <1>1, <3>1, <3>2 DEF CrmInv, CrmTypes, CrmWaits
    <2> QED BY <1>1, <1>6, <2>1, <2>2, Zenon DEF CrmInv, CrmTypes
<1>9. NoteInv'
    <2>1. CASE o = "test"
        BY <1>1, <1>2, <1>3, <2>1, OthersNote DEF CrmInv
    <2>2. CASE o = "note"
        <3>1. zLied = 0 /\ \A a \in 0..MaxClients : zLanded[a] = 0
            <4>1. zLied = 0 /\ \A a \in 0..MaxClients : zLanded[a] <= 0
                BY <2>2, <1>7 DEF CrmInv, NoteInv
            <4> QED BY <1>7, <4>1
        <3>2. CASE zOp'[o].pc # "done"
            <4>1. zLanded' = zLanded /\ zLied' = 0 /\ zOp'["note"].pc \in {"sent", "token", "failed"}
                BY <1>2, <2>2, <3>1, <3>2
            <4> QED BY <1>1, <2>2, <3>1, <4>1 DEF NoteInv
        <3>3. CASE zOp'[o].pc = "done"
            <4>1. zLanded' = [zLanded EXCEPT ![0] = @ + 1] /\ (at = 1 \/ found = 0)
                BY <1>2, <2>2, <3>3
            <4>2. zLanded'[0] = 1 /\ \A a \in 0..MaxClients : a # 0 => zLanded'[a] = 0
                BY <1>7, <3>1, <4>1
            <4>3. 1 <= MaxAttempts
                BY LimitsAssumption
            <4>4. zOp'["note"].at = at /\ zOp'["note"].tries = 0 /\ zOp'["note"].found = found
                BY <1>1, <2>2
            <4> QED BY <1>7, <2>2, <3>1, <3>3, <4>1, <4>2, <4>3, <4>4 DEF NoteInv
        <3> QED BY <3>2, <3>3
    <2> QED BY <1>3, <2>1, <2>2
<1> QED BY <1>6, <1>8, <1>9 DEF CrmInv

\* The request of an operation is answered, or is not.
LEMMA AnswersKeep ==
  ASSUME CrmInv, NEW o \in Crm!Ops, Crm!Answers(o)
  PROVE  CrmInv'
<1>1. /\ o \in {"note", "test"} /\ "note" \in Crm!Ops /\ "test" \in Crm!Ops
      /\ zOp \in [Crm!Ops -> CrmOps] /\ zOp[o].pc = "sent" /\ zOp[o].tries \in 0..MaxAttempts
      /\ zOp[o].tries < MaxAttempts /\ zOp[o].at \in {1, 2} /\ zOp[o].client \in CrmClients
      /\ zOp[o].client.kind = "zoho" /\ zOp[o].found \in 0..MaxClients /\ MaxAttempts \in Nat \ {0}
    <2>1. zOp[o].pc = "sent"
        BY DEF Crm!Answers, Crm!Accepted, Crm!Refused, Crm!Busy, Crm!Sent
    <2>2. zOp \in [Crm!Ops -> CrmOps] /\ zOp[o].client.kind = "zoho" /\ zOp[o].tries < MaxAttempts
        BY <2>1 DEF CrmInv, CrmTypes, CrmWaits
    <2>3. zOp[o] \in CrmOps
        BY <2>2
    <2> QED BY <2>1, <2>2, <2>3, LimitsAssumption DEF CrmOps, Crm!Ops
<1>2. /\ UNCHANGED <<zSecrets, zClient, zClients, zExchange, zFailed>>
      /\ zLanded \in [0..MaxClients -> Nat] /\ zLied \in Nat
    BY DEF Crm!Answers, Crm!Accepted, Crm!Refused, Crm!Busy, Crm!rest, CrmInv, CrmTypes
<1>3. Crm!Account(o) \in 0..MaxClients
    BY <1>1 DEF Crm!Account, CrmClients
<1> DEFINE Ends == /\ zOp' \in [Crm!Ops -> CrmOps] /\ zAuth' = zAuth
                   /\ \A p \in Crm!Ops : p # o => zOp'[p] = zOp[p]
                   /\ zOp'[o].at = zOp[o].at /\ zOp'[o].client = zOp[o].client
                   /\ zOp'[o].found = zOp[o].found /\ zOp'[o].tries = zOp[o].tries + 1
                   /\ zOp'[o].pc \in {"done", "failed", "pause"}
                   /\ zOp'[o].pc = "pause" => zOp'[o].tries < MaxAttempts
                   /\ CrmMarks
           Lands == /\ \/ zLanded' = zLanded /\ zLied' = zLied /\ (zOp'[o].pc = "done" => ~Crm!Writes(o))
                       \/ /\ Crm!Writes(o) /\ zOp[o].found = Crm!Account(o)
                          /\ zLanded' = [zLanded EXCEPT ![Crm!Account(o)] = @ + 1]
                          /\ zLied' = zLied + (IF zOp'[o].pc = "done" THEN 0 ELSE 1)
                    /\ zOp'[o].pc = "done" => o = "test" \/ zOp[o].at = 2
<1>4. ASSUME Ends, Lands PROVE CrmInv'
    <2>1. zOp["test"].pc \in {"done", "gone"} => zOp'["test"] = zOp["test"]
        BY <1>1, <1>4
    <2>2. /\ zConfig' \in [provider : {"mock", "zoho"}, connected : BOOLEAN] /\ zCrossed' \in BOOLEAN
          /\ Crm!ClientIsConfigured' /\ Crm!ConnectedWasAsked'
        BY <1>4, <2>1, MarksKeep
    <2>3. zLanded' \in [0..MaxClients -> Nat] /\ zLied' \in Nat
        <3>1. zLanded' = zLanded \/ zLanded' = [zLanded EXCEPT ![Crm!Account(o)] = @ + 1]
            BY <1>4, Zenon
        <3>2. zLied' = zLied \/ zLied' = zLied + 0 \/ zLied' = zLied + 1
            BY <1>4, Zenon
        <3> QED BY <1>2, <1>3, <3>1, <3>2
    <2>4. CrmTypes'
        <3>1. \A p \in Crm!Ops :
                /\ zOp'[p].pc \in CrmWaits => zOp'[p].client.kind = "zoho" /\ zOp'[p].tries < MaxAttempts
                /\ zOp'[p].pc = "sent" => zOp'[p].valid
            BY <1>1, <1>4 DEF CrmInv, CrmTypes, CrmWaits
        <3> QED BY <1>2, <1>4, <2>2, <2>3, <3>1, Zenon DEF CrmInv, CrmTypes
    <2>5. NoteInv'
        <3>1. CASE o = "test"
            <4>1. ~Crm!Writes(o)
                BY <3>1 DEF Crm!Writes
            <4> QED BY <1>1, <1>4, <3>1, <4>1, OthersNote DEF CrmInv
        <3>2. CASE o = "note"
            <4> DEFINE n == zOp["note"]
                       m == zOp'["note"]
            <4>1. /\ n.pc = "sent" /\ n.tries \in Nat /\ n.tries < MaxAttempts /\ n.at \in {1, 2}
                  /\ m.at = n.at /\ m.found = n.found /\ m.tries = n.tries + 1
                  /\ m.pc \in {"done", "failed", "pause"} /\ (m.pc = "done" => n.at = 2)
                BY <1>1, <1>4, <3>2
            <4>2. /\ \A a \in 0..MaxClients : zLanded[a] <= zLied
                  /\ n.at = 1 => zLied = 0
                  /\ n.at = 2 => zLied <= n.tries /\ \A a \in 0..MaxClients : zLanded[a] > 0 => a = n.found
                <5>1. /\ \A a \in 0..MaxClients : zLanded[a] <= zLied + (IF n.pc = "done" THEN 1 ELSE 0)
                      /\ n.at = 1 /\ n.pc # "gone" => zLied = 0
                      /\ n.at = 2 => zLied <= n.tries /\ \A a \in 0..MaxClients : zLanded[a] > 0 => a = n.found
                    BY Zenon DEF CrmInv, NoteInv
                <5>2. \A a \in 0..MaxClients : zLanded[a] <= zLied
                    BY <1>2, <4>1, <5>1
                <5> QED BY <4>1, <5>1, <5>2
            <4>3. Crm!Writes(o) <=> n.at = 2
                BY <3>2 DEF Crm!Writes
            <4>4. CASE zLanded' = zLanded /\ zLied' = zLied /\ (m.pc = "done" => ~Crm!Writes(o))
                <5>1. m.pc \in {"failed", "pause"}
                    BY <4>1, <4>3, <4>4
                <5>2. /\ \A a \in 0..MaxClients : zLanded'[a] <= zLied' + (IF m.pc = "done" THEN 1 ELSE 0)
                      /\ m.at = 1 /\ m.pc # "gone" => zLied' = 0
                      /\ m.at = 2 => zLied' <= m.tries /\ \A a \in 0..MaxClients : zLanded'[a] > 0 => a = m.found
                    <6> HIDE DEF n, m
                    <6> QED BY <1>2, <4>1, <4>2, <4>4, <5>1
                <5> QED BY <5>1, <5>2, Zenon DEF NoteInv
            <4>5. CASE /\ Crm!Writes(o) /\ n.found = Crm!Account(o)
                       /\ zLanded' = [zLanded EXCEPT ![Crm!Account(o)] = @ + 1]
                       /\ zLied' = zLied + (IF m.pc = "done" THEN 0 ELSE 1)
                <5> DEFINE f == Crm!Account(o)
                <5>0. f \in 0..MaxClients /\ n.found = f
                    BY <1>3, <4>5
                <5>1. n.at = 2 /\ m.at = 2 /\ m.found = f
                    BY <4>1, <4>3, <4>5
                <5>2. /\ zLanded'[f] = zLanded[f] + 1
                      /\ \A a \in 0..MaxClients : a # f => zLanded'[a] = zLanded[a]
                    BY <1>2, <4>5, <5>0
                <5>3. zLied' = IF m.pc = "done" THEN zLied ELSE zLied + 1
                    BY <1>2, <4>5
                <5> HIDE DEF f, n, m
                <5>4. \A a \in 0..MaxClients : zLanded'[a] <= zLied' + (IF m.pc = "done" THEN 1 ELSE 0)
                    BY <1>2, <4>2, <5>0, <5>2, <5>3
                <5>5. zLied' <= m.tries
                    BY <1>2, <4>1, <4>2, <5>1, <5>3
                <5>6. \A a \in 0..MaxClients : zLanded'[a] > 0 => a = m.found
                    BY <4>2, <5>0, <5>1, <5>2
                <5>7. m.pc = "done" => zLied' + 1 <= MaxAttempts
                    BY <1>1, <1>2, <4>1, <4>2, <5>1, <5>3
                <5>8. zLanded'[f] > 0
                    BY <1>2, <5>0, <5>2
                <5> QED BY <4>1, <5>0, <5>1, <5>4, <5>5, <5>6, <5>7, <5>8 DEF NoteInv, m
            <4> QED BY <1>4, <3>2, <4>4, <4>5
        <3> QED BY <1>1, <3>1, <3>2
    <2> QED BY <2>2, <2>4, <2>5 DEF CrmInv
<1>5. CASE Crm!Accepted(o) /\ o = "note" /\ zOp[o].at = 1
    <2>1. Crm!Asks(o, 2, Crm!Account(o)) /\ zLied' = zLied
        BY <1>5, Zenon DEF Crm!Accepted
    <2> QED BY <1>1, <1>2, <1>3, <1>5, <2>1, AsksKeeps
<1>6. CASE Crm!Accepted(o) /\ ~(o = "note" /\ zOp[o].at = 1)
    <2>1. /\ zOp' = [zOp EXCEPT ![o].pc = "done", ![o].tries = @ + 1] /\ zAuth' = zAuth /\ zLied' = zLied
          /\ zLanded' = IF Crm!Writes(o) THEN [zLanded EXCEPT ![Crm!Account(o)] = @ + 1] ELSE zLanded
          /\ IF o = "test" THEN Crm!Marked(TRUE, zOp[o].client) ELSE UNCHANGED <<zConfig, zCrossed>>
          /\ Crm!Writes(o) => zOp[o].found = Crm!Account(o)
        BY <1>6, Zenon DEF Crm!Accepted
    <2>2. zOp[o].tries + 1 \in 0..MaxAttempts
        BY <1>1
    <2>3. /\ zOp' \in [Crm!Ops -> CrmOps] /\ \A p \in Crm!Ops : p # o => zOp'[p] = zOp[p]
          /\ zOp'[o].at = zOp[o].at /\ zOp'[o].client = zOp[o].client
          /\ zOp'[o].found = zOp[o].found /\ zOp'[o].tries = zOp[o].tries + 1 /\ zOp'[o].pc = "done"
        BY <1>1, <2>1, <2>2 DEF CrmOps
    <2>4. CrmMarks
        BY <1>1, <1>2, <2>1, <2>3, Zenon DEF CrmMarks
    <2>5. Ends
        BY <2>1, <2>3, <2>4
    <2>6. zLied' = zLied + 0
        BY <1>2, <2>1
    <2>7. Lands
        BY <1>1, <1>6, <2>1, <2>3, <2>6
    <2> HIDE DEF Ends, Lands
    <2> QED BY <1>4, <2>5, <2>7
<1>7. CASE Crm!Refused(o)
    <2>1. /\ zOp' = [zOp EXCEPT ![o].pc = "failed", ![o].tries = @ + 1] /\ Crm!Concluded({o})
          /\ UNCHANGED <<zAuth, zLanded, zLied>>
        BY <1>7 DEF Crm!Refused
    <2>2. zOp[o].tries + 1 \in 0..MaxAttempts
        BY <1>1
    <2>3. /\ zOp' \in [Crm!Ops -> CrmOps] /\ \A p \in Crm!Ops : p # o => zOp'[p] = zOp[p]
          /\ zOp'[o].at = zOp[o].at /\ zOp'[o].client = zOp[o].client
          /\ zOp'[o].found = zOp[o].found /\ zOp'[o].tries = zOp[o].tries + 1 /\ zOp'[o].pc = "failed"
        BY <1>1, <2>1, <2>2 DEF CrmOps
    <2>4. CrmMarks
        BY <1>2, <2>1, Zenon DEF CrmMarks, Crm!Concluded
    <2>5. Ends
        BY <2>1, <2>3, <2>4
    <2>6. Lands
        BY <2>1, <2>3
    <2> HIDE DEF Ends, Lands
    <2> QED BY <1>4, <2>5, <2>6
<1>8. CASE Crm!Busy(o)
    <2> DEFINE p2 == IF zOp[o].tries + 1 < MaxAttempts THEN "pause" ELSE "failed"
    <2>1. /\ zOp' = [zOp EXCEPT ![o].tries = @ + 1, ![o].pc = p2] /\ UNCHANGED zAuth
          /\ IF zOp'[o].pc = "failed" THEN Crm!Concluded({o}) ELSE UNCHANGED <<zConfig, zCrossed>>
          /\ \/ UNCHANGED <<zLanded, zLied>>
             \/ /\ Crm!Writes(o) /\ zOp[o].found = Crm!Account(o)
                /\ zLanded' = [zLanded EXCEPT ![Crm!Account(o)] = @ + 1] /\ zLied' = zLied + 1
        BY <1>8 DEF Crm!Busy
    <2>2. /\ zOp[o].tries + 1 \in 0..MaxAttempts /\ p2 \in {"pause", "failed"}
          /\ p2 = "pause" => zOp[o].tries + 1 < MaxAttempts
        BY <1>1
    <2> HIDE DEF p2
    <2>3. /\ zOp' \in [Crm!Ops -> CrmOps] /\ \A p \in Crm!Ops : p # o => zOp'[p] = zOp[p]
          /\ zOp'[o].at = zOp[o].at /\ zOp'[o].client = zOp[o].client
          /\ zOp'[o].found = zOp[o].found /\ zOp'[o].tries = zOp[o].tries + 1 /\ zOp'[o].pc = p2
        BY <1>1, <2>1, <2>2 DEF CrmOps
    <2>4. CrmMarks
        BY <1>2, <2>1, Zenon DEF CrmMarks, Crm!Concluded
    <2>5. Ends
        BY <2>1, <2>2, <2>3, <2>4
    <2>6. Lands
        BY <2>1, <2>2, <2>3
    <2> HIDE DEF Ends, Lands
    <2> QED BY <1>4, <2>5, <2>6
<1> QED BY <1>5, <1>6, <1>7, <1>8 DEF Crm!Answers

\* Saving, in whatever part, and a start of the application.
LEMMA SavesKeep ==
  ASSUME CrmInv,
         \/ \E provider \in {"mock", "zoho"} : Crm!Save(provider)
         \/ Crm!SaveGrant \/ Crm!Exchanged \/ Crm!ExchangeFails
  PROVE  CrmInv'
<1>1. /\ zOp' = zOp /\ zAuth' = zAuth /\ zLanded' = zLanded /\ zLied' = zLied
      /\ zClients \in 0..MaxClients /\ zSecrets \in 0..MaxClients /\ MaxClients \in Nat
      /\ zConfig \in [provider : {"mock", "zoho"}, connected : BOOLEAN] /\ zFailed \in BOOLEAN
      /\ zCrossed \in BOOLEAN /\ zExchange \in BOOLEAN /\ zClient \in CrmClients
    BY LimitsAssumption DEF Crm!Save, Crm!SaveGrant, Crm!Exchanged, Crm!ExchangeFails, CrmInv, CrmTypes
<1>2. NoteInv'
    BY <1>1, OthersNote DEF CrmInv
<1>3. ASSUME /\ zConfig' \in [provider : {"mock", "zoho"}, connected : BOOLEAN]
             /\ zSecrets' \in 0..MaxClients /\ zClients' \in 0..MaxClients /\ zClient' \in CrmClients
             /\ zExchange' \in BOOLEAN /\ zFailed' \in BOOLEAN /\ zCrossed' \in BOOLEAN
      PROVE  CrmTypes'
    BY <1>1, <1>3, Zenon DEF CrmInv, CrmTypes
<1>4. ASSUME NEW provider \in {"mock", "zoho"}, NEW account \in {zSecrets, zClients + 1},
             zClients < MaxClients, Crm!Persisted(provider, account), zExchange' \in BOOLEAN
      PROVE  CrmInv'
    <2>1. /\ zConfig' = [provider |-> provider, connected |-> provider = "mock"]
          /\ zSecrets' = account /\ zFailed' = FALSE /\ zCrossed' = FALSE
          /\ zClients' = (IF provider = "zoho" /\ account # 0 THEN zClients + 1 ELSE zClients)
          /\ zClient' = Crm!Made(provider, account, zClients + 1)
        BY <1>4, Zenon DEF Crm!Persisted
    <2>2. account \in 0..MaxClients /\ zClients + 1 \in 1..MaxClients /\ zClients' \in 0..MaxClients
        BY <1>1, <1>4, <2>1
    <2>3. /\ zConfig' \in [provider : {"mock", "zoho"}, connected : BOOLEAN]
          /\ zConfig'.provider = provider /\ zConfig'.connected = (provider = "mock")
        BY <2>1, Zenon
    <2>4. \A id : Crm!Of(Crm!Made(provider, account, id)) = Crm!Of(Crm!Made(provider, account, 0))
        BY DEF Crm!Of, Crm!Made, Crm!Local, Crm!Unset, Crm!Zoho
    <2>5. zClient' \in CrmClients
        <3>1. Crm!Local \in CrmClients /\ Crm!Unset \in CrmClients
            BY <1>1 DEF Crm!Local, Crm!Unset, CrmClients
        <3>2. account # 0 => Crm!Zoho(zClients + 1, account) \in CrmClients
            BY <1>1, <2>2 DEF Crm!Zoho, CrmClients
        <3> QED BY <2>1, <3>1, <3>2, Zenon DEF Crm!Made
    <2>6. Crm!ClientIsConfigured'
        BY <2>1, <2>3, <2>4, Zenon DEF Crm!ClientIsConfigured, Crm!Configured
    <2>7. Crm!ConnectedWasAsked'
        <3>1. ~(zConfig'.connected /\ zConfig'.provider = "zoho")
            BY <2>3
        <3> QED BY <3>1 DEF Crm!ConnectedWasAsked
    <2>8. zSecrets' \in 0..MaxClients /\ zFailed' \in BOOLEAN /\ zCrossed' \in BOOLEAN
        BY <2>1, <2>2
    <2> QED BY <1>2, <1>3, <1>4, <2>2, <2>3, <2>5, <2>6, <2>7, <2>8 DEF CrmInv
<1>5. ASSUME NEW provider \in {"mock", "zoho"}, Crm!Save(provider)
      PROVE  CrmInv'
    <2>1. PICK account \in {zSecrets} \cup (IF provider = "zoho" THEN {zClients + 1} ELSE {}) :
            Crm!Persisted(provider, account)
        BY <1>5, Zenon DEF Crm!Save
    <2>2. zClients < MaxClients /\ zExchange' = zExchange
        BY <1>5 DEF Crm!Save
    <2>3. account \in {zSecrets, zClients + 1}
        OBVIOUS
    <2> QED BY <1>1, <1>4, <2>1, <2>2, <2>3
<1>6. CASE Crm!SaveGrant
    <2>1. /\ zExchange' = TRUE
          /\ UNCHANGED <<zConfig, zSecrets, zClient, zClients, zFailed, zCrossed, zAuth, zOp, zLanded, zLied>>
        BY <1>6 DEF Crm!SaveGrant
    <2>2. Crm!ClientIsConfigured' /\ Crm!ConnectedWasAsked'
        BY <2>1, Zenon DEF CrmInv, Crm!ClientIsConfigured, Crm!ConnectedWasAsked, Crm!Configured
    <2>3. CrmTypes'
        BY <1>1, <1>3, <2>1
    <2> QED BY <1>2, <2>2, <2>3 DEF CrmInv
<1>7. CASE Crm!Exchanged
    <2>1. zClients < MaxClients /\ zExchange' \in BOOLEAN /\ Crm!Persisted("zoho", zClients + 1)
        BY <1>7 DEF Crm!Exchanged
    <2> QED BY <1>4, <2>1
<1>8. CASE Crm!ExchangeFails
    <2>1. /\ zExchange' = FALSE /\ zFailed' = TRUE /\ zCrossed' = FALSE
          /\ zConfig' = [provider |-> "zoho", connected |-> FALSE]
          /\ UNCHANGED <<zSecrets, zClient, zClients>>
        BY <1>8 DEF Crm!ExchangeFails
    <2>2. Crm!ClientIsConfigured' /\ Crm!ConnectedWasAsked'
        BY <2>1 DEF Crm!ClientIsConfigured, Crm!ConnectedWasAsked
    <2>3. CrmTypes'
        BY <1>1, <1>3, <2>1
    <2> QED BY <1>2, <2>2, <2>3 DEF CrmInv
<1> QED BY <1>5, <1>6, <1>7, <1>8

\* Whoever waits when the application stops is gone.
LEMMA RestartKeeps == ASSUME CrmInv, Crm!Restart PROVE CrmInv'
<1>1. /\ zClients < MaxClients /\ zFailed' = FALSE /\ zExchange' = FALSE
      /\ zClient' = Crm!Made(zConfig.provider, zSecrets, zClients + 1)
      /\ zClients' = (IF zClient'.kind = "zoho" THEN zClients + 1 ELSE zClients)
      /\ zOp' = [o \in Crm!Ops |-> IF zOp[o].pc \in CrmWaits THEN [Crm!Idle EXCEPT !.pc = "gone"] ELSE zOp[o]]
      /\ zAuth' = Crm!NoAuth /\ UNCHANGED <<zConfig, zSecrets, zLanded, zLied, zCrossed>>
    BY DEF Crm!Restart, CrmWaits
<1>2. /\ zClients \in 0..MaxClients /\ zSecrets \in 0..MaxClients /\ MaxClients \in Nat
      /\ zConfig \in [provider : {"mock", "zoho"}, connected : BOOLEAN] /\ zOp \in [Crm!Ops -> CrmOps]
      /\ MaxAttempts \in Nat \ {0}
    BY LimitsAssumption DEF CrmInv, CrmTypes
<1>3. zClients + 1 \in 1..MaxClients /\ zClients' \in 0..MaxClients
    BY <1>1, <1>2
<1>4. zClient' \in CrmClients
    BY <1>1, <1>2, <1>3 DEF Crm!Made, Crm!Local, Crm!Unset, Crm!Zoho, CrmClients
<1>5. /\ [Crm!Idle EXCEPT !.pc = "gone"] \in CrmOps /\ [Crm!Idle EXCEPT !.pc = "gone"].pc = "gone"
      /\ [Crm!Idle EXCEPT !.pc = "gone"].at = 1
    <2>1. Crm!Local \in CrmClients /\ 0 \in 0..MaxAttempts /\ 0 \in 0..MaxClients
        BY <1>2 DEF Crm!Local, CrmClients
    <2>2. Crm!Idle \in CrmOps /\ Crm!Idle.at = 1
        BY <2>1, Zenon DEF Crm!Idle, CrmOps
    <2> QED BY <2>2 DEF CrmOps
<1>6. /\ zOp' \in [Crm!Ops -> CrmOps]
      /\ \A o \in Crm!Ops : IF zOp[o].pc \in CrmWaits THEN zOp'[o].pc = "gone" /\ zOp'[o].at = 1
                            ELSE zOp'[o] = zOp[o]
    BY <1>1, <1>2, <1>5, Zenon
<1>7. zAuth' \in [Crm!Clients -> CrmAuths]
    BY <1>1 DEF Crm!NoAuth, CrmAuths
<1>8. CrmTypes'
    <2>1. \A o \in Crm!Ops : /\ zOp'[o].pc \notin CrmWaits
                            /\ zOp'[o].pc # "sent"
        BY <1>6 DEF CrmWaits
    <2>2. zFailed' \in BOOLEAN /\ zExchange' \in BOOLEAN
        BY <1>1
    <2> QED BY <1>1, <1>3, <1>4, <1>6, <1>7, <2>1, <2>2, Zenon DEF CrmInv, CrmTypes
<1>9. Crm!ClientIsConfigured'
    <2>1. \A p, id : Crm!Of(Crm!Made(p, zSecrets, id)) = Crm!Of(Crm!Made(p, zSecrets, 0))
        BY DEF Crm!Of, Crm!Made, Crm!Local, Crm!Unset, Crm!Zoho
    <2> QED BY <1>1, <2>1, Zenon DEF Crm!ClientIsConfigured, Crm!Configured
<1>10. Crm!ConnectedWasAsked'
    <2>1. zOp["test"].pc \in {"done", "gone"} => zOp'["test"] = zOp["test"]
        BY <1>6 DEF CrmWaits, Crm!Ops
    <2> QED BY <1>1, <2>1, Zenon DEF CrmInv, Crm!ConnectedWasAsked
<1>11. NoteInv'
    <2>1. zOp["note"] \in CrmOps /\ "note" \in Crm!Ops
        BY <1>2 DEF Crm!Ops
    <2>2. CASE zOp["note"].pc \notin CrmWaits
        BY <1>1, <1>6, <2>1, <2>2, OthersNote DEF CrmInv
    <2>3. CASE zOp["note"].pc \in CrmWaits
        <3>1. zOp'["note"].pc = "gone" /\ zOp'["note"].at = 1
            BY <1>6, <2>1, <2>3
        <3>2. zOp["note"].tries \in 0..MaxAttempts /\ zOp["note"].at \in {1, 2}
            BY <2>1 DEF CrmOps
        <3>3. zLied <= MaxAttempts
            BY <1>2, <2>3, <3>2 DEF CrmInv, CrmTypes, NoteInv, CrmWaits
        <3>4. \A a \in 0..MaxClients : zLanded[a] <= zLied
            <4>1. \A a \in 0..MaxClients : zLanded[a] <= zLied + 0
                BY <2>3 DEF CrmInv, NoteInv, CrmWaits
            <4>2. zLied \in Nat
                BY DEF CrmInv, CrmTypes
            <4> QED BY <4>1, <4>2
        <3>5. zLied + 0 = zLied
            BY DEF CrmInv, CrmTypes
        <3> QED BY <1>1, <3>1, <3>3, <3>4, <3>5 DEF NoteInv
    <2> QED BY <2>2, <2>3
<1> QED BY <1>8, <1>9, <1>10, <1>11 DEF CrmInv

\* A refresh that ends, well or not, lets those go who wait for it, and one who
\* paused goes on.
LEMMA RefreshKeeps ==
  ASSUME CrmInv, \/ \E c \in Crm!Clients : Crm!Refreshes(c)
                 \/ \E o \in Crm!Ops : Crm!Retry(o)
  PROVE  CrmInv'
<1>1. zOp \in [Crm!Ops -> CrmOps] /\ zAuth \in [Crm!Clients -> CrmAuths] /\ "test" \in Crm!Ops /\ "note" \in Crm!Ops
    BY DEF CrmInv, CrmTypes, Crm!Ops
<1>2. ASSUME zOp' \in [Crm!Ops -> CrmOps], zAuth' \in [Crm!Clients -> CrmAuths], CrmMarks,
             UNCHANGED <<zLanded, zLied>>,
             \A o \in Crm!Ops :
               \/ zOp'[o] = zOp[o]
               \/ /\ zOp[o].pc \in {"token", "pause"} /\ zOp'[o].pc \in {"token", "sent", "failed"}
                  /\ zOp'[o].pc = "sent" => zOp'[o].valid
                  /\ zOp'[o].at = zOp[o].at /\ zOp'[o].client = zOp[o].client
                  /\ zOp'[o].tries = zOp[o].tries /\ zOp'[o].found = zOp[o].found
      PROVE  CrmInv'
    <2>1. zOp["test"].pc \in {"done", "gone"} => zOp'["test"] = zOp["test"]
        BY <1>1, <1>2
    <2>2. /\ zConfig' \in [provider : {"mock", "zoho"}, connected : BOOLEAN] /\ zCrossed' \in BOOLEAN
          /\ Crm!ClientIsConfigured' /\ Crm!ConnectedWasAsked'
        BY <1>2, <2>1, MarksKeep
    <2>3. UNCHANGED <<zSecrets, zClient, zClients, zExchange, zFailed>>
        BY <1>2 DEF CrmMarks
    <2>4. \A o \in Crm!Ops :
            /\ zOp'[o].pc \in CrmWaits => zOp'[o].client.kind = "zoho" /\ zOp'[o].tries < MaxAttempts
            /\ zOp'[o].pc = "sent" => zOp'[o].valid
        BY <1>2 DEF CrmInv, CrmTypes, CrmWaits
    <2>5. CrmTypes'
        BY <1>2, <2>2, <2>3, <2>4, Zenon DEF CrmInv, CrmTypes
    <2>6. NoteInv'
        <3>1. CASE zOp'["note"] = zOp["note"]
            BY <1>2, <3>1, OthersNote DEF CrmInv
        <3>2. CASE /\ zOp["note"].pc \in {"token", "pause"} /\ zOp'["note"].pc \in {"token", "sent", "failed"}
                   /\ zOp'["note"].at = zOp["note"].at /\ zOp'["note"].tries = zOp["note"].tries
                   /\ zOp'["note"].found = zOp["note"].found
            BY <1>2, <3>2 DEF CrmInv, NoteInv
        <3> QED BY <1>1, <1>2, <3>1, <3>2
    <2> QED BY <2>2, <2>5, <2>6 DEF CrmInv
<1>3. ASSUME NEW c \in Crm!Clients, Crm!Refreshed(c) PROVE CrmInv'
    <2>1. /\ zAuth[c].refreshing > 0
          /\ zAuth' = [zAuth EXCEPT ![c] = [cached |-> TRUE, refreshing |-> @.refreshing - 1]]
          /\ zOp' = [o \in Crm!Ops |-> IF o \in Crm!Waiting(c) THEN [zOp[o] EXCEPT !.pc = "sent", !.valid = TRUE] ELSE zOp[o]]
          /\ UNCHANGED <<zConfig, zSecrets, zClient, zClients, zExchange, zFailed, zCrossed, zLanded, zLied>>
        BY <1>3 DEF Crm!Refreshed, Crm!settings
    <2>2. zAuth' \in [Crm!Clients -> CrmAuths]
        <3>1. [cached |-> TRUE, refreshing |-> zAuth[c].refreshing - 1] \in CrmAuths
            <4>1. zAuth[c].refreshing \in 0..1
                BY <1>1 DEF CrmAuths
            <4>2. zAuth[c].refreshing > 0
                BY <1>3, Zenon DEF Crm!Refreshed
            <4>3. zAuth[c].refreshing - 1 \in 0..1
                BY <4>1, <4>2
            <4> QED BY <4>3, Zenon DEF CrmAuths
        <3>2. zAuth' = [zAuth EXCEPT ![c] = [cached |-> TRUE, refreshing |-> zAuth[c].refreshing - 1]]
            BY <2>1, Zenon
        <3> QED BY <1>1, <3>1, <3>2, Zenon
    <2>3. \A o \in Crm!Ops : [zOp[o] EXCEPT !.pc = "sent", !.valid = TRUE] \in CrmOps
        <3>1. \A q \in CrmOps : [q EXCEPT !.pc = "sent", !.valid = TRUE] \in CrmOps
            BY DEF CrmOps
        <3> QED BY <1>1, <3>1, Zenon
    <2>4. zOp' \in [Crm!Ops -> CrmOps]
        BY <1>1, <2>1, <2>3
    <2>5. \A o \in Crm!Ops :
             \/ zOp'[o] = zOp[o]
             \/ /\ zOp[o].pc = "token" /\ zOp'[o].pc = "sent" /\ zOp'[o].valid
                /\ zOp'[o].at = zOp[o].at /\ zOp'[o].client = zOp[o].client
                /\ zOp'[o].tries = zOp[o].tries /\ zOp'[o].found = zOp[o].found
        BY <1>1, <2>1 DEF CrmOps, Crm!Waiting
    <2>6. CrmMarks
        BY <2>1, Zenon DEF CrmMarks
    <2> QED BY <1>2, <2>1, <2>2, <2>4, <2>5, <2>6
<1>4. ASSUME NEW c \in Crm!Clients, Crm!RefreshFails(c) PROVE CrmInv'
    <2>1. /\ zAuth[c].refreshing > 0 /\ zAuth' = [zAuth EXCEPT ![c].refreshing = @ - 1]
          /\ zOp' = [o \in Crm!Ops |-> IF o \in Crm!Waiting(c) THEN [zOp[o] EXCEPT !.pc = "failed"] ELSE zOp[o]]
          /\ UNCHANGED <<zSecrets, zClient, zClients, zExchange, zFailed, zLanded, zLied>>
          /\ Crm!Concluded(Crm!Waiting(c))
        BY <1>4 DEF Crm!RefreshFails
    <2>2. zAuth' \in [Crm!Clients -> CrmAuths]
        BY <1>1, <2>1 DEF CrmAuths
    <2>3. \A o \in Crm!Ops : [zOp[o] EXCEPT !.pc = "failed"] \in CrmOps
        BY <1>1 DEF CrmOps
    <2>4. zOp' \in [Crm!Ops -> CrmOps]
        BY <1>1, <2>1, <2>3
    <2>5. \A o \in Crm!Ops :
             \/ zOp'[o] = zOp[o]
             \/ /\ zOp[o].pc = "token" /\ zOp'[o].pc = "failed"
                /\ zOp'[o].at = zOp[o].at /\ zOp'[o].client = zOp[o].client
                /\ zOp'[o].tries = zOp[o].tries /\ zOp'[o].found = zOp[o].found
        BY <1>1, <2>1 DEF CrmOps, Crm!Waiting
    <2>6. CrmMarks
        BY <2>1, Zenon DEF CrmMarks, Crm!Concluded
    <2> QED BY <1>2, <2>1, <2>2, <2>4, <2>5, <2>6
<1>5. ASSUME NEW o \in Crm!Ops, Crm!Retry(o) PROVE CrmInv'
    <2>1. /\ zOp[o].pc = "pause" /\ Crm!TokenFor(zOp[o].client.id, o, zOp[o])
          /\ UNCHANGED <<zConfig, zSecrets, zClient, zClients, zExchange, zFailed, zCrossed, zLanded, zLied>>
        BY <1>5 DEF Crm!Retry, Crm!settings
    <2>2. zOp[o] \in CrmOps /\ zOp[o].client.kind = "zoho"
        BY <1>1, <2>1 DEF CrmInv, CrmTypes, CrmWaits
    <2>3. zOp[o].client.id \in Crm!Clients
        BY <2>2 DEF CrmOps, CrmClients, Crm!Clients
    <2>4. /\ zOp' \in [Crm!Ops -> CrmOps] /\ zAuth' \in [Crm!Clients -> CrmAuths]
          /\ \A p \in Crm!Ops : p # o => zOp'[p] = zOp[p]
          /\ zOp'[o].pc \in {"sent", "token"} /\ (zOp'[o].pc = "sent" => zOp'[o].valid)
          /\ zOp'[o].at = zOp[o].at /\ zOp'[o].client = zOp[o].client /\ zOp'[o].tries = zOp[o].tries
          /\ zOp'[o].found = zOp[o].found
        BY <2>1, <2>2, <2>3, TokenIs DEF CrmInv
    <2>5. CrmMarks
        BY <2>1, Zenon DEF CrmMarks
    <2> QED BY <1>2, <2>1, <2>4, <2>5
<1> QED BY <1>3, <1>4, <1>5 DEF Crm!Refreshes

\* What is promised of the client of the CRM, for every behaviour of its module.
LEMMA CrmSafe ==
  Crm!Init /\ [][Crm!Next]_(Crm!clientVars)
    => [](Crm!TypeOK /\ Crm!ClientIsConfigured /\ Crm!ConnectedWasAsked /\ Crm!NoteOnceInItsPlace
          /\ Crm!TokenIsValid)
<1>1. Crm!Init => CrmInv
    <2> SUFFICES ASSUME Crm!Init PROVE CrmInv
        OBVIOUS
    <2>1. /\ zConfig = [provider |-> "mock", connected |-> TRUE] /\ zSecrets = 0 /\ zClient = Crm!Local
          /\ zClients = 0 /\ zAuth = Crm!NoAuth /\ zOp = [o \in Crm!Ops |-> Crm!Idle]
          /\ zLanded = [a \in 0..MaxClients |-> 0] /\ zLied = 0
          /\ zExchange = FALSE /\ zFailed = FALSE /\ zCrossed = FALSE
        BY DEF Crm!Init
    <2>2. MaxClients \in Nat /\ MaxAttempts \in Nat \ {0} /\ "note" \in Crm!Ops
        BY LimitsAssumption DEF Crm!Ops
    <2>3. zClient \in CrmClients /\ 0 \in 0..MaxAttempts /\ 0 \in 0..MaxClients
        BY <2>1, <2>2 DEF Crm!Local, CrmClients
    <2>4. Crm!Idle \in CrmOps /\ Crm!Idle.pc = "idle" /\ Crm!Idle.at = 1
        BY <2>1, <2>3, Zenon DEF Crm!Idle, CrmOps
    <2>5. zAuth \in [Crm!Clients -> CrmAuths]
        BY <2>1 DEF Crm!NoAuth, CrmAuths
    <2>6. zOp \in [Crm!Ops -> CrmOps] /\ \A o \in Crm!Ops : zOp[o].pc = "idle" /\ zOp[o].at = 1
        BY <2>1, <2>4
    <2>7. zConfig \in [provider : {"mock", "zoho"}, connected : BOOLEAN]
        BY <2>1
    <2>8. zLanded \in [0..MaxClients -> Nat] /\ zLied \in Nat
        BY <2>1
    <2>9. CrmTypes
        BY <2>1, <2>3, <2>5, <2>6, <2>7, <2>8 DEF CrmTypes, CrmWaits
    <2>10. NoteInv
        BY <2>1, <2>2, <2>6 DEF NoteInv
    <2>11. Crm!ClientIsConfigured /\ Crm!ConnectedWasAsked
        BY <2>1 DEF Crm!ClientIsConfigured, Crm!ConnectedWasAsked, Crm!Configured, Crm!Of, Crm!Made
    <2> QED BY <2>9, <2>10, <2>11 DEF CrmInv
<1>2. CrmInv /\ [Crm!Next]_(Crm!clientVars) => CrmInv'
    <2> SUFFICES ASSUME CrmInv, [Crm!Next]_(Crm!clientVars) PROVE CrmInv'
        OBVIOUS
    <2>1. ASSUME NEW o \in Crm!Ops, Crm!Start(o) PROVE CrmInv'
        <3>1. /\ zOp[o].pc = "idle" /\ Crm!Asks(o, 1, 0)
              /\ UNCHANGED <<zSecrets, zClient, zClients, zExchange, zFailed, zLied>>
            BY <2>1 DEF Crm!Start, Crm!rest
        <3>2. 0 \in 0..MaxClients /\ 1 \in {1, 2} /\ (1 = 2 => o = "note")
            BY LimitsAssumption
        <3>3. zOp[o].pc = "idle" \/ (zOp[o].pc = "sent" /\ zOp[o].at = 1)
            BY <3>1, Zenon
        <3> QED BY <2>1, <3>1, <3>2, <3>3, AsksKeeps, Zenon
    <2>2. CASE UNCHANGED Crm!clientVars
        <3>1. UNCHANGED <<zConfig, zSecrets, zClient, zClients, zAuth, zOp, zLanded, zLied, zExchange, zFailed,
                          zCrossed>>
            BY <2>2 DEF Crm!clientVars
        <3>2. CrmTypes'
            BY <3>1, Zenon DEF CrmInv, CrmTypes
        <3>3. NoteInv'
            BY <3>1, OthersNote, Zenon DEF CrmInv
        <3>4. Crm!ClientIsConfigured'
            BY <3>1, Zenon DEF CrmInv, Crm!ClientIsConfigured, Crm!Configured
        <3>5. Crm!ConnectedWasAsked'
            BY <3>1, Zenon DEF CrmInv, Crm!ConnectedWasAsked
        <3> QED BY <3>2, <3>3, <3>4, <3>5, Zenon DEF CrmInv
    <2> QED BY <2>1, <2>2, AnswersKeep, SavesKeep, RestartKeeps, RefreshKeeps, Zenon DEF Crm!Next
<1>3. CrmInv => /\ Crm!TypeOK /\ Crm!ClientIsConfigured /\ Crm!ConnectedWasAsked
                /\ Crm!NoteOnceInItsPlace /\ Crm!TokenIsValid
    <2> SUFFICES ASSUME CrmInv
                 PROVE  /\ Crm!TypeOK /\ Crm!ClientIsConfigured /\ Crm!ConnectedWasAsked
                        /\ Crm!NoteOnceInItsPlace /\ Crm!TokenIsValid
        OBVIOUS
    <2>1. MaxClients \in Nat /\ MaxAttempts \in Nat \ {0} /\ zLied \in Nat /\ "note" \in Crm!Ops
        BY LimitsAssumption DEF CrmInv, CrmTypes, Crm!Ops
    <2>2. \A o \in Crm!Ops : zOp[o] \in CrmOps
        BY DEF CrmInv, CrmTypes
    <2>3. zLied <= MaxAttempts /\ (zOp["note"].pc = "done" => zLied + 1 <= MaxAttempts)
        <3>1. zOp["note"].tries \in 0..MaxAttempts /\ zOp["note"].at \in {1, 2}
            BY <2>1, <2>2 DEF CrmOps
        <3> QED BY <2>1, <3>1 DEF CrmInv, NoteInv
    <2>4. \A a \in 0..MaxClients : zLanded[a] \in 0..MaxAttempts /\ zLanded[a] <= 1 + zLied
        <3>1. \A a \in 0..MaxClients : zLanded[a] <= zLied + (IF zOp["note"].pc = "done" THEN 1 ELSE 0)
            BY DEF CrmInv, NoteInv
        <3>2. \A a \in 0..MaxClients : zLanded[a] \in Nat
            BY DEF CrmInv, CrmTypes
        <3> QED BY <2>1, <2>3, <3>1, <3>2
    <2>5. Crm!TypeOK
        <3>1. {zSecrets, zClients, zClient.id, zClient.account} \subseteq 0..MaxClients
              /\ zClient.kind \in {"mock", "missing", "zoho"}
            BY DEF CrmInv, CrmTypes, CrmClients
        <3>2. \A o \in Crm!Ops :
                 /\ zOp[o].pc \in {"idle", "token", "sent", "pause", "done", "failed", "gone"}
                 /\ zOp[o].at \in {1, 2} /\ zOp[o].tries \in 0..MaxAttempts /\ zOp[o].found \in 0..MaxClients
            BY <2>2 DEF CrmOps
        <3>3. {zExchange, zFailed, zCrossed} \subseteq BOOLEAN
            BY DEF CrmInv, CrmTypes
        <3>4. zLied \in 0..MaxAttempts
            BY <2>1, <2>3
        <3> QED BY <2>4, <3>1, <3>2, <3>3, <3>4, Zenon DEF CrmInv, CrmTypes, CrmAuths, Crm!TypeOK
    <2>6. Crm!NoteOnceInItsPlace
        BY <2>4, Zenon DEF CrmInv, NoteInv, Crm!NoteOnceInItsPlace
    <2>7. Crm!TokenIsValid
        BY DEF CrmInv, CrmTypes, Crm!TokenIsValid
    <2> QED BY <2>5, <2>6, <2>7 DEF CrmInv
<1> QED BY <1>1, <1>2, <1>3, PTL

-----------------------------------------------------------------------------
(* The client of the app-server *)

StartRecord == [pc : {"none", "init", "thread", "realtime", "done", "failed"}, ack : BOOLEAN,
                sdp : {"none", "waiting", "got"}]
ClientTypes ==
  /\ aChild \in {"none", "spawning", "up"} /\ aSpawns \in 0..MaxSpawns
  /\ aReady \in {"none", "pending", "ok", "failed"} /\ aDisposing \in {"no", "begun", "done"}
  /\ aPend \subseteq aSent /\ aSent \subseteq Client!Requests
  /\ aStarts \in [Client!Starts -> StartRecord]
  /\ aActive \in 0..2 /\ aStopping \in 0..2 /\ aServer \subseteq Client!Starts /\ aDisplaced \subseteq Client!Starts

\* A process that is not up is asked nothing; it is initialised first, once.
ProcessInv ==
  /\ aChild # "up" => aSent = {} /\ aActive = 0 /\ aServer = {}
  /\ aReady = "ok" => aChild = "up"
  /\ aChild = "spawning" => aReady = "pending"
  /\ aActive # 0 => aReady = "ok"
  /\ \A q \in aPend : IF q[1] = "init" THEN q = <<"init", 0>> /\ aReady = "pending" ELSE aReady = "ok"
  /\ \A q \in aSent : q[1] # "init" => q[2] \in Client!Starts

\* A start has its thread before its session is asked for, once, and a session
\* that is on is the active one, or accounted for; a start that failed waits
\* for nothing.
StartInv == \A s \in Client!Starts :
  /\ <<"thread", s>> \in aPend => aStarts[s].pc = "thread"
  /\ aStarts[s].pc \in {"none", "init", "thread"} =>
       s \notin aServer /\ <<"realtime", s>> \notin aSent /\ aActive # s
  /\ s \in aServer => <<"realtime", s>> \notin aSent
  /\ s \in aServer \/ <<"realtime", s>> \in aSent =>
       s = aActive \/ aStarts[s].pc = "failed" \/ s \in aDisplaced
  /\ aStarts[s].pc = "failed" => aStarts[s].sdp = "none" /\ aActive # s
  /\ aStarts[s].sdp = "waiting" => aStarts[s].pc = "realtime"

ClientInv == ClientTypes /\ ProcessInv /\ StartInv

\* Starts are two, and none is the number 0.
LEMMA StartsAre == Client!Starts = {1, 2} /\ Client!Starts \subseteq 0..2 /\ 0 \notin Client!Starts
BY DEF Client!Starts

\* A start that fails waits for no answer, and the others are as they were.
LEMMA FailedIs ==
  ASSUME ClientTypes, NEW S
  PROVE  /\ Client!Failed(S) \in [Client!Starts -> StartRecord]
         /\ \A s \in Client!Starts :
              IF s \in S THEN Client!Failed(S)[s].pc = "failed" /\ Client!Failed(S)[s].sdp = "none"
              ELSE Client!Failed(S)[s] = aStarts[s]
<1>1. \A s \in Client!Starts : aStarts[s] \in StartRecord
    BY DEF ClientTypes
<1>2. \A s \in Client!Starts : LET r == [aStarts[s] EXCEPT !.pc = "failed", !.sdp = "none"] IN
         r \in StartRecord /\ r.pc = "failed" /\ r.sdp = "none"
    BY <1>1 DEF StartRecord
<1>3. \A s \in Client!Starts : Client!Failed(S)[s]
         = IF s \in S THEN [aStarts[s] EXCEPT !.pc = "failed", !.sdp = "none"] ELSE aStarts[s]
    BY DEF Client!Failed
<1>4. Client!Failed(S) = [s \in Client!Starts |-> Client!Failed(S)[s]]
    BY DEF Client!Failed
<1>5. \A s \in Client!Starts : Client!Failed(S)[s] \in StartRecord
    BY <1>1, <1>2, <1>3
<1> QED BY <1>2, <1>3, <1>4, <1>5

\* A step of a start that goes on: the answer to its request, or its SDP.
LEMMA SettledIs ==
  ASSUME ClientTypes, NEW s \in Client!Starts, NEW f \in [Client!Starts -> StartRecord]
  PROVE  /\ Client!Settled(s, f) \in [Client!Starts -> StartRecord]
         /\ \A r \in Client!Starts : r # s => Client!Settled(s, f)[r] = f[r]
         /\ Client!Settled(s, f)[s].sdp = f[s].sdp
         /\ Client!Settled(s, f)[s].pc = f[s].pc
              \/ (Client!Settled(s, f)[s].pc = "done" /\ f[s].sdp = "got")
<1>1. f[s] \in StartRecord
    OBVIOUS
<1>2. CASE f[s].ack /\ f[s].sdp = "got"
    <2>1. Client!Settled(s, f) = [f EXCEPT ![s].pc = "done"]
        BY <1>2 DEF Client!Settled
    <2>2. [f[s] EXCEPT !.pc = "done"] \in StartRecord
        BY <1>1 DEF StartRecord
    <2> QED BY <1>1, <1>2, <2>1, <2>2 DEF StartRecord
<1>3. CASE ~(f[s].ack /\ f[s].sdp = "got")
    BY <1>1, <1>3 DEF Client!Settled
<1> QED BY <1>2, <1>3

\* Whoever fails is no longer active, and had nothing to do with a thread that
\* is waited for; the process may fail to start, or to be initialised.
LEMMA FailsKeeps ==
  ASSUME ClientInv, NEW S, aStarts' = Client!Failed(S),
         aActive' = IF aActive \in S THEN 0 ELSE aActive,
         \A s \in S \cap Client!Starts : <<"thread", s>> \notin aPend',
         aPend' \subseteq aPend, aSent' \subseteq aSent, aPend' \subseteq aSent', aServer' \subseteq aServer,
         aDisplaced' = aDisplaced, aSpawns' = aSpawns, aDisposing' \in {"no", "begun", "done"},
         aStopping' \in 0..2,
         \/ aChild' = aChild /\ aReady' = aReady
         \/ aChild' = aChild /\ aChild = "up" /\ aReady = "pending" /\ aReady' = "failed" /\ aPend' = {}
         \/ aChild = "spawning" /\ aChild' = "none" /\ aReady' = "failed"
  PROVE  ClientInv'
<1>1. ClientTypes'
    BY FailedIs DEF ClientInv, ClientTypes
<1>2. ProcessInv'
    BY DEF ClientInv, ProcessInv, ClientTypes
<1>3. StartInv'
    <2> SUFFICES ASSUME NEW s \in Client!Starts
                 PROVE  /\ <<"thread", s>> \in aPend' => aStarts'[s].pc = "thread"
                        /\ aStarts'[s].pc \in {"none", "init", "thread"} =>
                             s \notin aServer' /\ <<"realtime", s>> \notin aSent' /\ aActive' # s
                        /\ s \in aServer' => <<"realtime", s>> \notin aSent'
                        /\ s \in aServer' \/ <<"realtime", s>> \in aSent' =>
                             s = aActive' \/ aStarts'[s].pc = "failed" \/ s \in aDisplaced'
                        /\ aStarts'[s].pc = "failed" => aStarts'[s].sdp = "none" /\ aActive' # s
                        /\ aStarts'[s].sdp = "waiting" => aStarts'[s].pc = "realtime"
        BY DEF StartInv
    <2>1. IF s \in S THEN aStarts'[s].pc = "failed" /\ aStarts'[s].sdp = "none" ELSE aStarts'[s] = aStarts[s]
        BY FailedIs DEF ClientInv
    <2>2. s # 0
        BY StartsAre
    <2> QED BY <2>1, <2>2 DEF ClientInv, StartInv
<1> QED BY <1>1, <1>2, <1>3 DEF ClientInv

\* When the process is gone, so is what it was asked and what it had.
LEMMA GoneKeeps == ASSUME ClientInv, Client!Exit \/ Client!Disposed PROVE ClientInv'
<1>1. PICK S : aStarts' = Client!Failed(S)
    BY DEF Client!Exit, Client!Disposed
<1>2. /\ aChild' = "none" /\ aReady' = "none" /\ aPend' = {} /\ aSent' = {} /\ aActive' = 0 /\ aServer' = {}
      /\ aSpawns' = aSpawns /\ aDisplaced' = aDisplaced /\ aStopping' \in {0, aStopping}
      /\ aDisposing' \in {aDisposing, "done"}
    BY DEF Client!Exit, Client!Disposed
<1>3. ClientTypes'
    BY <1>1, <1>2, FailedIs DEF ClientInv, ClientTypes
<1>4. ProcessInv'
    BY <1>2 DEF ProcessInv
<1>5. StartInv'
    <2>1. \A s \in Client!Starts :
            IF s \in S THEN aStarts'[s].pc = "failed" /\ aStarts'[s].sdp = "none" ELSE aStarts'[s] = aStarts[s]
        BY <1>1, FailedIs DEF ClientInv
    <2> QED BY <1>2, <2>1, StartsAre DEF ClientInv, StartInv
<1> QED BY <1>3, <1>4, <1>5 DEF ClientInv

\* Steps of the process, and lines it writes that are none.
LEMMA ProcessKeeps ==
  ASSUME ClientInv, Client!Spawned \/ Client!SpawnFails \/ Client!BadLine PROVE ClientInv'
<1>1. CASE Client!Spawned
    <2>1. /\ aChild = "spawning" /\ aChild' = "up" /\ aPend' = {<<"init", 0>>} /\ aSent' = {<<"init", 0>>}
          /\ aReady = "pending"
          /\ UNCHANGED <<aSpawns, aReady, aStarts, aActive, aServer, aStopping, aDisposing, aDisplaced>>
        BY <1>1 DEF Client!Spawned, Client!Ask, Client!Request, ClientInv, ProcessInv, ClientTypes
    <2>2. <<"init", 0>> \in Client!Requests
        BY DEF Client!Requests
    <2>3. ClientTypes'
        BY <2>1, <2>2 DEF ClientInv, ClientTypes
    <2>4. ProcessInv'
        BY <2>1 DEF ClientInv, ProcessInv
    <2>5. StartInv'
        BY <2>1 DEF ClientInv, StartInv
    <2> QED BY <2>3, <2>4, <2>5 DEF ClientInv
<1>2. CASE Client!SpawnFails
    <2>1. /\ aChild = "spawning" /\ aChild' = "none" /\ aReady' = "failed"
          /\ aStarts' = Client!Failed(Client!In({"init"}))
          /\ UNCHANGED <<aSpawns, aPend, aSent, aActive, aServer, aStopping, aDisposing, aDisplaced>>
        BY <1>2 DEF Client!SpawnFails
    <2>2. aActive = 0 /\ aPend = {} /\ 0 \notin Client!In({"init"})
        BY <2>1, StartsAre DEF ClientInv, ProcessInv, ClientTypes, Client!In
    <2> QED BY <2>1, <2>2, FailsKeeps DEF ClientInv, ClientTypes
<1>3. CASE Client!BadLine
    <2>1. /\ aStarts' = Client!Failed(Client!AwaitsSdp)
          /\ aActive' = IF aActive \in Client!AwaitsSdp THEN 0 ELSE aActive
          /\ UNCHANGED <<aChild, aSpawns, aReady, aPend, aSent, aServer, aStopping, aDisposing, aDisplaced>>
        BY <1>3 DEF Client!BadLine, Client!ActiveWithout
    <2>2. \A s \in Client!AwaitsSdp \cap Client!Starts : <<"thread", s>> \notin aPend
        BY DEF ClientInv, StartInv, Client!AwaitsSdp
    <2> QED BY <2>1, <2>2, FailsKeeps DEF ClientInv, ClientTypes
<1> QED BY <1>1, <1>2, <1>3

\* A start begins, or fails at once.
LEMMA BeginsKeeps == ASSUME ClientInv, NEW s \in Client!Starts, Client!StartRealtime(s) PROVE ClientInv'
<1>1. /\ aStarts[s].pc = "none" /\ <<"thread", s>> \notin aPend /\ aActive # s /\ aStarts[s] \in StartRecord
      /\ UNCHANGED <<aPend, aSent, aActive, aServer, aStopping, aDisposing, aDisplaced>>
    BY DEF Client!StartRealtime, ClientInv, StartInv, ClientTypes
<1>2. CASE aReady = "failed" \/ aDisposing = "done"
    <2>1. aStarts' = Client!Failed({s}) /\ UNCHANGED <<aChild, aSpawns, aReady>>
        BY <1>2 DEF Client!StartRealtime
    <2> QED BY <1>1, <2>1, FailsKeeps DEF ClientInv, ClientTypes
<1>3. CASE ~(aReady = "failed" \/ aDisposing = "done")
    <2>1. /\ aStarts' = [aStarts EXCEPT ![s].pc = "init"]
          /\ \/ UNCHANGED <<aChild, aSpawns, aReady>>
             \/ aReady = "none" /\ aChild = "none" /\ aSpawns < MaxSpawns /\ aSpawns' = aSpawns + 1
                /\ aChild' = "spawning" /\ aReady' = "pending"
        BY <1>3 DEF Client!StartRealtime
    <2>2. /\ aStarts' \in [Client!Starts -> StartRecord]
          /\ \A r \in Client!Starts : r # s => aStarts'[r] = aStarts[r]
          /\ aStarts'[s].pc = "init" /\ aStarts'[s].sdp = aStarts[s].sdp
        <3>1. [aStarts[s] EXCEPT !.pc = "init"] \in StartRecord
            BY <1>1 DEF StartRecord
        <3> QED BY <1>1, <2>1, <3>1 DEF ClientInv, ClientTypes, StartRecord
    <2>3. MaxSpawns \in Nat
        BY LimitsAssumption
    <2>4. ClientTypes'
        <3>1. aSpawns' \in 0..MaxSpawns
            BY <2>1, <2>3 DEF ClientInv, ClientTypes
        <3> QED BY <1>1, <2>1, <2>2, <3>1 DEF ClientInv, ClientTypes
    <2>5. ProcessInv'
        BY <1>1, <2>1 DEF ClientInv, ProcessInv, ClientTypes
    <2>6. StartInv'
        BY <1>1, <2>2 DEF ClientInv, StartInv
    <2> QED BY <2>4, <2>5, <2>6 DEF ClientInv
<1> QED BY <1>2, <1>3

\* An initialised client asks for the thread of a start, or refuses it.
LEMMA CheckedKeeps == ASSUME ClientInv, NEW s \in Client!Starts, Client!Checked(s) PROVE ClientInv'
<1>1. /\ aStarts[s].pc = "init" /\ aReady = "ok" /\ <<"thread", s>> \notin aPend /\ aActive # s
      /\ aStarts[s] \in StartRecord
      /\ UNCHANGED <<aChild, aSpawns, aReady, aActive, aServer, aStopping, aDisposing, aDisplaced>>
    BY DEF Client!Checked, ClientInv, StartInv, ClientTypes
<1>2. CASE aActive # 0
    <2>1. aStarts' = Client!Failed({s}) /\ UNCHANGED <<aPend, aSent>>
        BY <1>2 DEF Client!Checked
    <2> QED BY <1>1, <2>1, FailsKeeps DEF ClientInv, ClientTypes
<1>3. CASE aActive = 0
    <2>1. /\ aStarts' = [aStarts EXCEPT ![s].pc = "thread"]
          /\ aPend' = aPend \cup {<<"thread", s>>} /\ aSent' = aSent \cup {<<"thread", s>>}
        BY <1>3 DEF Client!Checked, Client!Ask, Client!Request
    <2>2. /\ aStarts' \in [Client!Starts -> StartRecord]
          /\ \A r \in Client!Starts : r # s => aStarts'[r] = aStarts[r]
          /\ aStarts'[s].pc = "thread" /\ aStarts'[s].sdp = aStarts[s].sdp
        <3>1. [aStarts[s] EXCEPT !.pc = "thread"] \in StartRecord
            BY <1>1 DEF StartRecord
        <3> QED BY <1>1, <2>1, <3>1 DEF ClientInv, ClientTypes, StartRecord
    <2>3. <<"thread", s>> \in Client!Requests
        BY StartsAre DEF Client!Requests
    <2>4. ClientTypes'
        BY <1>1, <2>1, <2>2, <2>3 DEF ClientInv, ClientTypes
    <2>5. ProcessInv'
        BY <1>1, <2>1 DEF ClientInv, ProcessInv
    <2>6. StartInv'
        BY <1>1, <2>1, <2>2 DEF ClientInv, StartInv
    <2> QED BY <2>4, <2>5, <2>6 DEF ClientInv
<1> QED BY <1>2, <1>3

\* A start that failed for want of an answer, or nobody's failure.
LEMMA NobodyFails == ASSUME ClientTypes PROVE Client!Failed({}) = aStarts
BY DEF ClientTypes, Client!Failed

\* The session's SDP, and what ends a session or the wait for it.
LEMMA SessionKeeps ==
  ASSUME ClientInv, NEW s \in Client!Starts, Client!Sdp(s) \/ Client!SdpFails(s) \/ Client!Closed(s)
  PROVE  ClientInv'
<1>0. ClientTypes /\ ProcessInv /\ StartInv
    BY DEF ClientInv
<1>1. s \in Client!AwaitsSdp => aStarts[s].pc = "realtime" /\ <<"thread", s>> \notin aPend
    BY <1>0, Zenon DEF StartInv, Client!AwaitsSdp
<1>2. CASE Client!Sdp(s)
    <2> DEFINE f == [aStarts EXCEPT ![s].sdp = "got"]
    <2>1. /\ s \in Client!AwaitsSdp /\ aStarts' = Client!Settled(s, f)
          /\ UNCHANGED <<aChild, aSpawns, aReady, aPend, aSent, aActive, aServer, aStopping, aDisposing, aDisplaced>>
        BY <1>2 DEF Client!Sdp
    <2>2. f \in [Client!Starts -> StartRecord] /\ f[s].pc = "realtime" /\ f[s].sdp = "got"
          /\ \A r \in Client!Starts : r # s => f[r] = aStarts[r]
        <3>1. aStarts[s] \in StartRecord
            BY <1>0 DEF ClientTypes
        <3>2. [aStarts[s] EXCEPT !.sdp = "got"] \in StartRecord
            BY <3>1 DEF StartRecord
        <3> QED BY <1>0, <1>1, <2>1, <3>1, <3>2 DEF ClientTypes, StartRecord
    <2> HIDE DEF f
    <2>3. /\ aStarts' \in [Client!Starts -> StartRecord]
          /\ \A r \in Client!Starts : r # s => aStarts'[r] = aStarts[r]
          /\ aStarts'[s].sdp = "got" /\ aStarts'[s].pc \in {"realtime", "done"}
        BY <1>0, <2>1, <2>2, SettledIs
    <2>4. ClientTypes'
        BY <1>0, <2>1, <2>3, Zenon DEF ClientTypes
    <2>5. ProcessInv'
        BY <1>0, <2>1, Zenon DEF ProcessInv
    <2>6. StartInv'
        BY <1>0, <1>1, <2>1, <2>3 DEF StartInv
    <2> QED BY <2>4, <2>5, <2>6 DEF ClientInv
<1>3. CASE aStarts' = Client!Failed({s}) /\ s \in Client!AwaitsSdp /\ (Client!SdpFails(s) \/ Client!Closed(s))
    <2>1. /\ aActive' = IF aActive \in {s} THEN 0 ELSE aActive
          /\ aServer' \subseteq aServer
          /\ UNCHANGED <<aChild, aSpawns, aReady, aPend, aSent, aStopping, aDisposing, aDisplaced>>
        BY <1>3 DEF Client!SdpFails, Client!Closed, Client!ActiveWithout
    <2>2. \A r \in {s} \cap Client!Starts : <<"thread", r>> \notin aPend'
        BY <1>1, <1>3, <2>1
    <2> QED BY <1>0, <1>3, <2>1, <2>2, FailsKeeps DEF ClientTypes
<1>4. CASE aStarts' = aStarts /\ Client!Closed(s)
    <2>1. /\ aActive' = IF aActive \in {s} THEN 0 ELSE aActive
          /\ aServer' = aServer \ {s}
          /\ UNCHANGED <<aChild, aSpawns, aReady, aPend, aSent, aStopping, aDisposing, aDisplaced>>
        BY <1>4 DEF Client!Closed, Client!ActiveWithout
    <2>2. ClientTypes'
        BY <1>0, <1>4, <2>1 DEF ClientTypes
    <2>3. ProcessInv'
        BY <1>0, <2>1 DEF ProcessInv
    <2>4. <<"realtime", s>> \notin aSent /\ s # 0
        BY <1>0, <1>4, StartsAre DEF Client!Closed, StartInv
    <2>5. StartInv'
        BY <1>0, <1>4, <2>1, <2>4, StartsAre DEF StartInv
    <2> QED BY <2>2, <2>3, <2>5 DEF ClientInv
<1> QED BY <1>2, <1>3, <1>4 DEF Client!SdpFails, Client!Closed

\* A session is to be stopped, by itself or with the client.
LEMMA StopKeeps == ASSUME ClientInv, Client!Stop \/ Client!Dispose PROVE ClientInv'
<1>0. ClientTypes /\ ProcessInv /\ StartInv
    BY DEF ClientInv
<1>1. /\ UNCHANGED <<aChild, aSpawns, aReady, aStarts, aActive, aServer, aDisplaced>>
      /\ aDisposing' \in {"no", "begun", "done"}
      /\ \/ UNCHANGED <<aPend, aSent, aStopping>>
         \/ /\ aActive # 0 /\ aStopping' = aActive
            /\ aPend' = aPend \cup {<<"stop", aActive>>} /\ aSent' = aSent \cup {<<"stop", aActive>>}
    BY <1>0 DEF Client!Stop, Client!Dispose, Client!Ask, Client!Request, ClientTypes
<1>2. <<"stop", aActive>> \in Client!Requests /\ (aActive # 0 => aActive \in Client!Starts)
    BY <1>0, StartsAre DEF Client!Requests, ClientTypes
<1>3. ClientTypes'
    BY <1>0, <1>1, <1>2 DEF ClientTypes
<1>4. ProcessInv'
    BY <1>0, <1>1, <1>2 DEF ProcessInv
<1>5. StartInv'
    <2>1. \A s \in Client!Starts : /\ <<"thread", s>> \in aPend' <=> <<"thread", s>> \in aPend
                                   /\ <<"realtime", s>> \in aSent' <=> <<"realtime", s>> \in aSent
        BY <1>1
    <2> QED BY <1>0, <1>1, <2>1, Zenon DEF StartInv
<1> QED BY <1>3, <1>4, <1>5 DEF ClientInv

\* What a request that is waited for tells of the client.
LEMMA WaitedFor ==
  ASSUME ClientInv, NEW q \in aPend
  PROVE  /\ q \in aSent /\ q \in Client!Requests /\ q = <<q[1], q[2]>> /\ aChild = "up"
         /\ q[1] = "init" => aPend = {<<"init", 0>>} /\ q = <<"init", 0>> /\ aReady = "pending" /\ aActive = 0
         /\ q[1] # "init" => q[2] \in Client!Starts /\ aReady = "ok"
<1>0. ClientTypes /\ ProcessInv
    BY DEF ClientInv
<1>1. q \in aSent /\ q \in Client!Requests
    BY <1>0 DEF ClientTypes
<1>2. q = <<q[1], q[2]>>
    BY <1>1 DEF Client!Requests
<1>3. aChild = "up"
    BY <1>0, <1>1 DEF ProcessInv
<1>4. q[1] # "init" => q[2] \in Client!Starts /\ aReady = "ok"
    BY <1>0, <1>1, Zenon DEF ProcessInv
<1>5. ASSUME q[1] = "init"
      PROVE  aPend = {<<"init", 0>>} /\ q = <<"init", 0>> /\ aReady = "pending" /\ aActive = 0
    <2>1. q = <<"init", 0>> /\ aReady = "pending"
        BY <1>0, <1>5, Zenon DEF ProcessInv
    <2>2. \A p \in aPend : p = <<"init", 0>>
        BY <1>0, <2>1 DEF ProcessInv
    <2> QED BY <1>0, <2>1, <2>2 DEF ProcessInv
<1> QED BY <1>1, <1>2, <1>3, <1>4, <1>5

\* A request that is answered with success, but for a thread.
LEMMA ResolvedKeeps ==
  ASSUME ClientInv, NEW q \in aPend, q[1] # "thread", Client!InTurn(q), Client!Resolved(q),
         UNCHANGED <<aChild, aSpawns, aDisposing>>
  PROVE  ClientInv'
<1>0. ClientTypes /\ ProcessInv /\ StartInv
    BY DEF ClientInv
<1>w. /\ q \in aSent /\ q \in Client!Requests /\ q = <<q[1], q[2]>> /\ aChild = "up"
      /\ q[1] = "init" => aPend = {<<"init", 0>>} /\ q = <<"init", 0>> /\ aReady = "pending" /\ aActive = 0
      /\ q[1] # "init" => q[2] \in Client!Starts /\ aReady = "ok"
    BY WaitedFor
<1>1. CASE q[1] = "init"
    <2>1. /\ aReady' = "ok" /\ aPend' = {} /\ aSent' = aSent \ {q}
          /\ UNCHANGED <<aStarts, aActive, aStopping, aDisplaced, aServer>>
        BY <1>1, <1>w DEF Client!Resolved
    <2>2. ClientTypes'
        BY <1>0, <2>1 DEF ClientTypes
    <2>3. ProcessInv'
        BY <1>0, <1>w, <2>1 DEF ProcessInv
    <2>4. \A s \in Client!Starts : <<"realtime", s>> \in aSent' <=> <<"realtime", s>> \in aSent
        BY <1>1, <1>w, <2>1
    <2>5. StartInv'
        BY <1>0, <2>1, <2>4 DEF StartInv
    <2> QED BY <2>2, <2>3, <2>5 DEF ClientInv
<1>2. CASE q[1] = "realtime"
    <2> DEFINE s == q[2]
               f == [aStarts EXCEPT ![s].ack = TRUE]
    <2>1. /\ aStarts' = Client!Settled(s, f) /\ aServer' = aServer \cup {s}
          /\ aPend' = aPend \ {q} /\ aSent' = aSent \ {q}
          /\ UNCHANGED <<aReady, aActive, aStopping, aDisplaced>>
        BY <1>2 DEF Client!Resolved
    <2>2. s \in Client!Starts /\ q = <<"realtime", s>> /\ aReady = "ok"
        BY <1>2, <1>w
    <2>3. /\ f \in [Client!Starts -> StartRecord] /\ f[s].pc = aStarts[s].pc /\ f[s].sdp = aStarts[s].sdp
          /\ \A r \in Client!Starts : r # s => f[r] = aStarts[r]
        <3>1. aStarts[s] \in StartRecord
            BY <1>0, <2>2 DEF ClientTypes
        <3>2. [aStarts[s] EXCEPT !.ack = TRUE] \in StartRecord
            BY <3>1 DEF StartRecord
        <3> QED BY <1>0, <2>2, <3>1, <3>2 DEF ClientTypes, StartRecord
    <2>4. /\ aStarts[s].pc \notin {"none", "init", "thread"} /\ <<"thread", s>> \notin aPend
          /\ s = aActive \/ aStarts[s].pc = "failed" \/ s \in aDisplaced
        BY <1>0, <1>w, <2>2 DEF StartInv
    <2> HIDE DEF f, s
    <2>5. /\ aStarts' \in [Client!Starts -> StartRecord]
          /\ \A r \in Client!Starts : r # s => aStarts'[r] = aStarts[r]
          /\ aStarts'[s].sdp = aStarts[s].sdp
          /\ aStarts'[s].pc = aStarts[s].pc \/ (aStarts'[s].pc = "done" /\ aStarts[s].sdp = "got")
        BY <1>0, <2>1, <2>2, <2>3, SettledIs
    <2>6. ClientTypes'
        <3>1. aPend' \subseteq aSent' /\ aSent' \subseteq Client!Requests /\ aServer' \subseteq Client!Starts
            BY <1>0, <2>1, <2>2 DEF ClientTypes
        <3> QED BY <1>0, <2>1, <2>5, <3>1, Zenon DEF ClientTypes
    <2>7. ProcessInv'
        BY <1>0, <1>w, <2>1 DEF ProcessInv
    <2>8. StartInv'
        <3>1. \A r \in Client!Starts : <<"thread", r>> \in aPend' <=> <<"thread", r>> \in aPend
            BY <2>1, <2>2
        <3>2. \A r \in Client!Starts : <<"realtime", r>> \in aSent' <=> (r # s /\ <<"realtime", r>> \in aSent)
            BY <2>1, <2>2
        <3>3. \A r \in Client!Starts : r \in aServer' <=> (r = s \/ r \in aServer)
            BY <2>1
        <3>4. aActive' = aActive /\ aDisplaced' = aDisplaced
            BY <2>1
        <3>5. ASSUME NEW r \in Client!Starts
              PROVE  /\ <<"thread", r>> \in aPend' => aStarts'[r].pc = "thread"
                     /\ aStarts'[r].pc \in {"none", "init", "thread"} =>
                          r \notin aServer' /\ <<"realtime", r>> \notin aSent' /\ aActive' # r
                     /\ r \in aServer' => <<"realtime", r>> \notin aSent'
                     /\ r \in aServer' \/ <<"realtime", r>> \in aSent' =>
                          r = aActive' \/ aStarts'[r].pc = "failed" \/ r \in aDisplaced'
                     /\ aStarts'[r].pc = "failed" => aStarts'[r].sdp = "none" /\ aActive' # r
                     /\ aStarts'[r].sdp = "waiting" => aStarts'[r].pc = "realtime"
            <4>1. CASE r = s
                BY <1>0, <2>2, <2>4, <2>5, <3>1, <3>2, <3>3, <3>4, <4>1 DEF StartInv
            <4>2. CASE r # s
                BY <1>0, <2>5, <3>1, <3>2, <3>3, <3>4, <4>2 DEF StartInv
            <4> QED BY <4>1, <4>2
        <3> QED BY <3>5, Zenon DEF StartInv
    <2> QED BY <2>6, <2>7, <2>8 DEF ClientInv
<1>3. CASE q[1] = "stop"
    <2>1. /\ aActive' = (IF aActive \in {q[2]} THEN 0 ELSE aActive) /\ aStopping' = 0
          /\ aServer' = aServer \ {q[2]} /\ aPend' = aPend \ {q} /\ aSent' = aSent \ {q}
          /\ UNCHANGED <<aReady, aStarts, aDisplaced>>
        BY <1>3 DEF Client!Resolved, Client!ActiveWithout
    <2>2. q[2] \in Client!Starts /\ q[2] # 0 /\ <<"realtime", q[2]>> \notin aSent
        BY <1>3, <1>w, StartsAre DEF Client!InTurn, Client!Request
    <2>3. ClientTypes'
        BY <1>0, <2>1 DEF ClientTypes
    <2>4. ProcessInv'
        BY <1>0, <1>w, <2>1 DEF ProcessInv
    <2>5. \A r \in Client!Starts : /\ <<"realtime", r>> \in aSent' => <<"realtime", r>> \in aSent
                                   /\ <<"thread", r>> \in aPend' => <<"thread", r>> \in aPend
        BY <2>1
    <2>6. StartInv'
        BY <1>0, <2>1, <2>2, <2>5, StartsAre DEF StartInv
    <2> QED BY <2>3, <2>4, <2>6 DEF ClientInv
<1> QED
    <2>1. q[1] \in {"init", "thread", "realtime", "stop"}
        BY <1>w DEF Client!Requests
    <2> QED BY <1>1, <1>2, <1>3, <2>1

\* A thread that is there: its session is asked for, and it takes the place of
\* the one that was active.
LEMMA ThreadKeeps ==
  ASSUME ClientInv, NEW s \in Client!Starts, <<"thread", s>> \in aPend, Client!ThreadStarted(s),
         UNCHANGED <<aChild, aSpawns, aDisposing>>
  PROVE  ClientInv'
<1>0. ClientTypes /\ ProcessInv /\ StartInv
    BY DEF ClientInv
<1>1. aChild = "up" /\ aReady = "ok"
    BY <1>0, WaitedFor
<1>2. aStarts[s].pc = "thread" /\ s \notin aServer /\ <<"realtime", s>> \notin aSent /\ aActive # s
    BY <1>0 DEF StartInv
<1>3. /\ aStarts' = [aStarts EXCEPT ![s] = [pc |-> "realtime", ack |-> FALSE, sdp |-> "waiting"]]
      /\ aActive' = s /\ aDisplaced' = aDisplaced \cup ({aActive} \ {0})
      /\ aPend' = (aPend \ {<<"thread", s>>}) \cup {<<"realtime", s>>}
      /\ aSent' = (aSent \ {<<"thread", s>>}) \cup {<<"realtime", s>>}
      /\ UNCHANGED <<aReady, aServer, aStopping>>
    BY DEF Client!ThreadStarted, Client!Request
<1>4. /\ aStarts' \in [Client!Starts -> StartRecord]
      /\ \A r \in Client!Starts : r # s => aStarts'[r] = aStarts[r]
      /\ aStarts'[s].pc = "realtime" /\ aStarts'[s].sdp = "waiting"
    <2>1. [pc |-> "realtime", ack |-> FALSE, sdp |-> "waiting"] \in StartRecord
        BY DEF StartRecord
    <2> QED BY <1>0, <1>3, <2>1 DEF ClientTypes
<1>5. s \in 0..2 /\ s # 0 /\ {aActive} \ {0} \subseteq Client!Starts
    BY <1>0, StartsAre DEF ClientTypes
<1>6. ClientTypes'
    <2>1. <<"realtime", s>> \in Client!Requests
        BY <1>5 DEF Client!Requests
    <2>2. aPend' \subseteq aSent' /\ aSent' \subseteq Client!Requests
        BY <1>0, <1>3, <2>1 DEF ClientTypes
    <2>3. aDisplaced' \subseteq Client!Starts /\ aActive' \in 0..2
        BY <1>0, <1>3, <1>5 DEF ClientTypes
    <2> QED BY <1>0, <1>3, <1>4, <2>2, <2>3, Zenon DEF ClientTypes
<1>7. ProcessInv'
    BY <1>0, <1>1, <1>3 DEF ProcessInv
<1>8. StartInv'
    <2>1. \A r \in Client!Starts : <<"thread", r>> \in aPend' <=> (r # s /\ <<"thread", r>> \in aPend)
        BY <1>3
    <2>2. \A r \in Client!Starts : <<"realtime", r>> \in aSent' <=> (r = s \/ <<"realtime", r>> \in aSent)
        BY <1>3
    <2>3. \A r \in Client!Starts : r = aActive => r \in aDisplaced'
        BY <1>3, StartsAre
    <2>4. aActive' = s /\ aServer' = aServer /\ aDisplaced \subseteq aDisplaced'
        BY <1>3
    <2>5. ASSUME NEW r \in Client!Starts
          PROVE  /\ <<"thread", r>> \in aPend' => aStarts'[r].pc = "thread"
                 /\ aStarts'[r].pc \in {"none", "init", "thread"} =>
                      r \notin aServer' /\ <<"realtime", r>> \notin aSent' /\ aActive' # r
                 /\ r \in aServer' => <<"realtime", r>> \notin aSent'
                 /\ r \in aServer' \/ <<"realtime", r>> \in aSent' =>
                      r = aActive' \/ aStarts'[r].pc = "failed" \/ r \in aDisplaced'
                 /\ aStarts'[r].pc = "failed" => aStarts'[r].sdp = "none" /\ aActive' # r
                 /\ aStarts'[r].sdp = "waiting" => aStarts'[r].pc = "realtime"
        <3>1. CASE r = s
            BY <1>2, <1>4, <2>1, <2>2, <2>4, <3>1
        <3>2. CASE r # s
            BY <1>0, <1>4, <2>1, <2>2, <2>3, <2>4, <3>2 DEF StartInv
        <3> QED BY <3>1, <3>2
    <2> QED BY <2>5, Zenon DEF StartInv
<1> QED BY <1>6, <1>7, <1>8 DEF ClientInv

\* A request that is refused, or given up.
LEMMA RejectedKeeps ==
  ASSUME ClientInv, NEW q \in aPend, Client!Rejected(q), aPend' = aPend \ {q},
         aSent' = aSent \/ aSent' = aSent \ {q}, UNCHANGED <<aChild, aSpawns, aDisposing>>
  PROVE  ClientInv'
<1>0. ClientTypes /\ ProcessInv /\ StartInv
    BY DEF ClientInv
<1>w. /\ q \in aSent /\ q \in Client!Requests /\ q = <<q[1], q[2]>> /\ aChild = "up"
      /\ q[1] = "init" => aPend = {<<"init", 0>>} /\ q = <<"init", 0>> /\ aReady = "pending" /\ aActive = 0
      /\ q[1] # "init" => q[2] \in Client!Starts /\ aReady = "ok"
    BY WaitedFor
<1>1. /\ aPend' \subseteq aPend /\ aSent' \subseteq aSent /\ aPend' \subseteq aSent'
      /\ aServer' \subseteq aServer /\ aDisplaced' = aDisplaced /\ aSpawns' = aSpawns
      /\ aDisposing' \in {"no", "begun", "done"} /\ aChild' = aChild
    BY <1>0 DEF ClientTypes, Client!Rejected
<1>2. ASSUME NEW S, aStarts' = Client!Failed(S), aActive' = (IF aActive \in S THEN 0 ELSE aActive),
             \A s \in S \cap Client!Starts : <<"thread", s>> \notin aPend', aStopping' \in 0..2,
             aReady' = aReady \/ (aReady = "pending" /\ aReady' = "failed" /\ aPend' = {})
      PROVE  ClientInv'
    <2>1. \/ aChild' = aChild /\ aReady' = aReady
          \/ aChild' = aChild /\ aChild = "up" /\ aReady = "pending" /\ aReady' = "failed" /\ aPend' = {}
          \/ aChild = "spawning" /\ aChild' = "none" /\ aReady' = "failed"
        BY <1>w, <1>1, <1>2, Zenon
    <2> QED BY <1>1, <1>2, <2>1, FailsKeeps, Zenon
<1>3. CASE q[1] = "init"
    <2>1. /\ aStarts' = Client!Failed(Client!In({"init"})) /\ aReady' = "failed"
          /\ aActive' = aActive /\ aStopping' = aStopping /\ aPend' = {}
        BY <1>3, <1>w DEF Client!Rejected
    <2>2. aActive = 0 /\ 0 \notin Client!In({"init"}) /\ aReady = "pending" /\ aStopping \in 0..2
        BY <1>0, <1>3, <1>w, StartsAre DEF Client!In, ClientTypes
    <2> QED BY <1>2, <2>1, <2>2
<1>4. CASE q[1] = "thread"
    <2>1. aStarts' = Client!Failed({q[2]}) /\ UNCHANGED <<aReady, aActive, aStopping>>
        BY <1>4 DEF Client!Rejected
    <2>2. q = <<"thread", q[2]>> /\ q[2] \in Client!Starts
        BY <1>4, <1>w
    <2>3. aActive # q[2]
        BY <1>0, <2>2 DEF StartInv
    <2>4. \A s \in {q[2]} \cap Client!Starts : <<"thread", s>> \notin aPend'
        BY <2>2
    <2>5. aActive \notin {q[2]} /\ aStopping' \in 0..2 /\ aReady' = aReady
        BY <1>0, <2>1, <2>3 DEF ClientTypes
    <2> QED BY <1>2, <2>1, <2>4, <2>5
<1>5. CASE q[1] = "realtime"
    <2>1. /\ aStarts' = Client!Failed({q[2]}) /\ aActive' = (IF aActive \in {q[2]} THEN 0 ELSE aActive)
          /\ UNCHANGED <<aReady, aStopping>>
        BY <1>5 DEF Client!Rejected, Client!ActiveWithout
    <2>2. q = <<"realtime", q[2]>> /\ q[2] \in Client!Starts
        BY <1>5, <1>w
    <2>3. aStarts[q[2]].pc # "thread"
        BY <1>0, <1>w, <2>2 DEF StartInv
    <2>4. \A s \in {q[2]} \cap Client!Starts : <<"thread", s>> \notin aPend'
        BY <1>0, <1>1, <2>3 DEF StartInv
    <2>5. aStopping' \in 0..2 /\ aReady' = aReady
        BY <1>0, <2>1 DEF ClientTypes
    <2> QED BY <1>2, <2>1, <2>4, <2>5
<1>6. CASE q[1] = "stop"
    <2>1. aStarts' = aStarts /\ UNCHANGED <<aReady, aActive>> /\ aStopping' = 0
        BY <1>6 DEF Client!Rejected
    <2>2. aStarts' = Client!Failed({}) /\ aStopping' \in 0..2 /\ aReady' = aReady
        BY <1>0, <2>1, NobodyFails
    <2>3. aActive' = IF aActive \in {} THEN 0 ELSE aActive
        BY <2>1
    <2>4. \A s \in {} \cap Client!Starts : <<"thread", s>> \notin aPend'
        OBVIOUS
    <2> QED BY <1>2, <2>2, <2>3, <2>4
<1> QED
    <2>1. q[1] \in {"init", "thread", "realtime", "stop"}
        BY <1>w DEF Client!Requests
    <2> QED BY <1>3, <1>4, <1>5, <1>6, <2>1

\* The server acts on a request that the client gave up.
LEMMA LateKeeps == ASSUME ClientInv, NEW q \in aSent, Client!LateAnswer(q) PROVE ClientInv'
<1>0. ClientTypes /\ ProcessInv /\ StartInv
    BY DEF ClientInv
<1>1. /\ q \notin aPend /\ aSent' = aSent \ {q} /\ Client!InTurn(q)
      /\ aServer' = IF q[1] = "realtime" THEN aServer \cup {q[2]}
                     ELSE IF q[1] = "stop" THEN aServer \ {q[2]} ELSE aServer
      /\ UNCHANGED <<aChild, aSpawns, aReady, aPend, aStarts, aActive, aStopping, aDisposing, aDisplaced>>
    BY DEF Client!LateAnswer
<1>2. q = <<q[1], q[2]>> /\ (q[1] # "init" => q[2] \in Client!Starts) /\ aChild = "up"
    BY <1>0 DEF ClientTypes, ProcessInv, Client!Requests
<1>3. aServer' \subseteq Client!Starts
    BY <1>0, <1>1, <1>2 DEF ClientTypes
<1>4. ClientTypes'
    BY <1>0, <1>1, <1>3 DEF ClientTypes
<1>5. ProcessInv'
    BY <1>0, <1>1, <1>2 DEF ProcessInv
<1>6. StartInv'
    <2>1. \A r \in Client!Starts : <<"realtime", r>> \in aSent' <=> (q # <<"realtime", r>> /\ <<"realtime", r>> \in aSent)
        BY <1>1
    <2>2. \A r \in Client!Starts : r \in aServer' => (q = <<"realtime", r>> \/ r \in aServer)
        BY <1>1, <1>2
    <2> QED BY <1>0, <1>1, <2>1, <2>2, Zenon DEF StartInv
<1> QED BY <1>4, <1>5, <1>6 DEF ClientInv

\* Every step of the client.
LEMMA ClientStep == ASSUME ClientInv, [Client!Next]_(Client!appVars) PROVE ClientInv'
<1>1. CASE UNCHANGED Client!appVars
    <2>1. UNCHANGED <<aChild, aSpawns, aReady, aPend, aSent, aStarts, aActive, aServer, aStopping, aDisposing,
                      aDisplaced>>
        BY <1>1 DEF Client!appVars
    <2>2. ClientTypes' /\ ProcessInv'
        BY <2>1, Zenon DEF ClientInv, ClientTypes, ProcessInv
    <2>3. StartInv'
        BY <2>1, Zenon DEF ClientInv, StartInv
    <2> QED BY <2>2, <2>3 DEF ClientInv
<1>2. ASSUME NEW q \in aPend \cup aSent, Client!Answer(q) PROVE ClientInv'
    <2>1. q \in aPend /\ Client!InTurn(q) /\ UNCHANGED <<aChild, aSpawns, aDisposing>>
          /\ \/ Client!Resolved(q)
             \/ Client!Rejected(q) /\ aPend' = aPend \ {q} /\ aSent' = aSent \ {q}
        BY <1>2, Zenon DEF Client!Answer
    <2>2. CASE Client!Resolved(q) /\ q[1] = "thread"
        <3>1. q = <<"thread", q[2]>> /\ q[2] \in Client!Starts
            BY <2>1, <2>2, WaitedFor
        <3>2. Client!ThreadStarted(q[2])
            BY <2>2 DEF Client!Resolved
        <3>3. <<"thread", q[2]>> \in aPend
            BY <2>1, <3>1
        <3> QED BY <2>1, <3>1, <3>2, <3>3, ThreadKeeps
    <2> QED BY <2>1, <2>2, ResolvedKeeps, RejectedKeeps, Zenon
<1>3. ASSUME NEW q \in aPend \cup aSent, Client!Timeout(q) PROVE ClientInv'
    <2>1. q \in aPend /\ aPend' = aPend \ {q} /\ Client!Rejected(q) /\ aSent' = aSent
          /\ UNCHANGED <<aChild, aSpawns, aDisposing>>
        BY <1>3 DEF Client!Timeout
    <2> QED BY <2>1, RejectedKeeps, Zenon
<1>4. ASSUME NEW q \in aPend \cup aSent, Client!LateAnswer(q) PROVE ClientInv'
    <2>1. q \in aSent
        BY <1>4, Zenon DEF Client!LateAnswer
    <2> QED BY <1>4, <2>1, LateKeeps, Zenon
<1> QED BY <1>1, <1>2, <1>3, <1>4, GoneKeeps, ProcessKeeps, BeginsKeeps, CheckedKeeps, SessionKeeps, StopKeeps,
           Zenon DEF Client!Next

\* What is promised of the client, for every behaviour of its module.
LEMMA ClientSafe ==
  Client!Init /\ [][Client!Next]_(Client!appVars)
    => [](Client!TypeOK /\ Client!InitializedFirst /\ Client!SessionsAccounted /\ Client!FailedStartFrees)
<1>1. Client!Init => ClientInv
    <2> SUFFICES ASSUME Client!Init PROVE ClientInv
        OBVIOUS
    <2>1. /\ aChild = "none" /\ aSpawns = 0 /\ aReady = "none" /\ aPend = {} /\ aSent = {}
          /\ aStarts = [s \in Client!Starts |-> [pc |-> "none", ack |-> FALSE, sdp |-> "none"]]
          /\ aActive = 0 /\ aServer = {} /\ aStopping = 0 /\ aDisposing = "no" /\ aDisplaced = {}
        BY DEF Client!Init
    <2>2. 0 \in 0..MaxSpawns
        BY LimitsAssumption
    <2>3. aStarts \in [Client!Starts -> StartRecord]
        BY <2>1 DEF StartRecord
    <2>4. ClientTypes
        BY <2>1, <2>2, <2>3 DEF ClientTypes
    <2>5. ProcessInv
        BY <2>1 DEF ProcessInv
    <2>6. StartInv
        BY <2>1, StartsAre DEF StartInv
    <2> QED BY <2>4, <2>5, <2>6 DEF ClientInv
<1>2. ClientInv /\ [Client!Next]_(Client!appVars) => ClientInv'
    BY ClientStep
<1>3. ClientInv => Client!TypeOK /\ Client!InitializedFirst /\ Client!SessionsAccounted /\ Client!FailedStartFrees
    <2> SUFFICES ASSUME ClientInv
                 PROVE  Client!TypeOK /\ Client!InitializedFirst /\ Client!SessionsAccounted /\ Client!FailedStartFrees
        OBVIOUS
    <2>1. Client!TypeOK
        BY DEF ClientInv, ClientTypes, StartRecord, Client!TypeOK
    <2>2. Client!InitializedFirst
        BY DEF ClientInv, ClientTypes, ProcessInv, Client!InitializedFirst
    <2>3. Client!SessionsAccounted /\ Client!FailedStartFrees
        BY DEF ClientInv, ClientTypes, StartInv, Client!SessionsAccounted, Client!FailedStartFrees
    <2> QED BY <2>1, <2>2, <2>3
<1> QED BY <1>1, <1>2, <1>3, PTL

-----------------------------------------------------------------------------
(* The extraction *)

\* The listener is subscribed while the turn is asked for or awaited, so that
\* it has heard all and has noted the end; no message is sent before the turn
\* runs, and whatever resolves is the end of it.
ExtractInv ==
  /\ Extract!TypeOK
  /\ eListening <=> ePc \in {"turn", "race"}
  /\ ePc \in {"idle", "thread"} => eTurn = "none"
  /\ eTurn \in {"none", "asked"} => eSaid = 0
  /\ ePc \in {"turn", "race"} => eHeard = eSaid /\ (eTurn = "over" => eCompleted)
  /\ eCompleted \/ eCompletion = "resolved" => eTurn = "over"
  /\ Extract!AnswerIsWhole /\ Extract!NothingIsLeft /\ Extract!OverIsNoticed

\* What is promised of an extraction, for every behaviour of its module.
LEMMA ExtractSafe ==
  Extract!Init /\ [][Extract!Next]_(Extract!extractVars)
    => [](Extract!TypeOK /\ Extract!AnswerIsWhole /\ Extract!NothingIsLeft /\ Extract!OverIsNoticed)
<1> USE DEF Extract!TypeOK, Extract!AnswerIsWhole, Extract!NothingIsLeft, Extract!OverIsNoticed
<1>1. Extract!Init => ExtractInv
    <2> SUFFICES ASSUME Extract!Init PROVE ExtractInv
        OBVIOUS
    <2>1. MaxMessages \in Nat
        BY LimitsAssumption
    <2>2. /\ ePc = "idle" /\ eCaller = "waiting" /\ eTurn = "none" /\ eSaid = 0 /\ eHeard = 0
          /\ eListening = FALSE /\ eCompleted = FALSE /\ eCompletion = "pending"
        BY DEF Extract!Init
    <2>3. ~eListening /\ ~eCompleted /\ eListening \in BOOLEAN /\ eCompleted \in BOOLEAN
        BY <2>2
    <2>4. eSaid \in 0..MaxMessages /\ eHeard \in 0..eSaid
        BY <2>1, <2>2
    <2> QED BY <2>2, <2>3, <2>4, Zenon DEF ExtractInv
<1>2. ExtractInv /\ [Extract!Next]_(Extract!extractVars) => ExtractInv'
    <2> SUFFICES ASSUME ExtractInv, [Extract!Next]_(Extract!extractVars) PROVE ExtractInv'
        OBVIOUS
    <2> USE DEF ExtractInv
    <2>1. MaxMessages \in Nat /\ eSaid \in Nat /\ eHeard \in Nat
        BY LimitsAssumption
    <2>2. CASE Extract!Begin \/ Extract!Abort
        BY <2>1, <2>2 DEF Extract!Begin, Extract!Abort
    <2>3. CASE Extract!ThreadMade
        BY <2>1, <2>3 DEF Extract!ThreadMade
    <2>4. CASE Extract!ThreadFails \/ Extract!TurnFails \/ Extract!TimesOut
        <3>1. /\ ePc \in {"thread", "turn", "race"} /\ ePc' = "failed" /\ ~eListening'
              /\ eCaller' = IF eCaller = "waiting" THEN "failed" ELSE eCaller
              /\ UNCHANGED <<eTurn, eSaid, eHeard, eCompleted, eCompletion>>
            BY <2>4 DEF Extract!ThreadFails, Extract!TurnFails, Extract!TimesOut, Extract!Fails, Extract!Told
        <3>2. eListening' = FALSE
            BY <2>4 DEF Extract!ThreadFails, Extract!TurnFails, Extract!TimesOut, Extract!Fails
        <3> QED BY <2>1, <3>1, <3>2
    <2>5. CASE Extract!TurnAnswered
        BY <2>1, <2>5 DEF Extract!TurnAnswered, Extract!Settled
    <2>6. CASE Extract!TurnRuns
        BY <2>1, <2>6 DEF Extract!TurnRuns
    <2>7. CASE Extract!Message
        BY <2>1, <2>7 DEF Extract!Message
    <2>8. CASE Extract!TurnOver
        BY <2>1, <2>8 DEF Extract!TurnOver, Extract!Settled
    <2>9. CASE Extract!Errors
        BY <2>1, <2>9 DEF Extract!Errors, Extract!Settled
    <2>10. CASE Extract!Settles
        BY <2>1, <2>10 DEF Extract!Settles, Extract!Fails, Extract!Told
    <2>11. CASE UNCHANGED Extract!extractVars
        BY <2>1, <2>11 DEF Extract!extractVars
    <2> QED BY <2>2, <2>3, <2>4, <2>5, <2>6, <2>7, <2>8, <2>9, <2>10, <2>11 DEF Extract!Next
<1>3. ExtractInv => /\ Extract!TypeOK /\ Extract!AnswerIsWhole /\ Extract!NothingIsLeft
                    /\ Extract!OverIsNoticed
    BY DEF ExtractInv
<1> QED BY <1>1, <1>2, <1>3, PTL

-----------------------------------------------------------------------------
(* The tools that the agents ask for *)

ToolRow == [pc : {"none", "asked", "running", "unheard", "over"}, call : 0..MaxSessions,
            answer : {"none", "ok", "failed"}]
ToolTypes ==
  /\ tMock \in BOOLEAN /\ tCall \in [Tools!Calls -> {"none", "on", "over"}]
  /\ tMode \in [Tools!Calls -> {"delegation", "transcript", "off"}]
  /\ tNamed \subseteq Tools!Calls /\ tLive \subseteq Tools!Calls /\ tThreads \subseteq Tools!Threads
  /\ tBound \in [Tools!Calls -> Tools!Threads \cup {Tools!NoThread}]
  /\ tAsked \in [Tools!Requests -> ToolRow] /\ tHandler \in BOOLEAN

\* A session is of a call that is on, and only a session has a thread: its
\* own, or, of a call that was not told its thread, that of somebody else; one
\* that was told has it.
SessionsInv ==
  \A c \in Tools!Calls :
    /\ c \in tLive => tCall[c] = "on"
    /\ tBound[c] # Tools!NoThread => c \in tLive /\ (tBound[c][1] = c \/ (tMode[c] = "delegation" /\ c \notin tNamed))
    /\ c \in tNamed => tCall[c] # "none" /\ (c \in tLive => tBound[c] # Tools!NoThread)

\* A tool runs for a call that was started, and its agent was answered only if
\* it is over or unheard.
AskedInv ==
  \A r \in Tools!Requests : LET c == tAsked[r].call IN
    /\ c # 0 => tCall[c] # "none" /\ (r[1][1] = c \/ (tMode[c] = "delegation" /\ c \notin tNamed))
    /\ tAsked[r].pc \in {"none", "asked", "running"} => tAsked[r].answer = "none"

ToolsInv == ToolTypes /\ SessionsInv /\ AskedInv

\* What a step may do to the requests: nothing is run for a call that is not
\* on, and an answer stands.
ToolsMove == \A r \in Tools!Requests :
  /\ tAsked'[r].pc = "running" /\ tAsked[r].pc # "running" => tCall[tAsked'[r].call] = "on"
  /\ tAsked[r].answer # "none" => tAsked'[r].answer = tAsked[r].answer

\* Calls are numbered from 1, and the thread that is none is nobody's.
LEMMA CallsAre ==
  /\ MaxSessions \in Nat /\ Tools!Calls \subseteq Nat \ {0} /\ Tools!Calls \subseteq 0..MaxSessions
  /\ 0 \notin Tools!Calls /\ Tools!NoThread \notin Tools!Threads
  /\ \A c \in Tools!Calls : <<c, "voice">> \in Tools!Threads /\ <<c, "own">> \in Tools!Threads
  /\ \A r \in Tools!Requests : r[1] \in Tools!Threads
<1>1. MaxSessions \in Nat
    BY LimitsAssumption
<1>2. Tools!Calls \subseteq Nat \ {0} /\ Tools!Calls \subseteq 0..MaxSessions /\ 0 \notin Tools!Calls
    BY <1>1 DEF Tools!Calls
<1>3. \A t \in Tools!Threads : t[1] # 0
    BY <1>2 DEF Tools!Threads
<1>4. Tools!NoThread \notin Tools!Threads
    BY <1>3 DEF Tools!NoThread
<1> QED BY <1>1, <1>2, <1>4 DEF Tools!Threads, Tools!Requests

\* Of calls there is a first.
LEMMA FirstOwnerIs == ASSUME NEW S \in SUBSET Tools!Calls, S # {} PROVE Tools!First(S) \in S
<1>1. S \subseteq Nat
    BY CallsAre
<1> QED BY <1>1, NatMin DEF Tools!First

\* A step that leaves the requests alone, and forgets no call that was started.
LEMMA RequestsKept ==
  ASSUME ToolsInv, tAsked' = tAsked,
         \A c \in Tools!Calls : tCall[c] # "none" =>
            tCall'[c] # "none" /\ tMode'[c] = tMode[c] /\ (c \in tNamed' => c \in tNamed)
  PROVE  AskedInv' /\ ToolsMove
<1>1. \A r \in Tools!Requests : tAsked[r] \in ToolRow
    BY DEF ToolsInv, ToolTypes
<1>2. \A r \in Tools!Requests : tAsked[r].call # 0 => tAsked[r].call \in Tools!Calls
    BY <1>1, CallsAre DEF ToolRow, Tools!Calls
<1>3. AskedInv'
    BY <1>2 DEF ToolsInv, AskedInv
<1> QED BY <1>3 DEF ToolsMove

\* A call begins: its session is told its thread only if the voice has one.
LEMMA CallBegins ==
  ASSUME ToolsInv, NEW c \in Tools!Calls, Tools!Start(c) PROVE ToolsInv' /\ ToolsMove
<1>0. ToolTypes /\ SessionsInv /\ AskedInv
    BY DEF ToolsInv
<1>1. PICK m \in {"delegation", "transcript", "off"}, known \in BOOLEAN :
         /\ known => (m = "delegation" /\ <<c, "voice">> \in tThreads)
         /\ tMode' = [tMode EXCEPT ![c] = m] /\ tLive' = (IF m = "off" THEN tLive ELSE tLive \cup {c})
         /\ tNamed' = (IF known THEN tNamed \cup {c} ELSE tNamed)
         /\ tBound' = IF known THEN [tBound EXCEPT ![c] = <<c, "voice">>] ELSE tBound
    BY DEF Tools!Start
<1>2. /\ tCall[c] = "none" /\ tCall' = [tCall EXCEPT ![c] = "on"] /\ UNCHANGED <<tMock, tThreads, tAsked, tHandler>>
    BY DEF Tools!Start
<1>3. c \notin tLive /\ tBound[c] = Tools!NoThread
    BY <1>0, <1>2 DEF SessionsInv
<1>4. <<c, "voice">> \in Tools!Threads /\ <<c, "voice">> # Tools!NoThread /\ <<c, "voice">>[1] = c
    BY CallsAre
<1>5. ToolTypes'
    <2>1. tBound' \in [Tools!Calls -> Tools!Threads \cup {Tools!NoThread}]
        BY <1>0, <1>1, <1>4 DEF ToolTypes
    <2>2. tCall' \in [Tools!Calls -> {"none", "on", "over"}] /\ tMode' \in [Tools!Calls -> {"delegation", "transcript", "off"}]
        BY <1>0, <1>1, <1>2 DEF ToolTypes
    <2>3. tNamed' \subseteq Tools!Calls /\ tLive' \subseteq Tools!Calls
        BY <1>0, <1>1 DEF ToolTypes
    <2> QED BY <1>0, <1>2, <2>1, <2>2, <2>3 DEF ToolTypes
<1>6. SessionsInv'
    <2> SUFFICES ASSUME NEW d \in Tools!Calls
                 PROVE  /\ d \in tLive' => tCall'[d] = "on"
                        /\ tBound'[d] # Tools!NoThread =>
                             d \in tLive' /\ (tBound'[d][1] = d \/ (tMode'[d] = "delegation" /\ d \notin tNamed'))
                        /\ d \in tNamed' => tCall'[d] # "none" /\ (d \in tLive' => tBound'[d] # Tools!NoThread)
        BY DEF SessionsInv
    <2>1. CASE d # c
        <3>1. /\ tCall'[d] = tCall[d] /\ tMode'[d] = tMode[d] /\ tBound'[d] = tBound[d]
              /\ (d \in tLive' <=> d \in tLive) /\ (d \in tNamed' <=> d \in tNamed)
            BY <1>0, <1>1, <1>2, <2>1 DEF ToolTypes
        <3> QED BY <1>0, <3>1 DEF SessionsInv
    <2>2. CASE d = c
        <3>1. tCall'[c] = "on" /\ tMode'[c] = m
            BY <1>0, <1>1, <1>2 DEF ToolTypes
        <3>2. CASE known
            <4>1. tBound'[c] = <<c, "voice">> /\ c \in tLive' /\ c \in tNamed'
                BY <1>0, <1>1, <3>2 DEF ToolTypes
            <4> QED BY <1>4, <2>2, <3>1, <4>1
        <3>3. CASE ~known
            <4>1. tBound'[c] = Tools!NoThread
                BY <1>1, <1>3, <3>3
            <4>2. c \notin tNamed
                BY <1>0, <1>2 DEF SessionsInv
            <4> QED BY <1>1, <2>2, <3>1, <3>3, <4>1, <4>2
        <3> QED BY <3>2, <3>3
    <2> QED BY <2>1, <2>2
<1>7. \A d \in Tools!Calls : tCall[d] # "none" =>
        tCall'[d] # "none" /\ tMode'[d] = tMode[d] /\ (d \in tNamed' => d \in tNamed)
    <2> SUFFICES ASSUME NEW d \in Tools!Calls, d # c
                 PROVE  tCall'[d] = tCall[d] /\ tMode'[d] = tMode[d] /\ (d \in tNamed' => d \in tNamed)
        BY <1>2
    <2> QED BY <1>0, <1>1, <1>2 DEF ToolTypes
<1> QED BY <1>2, <1>5, <1>6, <1>7, RequestsKept DEF ToolsInv

\* The threads there are, and what ends.
LEMMA ThreadsMove ==
  ASSUME ToolsInv,
         \/ \E c \in Tools!Calls : Tools!VoiceBegins(c) \/ Tools!ThreadMade(c) \/ Tools!End(c)
         \/ Tools!Quit
  PROVE  ToolsInv' /\ ToolsMove
<1>0. ToolTypes /\ SessionsInv /\ AskedInv
    BY DEF ToolsInv
<1>1. ASSUME tAsked' = tAsked, tMode' = tMode, tNamed' = tNamed, tMock' = tMock, ToolTypes', SessionsInv',
             \A d \in Tools!Calls : tCall[d] # "none" => tCall'[d] # "none"
      PROVE  ToolsInv' /\ ToolsMove
    BY <1>1, RequestsKept DEF ToolsInv
<1>2. ASSUME NEW c \in Tools!Calls, Tools!VoiceBegins(c) PROVE ToolsInv' /\ ToolsMove
    <2>1. tThreads' = tThreads \cup {<<c, "voice">>}
          /\ UNCHANGED <<tMock, tCall, tMode, tNamed, tLive, tBound, tAsked, tHandler>>
        BY <1>2 DEF Tools!VoiceBegins
    <2>2. ToolTypes'
        BY <1>0, <2>1, CallsAre DEF ToolTypes
    <2>3. SessionsInv'
        BY <1>0, <2>1, Zenon DEF SessionsInv
    <2> QED BY <1>1, <2>1, <2>2, <2>3
<1>3. ASSUME NEW c \in Tools!Calls, Tools!ThreadMade(c) PROVE ToolsInv' /\ ToolsMove
    <2>1. /\ tThreads' = tThreads \cup {<<c, "own">>}
          /\ tBound' = IF c \in tLive THEN [tBound EXCEPT ![c] = <<c, "own">>] ELSE tBound
          /\ UNCHANGED <<tMock, tCall, tMode, tNamed, tLive, tAsked, tHandler>>
        BY <1>3 DEF Tools!ThreadMade
    <2>2. <<c, "own">> \in Tools!Threads /\ <<c, "own">> # Tools!NoThread /\ <<c, "own">>[1] = c
        BY CallsAre
    <2>3. ToolTypes'
        BY <1>0, <2>1, <2>2 DEF ToolTypes
    <2>4. \A d \in Tools!Calls : tBound'[d] = tBound[d] \/ (d \in tLive /\ tBound'[d] # Tools!NoThread /\ tBound'[d][1] = d)
        BY <1>0, <2>1, <2>2 DEF ToolTypes
    <2>5. SessionsInv'
        BY <1>0, <2>1, <2>4 DEF SessionsInv
    <2> QED BY <1>1, <2>1, <2>3, <2>5
<1>4. ASSUME NEW c \in Tools!Calls, Tools!End(c) PROVE ToolsInv' /\ ToolsMove
    <2>1. /\ tCall' = [tCall EXCEPT ![c] = "over"] /\ tLive' = tLive \ {c}
          /\ tBound' = [tBound EXCEPT ![c] = Tools!NoThread]
          /\ UNCHANGED <<tMock, tMode, tNamed, tThreads, tAsked, tHandler>>
        BY <1>4 DEF Tools!End
    <2>2. ToolTypes'
        BY <1>0, <2>1 DEF ToolTypes
    <2>3. \A d \in Tools!Calls : IF d = c THEN tCall'[d] = "over" /\ tBound'[d] = Tools!NoThread
                                 ELSE tCall'[d] = tCall[d] /\ tBound'[d] = tBound[d]
        BY <1>0, <2>1 DEF ToolTypes
    <2>4. SessionsInv'
        BY <1>0, <2>1, <2>3 DEF SessionsInv
    <2>5. \A d \in Tools!Calls : tCall[d] # "none" => tCall'[d] # "none"
        BY <2>3
    <2> QED BY <1>1, <2>1, <2>2, <2>4, <2>5
<1>5. CASE Tools!Quit
    <2>1. /\ tHandler' = FALSE /\ tLive' = {} /\ tBound' = [c \in Tools!Calls |-> Tools!NoThread]
          /\ UNCHANGED <<tMock, tCall, tMode, tNamed, tThreads, tAsked>>
        BY <1>5 DEF Tools!Quit
    <2>2. ToolTypes'
        BY <1>0, <2>1 DEF ToolTypes
    <2>3. SessionsInv'
        BY <1>0, <2>1 DEF SessionsInv
    <2> QED BY <1>1, <2>1, <2>2, <2>3
<1> QED BY <1>2, <1>3, <1>4, <1>5

\* A step of one request, that keeps its answer, or answers it as it is over or
\* unheard, and runs it only for a session there is.
LEMMA RequestMoves ==
  ASSUME ToolsInv, NEW r \in Tools!Requests, NEW q \in ToolRow, tAsked' = [tAsked EXCEPT ![r] = q],
         tCall' = tCall, tMode' = tMode, tNamed' = tNamed,
         q.pc \in {"none", "asked", "running"} => q.answer = "none",
         tAsked[r].answer # "none" => q.answer = tAsked[r].answer,
         q.call = tAsked[r].call \/ q.call = 0
           \/ (q.call \in tLive /\ (r[1][1] = q.call \/ (tMode[q.call] = "delegation" /\ q.call \notin tNamed))),
         q.pc = "running" => q.call \in tLive
  PROVE  AskedInv' /\ ToolsMove /\ tAsked' \in [Tools!Requests -> ToolRow]
<1>0. ToolTypes /\ SessionsInv /\ AskedInv
    BY DEF ToolsInv
<1>1. \A p \in Tools!Requests : tAsked'[p] = IF p = r THEN q ELSE tAsked[p]
    BY <1>0 DEF ToolTypes
<1>2. tAsked' \in [Tools!Requests -> ToolRow]
    BY <1>0 DEF ToolTypes
<1>3. \A c \in tLive : tCall[c] = "on"
    BY <1>0 DEF SessionsInv, ToolTypes
<1>4. AskedInv'
    <2>1. ASSUME NEW p \in Tools!Requests, p # r
          PROVE  LET c == tAsked'[p].call IN
                 /\ c # 0 => tCall'[c] # "none" /\ (p[1][1] = c \/ (tMode'[c] = "delegation" /\ c \notin tNamed'))
                 /\ tAsked'[p].pc \in {"none", "asked", "running"} => tAsked'[p].answer = "none"
        BY <1>0, <1>1, <2>1 DEF AskedInv
    <2>2. LET c == q.call IN
            c # 0 => tCall'[c] # "none" /\ (r[1][1] = c \/ (tMode'[c] = "delegation" /\ c \notin tNamed'))
        BY <1>0, <1>3 DEF AskedInv
    <2>3. tAsked'[r] = q
        BY <1>1
    <2> QED BY <2>1, <2>2, <2>3 DEF AskedInv
<1>5. ToolsMove
    BY <1>1, <1>3 DEF ToolsMove
<1> QED BY <1>2, <1>4, <1>5

\* A request is asked, is over, or is given up.
LEMMA RequestsMove ==
  ASSUME ToolsInv, NEW r \in Tools!Requests, Tools!Ask(r) \/ Tools!Returns(r) \/ Tools!TimesOut(r)
  PROVE  ToolsInv' /\ ToolsMove
<1>0. ToolTypes /\ SessionsInv /\ AskedInv
    BY DEF ToolsInv
<1>1. /\ tAsked[r] \in ToolRow
      /\ UNCHANGED <<tMock, tCall, tMode, tNamed, tThreads, tLive, tBound, tHandler>>
    BY <1>0 DEF ToolTypes, Tools!Ask, Tools!Returns, Tools!TimesOut
<1>2. PICK q : /\ tAsked' = [tAsked EXCEPT ![r] = q] /\ q \in ToolRow /\ q.call = tAsked[r].call
               /\ q.pc \in {"asked", "unheard", "over"} /\ (q.pc = "asked" => q.answer = "none")
               /\ (tAsked[r].answer # "none" => q.answer = tAsked[r].answer)
    <2>1. CASE Tools!Ask(r)
        <3> DEFINE q == [tAsked[r] EXCEPT !.pc = "asked"]
        <3>1. tAsked' = [tAsked EXCEPT ![r] = q] /\ tAsked[r].pc = "none"
            BY <2>1 DEF Tools!Ask
        <3>2. tAsked[r].answer = "none"
            BY <1>0, <3>1 DEF AskedInv
        <3>3. q \in ToolRow /\ q.call = tAsked[r].call /\ q.pc = "asked" /\ q.answer = tAsked[r].answer
            BY <1>1 DEF ToolRow
        <3> QED BY <3>1, <3>2, <3>3
    <2>2. CASE Tools!TimesOut(r)
        <3> DEFINE q == [tAsked[r] EXCEPT !.pc = "unheard", !.answer = "failed"]
        <3>1. tAsked' = [tAsked EXCEPT ![r] = q] /\ tAsked[r].pc = "running"
            BY <2>2 DEF Tools!TimesOut
        <3>2. tAsked[r].answer = "none"
            BY <1>0, <3>1 DEF AskedInv
        <3>3. q \in ToolRow /\ q.call = tAsked[r].call /\ q.pc = "unheard"
            BY <1>1 DEF ToolRow
        <3> QED BY <3>1, <3>2, <3>3
    <2>3. CASE Tools!Returns(r)
        <3>1. PICK ok \in BOOLEAN :
                tAsked' = [tAsked EXCEPT ![r].pc = "over",
                                         ![r].answer = IF @ # "none" THEN @ ELSE IF ok THEN "ok" ELSE "failed"]
            BY <2>3 DEF Tools!Returns
        <3> DEFINE a == IF tAsked[r].answer # "none" THEN tAsked[r].answer ELSE IF ok THEN "ok" ELSE "failed"
                   q == [tAsked[r] EXCEPT !.pc = "over", !.answer = a]
        <3>2. tAsked' = [tAsked EXCEPT ![r] = q]
            BY <1>0, <3>1 DEF ToolTypes
        <3>3. a \in {"none", "ok", "failed"} /\ (tAsked[r].answer # "none" => a = tAsked[r].answer)
            BY <1>1 DEF ToolRow
        <3> HIDE DEF a
        <3>4. q \in ToolRow /\ q.call = tAsked[r].call /\ q.pc = "over" /\ q.answer = a
            BY <1>1, <3>3 DEF ToolRow
        <3> QED BY <3>2, <3>3, <3>4
    <2> QED BY <2>1, <2>2, <2>3
<1>3. AskedInv' /\ ToolsMove /\ tAsked' \in [Tools!Requests -> ToolRow]
    <2>1. q.pc # "running" /\ q.pc # "none"
        BY <1>2
    <2> QED BY <1>1, <1>2, <2>1, RequestMoves
<1>4. ToolTypes' /\ SessionsInv'
    BY <1>0, <1>1, <1>3, Zenon DEF ToolTypes, SessionsInv
<1> QED BY <1>3, <1>4 DEF ToolsInv

\* A request arrives, and is given to the session that owns the thread, to the
\* first that can take it, or to none.
LEMMA RouteMoves == ASSUME ToolsInv, NEW r \in Tools!Requests, Tools!Route(r) PROVE ToolsInv' /\ ToolsMove
<1>0. ToolTypes /\ SessionsInv /\ AskedInv
    BY DEF ToolsInv
<1>1. /\ tAsked[r].pc = "asked" /\ tAsked[r].answer = "none" /\ r[1] \in Tools!Threads
      /\ UNCHANGED <<tMock, tCall, tMode, tNamed, tThreads, tLive, tHandler>>
    BY <1>0, CallsAre DEF Tools!Route, AskedInv
<1>2. ASSUME Tools!Refused(r) PROVE AskedInv' /\ ToolsMove /\ tAsked' \in [Tools!Requests -> ToolRow]
    <2> DEFINE q == [pc |-> "over", call |-> 0, answer |-> "failed"]
    <2>1. q \in ToolRow /\ q.pc = "over" /\ q.call = 0
        BY CallsAre DEF ToolRow
    <2>2. tAsked' = [tAsked EXCEPT ![r] = q]
        BY <1>2 DEF Tools!Refused
    <2> QED BY <1>1, <2>1, <2>2, RequestMoves
<1>3. ASSUME NEW c \in tLive, r[1][1] = c \/ (tMode[c] = "delegation" /\ c \notin tNamed), Tools!Given(r, c)
      PROVE  AskedInv' /\ ToolsMove /\ tAsked' \in [Tools!Requests -> ToolRow]
    <2> DEFINE q == [pc |-> "running", call |-> c, answer |-> "none"]
    <2>1. q \in ToolRow /\ q.pc = "running" /\ q.call = c /\ q.answer = "none"
        BY <1>0, CallsAre DEF ToolRow, ToolTypes
    <2>2. CASE tAsked' = [tAsked EXCEPT ![r] = q]
        <3> HIDE DEF q
        <3> QED BY <1>1, <1>3, <2>1, <2>2, RequestMoves
    <2> QED BY <1>2, <1>3, <2>2 DEF Tools!Given
<1>4. CASE tBound' = tBound /\ Tools!Refused(r)
    <2>1. ToolTypes' /\ SessionsInv'
        BY <1>0, <1>1, <1>2, <1>4, Zenon DEF ToolTypes, SessionsInv
    <2> QED BY <1>2, <1>4, <2>1 DEF ToolsInv
<1>5. CASE Tools!Owners(r[1]) # {} /\ Tools!Given(r, Tools!First(Tools!Owners(r[1]))) /\ tBound' = tBound
    <2> DEFINE c == Tools!First(Tools!Owners(r[1]))
    <2>1. c \in Tools!Owners(r[1])
        BY <1>0, <1>5, FirstOwnerIs DEF Tools!Owners, ToolTypes
    <2>2. c \in tLive /\ tBound[c] = r[1] /\ c \in Tools!Calls
        BY <1>0, <2>1 DEF Tools!Owners, ToolTypes
    <2>3. r[1][1] = c \/ (tMode[c] = "delegation" /\ c \notin tNamed)
        BY <1>0, <1>1, <2>2, CallsAre DEF SessionsInv
    <2> HIDE DEF c
    <2>4. AskedInv' /\ ToolsMove /\ tAsked' \in [Tools!Requests -> ToolRow]
        BY <1>3, <1>5, <2>2, <2>3 DEF c
    <2>5. ToolTypes' /\ SessionsInv'
        BY <1>0, <1>1, <1>5, <2>4, Zenon DEF ToolTypes, SessionsInv
    <2> QED BY <2>4, <2>5 DEF ToolsInv
<1>6. CASE /\ Tools!CanBind # {} /\ tBound' = [tBound EXCEPT ![Tools!First(Tools!CanBind)] = r[1]]
           /\ Tools!Given(r, Tools!First(Tools!CanBind))
    <2> DEFINE c == Tools!First(Tools!CanBind)
    <2>1. c \in Tools!CanBind
        BY <1>0, <1>6, FirstOwnerIs DEF Tools!CanBind, ToolTypes
    <2>2. c \in tLive /\ tBound[c] = Tools!NoThread /\ c \in Tools!Calls /\ tMode[c] = "delegation"
        BY <1>0, <2>1 DEF Tools!CanBind, ToolTypes
    <2>3. c \notin tNamed
        BY <1>0, <2>2 DEF SessionsInv
    <2>4. tBound' = [tBound EXCEPT ![c] = r[1]] /\ Tools!Given(r, c)
        BY <1>6
    <2> HIDE DEF c
    <2>5. AskedInv' /\ ToolsMove /\ tAsked' \in [Tools!Requests -> ToolRow]
        BY <1>3, <2>2, <2>3, <2>4
    <2>6. tBound' \in [Tools!Calls -> Tools!Threads \cup {Tools!NoThread}]
          /\ \A d \in Tools!Calls : tBound'[d] = IF d = c THEN r[1] ELSE tBound[d]
        BY <1>0, <1>1, <2>2, <2>4 DEF ToolTypes
    <2>7. ToolTypes'
        BY <1>0, <1>1, <2>5, <2>6, Zenon DEF ToolTypes
    <2>8. SessionsInv'
        BY <1>0, <1>1, <2>2, <2>3, <2>6, CallsAre DEF SessionsInv
    <2> QED BY <2>5, <2>7, <2>8 DEF ToolsInv
<1> QED BY <1>4, <1>5, <1>6 DEF Tools!Route

\* What is promised of the tools, for every behaviour of their module.
LEMMA ToolsSafe ==
  Tools!Init /\ [][Tools!Next]_(Tools!toolVars)
    => /\ [](Tools!TypeOK /\ Tools!RunsForItsCall) /\ Tools!NothingAfterTheEnd /\ Tools!AnswerStands
<1>1. Tools!Init => ToolsInv
    <2> SUFFICES ASSUME Tools!Init PROVE ToolsInv
        OBVIOUS
    <2>1. /\ tMock \in BOOLEAN /\ tCall = [c \in Tools!Calls |-> "none"] /\ tMode = [c \in Tools!Calls |-> "off"]
          /\ tNamed = {} /\ tThreads = {} /\ tLive = {} /\ tBound = [c \in Tools!Calls |-> Tools!NoThread]
          /\ tAsked = [r \in Tools!Requests |-> Tools!Unasked] /\ tHandler = TRUE
        BY DEF Tools!Init
    <2>2. Tools!Unasked \in ToolRow /\ Tools!Unasked.call = 0 /\ Tools!Unasked.answer = "none"
        BY CallsAre DEF Tools!Unasked, ToolRow
    <2>3. ToolTypes
        BY <2>1, <2>2 DEF ToolTypes
    <2>4. SessionsInv
        BY <2>1 DEF SessionsInv
    <2>5. AskedInv
        BY <2>1, <2>2 DEF AskedInv
    <2> QED BY <2>3, <2>4, <2>5 DEF ToolsInv
<1>2. ToolsInv /\ [Tools!Next]_(Tools!toolVars) => ToolsInv' /\ ToolsMove
    <2> SUFFICES ASSUME ToolsInv, [Tools!Next]_(Tools!toolVars) PROVE ToolsInv' /\ ToolsMove
        OBVIOUS
    <2>1. CASE UNCHANGED Tools!toolVars
        <3>1. UNCHANGED <<tMock, tCall, tMode, tNamed, tThreads, tLive, tBound, tAsked, tHandler>>
            BY <2>1 DEF Tools!toolVars
        <3>2. ToolTypes' /\ SessionsInv'
            BY <3>1, Zenon DEF ToolsInv, ToolTypes, SessionsInv
        <3> QED BY <3>1, <3>2, RequestsKept DEF ToolsInv
    <2> QED BY <2>1, CallBegins, ThreadsMove, RequestsMove, RouteMoves, Zenon DEF Tools!Next
<1>3. ToolsInv => Tools!TypeOK /\ Tools!RunsForItsCall
    <2>1. ToolsInv => Tools!TypeOK
        BY DEF ToolsInv, ToolTypes, ToolRow, Tools!TypeOK
    <2>2. ToolsInv => Tools!RunsForItsCall
        BY DEF ToolsInv, AskedInv, Tools!RunsForItsCall
    <2> QED BY <2>1, <2>2
<1>4. ToolsInv /\ [Tools!Next]_(Tools!toolVars) =>
        /\ [\A r \in Tools!Requests : tAsked'[r].pc = "running" /\ tAsked[r].pc # "running"
                                        => tCall[tAsked'[r].call] = "on"]_(Tools!toolVars)
        /\ [\A r \in Tools!Requests : tAsked[r].answer # "none" => tAsked'[r].answer = tAsked[r].answer]_(Tools!toolVars)
    BY <1>2, Zenon DEF ToolsMove
<1> QED BY <1>1, <1>2, <1>3, <1>4, PTL DEF Tools!NothingAfterTheEnd, Tools!AnswerStands

-----------------------------------------------------------------------------
(* The copilot of a call *)

TurnRow == [known : BOOLEAN, gen : 0..MaxWords, input : SUBSET Words, calls : 0..MaxCalls, cut : BOOLEAN,
            completed : BOOLEAN, text : BOOLEAN, mute : BOOLEAN, given : BOOLEAN]
DrainRow == [pc : {"idle", "asking", "waiting"}, turn : 0..MaxWords, gen : 0..MaxWords, input : SUBSET Words]
VoiceRow == [way : SUBSET Turns, told : SUBSET Turns]
CopilotTypes ==
  /\ session \in {"none", "starting", "ready", "off", "over"} /\ said \in 0..MaxWords
  /\ pending \in SUBSET Words /\ context \in SUBSET Words /\ gen \in 0..MaxWords /\ drain \in DrainRow
  /\ turns \in [Turns -> TurnRow] /\ asked \in [Turns -> SUBSET Words]
  /\ server \in [Turns -> {"none", "asked", "running", "over"}] /\ active \in 0..MaxWords
  /\ control \in Calls \cup {NoCall} /\ aborted \in SUBSET Calls /\ made \in SUBSET Calls
  /\ waits \in SUBSET (Calls \X Calls)
  /\ exec \in [Calls -> {"none", "approval", "run", "ok", "failed", "late"}]
  /\ cache \in [{"write", "end"} -> Calls \cup {NoCall}]
  /\ voice \in VoiceRow /\ discarded \in SUBSET Turns /\ crossed \in SUBSET Turns /\ adrift \in SUBSET Turns
  /\ ended \in BOOLEAN /\ hang \in {"no", "waiting", "asked"}

\* A word is waited for at most once in the words that were asked: turns and
\* interruptions are bounded by the transcripts.
CountInv ==
  /\ session # "over" => gen = 0 \/ gen < said
  /\ \E n \in 0..said : (\A t \in Turns : server[t] # "none" <=> t <= n) /\ (pending # {} => n < said)
  /\ drain.gen <= gen

\* What the session knows of a turn follows what the server did of it.
TurnsInv == \A t \in Turns :
  /\ ~turns[t].known => turns[t] = Unknown
  /\ turns[t].known => server[t] \in {"asked", "running"}
  /\ server[t] = "running" /\ session # "over" => turns[t].known
  /\ server[t] = "none" => asked[t] = {}
  /\ turns[t].gen <= gen
  /\ turns[t].cut \/ turns[t].text => turns[t].calls > 0
  /\ turns[t].calls > 0 \/ turns[t].completed => server[t] = "running"
  /\ turns[t].mute => turns[t].completed
  /\ t \in voice.way => turns[t].completed /\ t \notin voice.told
  /\ t \in voice.told => turns[t].completed
  /\ t \in discarded => turns[t].known

\* The loop awaits a turn of the server, and the active turn is one that is not
\* done with.
PlaceInv ==
  /\ drain.pc # "idle" => /\ session = "ready" /\ drain.turn \in Turns /\ server[drain.turn] \in {"asked", "running"}
                          /\ drain.gen = gen => ~turns[drain.turn].cut
  /\ active # 0 => /\ active \in Turns /\ server[active] \in {"asked", "running"} /\ ~turns[active].cut
                   /\ turns[active].completed => active \in voice.way
                   /\ server[active] = "asked" => drain.pc = "waiting" /\ drain.turn = active
  /\ session # "over" => \A t \in Turns : turns[t].known /\ server[t] = "asked" => drain.pc = "waiting" /\ drain.turn = t

\* An execution that is under way, or succeeded, is the one in the cache, and
\* a call awaits the execution it began, if it began one, in a turn that runs.
ToolInv ==
  /\ \A c \in Calls : /\ exec[c] \in {"approval", "run", "ok"} => cache[c[2]] = c
                      /\ exec[c] # "none" => c \in made
                      /\ exec[c] \in {"approval", "run"} => <<c, c>> \in waits
                      /\ exec[c] # "none" /\ c[2] = "end" => ended /\ exec[c] = "ok"
  /\ \A c, e \in Calls : <<c, e>> \in waits =>
       /\ c \in made /\ (exec[c] # "none" => e = c)
       /\ server[c[1]] = "running" /\ ~turns[c[1]].completed /\ turns[c[1]].calls > 0

\* Unless a turn was given up: one turn at most is on, which the loop awaits,
\* and what awaits an approval in it is what an interruption aborts.
On(t) == server[t] \in {"asked", "running"} /\ ~turns[t].cut /\ ~turns[t].completed
SoloInv == adrift = {} =>
  /\ \A c \in Calls : exec[c] = "approval" /\ turns[c[1]].cut => c \in aborted
  /\ session # "over" =>
       /\ \A t \in Turns : On(t) => drain.pc # "idle" /\ drain.turn = t /\ (turns[t].known => turns[t].gen = gen)
       /\ active # 0 => drain.pc # "idle" /\ drain.turn = active
       /\ drain.pc # "idle" /\ drain.gen # gen => turns[drain.turn].cut
       /\ drain.pc = "waiting" => ~turns[drain.turn].cut
       /\ \A c \in Calls : exec[c] = "approval" /\ ~turns[c[1]].cut => control = c

\* What was asked from the turn t on.
AskedAfter(t) == UNION {asked[u] : u \in {u \in Turns : u > t}}
ReaskInv ==
  session # "over" /\ ~ended => \A t \in Turns : turns[t].cut => turns[t].input \subseteq pending \cup AskedAfter(t)

\* The audit: what a cut turn had is in it, and what is in it is of a turn that
\* is not current any more.
AuditInv ==
  session # "over" =>
    \A t \in Turns :
      /\ turns[t].text /\ turns[t].cut => turns[t].mute \/ t \in discarded
      /\ t \in discarded => ~Current(t) /\ (t \in voice.told => t \in crossed)
      /\ t \in voice.way => Current(t) \/ t \in crossed

CopilotInv ==
  /\ CopilotTypes /\ CountInv /\ TurnsInv /\ PlaceInv /\ ToolInv /\ SoloInv /\ ReaskInv /\ AuditInv
  /\ session = "over" => hang # "waiting"

\* A call names a turn and a tool.
LEMMA CallParts ==
  ASSUME NEW c \in Calls
  PROVE  c[1] \in Turns /\ c[2] \in {"write", "end"} /\ c = <<c[1], c[2]>>
BY DEF Calls

\* No call is the absent one: turns are numbered from 1.
LEMMA CallIsNone ==
  ASSUME NEW c \in Calls
  PROVE  c # NoCall
<1>1. c[1] \in Turns BY CallParts
<1>2. c[1] # 0 BY <1>1, LimitsAssumption DEF Turns
<1> QED BY <1>2 DEF NoCall

\* What a step of the loop does: nothing, rest, or ask a turn for p.
Used(n) == n \in 0..MaxWords /\ \A t \in Turns : (server[t] # "none") <=> (t <= n)
Stays(p) == pending' = p /\ drain' = drain /\ asked' = asked /\ server' = server
Rests(p) == p = {} /\ pending' = {} /\ drain' = Idle /\ asked' = asked /\ server' = server
Asks(p, g, n) ==
  /\ p # {} /\ pending' = {} /\ n + 1 \in Turns /\ server[n + 1] = "none"
  /\ drain' = [pc |-> "asking", turn |-> n + 1, gen |-> g, input |-> p]
  /\ asked' = [asked EXCEPT ![n + 1] = p] /\ server' = [server EXCEPT ![n + 1] = "asked"]

\* The turn that is asked next is the first that was not.
LEMMA NextIs ==
  ASSUME NEW n, Used(n)
  PROVE  NextTurn = n + 1
<1>1. {t \in Turns : server[t] # "none"} = 1..n
  <2>1. ASSUME NEW t PROVE t \in {u \in Turns : server[u] # "none"} <=> t \in 1..n
    BY LimitsAssumption DEF Used, Turns
  <2> QED BY <2>1
<1>2. Cardinality(1..n) = n
  <2>1. n \in Nat BY LimitsAssumption DEF Used
  <2>2. n \in Int /\ 1 \in Int BY <2>1
  <2>3. Cardinality(1..n) = IF 1 > n THEN 0 ELSE n - 1 + 1 BY <2>2, FS_Interval
  <2> QED BY <2>1, <2>3
<1> QED BY <1>1, <1>2 DEF NextTurn

\* The head of the loop rests, or asks the next turn.
LEMMA LoopedIs ==
  ASSUME NEW n, Used(n), NEW p, NEW g, p # {} => n < MaxWords, Looped(p, g)
  PROVE  Rests(p) \/ Asks(p, g, n)
<1>1. NextTurn = n + 1 BY NextIs
<1>2. CASE p = {} BY <1>2 DEF Looped, Rests
<1>3. CASE p # {}
  <2>1. n \in Nat /\ n + 1 \in Turns BY <1>3, LimitsAssumption DEF Used, Turns
  <2>2. server[n + 1] = "none" BY <2>1 DEF Used
  <2> QED BY <1>1, <1>3, <2>1, <2>2 DEF Looped, Asks
<1> QED BY <1>2, <1>3

\* The loop keeps the types of what it changes.
LEMMA FlowTypes ==
  ASSUME NEW n, Used(n), NEW p \in SUBSET Words, NEW g \in 0..MaxWords, CopilotTypes,
         Stays(p) \/ Rests(p) \/ Asks(p, g, n)
  PROVE  /\ pending' \in SUBSET Words /\ drain' \in DrainRow /\ asked' \in [Turns -> SUBSET Words]
         /\ server' \in [Turns -> {"none", "asked", "running", "over"}]
<1>1. CASE Stays(p) BY <1>1 DEF Stays, CopilotTypes
<1>2. CASE Rests(p) BY <1>2, LimitsAssumption DEF Rests, CopilotTypes, Idle, DrainRow
<1>3. CASE Asks(p, g, n)
  <2>1. n + 1 \in 0..MaxWords BY <1>3, LimitsAssumption DEF Asks, Turns
  <2>2. drain' \in DrainRow BY <1>3, <2>1 DEF Asks, DrainRow
  <2> QED BY <1>3, <2>2 DEF Asks, CopilotTypes
<1> QED BY <1>1, <1>2, <1>3

\* The parts of the invariant that say where the loop, the turns and the tools are.
CopilotRest == /\ CountInv /\ TurnsInv /\ PlaceInv /\ ToolInv /\ SoloInv /\ ReaskInv /\ AuditInv
               /\ (session = "over" => hang # "waiting")

\* A step that changes where the session is, before it is ready, or the hangup.
LEMMA EdgeStep ==
  ASSUME CopilotInv, CallStarted \/ StartFails \/ HangUp
  PROVE  CopilotInv'
<1> USE DEF CallStarted, StartFails, HangUp, toolVars, endVars, CopilotInv
<1>1. CopilotTypes' BY DEF CopilotTypes
<1>2. CountInv' BY DEF CountInv, CopilotTypes
<1>3. TurnsInv' BY DEF TurnsInv
<1>4. PlaceInv' BY DEF PlaceInv
<1>5. ToolInv' BY DEF ToolInv
<1>6. SoloInv' BY DEF SoloInv, On
<1>7. ReaskInv' BY DEF ReaskInv, AskedAfter
<1>8. AuditInv' BY DEF AuditInv, Current
<1>9. (session = "over" => hang # "waiting")' OBVIOUS
<1> QED BY <1>1, <1>2, <1>3, <1>4, <1>5, <1>6, <1>7, <1>8, <1>9 DEF CopilotInv

\* The end of the call: nothing is waited for or on any more.
LEMMA DisposeStep ==
  ASSUME CopilotInv, Dispose
  PROVE  CopilotInv'
<1> USE DEF Dispose, CopilotInv
<1>1. CopilotTypes'
  <2>1. gen + 1 \in 0..MaxWords BY LimitsAssumption DEF CopilotTypes, CountInv
  <2>2. Idle \in DrainRow BY LimitsAssumption DEF Idle, DrainRow
  <2>3. aborted' \in SUBSET Calls BY DEF CopilotTypes
  <2>4. hang' \in {"no", "waiting", "asked"} /\ active' \in 0..MaxWords BY LimitsAssumption DEF CopilotTypes
  <2> QED BY <2>1, <2>2, <2>3, <2>4 DEF CopilotTypes
<1>2. CountInv'
  <2>1. PICK n \in 0..said : (\A t \in Turns : (server[t] # "none") <=> (t <= n)) BY DEF CountInv
  <2>2. drain'.gen <= gen' BY DEF Idle, CopilotTypes
  <2> QED BY <2>1, <2>2 DEF CountInv
<1>3. TurnsInv'
  <2> SUFFICES ASSUME NEW t \in Turns PROVE turns[t].gen <= gen' BY DEF TurnsInv
  <2>1. turns[t] \in TurnRow BY DEF CopilotTypes
  <2> QED BY <2>1, LimitsAssumption DEF TurnsInv, CopilotTypes, TurnRow
<1>4. PlaceInv' BY DEF PlaceInv, Idle
<1>5. ToolInv' BY DEF ToolInv
<1>6. SoloInv' BY DEF SoloInv, On
<1>7. ReaskInv' BY DEF ReaskInv, AskedAfter
<1>8. AuditInv' BY DEF AuditInv, Current
<1>9. (session = "over" => hang # "waiting")' BY DEF CopilotTypes
<1> QED BY <1>1, <1>2, <1>3, <1>4, <1>5, <1>6, <1>7, <1>8, <1>9 DEF CopilotInv

\* An approval lets a tool run that nothing aborted.
LEMMA RunStep ==
  ASSUME CopilotInv, NEW e \in Calls, Approved(e), e \notin aborted
  PROVE  CopilotInv'
<1> USE DEF CopilotInv
<1>0. /\ exec[e] = "approval" /\ exec' = [exec EXCEPT ![e] = "run"]
      /\ exec \in [Calls -> {"none", "approval", "run", "ok", "failed", "late"}]
      /\ UNCHANGED <<session, said, pending, context, gen, drain, turns, asked, server, active, control, aborted, waits,
                     made, cache, voice, discarded, endVars, crossed, adrift>>
  BY DEF CopilotTypes, Approved
<1> USE <1>0 DEF endVars
<1>1. CopilotTypes' BY DEF CopilotTypes
<1>2. CountInv' BY DEF CountInv
<1>3. TurnsInv' BY DEF TurnsInv
<1>4. PlaceInv' BY DEF PlaceInv
<1>5. ToolInv' BY DEF ToolInv
<1>6. SoloInv' BY DEF SoloInv, On
<1>7. ReaskInv' BY DEF ReaskInv, AskedAfter
<1>8. AuditInv' BY DEF AuditInv, Current
<1>9. (session = "over" => hang # "waiting")' OBVIOUS
<1> QED BY <1>1, <1>2, <1>3, <1>4, <1>5, <1>6, <1>7, <1>8, <1>9 DEF CopilotInv

\* What awaits an execution hears its outcome: turns get a text, or what they
\* had asked for is discarded.
LEMMA AnsweredStep ==
  ASSUME CopilotInv, NEW e \in Calls, NEW ok \in BOOLEAN, Answered(e, ok),
         exec' \in [Calls -> {"none", "approval", "run", "ok", "failed", "late"}],
         cache' \in [{"write", "end"} -> Calls \cup {NoCall}],
         exec'[e] \notin {"none", "approval", "run"}, exec[e] \in {"approval", "run", "ok"},
         \A c \in Calls : c # e => exec'[c] = exec[c],
         exec'[e] = "ok" => cache' = cache,
         \A k \in {"write", "end"} : cache'[k] = cache[k] \/ (k = e[2] /\ cache[k] = e),
         e[2] = "end" => exec'[e] = "ok",
         UNCHANGED <<session, said, pending, context, gen, drain, asked, server, active, aborted, made, voice, endVars,
                     crossed, adrift>>
  PROVE  CopilotInv'
<1> USE DEF CopilotInv, endVars
<1> DEFINE who == {c \in made : <<c, e>> \in waits}
           stale == {c \in who : ~Current(c[1])}
<1>0. /\ waits' = {w \in waits : w[2] # e} /\ control' = IF control \in who THEN NoCall ELSE control
      /\ session = "over" => turns' = turns /\ discarded' = discarded
      /\ session # "over" => discarded' = discarded \cup {c[1] : c \in stale}
      /\ session # "over" => turns' = [t \in Turns |-> IF ok /\ \E c \in who \ stale : c[1] = t
                                                        THEN [turns[t] EXCEPT !.text = TRUE] ELSE turns[t]]
  BY DEF Answered
<1>w. \A c \in who : /\ c \in Calls /\ c[1] \in Turns /\ <<c, e>> \in waits /\ server[c[1]] = "running"
                     /\ ~turns[c[1]].completed /\ turns[c[1]].calls > 0
  BY CallParts DEF CopilotTypes, ToolInv
<1>s. (\A c \in stale : c \in who /\ ~Current(c[1])) /\ (\A c \in who : c \notin stale => Current(c[1]))
  OBVIOUS
<1> HIDE DEF who, stale
<1>v. \A a, b \in Calls : <<a, b>> \in waits' <=> (<<a, b>> \in waits /\ b # e)
  BY <1>0
\* What a step does to a turn.
<1>t. \A t \in Turns :
        \/ turns'[t] = turns[t]
        \/ /\ session # "over" /\ turns'[t] = [turns[t] EXCEPT !.text = TRUE]
           /\ Current(t) /\ server[t] = "running" /\ ~turns[t].completed /\ turns[t].calls > 0
  <2> TAKE t \in Turns
  <2>1. CASE session = "over" BY <2>1, <1>0
  <2>2. CASE session # "over" /\ ok /\ \E c \in who \ stale : c[1] = t
    <3>1. PICK c \in who \ stale : c[1] = t BY <2>2
    <3>2. Current(t) /\ server[t] = "running" /\ ~turns[t].completed /\ turns[t].calls > 0 BY <3>1, <1>w, <1>s
    <3>3. turns'[t] = [turns[t] EXCEPT !.text = TRUE] BY <2>2, <1>0
    <3> QED BY <3>2, <3>3, <2>2
  <2>3. CASE session # "over" /\ ~(ok /\ \E c \in who \ stale : c[1] = t) BY <2>3, <1>0
  <2> QED BY <2>1, <2>2, <2>3
<1>d. \A t \in Turns : t \in discarded' =>
        t \in discarded \/ (~Current(t) /\ server[t] = "running" /\ ~turns[t].completed /\ session # "over")
  <2> SUFFICES ASSUME NEW t \in Turns, t \in discarded', t \notin discarded
               PROVE  ~Current(t) /\ server[t] = "running" /\ ~turns[t].completed /\ session # "over" OBVIOUS
  <2>1. session # "over" BY <1>0
  <2>2. PICK c \in stale : t = c[1] BY <1>0, <2>1
  <2> QED BY <2>1, <2>2, <1>w, <1>s
<1>k. control' = control \/ (control \in who /\ control' = NoCall) BY <1>0
<1>m. discarded \subseteq discarded' BY <1>0
<1>1. CopilotTypes'
  <2>1. turns' \in [Turns -> TurnRow]
    <3>1. DOMAIN turns' = Turns /\ turns' = [t \in Turns |-> turns'[t]] BY <1>0 DEF CopilotTypes
    <3>2. \A t \in Turns : turns[t] \in TurnRow BY DEF CopilotTypes
    <3>3. ASSUME NEW t \in Turns PROVE turns'[t] \in TurnRow
      <4>0. turns[t] \in TurnRow BY <3>2
      <4>1. [turns[t] EXCEPT !.text = TRUE] \in TurnRow BY <4>0, Zenon DEF TurnRow
      <4> QED BY <4>0, <4>1, <1>t
    <3> QED BY <3>1, <3>3
  <2>2. discarded' \in SUBSET Turns
    <3>1. CASE session = "over" BY <3>1, <1>0 DEF CopilotTypes
    <3>2. CASE session # "over"
      <4>1. discarded' = discarded \cup {c[1] : c \in stale} BY <3>2, <1>0
      <4>2. \A c \in stale : c[1] \in Turns BY <1>w, <1>s
      <4> QED BY <4>1, <4>2 DEF CopilotTypes
    <3> QED BY <3>1, <3>2
  <2>3. control' \in Calls \cup {NoCall} BY <1>0 DEF CopilotTypes
  <2>4. waits' \in SUBSET (Calls \X Calls) BY <1>0 DEF CopilotTypes
  <2> QED BY <2>1, <2>2, <2>3, <2>4 DEF CopilotTypes
<1>g. \A t \in Turns : /\ turns'[t].known = turns[t].known /\ turns'[t].gen = turns[t].gen /\ turns'[t].cut = turns[t].cut
                       /\ turns'[t].input = turns[t].input /\ turns'[t].calls = turns[t].calls
                       /\ turns'[t].completed = turns[t].completed /\ turns'[t].mute = turns[t].mute
                       /\ turns[t].text => turns'[t].text
                       /\ turns'[t].text /\ ~turns[t].text => Current(t) /\ turns[t].calls > 0
  <2> TAKE t \in Turns
  <2>1. turns[t] \in TurnRow BY DEF CopilotTypes
  <2>2. CASE turns'[t] = turns[t] BY <2>2
  <2>3. CASE turns'[t] = [turns[t] EXCEPT !.text = TRUE] /\ Current(t) /\ turns[t].calls > 0
    BY <2>1, <2>3 DEF TurnRow
  <2> QED BY <2>2, <2>3, <1>t
<1>2. CountInv' BY DEF CountInv
<1>3. TurnsInv'
  <2> SUFFICES ASSUME NEW t \in Turns
               PROVE  /\ ~turns'[t].known => turns'[t] = Unknown
                      /\ turns'[t].text => turns[t].calls > 0
                      /\ t \in discarded' => turns[t].known
    BY <1>g DEF TurnsInv
  <2>1. ~turns'[t].known => turns'[t] = Unknown
    <3> SUFFICES ASSUME ~turns[t].known PROVE turns'[t] = turns[t] /\ turns[t] = Unknown BY <1>g
    <3>1. turns[t] = Unknown BY DEF TurnsInv
    <3>2. ~(turns[t].calls > 0) BY <3>1 DEF Unknown
    <3> QED BY <3>1, <3>2, <1>t
  <2>2. turns'[t].text => turns[t].calls > 0 BY <1>g DEF TurnsInv
  <2>3. t \in discarded' => turns[t].known BY <1>d DEF TurnsInv
  <2> QED BY <2>1, <2>2, <2>3
<1>4. PlaceInv' BY <1>g DEF PlaceInv
<1>5. ToolInv'
  <2>1. \A c \in Calls : /\ exec'[c] \in {"approval", "run", "ok"} => cache'[c[2]] = c
                         /\ exec'[c] # "none" => c \in made
                         /\ exec'[c] \in {"approval", "run"} => <<c, c>> \in waits'
                         /\ exec'[c] # "none" /\ c[2] = "end" => ended /\ exec'[c] = "ok"
    <3> TAKE c \in Calls
    <3>0. c[2] \in {"write", "end"} BY CallParts
    <3>1. CASE c = e BY <3>1, <3>0 DEF ToolInv
    <3>2. CASE c # e
      <4>1. exec'[c] = exec[c] BY <3>2
      <4>2. cache[c[2]] = c => cache'[c[2]] = c BY <3>0, <3>2
      <4>3. <<c, c>> \in waits => <<c, c>> \in waits' BY <3>2, <1>v
      <4> QED BY <4>1, <4>2, <4>3 DEF ToolInv
    <3> QED BY <3>1, <3>2
  <2>2. \A c, b \in Calls : <<c, b>> \in waits' =>
       /\ c \in made /\ (exec'[c] # "none" => b = c)
       /\ server[c[1]] = "running" /\ ~turns'[c[1]].completed /\ turns'[c[1]].calls > 0
    BY <1>v, <1>g, CallParts DEF ToolInv
  <2> QED BY <2>1, <2>2 DEF ToolInv
<1>6. SoloInv'
  <2>1. \A c \in Calls : exec'[c] = "approval" => exec[c] = "approval" /\ c # e /\ turns'[c[1]].cut = turns[c[1]].cut
    BY <1>g, CallParts
  <2>2. \A c \in Calls : exec'[c] = "approval" /\ control = c => control' = c
    <3> SUFFICES ASSUME NEW c \in Calls, exec'[c] = "approval", control = c, control \in who PROVE FALSE BY <1>k
    <3>1. <<c, e>> \in waits BY <1>w
    <3> QED BY <3>1, <2>1 DEF ToolInv
  <2>3. \A t \in Turns : On(t)' <=> On(t) BY <1>g DEF On
  <2>4. drain.pc # "idle" => turns'[drain.turn].cut = turns[drain.turn].cut BY <1>g DEF PlaceInv
  <2> QED BY <2>1, <2>2, <2>3, <2>4, <1>g DEF SoloInv
<1>7. ReaskInv' BY <1>g DEF ReaskInv, AskedAfter
<1>8. AuditInv'
  <2>1. \A t \in Turns : Current(t)' <=> Current(t) BY <1>g DEF Current
  <2>2. \A t \in Turns : t \in discarded' /\ t \notin discarded => ~Current(t) /\ t \notin voice.told
    BY <1>d DEF TurnsInv
  <2>3. \A t \in Turns : Current(t) => ~turns[t].cut BY DEF Current
  <2> QED BY <2>1, <2>2, <2>3, <1>g, <1>m DEF AuditInv
<1>9. (session = "over" => hang # "waiting")' OBVIOUS
<1> QED BY <1>1, <1>2, <1>3, <1>4, <1>5, <1>6, <1>7, <1>8, <1>9 DEF CopilotInv

\* A finished execution in the cache is heard.
LEMMA CachedStep ==
  ASSUME CopilotInv, NEW e \in Calls, CachedAnswer(e)
  PROVE  CopilotInv'
<1>1. exec[e] = "ok" /\ Answered(e, TRUE) BY DEF CachedAnswer
<1>2. exec' = exec /\ cache' = cache
      /\ UNCHANGED <<session, said, pending, context, gen, drain, asked, server, active, aborted, made, voice, endVars,
                     crossed, adrift>>
  BY DEF CachedAnswer, endVars
<1>3. /\ exec' \in [Calls -> {"none", "approval", "run", "ok", "failed", "late"}]
      /\ cache' \in [{"write", "end"} -> Calls \cup {NoCall}]
  BY <1>2 DEF CopilotInv, CopilotTypes
<1> QED BY <1>1, <1>2, <1>3, AnsweredStep

\* An execution ends, and is heard.
LEMMA OverStep ==
  ASSUME CopilotInv, NEW e \in Calls, NEW outcome \in {"ok", "failed", "late"}, Over(e, outcome),
         exec[e] \in {"approval", "run"}
  PROVE  CopilotInv'
<1>1. Answered(e, outcome = "ok") BY DEF Over
<1>2. UNCHANGED <<session, said, pending, context, gen, drain, asked, server, active, aborted, made, voice, endVars,
                  crossed, adrift>>
  BY DEF Over
<1>3. /\ exec \in [Calls -> {"none", "approval", "run", "ok", "failed", "late"}]
      /\ cache \in [{"write", "end"} -> Calls \cup {NoCall}] /\ e[2] \in {"write", "end"}
  BY CallParts DEF CopilotInv, CopilotTypes
<1>4. exec' = [exec EXCEPT ![e] = outcome] BY DEF Over
<1>5. \/ cache' = cache
      \/ outcome # "ok" /\ cache[e[2]] = e /\ cache' = [cache EXCEPT ![e[2]] = NoCall]
  BY DEF Over
<1>6. /\ exec' \in [Calls -> {"none", "approval", "run", "ok", "failed", "late"}] /\ exec'[e] = outcome
      /\ \A c \in Calls : c # e => exec'[c] = exec[c]
  BY <1>3, <1>4
<1>7. /\ cache' \in [{"write", "end"} -> Calls \cup {NoCall}] /\ (outcome = "ok" => cache' = cache)
      /\ \A k \in {"write", "end"} : cache'[k] = cache[k] \/ (k = e[2] /\ cache[k] = e)
  BY <1>3, <1>5
<1>8. e[2] # "end" BY DEF CopilotInv, ToolInv
<1>9. (outcome = "ok") \in BOOLEAN OBVIOUS
<1> QED BY <1>1, <1>2, <1>6, <1>7, <1>8, <1>9, AnsweredStep

\* A call of a tool that is answered with a refusal.
LEMMA RefusedCallStep ==
  ASSUME CopilotInv, NEW c \in Calls, ToolCall(c), Refuses(c[1])
  PROVE  CopilotInv'
<1> USE DEF CopilotInv
<1>0. /\ made' = made \cup {c}
      /\ UNCHANGED <<session, said, pending, context, gen, drain, turns, asked, server, active, control, aborted, waits,
                     exec, cache, voice, discarded, endVars, crossed, adrift>>
  BY DEF ToolCall
<1> USE <1>0 DEF endVars
<1>1. CopilotTypes' BY DEF CopilotTypes
<1>2. CountInv' BY DEF CountInv
<1>3. TurnsInv' BY DEF TurnsInv
<1>4. PlaceInv' BY DEF PlaceInv
<1>5. ToolInv' BY DEF ToolInv
<1>6. SoloInv' BY DEF SoloInv, On
<1>7. ReaskInv' BY DEF ReaskInv, AskedAfter
<1>8. AuditInv' BY DEF AuditInv, Current
<1>9. (session = "over" => hang # "waiting")' OBVIOUS
<1> QED BY <1>1, <1>2, <1>3, <1>4, <1>5, <1>6, <1>7, <1>8, <1>9 DEF CopilotInv

\* A call of a tool that is taken: it ends the call, or awaits an execution.
LEMMA TakenCallStep ==
  ASSUME CopilotInv, NEW c \in Calls, ToolCall(c), ~Refuses(c[1])
  PROVE  CopilotInv'
<1> USE DEF CopilotInv
<1> DEFINE t == c[1]
           k == c[2]
<1>p. t \in Turns /\ k \in {"write", "end"} /\ c = <<t, k>> BY CallParts
<1>q. /\ session = "ready" /\ ~ended /\ server[t] = "running" /\ c \notin made /\ made' = made \cup {c}
      /\ ~turns[t].completed /\ active' = t
      /\ turns[t].known /\ Current(t) /\ turns[t].calls < MaxCalls
      /\ UNCHANGED <<session, said, context, gen, drain, asked, server, aborted, voice, discarded, crossed, adrift>>
  <2>1. turns[t].known BY <1>p DEF ToolCall, TurnsInv, Refuses
  <2>2. turns[t].calls \in Nat /\ MaxCalls \in Nat
    BY <1>p, LimitsAssumption DEF CopilotTypes, TurnRow
  <2>3. turns[t].calls < MaxCalls BY <2>1, <2>2 DEF Refuses
  <2> QED BY <2>1, <2>3 DEF ToolCall, Refuses
<1>n. \A a, b \in Calls : <<a, b>> \in waits => a[1] # t BY DEF ToolCall
<1>r. turns' = [turns EXCEPT ![t].calls = turns[t].calls + 1]
  BY <1>q, <1>p DEF ToolCall, Known, CopilotTypes
<1>s. \/ /\ k = "end" /\ ended' = TRUE /\ pending' = {} /\ exec' = [exec EXCEPT ![c] = "ok"]
         /\ cache' = [cache EXCEPT ![k] = c] /\ hang' = "waiting" /\ control' = NoCall /\ waits' = waits
      \/ /\ k = "write" /\ pending' = pending /\ ended' = ended /\ hang' = hang /\ cache[k] = NoCall
         /\ exec' = [exec EXCEPT ![c] = "approval"] /\ cache' = [cache EXCEPT ![k] = c]
         /\ waits' = waits \cup {<<c, c>>} /\ control' = c
      \/ /\ k = "write" /\ pending' = pending /\ ended' = ended /\ hang' = hang /\ cache[k] # NoCall
         /\ exec' = exec /\ cache' = cache
         /\ waits' = waits \cup {<<c, cache[k]>>} /\ control' = c
  BY <1>p DEF ToolCall, endVars
<1>e. /\ exec \in [Calls -> {"none", "approval", "run", "ok", "failed", "late"}]
      /\ cache \in [{"write", "end"} -> Calls \cup {NoCall}] /\ waits \in SUBSET (Calls \X Calls)
      /\ control \in Calls \cup {NoCall}
  BY DEF CopilotTypes
<1>x. exec[c] = "none" BY <1>q, <1>e DEF ToolInv
<1>g. /\ turns' \in [Turns -> TurnRow] /\ turns'[t].calls > 0 /\ turns'[t].known
      /\ \A u \in Turns : u # t => turns'[u] = turns[u]
      /\ \A u \in Turns :
           /\ turns'[u].known = turns[u].known /\ turns'[u].gen = turns[u].gen /\ turns'[u].cut = turns[u].cut
           /\ turns'[u].input = turns[u].input /\ turns'[u].text = turns[u].text
           /\ turns'[u].completed = turns[u].completed /\ turns'[u].mute = turns[u].mute
           /\ (turns[u].calls > 0 => turns'[u].calls > 0)
  <2>1. turns \in [Turns -> TurnRow] /\ turns[t] \in TurnRow BY <1>p DEF CopilotTypes
  <2>2. turns[t].calls + 1 \in 0..MaxCalls /\ turns[t].calls + 1 > 0
    BY <2>1, <1>q, LimitsAssumption DEF TurnRow
  <2>3. turns' = [turns EXCEPT ![t] = [turns[t] EXCEPT !.calls = turns[t].calls + 1]] BY <1>r
  <2>4. [turns[t] EXCEPT !.calls = turns[t].calls + 1] \in TurnRow BY <2>1, <2>2 DEF TurnRow
  <2>5. turns' \in [Turns -> TurnRow] /\ turns'[t] = [turns[t] EXCEPT !.calls = turns[t].calls + 1]
        /\ \A u \in Turns : u # t => turns'[u] = turns[u]
    BY <2>1, <2>3, <2>4, <1>p
  <2>6. /\ turns'[t].known = turns[t].known /\ turns'[t].gen = turns[t].gen /\ turns'[t].cut = turns[t].cut
        /\ turns'[t].input = turns[t].input /\ turns'[t].text = turns[t].text
        /\ turns'[t].completed = turns[t].completed /\ turns'[t].mute = turns[t].mute
        /\ turns'[t].calls = turns[t].calls + 1
    BY <2>5, <2>1 DEF TurnRow
  <2> QED BY <2>2, <2>5, <2>6, <1>q
<1> HIDE DEF t, k
<1>1. CopilotTypes'
  <2>1. exec' \in [Calls -> {"none", "approval", "run", "ok", "failed", "late"}] BY <1>s, <1>e
  <2>2. cache' \in [{"write", "end"} -> Calls \cup {NoCall}] BY <1>s, <1>e
  <2>3. waits' \in SUBSET (Calls \X Calls)
    <3>1. cache[k] # NoCall => cache[k] \in Calls BY <1>e, <1>p
    <3> QED BY <1>s, <1>e, <3>1
  <2>4. control' \in Calls \cup {NoCall} /\ pending' \in SUBSET Words /\ ended' \in BOOLEAN
        /\ hang' \in {"no", "waiting", "asked"}
    BY <1>s DEF CopilotTypes
  <2>5. active' \in 0..MaxWords BY <1>q, <1>p, LimitsAssumption DEF Turns
  <2> QED BY <1>q, <1>g, <2>1, <2>2, <2>3, <2>4, <2>5 DEF CopilotTypes
<1>2. CountInv'
  <2>1. pending' # {} => pending # {} BY <1>s
  <2> QED BY <1>q, <2>1 DEF CountInv
<1>3. TurnsInv'
  <2> SUFFICES ASSUME NEW u \in Turns
               PROVE  /\ ~turns'[u].known => turns'[u] = Unknown
                      /\ turns'[u].cut \/ turns'[u].text => turns'[u].calls > 0
                      /\ turns'[u].calls > 0 \/ turns'[u].completed => server[u] = "running"
    BY <1>q, <1>g DEF TurnsInv
  <2>1. CASE u = t BY <2>1, <1>q, <1>g
  <2>2. CASE u # t BY <2>2, <1>g DEF TurnsInv
  <2> QED BY <2>1, <2>2
<1>4. PlaceInv'
  <2>1. ~turns[t].cut BY <1>q DEF Current
  <2>2. drain'.gen = gen' /\ drain'.pc # "idle" => ~turns'[drain'.turn].cut BY <1>q, <1>g DEF PlaceInv
  <2> QED BY <1>p, <1>q, <1>g, <2>1, <2>2 DEF PlaceInv
<1>5. ToolInv'
  <2>1. \A a \in Calls : /\ exec'[a] \in {"approval", "run", "ok"} => cache'[a[2]] = a
                         /\ exec'[a] # "none" => a \in made'
                         /\ exec'[a] \in {"approval", "run"} => <<a, a>> \in waits'
                         /\ exec'[a] # "none" /\ a[2] = "end" => ended' /\ exec'[a] = "ok"
    <3> TAKE a \in Calls
    <3>0. a[2] \in {"write", "end"} BY CallParts
    <3>1. CASE a = c BY <3>1, <1>s, <1>x, <1>p, <1>q, <1>e
    <3>2. CASE a # c
      <4>1. exec'[a] = exec[a] BY <3>2, <1>s, <1>e
      <4>2. exec[a] \in {"approval", "run", "ok"} => cache'[a[2]] = a
        <5>1. CASE a[2] = k
          <6> SUFFICES ASSUME exec[a] \in {"approval", "run", "ok"} PROVE cache'[k] = a BY <5>1
          <6>1. cache[a[2]] = a /\ (exec[a] # "none" /\ a[2] = "end" => ended) BY DEF ToolInv
          <6>2. exec[a] # "none" OBVIOUS
          <6>3. k = "write" /\ cache[k] = a /\ cache[k] # NoCall BY <5>1, <6>1, <6>2, <1>q, <1>p, CallIsNone
          <6> QED BY <6>3, <1>s
        <5>2. CASE a[2] # k
          <6>1. cache'[a[2]] = cache[a[2]] BY <5>2, <3>0, <1>s, <1>e
          <6> QED BY <6>1 DEF ToolInv
        <5> QED BY <5>1, <5>2
      <4>3. <<a, a>> \in waits => <<a, a>> \in waits' BY <1>s
      <4>4. exec[a] # "none" /\ a[2] = "end" => FALSE BY <1>q DEF ToolInv
      <4> QED BY <4>1, <4>2, <4>3, <4>4, <1>q DEF ToolInv
    <3> QED BY <3>1, <3>2
  <2>2. ASSUME NEW a \in Calls, NEW b \in Calls, <<a, b>> \in waits'
        PROVE  /\ a \in made' /\ (exec'[a] # "none" => b = a)
               /\ server[a[1]] = "running" /\ ~turns'[a[1]].completed /\ turns'[a[1]].calls > 0
    <3>1. CASE <<a, b>> \in waits
      <4>1. a # c BY <3>1, <1>n DEF t
      <4>2. exec'[a] = exec[a] BY <4>1, <1>s, <1>e
      <4> QED BY <3>1, <4>2, <1>q, <1>g, CallParts DEF ToolInv
    <3>2. CASE <<a, b>> \notin waits
      <4>1. a = c /\ (exec'[c] # "none" => b = c) BY <3>2, <2>2, <1>s, <1>e, <1>x
      <4> QED BY <4>1, <1>q, <1>g, <1>p DEF t
    <3> QED BY <3>1, <3>2
  <2> QED BY <2>1, <2>2, <1>q DEF ToolInv
<1>6. SoloInv'
  <2> SUFFICES ASSUME adrift = {} PROVE SoloInv' BY <1>q DEF SoloInv
  <2>0. On(t) BY <1>q DEF On, Current
  <2>1. drain.pc # "idle" /\ drain.turn = t BY <2>0, <1>p, <1>q DEF SoloInv
  <2>2. \A u \in Turns : On(u)' <=> On(u) BY <1>q, <1>g DEF On
  <2>3. ASSUME NEW a \in Calls, exec'[a] = "approval"
        PROVE  (a = c /\ control' = c /\ ~turns'[a[1]].cut) \/ (exec[a] = "approval" /\ a[1] # t)
    <3>1. CASE a = c
      <4>1. control' = c BY <2>3, <3>1, <1>s, <1>x, <1>e
      <4>2. ~turns'[t].cut BY <1>q, <1>g, <1>p DEF Current
      <4> QED BY <3>1, <4>1, <4>2 DEF t
    <3>2. CASE a # c
      <4>1. exec[a] = "approval" BY <3>2, <2>3, <1>s, <1>e
      <4>2. <<a, a>> \in waits BY <4>1 DEF ToolInv
      <4> QED BY <4>1, <4>2, <1>n
    <3> QED BY <3>1, <3>2
  <2>4. ASSUME NEW a \in Calls, exec'[a] = "approval", ~turns'[a[1]].cut
        PROVE  control' = a
    <3> SUFFICES ASSUME exec[a] = "approval", a[1] # t PROVE FALSE BY <2>3, <2>4
    <3>1. a[1] \in Turns BY CallParts
    <3>2. On(a[1]) BY <3>1, <2>4, <1>g DEF ToolInv, On
    <3> QED BY <3>1, <3>2, <2>1, <1>q DEF SoloInv
  <2>5. \A a \in Calls : exec'[a] = "approval" /\ turns'[a[1]].cut => a \in aborted
    <3> TAKE a \in Calls
    <3>1. a[1] \in Turns BY CallParts
    <3> QED BY <3>1, <2>3, <1>g DEF SoloInv
  <2>6. drain.turn \in Turns BY <2>1, <1>p
  <2> QED BY <2>1, <2>2, <2>4, <2>5, <2>6, <1>q, <1>g DEF SoloInv
<1>7. ReaskInv'
  <2>1. CASE ended' BY <2>1 DEF ReaskInv
  <2>2. CASE ~ended'
    <3>1. pending' = pending BY <2>2, <1>s
    <3> QED BY <3>1, <1>q, <1>g DEF ReaskInv, AskedAfter
  <2> QED BY <2>1, <2>2
<1>8. AuditInv' BY <1>q, <1>g DEF AuditInv, Current
<1>9. (session = "over" => hang # "waiting")' BY <1>q
<1> QED BY <1>1, <1>2, <1>3, <1>4, <1>5, <1>6, <1>7, <1>8, <1>9 DEF CopilotInv

\* A step of the loop asks at most one turn more, and what was pending is
\* pending, or asked of a turn after those there are.
Moves(p, g, n) == Stays(p) \/ Rests(p) \/ Asks(p, g, n)
LEMMA MovesAre ==
  ASSUME CopilotTypes, TurnsInv, NEW n, Used(n), NEW p, NEW g, Moves(p, g, n)
  PROVE  /\ \A t \in Turns : server'[t] = server[t] \/ (server[t] = "none" /\ server'[t] = "asked")
         /\ \A t \in Turns : server'[t] = "none" => asked'[t] = {}
         /\ \E m \in {n, n + 1} : Used(m)' /\ (m # n => p # {} /\ pending' = {}) /\ (pending' # {} => p # {})
         /\ \A t \in Turns : t <= n => p \cup AskedAfter(t) \subseteq pending' \cup AskedAfter(t)'
<1>1. CASE Stays(p)
  <2>1. Used(n)' BY <1>1 DEF Stays, Used
  <2>2. \A t \in Turns : server[t] = "none" => asked[t] = {} BY DEF TurnsInv
  <2>3. \A t \in Turns : AskedAfter(t)' = AskedAfter(t) BY <1>1 DEF Stays, AskedAfter
  <2> QED BY <1>1, <2>1, <2>2, <2>3 DEF Stays
<1>2. CASE Rests(p)
  <2>1. Used(n)' BY <1>2 DEF Rests, Used
  <2>2. \A t \in Turns : server[t] = "none" => asked[t] = {} BY DEF TurnsInv
  <2>3. \A t \in Turns : AskedAfter(t)' = AskedAfter(t) BY <1>2 DEF Rests, AskedAfter
  <2> QED BY <1>2, <2>1, <2>2, <2>3 DEF Rests
<1>3. CASE Asks(p, g, n)
  <2> USE <1>3 DEF Asks
  <2>0. /\ server \in [Turns -> {"none", "asked", "running", "over"}] /\ asked \in [Turns -> SUBSET Words]
        /\ n \in Nat /\ n + 1 \in Turns /\ server[n + 1] = "none" /\ asked[n + 1] = {}
    BY DEF CopilotTypes, Used, TurnsInv
  <2>1. /\ server'[n + 1] = "asked" /\ \A t \in Turns : t # n + 1 => server'[t] = server[t]
        /\ asked'[n + 1] = p /\ \A t \in Turns : t # n + 1 => asked'[t] = asked[t]
    BY <2>0
  <2>2. Used(n + 1)'
    <3>1. n + 1 \in 0..MaxWords BY <2>0, LimitsAssumption DEF Turns
    <3>2. \A t \in Turns : (server'[t] # "none") <=> (t <= n + 1)
      <4> TAKE t \in Turns
      <4>1. t \in Nat BY LimitsAssumption DEF Turns
      <4>2. CASE t = n + 1 BY <4>2, <4>1, <2>1
      <4>3. CASE t # n + 1
        <5>1. (server[t] # "none") <=> (t <= n) BY DEF Used
        <5>2. (t <= n) <=> (t <= n + 1) BY <4>1, <4>3, <2>0
        <5> QED BY <5>1, <5>2, <4>3, <2>1
      <4> QED BY <4>2, <4>3
    <3> QED BY <3>1, <3>2 DEF Used
  <2>3. ASSUME NEW t \in Turns, t <= n PROVE p \cup AskedAfter(t) \subseteq pending' \cup AskedAfter(t)'
    <3>1. \A u \in Turns : asked[u] \subseteq asked'[u] BY <2>0, <2>1
    <3>2. n + 1 \in {u \in Turns : u > t} BY <2>0, <2>3, LimitsAssumption DEF Turns
    <3>3. p \subseteq AskedAfter(t)' BY <3>2, <2>1 DEF AskedAfter
    <3>4. AskedAfter(t) \subseteq AskedAfter(t)' BY <3>1 DEF AskedAfter
    <3> QED BY <3>3, <3>4
  <2>4. \A t \in Turns : server'[t] = "none" => asked'[t] = {}
    BY <2>1 DEF TurnsInv
  <2> QED BY <2>0, <2>1, <2>2, <2>3, <2>4
<1> QED BY <1>1, <1>2, <1>3 DEF Moves

\* The turns there are, and that one more can be asked for what is pending.
LEMMA CountIs ==
  ASSUME CopilotInv
  PROVE  \E n \in 0..MaxWords : n <= said /\ Used(n) /\ (pending # {} => n < said)
<1>1. PICK n \in 0..said : (\A t \in Turns : server[t] # "none" <=> t <= n) /\ (pending # {} => n < said)
  BY DEF CopilotInv, CountInv
<1>2. n \in 0..MaxWords /\ n <= said BY LimitsAssumption DEF CopilotInv, CopilotTypes
<1> QED BY <1>1, <1>2 DEF Used

\* A turn is started: the session learns of it, unless it is over.
LEMMA TurnStartedStep ==
  ASSUME CopilotInv, NEW t \in Turns, TurnStarted(t)
  PROVE  CopilotInv'
<1> USE DEF CopilotInv
<1>0. /\ server[t] = "asked" /\ server' = [server EXCEPT ![t] = "running"]
      /\ UNCHANGED <<session, said, pending, context, gen, drain, asked, toolVars, voice, discarded, endVars, crossed, adrift>>
      /\ \/ session = "over" /\ turns' = turns /\ active' = active
         \/ session # "over" /\ active' = t /\ turns' = Known(t, gen, context)
  <2>1. ~turns[t].cut /\ server[t] = "asked" BY DEF TurnsInv, TurnStarted
  <2> QED BY <2>1 DEF TurnStarted
<1> USE DEF toolVars, endVars
<1>s. /\ server' \in [Turns -> {"none", "asked", "running", "over"}] /\ server'[t] = "running"
      /\ \A u \in Turns : u # t => server'[u] = server[u]
  BY <1>0 DEF CopilotTypes
<1>c. ~turns[t].cut /\ ~turns[t].completed /\ turns[t].calls = 0
  <2>1. turns[t] \in TurnRow BY DEF CopilotTypes
  <2>2. turns[t].calls \in Nat BY <2>1, LimitsAssumption DEF TurnRow
  <2> QED BY <2>2, <1>0 DEF TurnsInv
<1>g. /\ turns' \in [Turns -> TurnRow] /\ \A u \in Turns : u # t => turns'[u] = turns[u]
      /\ ~turns'[t].cut /\ ~turns'[t].completed /\ turns'[t].text = turns[t].text /\ turns'[t].mute = turns[t].mute
      /\ turns'[t].calls = turns[t].calls /\ turns'[t].gen <= gen
      /\ turns[t].known => turns'[t] = turns[t]
      /\ ~turns[t].known => session = "over" \/ turns'[t].gen = gen
      /\ session # "over" => turns'[t].known
  <2>1. turns[t] \in TurnRow /\ turns[t].gen <= gen /\ gen \in 0..MaxWords /\ context \in SUBSET Words
    BY DEF CopilotTypes, TurnsInv
  <2>2. CASE session = "over" BY <2>2, <1>0, <1>c, <2>1 DEF CopilotTypes, TurnsInv
  <2>3. CASE session # "over" /\ turns[t].known
    <3>1. turns' = turns BY <2>3, <1>0 DEF Known, CopilotTypes
    <3> QED BY <3>1, <2>3, <1>c, <2>1 DEF CopilotTypes
  <2>4. CASE session # "over" /\ ~turns[t].known
    <3>0. turns[t] = Unknown BY <2>4 DEF TurnsInv
    <3>1. turns' = [turns EXCEPT ![t] = [Unknown EXCEPT !.known = TRUE, !.gen = gen, !.input = context]]
      BY <2>4, <1>0 DEF Known
    <3>2. [Unknown EXCEPT !.known = TRUE, !.gen = gen, !.input = context] \in TurnRow
      <4>1. 0 \in 0..MaxCalls /\ 0 \in 0..MaxWords BY LimitsAssumption
      <4>2. Unknown \in TurnRow BY <4>1 DEF Unknown, TurnRow
      <4>3. TRUE \in BOOLEAN OBVIOUS
      <4> QED BY <4>2, <4>3, <2>1 DEF TurnRow
    <3>3. /\ turns' \in [Turns -> TurnRow] /\ \A u \in Turns : u # t => turns'[u] = turns[u]
          /\ turns'[t] = [Unknown EXCEPT !.known = TRUE, !.gen = gen, !.input = context]
      BY <3>1, <3>2 DEF CopilotTypes
    <3>4. gen <= gen BY <2>1
    <3> QED BY <3>0, <3>3, <3>4, <2>4 DEF Unknown
  <2> QED BY <2>2, <2>3, <2>4
<1>f. \A u \in Turns : turns'[u].cut = turns[u].cut /\ turns'[u].completed = turns[u].completed
  BY <1>g, <1>c DEF CopilotTypes, TurnRow
<1>1. CopilotTypes'
  <2>0. t \in 0..MaxWords BY LimitsAssumption DEF Turns
  <2>1. active' \in 0..MaxWords BY <1>0, <2>0 DEF CopilotTypes
  <2> QED BY <1>0, <1>s, <1>g, <2>1 DEF CopilotTypes
<1>2. CountInv' BY <1>0, <1>s DEF CountInv
<1>3. TurnsInv'
  <2>1. \A u \in Turns : ~turns'[u].known => turns'[u] = Unknown BY <1>g, <1>0 DEF TurnsInv
  <2>2. \A u \in Turns : /\ turns'[u].known => server'[u] \in {"asked", "running"}
                         /\ server'[u] = "running" /\ session' # "over" => turns'[u].known
                         /\ server'[u] = "none" => asked'[u] = {}
                         /\ turns'[u].gen <= gen'
    BY <1>g, <1>s, <1>0 DEF TurnsInv
  <2>3. \A u \in Turns : /\ turns'[u].cut \/ turns'[u].text => turns'[u].calls > 0
                         /\ turns'[u].calls > 0 \/ turns'[u].completed => server'[u] = "running"
                         /\ turns'[u].mute => turns'[u].completed
    BY <1>g, <1>s, <1>0, <1>c, <1>f DEF TurnsInv
  <2>4. \A u \in Turns : /\ u \in voice'.way => turns'[u].completed /\ u \notin voice'.told
                         /\ u \in voice'.told => turns'[u].completed
                         /\ u \in discarded' => turns'[u].known
    BY <1>g, <1>0, <1>f DEF TurnsInv
  <2> QED BY <2>1, <2>2, <2>3, <2>4 DEF TurnsInv
<1>4. PlaceInv'
  <2>1. drain'.pc # "idle" => /\ session' = "ready" /\ drain'.turn \in Turns /\ server'[drain'.turn] \in {"asked", "running"}
                              /\ drain'.gen = gen' => ~turns'[drain'.turn].cut
    BY <1>0, <1>s, <1>f DEF PlaceInv
  <2>2. active' # 0 => /\ active' \in Turns /\ server'[active'] \in {"asked", "running"} /\ ~turns'[active'].cut
                       /\ turns'[active'].completed => active' \in voice'.way
                       /\ server'[active'] = "asked" => drain'.pc = "waiting" /\ drain'.turn = active'
    BY <1>0, <1>s, <1>f, <1>c DEF PlaceInv
  <2>3. session' # "over" => \A u \in Turns : turns'[u].known /\ server'[u] = "asked" => drain'.pc = "waiting" /\ drain'.turn = u
    BY <1>0, <1>s, <1>g DEF PlaceInv
  <2> QED BY <2>1, <2>2, <2>3 DEF PlaceInv
<1>5. ToolInv'
  <2>1. \A c \in Calls : server[c[1]] = "running" => server'[c[1]] = "running" /\ turns'[c[1]] = turns[c[1]]
    BY <1>0, <1>s, <1>g, CallParts
  <2> QED BY <2>1, <1>0 DEF ToolInv
<1>6. SoloInv'
  <2> SUFFICES ASSUME adrift = {} PROVE SoloInv' BY <1>0 DEF SoloInv
  <2>1. \A u \in Turns : On(u)' <=> On(u) BY <1>0, <1>s, <1>f DEF On
  <2>2. \A c \in Calls : turns'[c[1]].cut = turns[c[1]].cut BY <1>f, CallParts
  <2>3. session # "over" => drain.pc # "idle" /\ drain.turn = t
    <3>1. On(t) BY <1>0, <1>c DEF On
    <3> QED BY <3>1 DEF SoloInv
  <2>4. session # "over" => \A u \in Turns : On(u) /\ turns'[u].known => turns'[u].gen = gen
    BY <1>g DEF SoloInv
  <2>5. drain.pc # "idle" => turns'[drain.turn].cut = turns[drain.turn].cut BY <1>f DEF PlaceInv
  <2> QED BY <2>1, <2>2, <2>3, <2>4, <2>5, <1>0 DEF SoloInv
<1>7. ReaskInv'
  <2>1. \A u \in Turns : turns'[u].cut => turns'[u] = turns[u] BY <1>g
  <2> QED BY <2>1, <1>f, <1>0 DEF ReaskInv, AskedAfter
<1>8. AuditInv'
  <2>1. \A u \in Turns : turns[u].known => turns'[u] = turns[u] BY <1>g
  <2>2. \A u \in Turns : turns'[u].text => turns[u].known
    BY <1>g, <1>0 DEF TurnsInv, Unknown
  <2>3. \A u \in Turns : u \in discarded => turns[u].known BY DEF TurnsInv
  <2>4. \A u \in Turns : u \in voice.way => turns[u].known BY DEF TurnsInv, Unknown
  <2> QED BY <2>1, <2>2, <2>3, <2>4, <1>0, <1>f DEF AuditInv, Current
<1>9. (session = "over" => hang # "waiting")' BY <1>0
<1> QED BY <1>1, <1>2, <1>3, <1>4, <1>5, <1>6, <1>7, <1>8, <1>9 DEF CopilotInv

\* The loop goes on from where nothing it could disturb is on.
LEMMA LoopPlaces ==
  ASSUME CopilotTypes, CopilotTypes', TurnsInv, NEW n, Used(n), NEW p, Rests(p) \/ Asks(p, gen', n), session' = "ready",
         active' # 0 => /\ active' \in Turns /\ server[active'] = "running" /\ ~turns'[active'].cut
                        /\ turns'[active'].completed => active' \in voice'.way,
         \A t \in Turns : turns'[t].known => server[t] # "asked",
         \A t \in Turns : server[t] = "none" => ~turns'[t].known /\ ~turns'[t].cut,
         adrift' = {} => /\ active' = 0
                         /\ \A t \in Turns : server[t] \in {"asked", "running"} => turns'[t].cut \/ turns'[t].completed
                         /\ \A c \in Calls : exec'[c] = "approval" => turns'[c[1]].cut /\ c \in aborted'
  PROVE  PlaceInv' /\ SoloInv'
<1>1. CASE Rests(p)
  <2>1. drain'.pc = "idle" /\ server' = server BY <1>1 DEF Rests, Idle
  <2>2. PlaceInv' BY <2>1 DEF PlaceInv
  <2>3. SoloInv' BY <2>1 DEF SoloInv, On
  <2> QED BY <2>2, <2>3
<1>2. CASE Asks(p, gen', n)
  <2>1. /\ n + 1 \in Turns /\ server[n + 1] = "none" /\ drain'.pc = "asking" /\ drain'.turn = n + 1 /\ drain'.gen = gen'
        /\ server'[n + 1] = "asked" /\ \A t \in Turns : t # n + 1 => server'[t] = server[t]
    BY <1>2 DEF Asks, CopilotTypes
  <2>2. ~turns'[n + 1].known /\ ~turns'[n + 1].cut BY <2>1
  <2>3. PlaceInv' BY <2>1, <2>2 DEF PlaceInv
  <2>4. SoloInv'
    <3> SUFFICES ASSUME adrift' = {} PROVE SoloInv' BY DEF SoloInv
    <3>1. \A t \in Turns : On(t)' => t = n + 1 BY <2>1 DEF On
    <3> QED BY <3>1, <2>1, <2>2 DEF SoloInv
  <2> QED BY <2>3, <2>4
<1> QED BY <1>1, <1>2

\* The loop goes on, and the turns and tools stay as they are.
LEMMA LoopQuiet ==
  ASSUME CopilotInv, CopilotTypes', NEW n, Used(n), NEW p, Rests(p) \/ Asks(p, gen, n), session # "over", session' = "ready",
         UNCHANGED <<gen, turns, toolVars, voice>>,
         active' # 0 => active' = active /\ server[active] = "running",
         \A t \in Turns : turns[t].known => server[t] # "asked",
         adrift' = {} => adrift = {} /\ active' = 0 /\ \A t \in Turns : ~On(t)
  PROVE  PlaceInv' /\ SoloInv'
<1> USE DEF CopilotInv, toolVars
<1>1. active' # 0 => /\ active' \in Turns /\ server[active'] = "running" /\ ~turns'[active'].cut
                     /\ turns'[active'].completed => active' \in voice'.way
  BY DEF PlaceInv
<1>2. \A t \in Turns : turns'[t].known => server[t] # "asked" OBVIOUS
<1>3. \A t \in Turns : server[t] = "none" => ~turns'[t].known /\ ~turns'[t].cut BY DEF TurnsInv
<1>4. ASSUME adrift' = {}
      PROVE  /\ active' = 0
             /\ \A t \in Turns : server[t] \in {"asked", "running"} => turns'[t].cut \/ turns'[t].completed
             /\ \A c \in Calls : exec'[c] = "approval" => turns'[c[1]].cut /\ c \in aborted'
  <2>1. \A t \in Turns : server[t] \in {"asked", "running"} => turns'[t].cut \/ turns'[t].completed
    BY <1>4 DEF On
  <2>2. ASSUME NEW c \in Calls, exec'[c] = "approval" PROVE turns'[c[1]].cut /\ c \in aborted'
    <3>0. exec[c] = "approval" /\ turns' = turns /\ aborted' = aborted BY <2>2
    <3>1. <<c, c>> \in waits BY <3>0 DEF ToolInv
    <3>2. c[1] \in Turns /\ server[c[1]] = "running" /\ ~turns[c[1]].completed BY <3>1, CallParts DEF ToolInv
    <3>3. turns[c[1]].cut BY <3>0, <3>2, <2>1
    <3> QED BY <3>0, <3>3, <1>4 DEF SoloInv
  <2> QED BY <1>4, <2>1, <2>2
<1>5. CopilotTypes /\ TurnsInv /\ (Rests(p) \/ Asks(p, gen', n)) OBVIOUS
<1> HIDE DEF CopilotInv
<1> QED BY <1>1, <1>2, <1>3, <1>4, <1>5, LoopPlaces

\* What only moves the loop leaves the turns, the tools, what is asked again
\* and the audit as they are.
LEMMA LoopRest ==
  ASSUME CopilotInv, NEW n \in 0..MaxWords, n <= said, Used(n), NEW p, NEW g, Moves(p, g, n), p # {} => n < said', said <= said',
         pending \subseteq p, said' \in Nat,
         UNCHANGED <<gen, turns, toolVars, voice, discarded, endVars, crossed>>, session' # "over", session # "over", drain'.gen <= gen'
  PROVE  CountInv' /\ TurnsInv' /\ ToolInv' /\ ReaskInv' /\ AuditInv' /\ (session = "over" => hang # "waiting")'
<1> USE DEF CopilotInv, toolVars, endVars
<1>0. /\ \A t \in Turns : server'[t] = server[t] \/ (server[t] = "none" /\ server'[t] = "asked")
      /\ \A t \in Turns : server'[t] = "none" => asked'[t] = {}
      /\ \E m \in {n, n + 1} : Used(m)' /\ (m # n => p # {} /\ pending' = {}) /\ (pending' # {} => p # {})
      /\ \A t \in Turns : t <= n => p \cup AskedAfter(t) \subseteq pending' \cup AskedAfter(t)'
  BY MovesAre
<1>2. CountInv'
  <2>1. PICK m \in {n, n + 1} : Used(m)' /\ (m # n => p # {} /\ pending' = {}) /\ (pending' # {} => p # {}) BY <1>0
  <2>2. n \in Nat /\ said \in Nat BY LimitsAssumption DEF CopilotTypes
  <2>3. m \in 0..said' /\ (pending' # {} => m < said') BY <2>1, <2>2
  <2>4. gen' = 0 \/ gen' < said' BY <2>2, LimitsAssumption DEF CountInv, CopilotTypes
  <2>5. \E k \in 0..said' : (\A t \in Turns : server'[t] # "none" <=> t <= k) /\ (pending' # {} => k < said')
    BY <2>1, <2>3 DEF Used
  <2> QED BY <2>4, <2>5 DEF CountInv
<1>3. TurnsInv' BY <1>0 DEF TurnsInv, Unknown
<1>5. ToolInv'
  <2>1. \A c \in Calls : server[c[1]] = "running" => server'[c[1]] = "running" BY <1>0, CallParts
  <2> QED BY <2>1 DEF ToolInv
<1>7. ReaskInv'
  <2> SUFFICES ASSUME ~ended, NEW t \in Turns, turns[t].cut
               PROVE  turns[t].input \subseteq pending' \cup AskedAfter(t)'
    BY DEF ReaskInv
  <2>1. server[t] # "none" BY DEF TurnsInv
  <2>2. t <= n BY <2>1 DEF Used
  <2>3. turns[t].input \subseteq pending \cup AskedAfter(t) BY DEF ReaskInv
  <2> QED BY <2>2, <2>3, <1>0
<1>8. AuditInv' BY DEF AuditInv, Current
<1>9. (session = "over" => hang # "waiting")' OBVIOUS
<1> QED BY <1>2, <1>3, <1>5, <1>7, <1>8, <1>9

\* The thread is ready, and the loop begins.
LEMMA ThreadReadyStep ==
  ASSUME CopilotInv, ThreadReady
  PROVE  CopilotInv'
<1> USE DEF CopilotInv
<1>0. /\ session = "starting" /\ session' = "ready" /\ Looped(pending, gen)
      /\ UNCHANGED <<said, context, gen, turns, active, toolVars, voice, discarded, endVars, crossed, adrift>>
  BY DEF ThreadReady
<1>1. PICK n \in 0..MaxWords : n <= said /\ Used(n) /\ (pending # {} => n < said) BY CountIs
<1>2. Rests(pending) \/ Asks(pending, gen, n)
  <2>1. pending # {} => n < MaxWords BY <1>1, LimitsAssumption DEF CopilotTypes
  <2> QED BY <1>0, <1>1, <2>1, LoopedIs
<1>3. Moves(pending, gen, n) BY <1>2 DEF Moves
<1>4. CopilotTypes'
  <2>1. /\ pending' \in SUBSET Words /\ drain' \in DrainRow /\ asked' \in [Turns -> SUBSET Words]
        /\ server' \in [Turns -> {"none", "asked", "running", "over"}]
    BY <1>1, <1>2, FlowTypes DEF CopilotTypes
  <2> QED BY <2>1, <1>0 DEF CopilotTypes, toolVars, endVars
<1>5. drain.pc = "idle" BY <1>0 DEF PlaceInv
<1>6. PlaceInv' /\ SoloInv'
  <2>1. active' # 0 => active' = active /\ server[active] = "running"
    BY <1>0, <1>5 DEF PlaceInv
  <2>2. \A t \in Turns : turns[t].known => server[t] # "asked" BY <1>0, <1>5 DEF PlaceInv
  <2>3. adrift' = {} => adrift = {} /\ active' = 0 /\ \A t \in Turns : ~On(t) BY <1>0, <1>5 DEF SoloInv
  <2>4. session # "over" /\ session' = "ready" BY <1>0
  <2>5. UNCHANGED <<gen, turns, toolVars, voice>> BY <1>0
  <2> HIDE DEF CopilotInv
  <2> QED BY <1>0, <1>1, <1>2, <1>4, <2>1, <2>2, <2>3, <2>4, <2>5, LoopQuiet
<1>7. drain'.gen <= gen'
  <2>1. gen \in Nat BY LimitsAssumption DEF CopilotTypes
  <2> QED BY <1>0, <1>2, <2>1 DEF Rests, Asks, Idle
<1>8. CountInv' /\ TurnsInv' /\ ToolInv' /\ ReaskInv' /\ AuditInv' /\ (session = "over" => hang # "waiting")'
  <2>1. said' = said /\ said \in Nat /\ said <= said' BY <1>0, LimitsAssumption DEF CopilotTypes
  <2> HIDE DEF CopilotInv
  <2> QED BY <1>0, <1>1, <1>3, <1>7, <2>1, LoopRest
<1> QED BY <1>4, <1>6, <1>8 DEF CopilotInv

\* The caller is heard while nothing is interrupted.
LEMMA HeardStep ==
  ASSUME CopilotInv, Say, ~Interrupts
  PROVE  CopilotInv'
<1> USE DEF CopilotInv
<1> DEFINE p == pending \cup {said + 1}
<1>0. /\ session \in {"starting", "ready", "off"} /\ said < MaxWords /\ said' = said + 1
      /\ context' = context \cup {said + 1} /\ Drained(p, gen)
      /\ UNCHANGED <<session, gen, turns, active, toolVars, voice, discarded, endVars, crossed, adrift>>
  BY DEF Say, toolVars
<1>1. PICK n \in 0..MaxWords : n <= said /\ Used(n) /\ (pending # {} => n < said) BY CountIs
<1>a. said \in Nat /\ n \in Nat /\ MaxWords \in Nat /\ gen \in Nat BY LimitsAssumption DEF CopilotTypes
<1>b. p \in SUBSET Words /\ said' \in 0..MaxWords /\ context' \in SUBSET Words
  <2>1. said + 1 \in Words /\ said + 1 \in 0..MaxWords BY <1>a, <1>0 DEF Words
  <2> QED BY <2>1, <1>0 DEF CopilotTypes
<1> HIDE DEF p
<1>2. \/ Stays(p)
      \/ drain.pc = "idle" /\ session = "ready" /\ (Rests(p) \/ Asks(p, gen, n))
  <2>1. CASE drain.pc = "idle" /\ session = "ready"
    <3>1. Looped(p, gen) BY <1>0, <2>1 DEF Drained
    <3>2. n < MaxWords BY <1>a, <1>0, <1>1
    <3> QED BY <1>1, <2>1, <3>1, <3>2, LoopedIs
  <2>2. CASE ~(drain.pc = "idle" /\ session = "ready") BY <2>2, <1>0 DEF Drained, Stays
  <2> QED BY <2>1, <2>2
<1>3. Moves(p, gen, n) BY <1>2 DEF Moves
<1>4. CopilotTypes'
  <2>1. /\ pending' \in SUBSET Words /\ drain' \in DrainRow /\ asked' \in [Turns -> SUBSET Words]
        /\ server' \in [Turns -> {"none", "asked", "running", "over"}]
    BY <1>1, <1>2, <1>b, FlowTypes DEF CopilotTypes
  <2> QED BY <2>1, <1>0, <1>b DEF CopilotTypes, toolVars, endVars
<1>6. PlaceInv' /\ SoloInv'
  <2>1. CASE Stays(p)
    <3>1. PlaceInv' BY <2>1, <1>0 DEF PlaceInv, Stays
    <3>2. SoloInv' BY <2>1, <1>0 DEF SoloInv, Stays, On, toolVars
    <3> QED BY <3>1, <3>2
  <2>2. CASE drain.pc = "idle" /\ session = "ready" /\ (Rests(p) \/ Asks(p, gen, n))
    <3>1. active' # 0 => active' = active /\ server[active] = "running"
      BY <1>0, <2>2 DEF PlaceInv
    <3>2. \A t \in Turns : turns[t].known => server[t] # "asked" BY <2>2 DEF PlaceInv
    <3>3. adrift' = {} => adrift = {} /\ active' = 0 /\ \A t \in Turns : ~On(t) BY <1>0, <2>2 DEF SoloInv
    <3>4. session # "over" /\ session' = "ready" BY <1>0, <2>2
    <3>5. UNCHANGED <<gen, turns, toolVars, voice>> BY <1>0
    <3> HIDE DEF CopilotInv
    <3> QED BY <2>2, <1>1, <1>4, <3>1, <3>2, <3>3, <3>4, <3>5, LoopQuiet
  <2> QED BY <1>2, <2>1, <2>2
<1>7. drain'.gen <= gen'
  BY <1>0, <1>2, <1>a DEF Rests, Asks, Idle, Stays, CountInv
<1>8. CountInv' /\ TurnsInv' /\ ToolInv' /\ ReaskInv' /\ AuditInv' /\ (session = "over" => hang # "waiting")'
  <2>1. said' \in Nat /\ said <= said' /\ (p # {} => n < said') BY <1>0, <1>1, <1>a
  <2>2. pending \subseteq p BY DEF p
  <2>3. session # "over" /\ session' # "over" BY <1>0
  <2>4. UNCHANGED <<gen, turns, toolVars, voice, discarded, endVars, crossed>> BY <1>0
  <2> HIDE DEF CopilotInv
  <2> QED BY <1>1, <1>3, <1>7, <2>1, <2>2, <2>3, <2>4, LoopRest
<1> QED BY <1>4, <1>6, <1>8 DEF CopilotInv

\* What the session learns of a turn it did not know; one it knows stays as it is.
LEMMA KnownIs ==
  ASSUME CopilotTypes, TurnsInv, NEW t \in Turns, NEW g \in 0..MaxWords, NEW input \in SUBSET Words, turns' = Known(t, g, input)
  PROVE  /\ turns' \in [Turns -> TurnRow] /\ turns'[t].known
         /\ \A u \in Turns : u # t => turns'[u] = turns[u]
         /\ turns[t].known => turns' = turns
         /\ ~turns[t].known => turns'[t].gen = g
         /\ \A u \in Turns : /\ turns'[u].cut = turns[u].cut /\ turns'[u].completed = turns[u].completed
                             /\ turns'[u].text = turns[u].text /\ turns'[u].mute = turns[u].mute
                             /\ turns'[u].calls = turns[u].calls /\ turns'[u].given = turns[u].given
<1>0. turns \in [Turns -> TurnRow] /\ turns[t] \in TurnRow BY DEF CopilotTypes
<1>1. CASE turns[t].known
  <2>1. turns' = turns BY <1>1, <1>0 DEF Known
  <2> QED BY <2>1, <1>0, <1>1
<1>2. CASE ~turns[t].known
  <2> DEFINE new == [Unknown EXCEPT !.known = TRUE, !.gen = g, !.input = input]
  <2>0. turns[t] = Unknown BY <1>2 DEF TurnsInv
  <2>1. turns' = [turns EXCEPT ![t] = new] BY <1>2 DEF Known
  <2>2. new \in TurnRow /\ new.known /\ new.gen = g /\ ~new.cut /\ ~new.completed /\ ~new.text /\ ~new.mute /\ new.calls = 0
        /\ ~new.given
    <3>1. 0 \in 0..MaxCalls /\ 0 \in 0..MaxWords BY LimitsAssumption
    <3>2. Unknown \in TurnRow BY <3>1 DEF Unknown, TurnRow
    <3>3. TRUE \in BOOLEAN OBVIOUS
    <3>4. new \in TurnRow BY <3>2, <3>3 DEF TurnRow
    <3>5. new.known /\ new.gen = g /\ ~new.cut /\ ~new.completed /\ ~new.text /\ ~new.mute /\ new.calls = 0 /\ ~new.given
      BY DEF Unknown
    <3> QED BY <3>4, <3>5
  <2> HIDE DEF new
  <2>3. turns' \in [Turns -> TurnRow] /\ turns'[t] = new /\ \A u \in Turns : u # t => turns'[u] = turns[u]
    BY <2>1, <2>2, <1>0
  <2>4. /\ ~turns[t].cut /\ ~turns[t].completed /\ ~turns[t].text /\ ~turns[t].mute /\ turns[t].calls = 0 /\ ~turns[t].given
        /\ turns[t].cut \in BOOLEAN /\ turns[t].completed \in BOOLEAN /\ turns[t].text \in BOOLEAN /\ turns[t].mute \in BOOLEAN
        /\ turns[t].given \in BOOLEAN
    BY <2>0 DEF Unknown
  <2>5. /\ new.cut \in BOOLEAN /\ new.completed \in BOOLEAN /\ new.text \in BOOLEAN /\ new.mute \in BOOLEAN
        /\ new.given \in BOOLEAN
    BY <2>2 DEF TurnRow
  <2> QED BY <2>2, <2>3, <2>4, <2>5, <1>2
<1> QED BY <1>1, <1>2

\* The loop goes on from a turn whose start it awaited, as a refusal or an older
\* or finished turn lets it.
LEMMA AskedLoops ==
  ASSUME CopilotInv, drain.pc = "asking", NEW n \in 0..MaxWords, n <= said, Used(n), pending # {} => n < said,
         Rests(pending) \/ Asks(pending, gen, n),
         UNCHANGED <<session, said, context, gen, turns, toolVars, voice, discarded, endVars, crossed>>,
         adrift' \in SUBSET Turns, active' = 0 \/ active' = active,
         adrift' = {} => adrift = {} /\ active' = 0 /\ \A t \in Turns : ~On(t)
  PROVE  CopilotInv'
<1> USE DEF CopilotInv
<1>0. session = "ready" BY DEF PlaceInv
<1>1. CopilotTypes'
  <2>1. /\ pending' \in SUBSET Words /\ drain' \in DrainRow /\ asked' \in [Turns -> SUBSET Words]
        /\ server' \in [Turns -> {"none", "asked", "running", "over"}]
    BY FlowTypes DEF CopilotTypes
  <2>2. active' \in 0..MaxWords BY LimitsAssumption DEF CopilotTypes
  <2> QED BY <2>1, <2>2 DEF CopilotTypes, toolVars, endVars
<1>2. PlaceInv' /\ SoloInv'
  <2>1. active' # 0 => active' = active /\ server[active] = "running"
    BY DEF PlaceInv
  <2>2. \A t \in Turns : turns[t].known => server[t] # "asked" BY <1>0 DEF PlaceInv
  <2>3. session # "over" /\ session' = "ready" BY <1>0
  <2> HIDE DEF CopilotInv
  <2> QED BY <1>1, <2>1, <2>2, <2>3, LoopQuiet
<1>3. Moves(pending, gen, n) BY DEF Moves
<1>4. drain'.gen <= gen'
  <2>1. gen \in Nat BY LimitsAssumption DEF CopilotTypes
  <2> QED BY <2>1 DEF Rests, Asks, Idle
<1>5. CountInv' /\ TurnsInv' /\ ToolInv' /\ ReaskInv' /\ AuditInv' /\ (session = "over" => hang # "waiting")'
  <2>1. said' = said /\ said \in Nat /\ said <= said' BY LimitsAssumption DEF CopilotTypes
  <2>2. session # "over" /\ session' # "over" BY <1>0
  <2> HIDE DEF CopilotInv
  <2> QED BY <1>3, <1>4, <2>1, <2>2, LoopRest
<1> QED BY <1>1, <1>2, <1>5 DEF CopilotInv

\* A turn is accepted, and awaited unless it is of an older generation or over.
LEMMA TurnAcceptedStep ==
  ASSUME CopilotInv, TurnAccepted
  PROVE  CopilotInv'
<1> USE DEF CopilotInv
<1> DEFINE t == drain.turn
<1>0. /\ drain.pc = "asking" /\ session = "ready" /\ t \in Turns /\ server[t] \in {"asked", "running"}
      /\ UNCHANGED <<session, said, context, gen, toolVars, voice, discarded, endVars, crossed, adrift>>
  BY DEF TurnAccepted, PlaceInv
<1>1. PICK n \in 0..MaxWords : n <= said /\ Used(n) /\ (pending # {} => n < said) BY CountIs
<1>n. pending # {} => n < MaxWords BY <1>1, LimitsAssumption DEF CopilotTypes
<1>2. CASE drain.gen # gen
  <2>1. Looped(pending, gen) /\ turns' = turns /\ active' = active BY <1>2 DEF TurnAccepted
  <2>2. Rests(pending) \/ Asks(pending, gen, n) BY <1>1, <1>n, <2>1, LoopedIs
  <2>3. ASSUME adrift' = {} PROVE adrift = {} /\ active' = 0 /\ \A u \in Turns : ~On(u)
    <3>1. adrift = {} /\ turns[t].cut BY <2>3, <1>0, <1>2 DEF SoloInv
    <3>2. active = 0 BY <3>1, <1>0 DEF SoloInv, PlaceInv
    <3>3. \A u \in Turns : ~On(u) BY <3>1, <1>0 DEF SoloInv, On
    <3> QED BY <3>1, <3>2, <3>3, <2>1
  <2>4. adrift' \in SUBSET Turns BY <1>0 DEF CopilotTypes
  <2> HIDE DEF CopilotInv
  <2> QED BY <1>0, <1>1, <2>1, <2>2, <2>3, <2>4, AskedLoops
<1>3. CASE drain.gen = gen /\ turns[t].completed
  <2>1. Looped(pending, gen) /\ turns' = Known(t, drain.gen, drain.input) /\ active' = 0 BY <1>3 DEF TurnAccepted
  <2>2. turns[t].known BY <1>0, <1>3 DEF TurnsInv, Unknown
  <2>3. turns' = turns BY <2>1, <2>2, <1>0 DEF Known, CopilotTypes
  <2>4. Rests(pending) \/ Asks(pending, gen, n) BY <1>1, <1>n, <2>1, LoopedIs
  <2>5. ASSUME adrift' = {} PROVE adrift = {} /\ active' = 0 /\ \A u \in Turns : ~On(u)
    <3>1. \A u \in Turns : ~On(u) BY <2>5, <1>0, <1>3 DEF SoloInv, On
    <3> QED BY <3>1, <2>1, <2>5, <1>0
  <2>6. adrift' \in SUBSET Turns BY <1>0 DEF CopilotTypes
  <2> HIDE DEF CopilotInv
  <2> QED BY <1>0, <1>1, <2>1, <2>3, <2>4, <2>5, <2>6, AskedLoops
<1>4. CASE drain.gen = gen /\ ~turns[t].completed
  <2>1. /\ turns' = Known(t, drain.gen, drain.input) /\ active' = t /\ drain' = [drain EXCEPT !.pc = "waiting"]
        /\ pending' = pending /\ asked' = asked /\ server' = server
    BY <1>4 DEF TurnAccepted
  <2>2. drain \in DrainRow /\ drain.gen \in 0..MaxWords /\ drain.input \in SUBSET Words BY DEF CopilotTypes, DrainRow
  <2>3. drain' \in DrainRow /\ drain'.pc = "waiting" /\ drain'.turn = t /\ drain'.gen = drain.gen
    BY <2>1, <2>2 DEF DrainRow
  <2>k. /\ turns' \in [Turns -> TurnRow] /\ turns'[t].known
        /\ \A u \in Turns : u # t => turns'[u] = turns[u]
        /\ turns[t].known => turns' = turns
        /\ ~turns[t].known => turns'[t].gen = drain.gen
        /\ \A u \in Turns : /\ turns'[u].cut = turns[u].cut /\ turns'[u].completed = turns[u].completed
                            /\ turns'[u].text = turns[u].text /\ turns'[u].mute = turns[u].mute
                            /\ turns'[u].calls = turns[u].calls /\ turns'[u].given = turns[u].given
    BY <1>0, <2>1, <2>2, KnownIs
  <2>c. ~turns[t].cut BY <1>0, <1>4 DEF PlaceInv
  <2>n. gen \in Nat BY LimitsAssumption DEF CopilotTypes
  <2> HIDE DEF t
  <2>4. CopilotTypes'
    <3>1. t \in 0..MaxWords BY <1>0, LimitsAssumption DEF Turns
    <3> QED BY <1>0, <2>1, <2>3, <2>k, <3>1 DEF CopilotTypes, toolVars, endVars
  <2>5. CountInv' BY <1>0, <2>1, <2>3 DEF CountInv
  <2>6. TurnsInv'
    <3> SUFFICES ASSUME NEW u \in Turns
                 PROVE  /\ ~turns'[u].known => turns'[u] = Unknown
                        /\ turns'[u].known => server[u] \in {"asked", "running"}
                        /\ server[u] = "running" => turns'[u].known
                        /\ turns'[u].gen <= gen
                        /\ u \in discarded => turns'[u].known
      BY <1>0, <2>1, <2>k DEF TurnsInv
    <3>1. CASE u = t
      <4>1. turns'[t].gen <= gen BY <2>k, <2>n, <1>0, <1>4 DEF TurnsInv
      <4> QED BY <3>1, <4>1, <2>k, <1>0
    <3>2. CASE u # t BY <3>2, <2>k, <1>0 DEF TurnsInv
    <3> QED BY <3>1, <3>2
  <2>7. PlaceInv'
    <3>1. drain'.pc # "idle" => /\ session' = "ready" /\ drain'.turn \in Turns /\ server'[drain'.turn] \in {"asked", "running"}
                                /\ drain'.gen = gen' => ~turns'[drain'.turn].cut
      BY <1>0, <2>1, <2>3, <2>k, <2>c
    <3>2. active' # 0 => /\ active' \in Turns /\ server'[active'] \in {"asked", "running"} /\ ~turns'[active'].cut
                         /\ turns'[active'].completed => active' \in voice'.way
                         /\ server'[active'] = "asked" => drain'.pc = "waiting" /\ drain'.turn = active'
      BY <1>0, <1>4, <2>1, <2>3, <2>k, <2>c DEF t
    <3>3. \A u \in Turns : turns'[u].known /\ server'[u] = "asked" => drain'.pc = "waiting" /\ drain'.turn = u
      BY <1>0, <2>1, <2>3, <2>k DEF PlaceInv
    <3> QED BY <3>1, <3>2, <3>3 DEF PlaceInv
  <2>8. ToolInv' BY <1>0, <2>1, <2>k, CallParts DEF ToolInv, toolVars, endVars
  <2>9. SoloInv'
    <3> SUFFICES ASSUME adrift = {} PROVE SoloInv' BY <1>0 DEF SoloInv
    <3>1. \A u \in Turns : On(u)' <=> On(u) BY <2>1, <2>k DEF On
    <3>2. \A u \in Turns : On(u) => u = t /\ (turns'[u].known => turns'[u].gen = gen)
      BY <2>k, <1>0, <1>4 DEF SoloInv, t
    <3>3. \A c \in Calls : turns'[c[1]].cut = turns[c[1]].cut BY <2>k, CallParts
    <3> QED BY <3>1, <3>2, <3>3, <1>0, <1>4, <2>1, <2>3, <2>c, <2>k DEF SoloInv, toolVars
  <2>a. ReaskInv'
    <3>1. \A u \in Turns : turns'[u].cut => turns'[u] = turns[u] BY <2>k, <2>c
    <3>2. \A u \in Turns : AskedAfter(u)' = AskedAfter(u) BY <2>1 DEF AskedAfter
    <3> QED BY <3>1, <3>2, <2>1, <2>k, <1>0 DEF ReaskInv, endVars
  <2>b. AuditInv'
    <3>1. \A u \in Turns : turns[u].known => turns'[u] = turns[u] BY <2>k
    <3>2. \A u \in Turns : u \in discarded => turns[u].known BY DEF TurnsInv
    <3>3. \A u \in Turns : u \in voice.way => turns[u].known BY DEF TurnsInv, Unknown
    <3> QED BY <3>1, <3>2, <3>3, <1>0, <2>k DEF AuditInv, Current
  <2>d. (session = "over" => hang # "waiting")' BY <1>0
  <2> QED BY <2>4, <2>5, <2>6, <2>7, <2>8, <2>9, <2>a, <2>b, <2>d DEF CopilotInv
<1> QED BY <1>2, <1>3, <1>4

\* A turn is refused, or its start is given up.
LEMMA TurnRefusedStep ==
  ASSUME CopilotInv, TurnRefused
  PROVE  CopilotInv'
<1> USE DEF CopilotInv
<1> DEFINE t == drain.turn
<1>0. /\ drain.pc = "asking" /\ session = "ready" /\ t \in Turns
      /\ UNCHANGED <<session, said, context, gen, turns, active, toolVars, voice, discarded, endVars, crossed>>
  BY DEF TurnRefused, PlaceInv
<1>1. PICK n \in 0..MaxWords : n <= said /\ Used(n) /\ (pending # {} => n < said) BY CountIs
<1>n. pending # {} => n < MaxWords BY <1>1, LimitsAssumption DEF CopilotTypes
<1>2. CASE /\ adrift' = adrift \cup {t}
           /\ IF pending # {} THEN Looped(pending, gen) ELSE drain' = Idle /\ UNCHANGED <<pending, asked, server>>
  <2>1. Rests(pending) \/ Asks(pending, gen, n)
    <3>1. CASE pending # {} BY <3>1, <1>2, <1>1, <1>n, LoopedIs
    <3>2. CASE pending = {} BY <3>2, <1>2 DEF Rests
    <3> QED BY <3>1, <3>2
  <2>2. adrift' \in SUBSET Turns /\ adrift' # {} BY <1>0, <1>2 DEF CopilotTypes
  <2> HIDE DEF CopilotInv
  <2> QED BY <1>0, <1>1, <2>1, <2>2, AskedLoops
<1>3. CASE /\ pending = {} /\ server[t] = "asked" /\ UNCHANGED <<pending, asked, adrift>>
           /\ server' = [server EXCEPT ![t] = "over"] /\ drain' = Idle
  <2>0. UNCHANGED <<control, aborted, waits, made, exec, cache, ended, hang>> BY <1>0 DEF toolVars, endVars
  <2>1. /\ server' \in [Turns -> {"none", "asked", "running", "over"}] /\ server'[t] = "over"
        /\ \A u \in Turns : u # t => server'[u] = server[u]
    BY <1>0, <1>3 DEF CopilotTypes
  <2>2. drain' \in DrainRow /\ drain'.pc = "idle" /\ drain'.gen <= gen
    BY <1>3, LimitsAssumption DEF Idle, DrainRow, CopilotTypes
  <2>3. ~turns[t].known /\ turns[t] = Unknown
    BY <1>0, <1>3 DEF PlaceInv, TurnsInv
  <2>a. active # t BY <1>0, <1>3, LimitsAssumption DEF PlaceInv, Turns
  <2> HIDE DEF t
  <2>4. CopilotTypes' BY <1>0, <1>3, <2>0, <2>1, <2>2 DEF CopilotTypes
  <2>5. CountInv' BY <1>0, <1>3, <2>1, <2>2 DEF CountInv
  <2>6. TurnsInv' BY <1>0, <1>3, <2>1, <2>3 DEF TurnsInv, Unknown
  <2>7. PlaceInv' BY <1>0, <2>1, <2>2, <2>a DEF PlaceInv
  <2>8. ToolInv'
    <3>1. \A c \in Calls : server[c[1]] = "running" => server'[c[1]] = "running" BY <1>3, <2>1, CallParts
    <3> QED BY <3>1, <2>0, <1>0 DEF ToolInv
  <2>9. SoloInv'
    <3> SUFFICES ASSUME adrift = {} PROVE SoloInv' BY <1>3 DEF SoloInv
    <3>1. \A u \in Turns : ~On(u)' BY <1>0, <2>1 DEF SoloInv, On, t
    <3>2. active = 0 BY <1>0, <2>a DEF SoloInv, t
    <3>3. \A c \in Calls : exec[c] = "approval" => turns[c[1]].cut
      <4> SUFFICES ASSUME NEW c \in Calls, exec[c] = "approval", ~turns[c[1]].cut PROVE FALSE OBVIOUS
      <4>1. c[1] \in Turns /\ server[c[1]] = "running" /\ ~turns[c[1]].completed BY CallParts DEF ToolInv
      <4>2. On(c[1])' BY <4>1, <2>1, <1>0, <1>3 DEF On
      <4> QED BY <4>1, <4>2, <3>1
    <3> QED BY <3>1, <3>2, <3>3, <1>0, <2>0, <2>2 DEF SoloInv
  <2>b. ReaskInv' BY <1>0, <1>3, <2>0 DEF ReaskInv, AskedAfter
  <2>c. AuditInv' BY <1>0 DEF AuditInv, Current
  <2>d. (session = "over" => hang # "waiting")' BY <1>0, <2>0
  <2> QED BY <2>4, <2>5, <2>6, <2>7, <2>8, <2>9, <2>b, <2>c, <2>d DEF CopilotInv
<1> QED BY <1>2, <1>3 DEF TurnRefused

\* The caller interrupts the active turn.
LEMMA InterruptedStep ==
  ASSUME CopilotInv, Say, Interrupts
  PROVE  CopilotInv'
<1> USE DEF CopilotInv
<1> DEFINE t == active
           all == turns[t].input \cup pending \cup {said + 1}
<1>0. /\ session \in {"starting", "ready", "off"} /\ ~ended /\ said < MaxWords /\ said' = said + 1
      /\ turns' = [turns EXCEPT ![t].cut = TRUE] /\ gen' = gen + 1 /\ active' = 0
      /\ aborted' = aborted \cup ({control} \ {NoCall}) /\ control' = NoCall /\ context' = all
      /\ discarded' = (IF turns[t].text THEN discarded \cup {t} ELSE discarded)
      /\ crossed' = crossed \cup voice.way
      /\ UNCHANGED <<session, waits, made, exec, cache, voice, ended, hang, adrift>>
  BY DEF Say, Interrupted, endVars
<1>f. IF drain.pc = "idle" THEN Drained(all, gen + 1) ELSE Resumed(t, all, gen + 1) BY DEF Say, Interrupted
<1>1. PICK n \in 0..MaxWords : n <= said /\ Used(n) /\ (pending # {} => n < said) BY CountIs
<1>2. /\ t # 0 /\ t \in Turns /\ turns[t].known /\ turns[t].calls > 0 /\ server[t] = "running" /\ ~turns[t].cut
  BY DEF Interrupts, PlaceInv, TurnsInv
<1>a. said \in Nat /\ n \in Nat /\ MaxWords \in Nat /\ gen \in Nat /\ gen' \in 0..MaxWords /\ gen' < said' /\ gen < gen'
  <2>1. said \in Nat /\ n \in Nat /\ MaxWords \in Nat /\ gen \in Nat BY LimitsAssumption DEF CopilotTypes
  <2>2. t <= n /\ t \in Nat BY <1>1, <1>2, LimitsAssumption DEF Used, Turns
  <2>3. said > 0 BY <2>1, <2>2, <1>1, <1>2
  <2>4. gen = 0 \/ gen < said BY <1>0 DEF CountInv
  <2> QED BY <2>1, <2>3, <2>4, <1>0
<1>b. all \in SUBSET Words /\ all # {} /\ said' \in 0..MaxWords
  <2>1. said + 1 \in Words /\ said + 1 \in 0..MaxWords BY <1>a, <1>0 DEF Words
  <2>2. turns[t] \in TurnRow BY <1>2 DEF CopilotTypes
  <2>3. turns[t].input \in SUBSET Words BY <2>2 DEF TurnRow
  <2> QED BY <2>1, <2>3, <1>0 DEF CopilotTypes
<1>g. /\ turns' \in [Turns -> TurnRow] /\ turns'[t].cut /\ \A u \in Turns : u # t => turns'[u] = turns[u]
      /\ \A u \in Turns : /\ turns'[u].known = turns[u].known /\ turns'[u].gen = turns[u].gen /\ turns'[u].input = turns[u].input
                          /\ turns'[u].calls = turns[u].calls /\ turns'[u].completed = turns[u].completed
                          /\ turns'[u].text = turns[u].text /\ turns'[u].mute = turns[u].mute
                          /\ turns[u].cut => turns'[u].cut
                          /\ turns'[u].cut /\ u # t => turns[u].cut
  <2>1. turns \in [Turns -> TurnRow] /\ turns[t] \in TurnRow BY <1>2 DEF CopilotTypes
  <2>2. [turns[t] EXCEPT !.cut = TRUE] \in TurnRow BY <2>1 DEF TurnRow
  <2>3. turns' = [turns EXCEPT ![t] = [turns[t] EXCEPT !.cut = TRUE]] BY <1>0
  <2>4. /\ turns' \in [Turns -> TurnRow] /\ turns'[t] = [turns[t] EXCEPT !.cut = TRUE]
        /\ \A u \in Turns : u # t => turns'[u] = turns[u]
    BY <2>1, <2>2, <2>3, <1>2
  <2>5. /\ turns'[t].known = turns[t].known /\ turns'[t].gen = turns[t].gen /\ turns'[t].input = turns[t].input
        /\ turns'[t].calls = turns[t].calls /\ turns'[t].completed = turns[t].completed
        /\ turns'[t].text = turns[t].text /\ turns'[t].mute = turns[t].mute /\ turns'[t].cut
    BY <2>1, <2>4 DEF TurnRow
  <2> QED BY <2>4, <2>5
<1> HIDE DEF all, t
<1>3. \/ /\ Stays(all)
         /\ drain.pc = "idle" \/ ~(drain.pc = "waiting" /\ drain.turn = t)
      \/ /\ session = "ready" /\ Asks(all, gen', n)
         /\ drain.pc = "idle" \/ (drain.pc = "waiting" /\ drain.turn = t)
  <2>n. n < MaxWords BY <1>a, <1>0, <1>1
  <2>1. CASE drain.pc = "idle" /\ session = "ready"
    <3>1. Looped(all, gen + 1) BY <1>f, <2>1 DEF Drained
    <3>2. Rests(all) \/ Asks(all, gen + 1, n) BY <1>1, <2>n, <3>1, LoopedIs
    <3> QED BY <3>2, <2>1, <1>b, <1>0 DEF Rests
  <2>2. CASE drain.pc = "idle" /\ session # "ready" BY <2>2, <1>f DEF Drained, Stays
  <2>3. CASE drain.pc # "idle" /\ drain.pc = "waiting" /\ drain.turn = t
    <3>1. Looped(all, gen + 1) BY <1>f, <2>3 DEF Resumed
    <3>2. Rests(all) \/ Asks(all, gen + 1, n) BY <1>1, <2>n, <3>1, LoopedIs
    <3> QED BY <3>2, <2>3, <1>b, <1>0 DEF Rests, PlaceInv
  <2>4. CASE drain.pc # "idle" /\ ~(drain.pc = "waiting" /\ drain.turn = t) BY <2>4, <1>f DEF Resumed, Stays
  <2> QED BY <2>1, <2>2, <2>3, <2>4
<1>m. Moves(all, gen', n) BY <1>3 DEF Moves
<1>4. CopilotTypes'
  <2>1. /\ pending' \in SUBSET Words /\ drain' \in DrainRow /\ asked' \in [Turns -> SUBSET Words]
        /\ server' \in [Turns -> {"none", "asked", "running", "over"}]
    BY <1>1, <1>3, <1>b, <1>a, FlowTypes
  <2>2. aborted' \in SUBSET Calls /\ control' \in Calls \cup {NoCall} BY <1>0 DEF CopilotTypes
  <2>3. discarded' \in SUBSET Turns /\ crossed' \in SUBSET Turns BY <1>0, <1>2 DEF CopilotTypes, VoiceRow
  <2>4. active' \in 0..MaxWords BY <1>0, <1>a
  <2> QED BY <1>0, <1>a, <1>b, <1>g, <2>1, <2>2, <2>3, <2>4 DEF CopilotTypes
<1>5. /\ \A u \in Turns : server'[u] = server[u] \/ (server[u] = "none" /\ server'[u] = "asked")
      /\ \A u \in Turns : server'[u] = "none" => asked'[u] = {}
      /\ \E m \in {n, n + 1} : Used(m)' /\ (m # n => all # {} /\ pending' = {}) /\ (pending' # {} => all # {})
      /\ \A u \in Turns : u <= n => all \cup AskedAfter(u) \subseteq pending' \cup AskedAfter(u)'
  BY <1>1, <1>m, MovesAre
<1>6. CountInv'
  <2>1. PICK m \in {n, n + 1} : Used(m)' /\ (m # n => all # {} /\ pending' = {}) BY <1>5
  <2>2. m \in 0..said' /\ (pending' # {} => m < said') BY <2>1, <1>0, <1>1, <1>a
  <2>3. \E k \in 0..said' : (\A u \in Turns : server'[u] # "none" <=> u <= k) /\ (pending' # {} => k < said')
    BY <2>1, <2>2 DEF Used
  <2>4. drain'.gen <= gen' BY <1>3, <1>a, <1>0 DEF Asks, Stays, CountInv, CopilotTypes, DrainRow
  <2> QED BY <2>3, <2>4, <1>a DEF CountInv
<1>7. TurnsInv'
  <2>1. \A u \in Turns : ~turns'[u].known => turns'[u] = Unknown BY <1>g, <1>2 DEF TurnsInv
  <2>2. \A u \in Turns : /\ turns'[u].known => server'[u] \in {"asked", "running"}
                         /\ server'[u] = "running" /\ session' # "over" => turns'[u].known
                         /\ server'[u] = "none" => asked'[u] = {}
    BY <1>g, <1>5, <1>0 DEF TurnsInv
  <2>3. ASSUME NEW u \in Turns PROVE turns'[u].gen <= gen'
    <3>1. turns[u].gen <= gen /\ turns[u].gen \in Nat BY LimitsAssumption DEF TurnsInv, CopilotTypes, TurnRow
    <3> QED BY <3>1, <1>a, <1>g
  <2>4. \A u \in Turns : /\ turns'[u].cut \/ turns'[u].text => turns'[u].calls > 0
                         /\ turns'[u].calls > 0 \/ turns'[u].completed => server'[u] = "running"
                         /\ turns'[u].mute => turns'[u].completed
    BY <1>g, <1>2, <1>5 DEF TurnsInv
  <2>5. \A u \in Turns : /\ u \in voice'.way => turns'[u].completed /\ u \notin voice'.told
                         /\ u \in voice'.told => turns'[u].completed
                         /\ u \in discarded' => turns'[u].known
    BY <1>g, <1>0, <1>2 DEF TurnsInv
  <2> QED BY <2>1, <2>2, <2>3, <2>4, <2>5 DEF TurnsInv
<1>d. drain.gen # gen' BY <1>a DEF CountInv, CopilotTypes, DrainRow
<1>s. adrift = {} => drain.pc # "idle" /\ drain.turn = t BY <1>0, <1>2 DEF SoloInv, t
<1>o. ASSUME adrift = {}, NEW u \in Turns, server[u] \in {"asked", "running"} PROVE turns'[u].cut \/ turns'[u].completed
  <2>1. CASE u = t BY <2>1, <1>g
  <2>2. CASE u # t
    <3>1. ~On(u) BY <2>2, <1>o, <1>0, <1>s DEF SoloInv
    <3> QED BY <3>1, <2>2, <1>o, <1>g DEF On
  <2> QED BY <2>1, <2>2
<1>e. ASSUME adrift = {}, NEW c \in Calls, exec[c] = "approval" PROVE turns'[c[1]].cut /\ c \in aborted'
  <2>1. c[1] \in Turns /\ server[c[1]] = "running" /\ ~turns[c[1]].completed BY <1>e, CallParts DEF ToolInv
  <2>2. turns'[c[1]].cut BY <2>1, <1>o, <1>e, <1>g
  <2>3. CASE turns[c[1]].cut BY <2>3, <1>e, <1>0 DEF SoloInv
  <2>4. CASE ~turns[c[1]].cut
    <3>1. control = c BY <2>4, <1>e, <1>0 DEF SoloInv
    <3> QED BY <3>1, <2>2, <1>0, CallIsNone
  <2> QED BY <2>2, <2>3, <2>4
<1>8. PlaceInv' /\ SoloInv'
  <2>1. CASE session = "ready" /\ Asks(all, gen', n) /\ (drain.pc = "idle" \/ (drain.pc = "waiting" /\ drain.turn = t))
    <3>1. \A u \in Turns : turns'[u].known => server[u] # "asked"
      BY <2>1, <1>g, <1>0, <1>2 DEF PlaceInv
    <3>2. \A u \in Turns : server[u] = "none" => ~turns'[u].known /\ ~turns'[u].cut
      BY <1>g, <1>2 DEF TurnsInv
    <3>3. adrift' = {} => /\ active' = 0
                          /\ \A u \in Turns : server[u] \in {"asked", "running"} => turns'[u].cut \/ turns'[u].completed
                          /\ \A c \in Calls : exec'[c] = "approval" => turns'[c[1]].cut /\ c \in aborted'
      BY <1>0, <1>o, <1>e
    <3>4. session' = "ready" /\ active' = 0 BY <1>0, <2>1
    <3>5. CopilotTypes /\ TurnsInv OBVIOUS
    <3> HIDE DEF CopilotInv
    <3> QED BY <1>1, <1>4, <2>1, <3>1, <3>2, <3>3, <3>4, <3>5, LoopPlaces
  <2>2. CASE Stays(all) /\ (drain.pc = "idle" \/ ~(drain.pc = "waiting" /\ drain.turn = t))
    <3>0. drain' = drain /\ server' = server BY <2>2 DEF Stays
    <3>1. PlaceInv'
      <4>1. drain'.pc # "idle" => /\ session' = "ready" /\ drain'.turn \in Turns /\ server'[drain'.turn] \in {"asked", "running"}
                                  /\ drain'.gen # gen'
        BY <3>0, <1>0, <1>d DEF PlaceInv
      <4>2. \A u \in Turns : turns'[u].known /\ server'[u] = "asked" => drain'.pc = "waiting" /\ drain'.turn = u
        BY <3>0, <1>0, <1>g DEF PlaceInv
      <4> QED BY <4>1, <4>2, <1>0 DEF PlaceInv
    <3>2. SoloInv'
      <4> SUFFICES ASSUME adrift = {} PROVE SoloInv' BY <1>0 DEF SoloInv
      <4>1. drain.pc = "asking" /\ drain.turn = t BY <1>s, <2>2 DEF CopilotTypes, DrainRow
      <4>2. \A u \in Turns : ~On(u)' BY <1>o, <3>0 DEF On
      <4>3. \A c \in Calls : exec[c] = "approval" => turns'[c[1]].cut /\ c \in aborted' BY <1>e
      <4> QED BY <4>1, <4>2, <4>3, <3>0, <1>0, <1>g DEF SoloInv
    <3> QED BY <3>1, <3>2
  <2> QED BY <1>3, <2>1, <2>2
<1>9. ToolInv'
  <2>1. \A c \in Calls : server[c[1]] = "running" =>
          /\ server'[c[1]] = "running" /\ turns'[c[1]].completed = turns[c[1]].completed /\ turns'[c[1]].calls = turns[c[1]].calls
    BY <1>5, <1>g, CallParts
  <2> QED BY <2>1, <1>0 DEF ToolInv
<1>r. ReaskInv'
  <2> SUFFICES ASSUME NEW u \in Turns, turns'[u].cut PROVE turns'[u].input \subseteq pending' \cup AskedAfter(u)'
    BY DEF ReaskInv
  <2>1. server[u] # "none" BY <1>g, <1>2 DEF TurnsInv
  <2>2. u <= n BY <2>1, <1>1 DEF Used
  <2>3. turns[u].input \subseteq all \cup AskedAfter(u)
    <3>1. CASE u = t BY <3>1 DEF all
    <3>2. CASE u # t
      <4>1. turns[u].cut BY <3>2, <1>g
      <4>2. turns[u].input \subseteq pending \cup AskedAfter(u) BY <4>1, <1>0 DEF ReaskInv
      <4> QED BY <4>2 DEF all
    <3> QED BY <3>1, <3>2
  <2> QED BY <2>2, <2>3, <1>5, <1>g
<1>u. AuditInv'
  <2> SUFFICES ASSUME NEW u \in Turns
               PROVE  /\ turns'[u].text /\ turns'[u].cut => turns'[u].mute \/ u \in discarded'
                      /\ u \in discarded' => ~Current(u)' /\ (u \in voice.told => u \in crossed')
                      /\ u \in voice.way => Current(u)' \/ u \in crossed'
    BY <1>0 DEF AuditInv
  <2>1. ~Current(u)'
    <3>1. turns[u].gen <= gen /\ turns[u].gen \in Nat BY LimitsAssumption DEF TurnsInv, CopilotTypes, TurnRow
    <3>2. turns'[u].gen # gen' BY <3>1, <1>a, <1>g
    <3> QED BY <3>2 DEF Current
  <2>2. turns'[u].text /\ turns'[u].cut => turns'[u].mute \/ u \in discarded'
    BY <1>g, <1>0 DEF AuditInv
  <2>3. u \in voice.way => u \in crossed' BY <1>0
  <2>4. u \in discarded' /\ u \in voice.told => u \in crossed'
    <3>1. CASE u \in discarded BY <3>1, <1>0 DEF AuditInv
    <3>2. CASE u \notin discarded /\ u = t
      <4>1. t \in voice.told => FALSE
        BY <1>2 DEF PlaceInv, TurnsInv, t
      <4> QED BY <4>1, <3>2
    <3>3. CASE u \notin discarded /\ u # t BY <3>3, <1>0
    <3> QED BY <3>1, <3>2, <3>3
  <2> QED BY <2>1, <2>2, <2>3, <2>4
<1>h. (session = "over" => hang # "waiting")' BY <1>0
<1> QED BY <1>4, <1>6, <1>7, <1>8, <1>9, <1>r, <1>u, <1>h DEF CopilotInv

\* What a step leaves of the turns, when at most t is completed by it.
SameBut(t) ==
  /\ turns' \in [Turns -> TurnRow] /\ turns'[t].completed
  /\ \A u \in Turns : /\ turns'[u].known = turns[u].known /\ turns'[u].gen = turns[u].gen /\ turns'[u].cut = turns[u].cut
                      /\ turns'[u].input = turns[u].input /\ turns'[u].calls = turns[u].calls
                      /\ turns'[u].text = turns[u].text
                      /\ u # t => turns'[u].completed = turns[u].completed /\ turns'[u].mute = turns[u].mute

\* Who waits for a turn that is finished goes on.
LEMMA FinishedStep ==
  ASSUME CopilotInv, NEW t \in Turns, server[t] = "running", turns[t].known, Finished(t), SameBut(t),
         UNCHANGED <<session, said, context, gen, toolVars, endVars, crossed, adrift>>,
         voice' \in VoiceRow, discarded' \in SUBSET Turns,
         \A c, e \in Calls : <<c, e>> \in waits => c[1] # t,
         \A u \in Turns : u # t /\ u \in voice.way => u \in voice'.way
  PROVE  /\ CopilotTypes' /\ CountInv' /\ PlaceInv' /\ SoloInv' /\ ToolInv' /\ ReaskInv'
         /\ \A u \in Turns : server'[u] = server[u] \/ (server[u] = "none" /\ server'[u] = "asked")
         /\ \A u \in Turns : server'[u] = "none" => asked'[u] = {}
<1> USE DEF CopilotInv
<1>0. /\ Resumed(t, pending, gen) /\ active' = IF active = t THEN 0 ELSE active
      /\ UNCHANGED <<control, aborted, waits, made, exec, cache, ended, hang>>
  BY DEF Finished, toolVars, endVars
<1>1. PICK n \in 0..MaxWords : n <= said /\ Used(n) /\ (pending # {} => n < said) BY CountIs
<1>a. said \in Nat /\ n \in Nat /\ MaxWords \in Nat /\ gen \in Nat /\ gen \in 0..MaxWords /\ (pending # {} => n < MaxWords)
  BY <1>1, LimitsAssumption DEF CopilotTypes
<1>g. /\ turns' \in [Turns -> TurnRow] /\ turns'[t].completed
      /\ \A u \in Turns : /\ turns'[u].known = turns[u].known /\ turns'[u].gen = turns[u].gen /\ turns'[u].cut = turns[u].cut
                          /\ turns'[u].input = turns[u].input /\ turns'[u].calls = turns[u].calls
                          /\ turns'[u].text = turns[u].text
                          /\ u # t => turns'[u].completed = turns[u].completed /\ turns'[u].mute = turns[u].mute
  BY DEF SameBut
<1>3. \/ Stays(pending) /\ ~(drain.pc = "waiting" /\ drain.turn = t)
      \/ drain.pc = "waiting" /\ drain.turn = t /\ (Rests(pending) \/ Asks(pending, gen, n))
  <2>1. CASE drain.pc = "waiting" /\ drain.turn = t
    <3>1. Looped(pending, gen) BY <2>1, <1>0 DEF Resumed
    <3> QED BY <2>1, <3>1, <1>1, <1>a, LoopedIs
  <2>2. CASE ~(drain.pc = "waiting" /\ drain.turn = t) BY <2>2, <1>0 DEF Resumed, Stays
  <2> QED BY <2>1, <2>2
<1>m. Moves(pending, gen, n) BY <1>3 DEF Moves
<1>5. /\ \A u \in Turns : server'[u] = server[u] \/ (server[u] = "none" /\ server'[u] = "asked")
      /\ \A u \in Turns : server'[u] = "none" => asked'[u] = {}
      /\ \E m \in {n, n + 1} : Used(m)' /\ (m # n => pending # {} /\ pending' = {}) /\ (pending' # {} => pending # {})
      /\ \A u \in Turns : u <= n => pending \cup AskedAfter(u) \subseteq pending' \cup AskedAfter(u)'
  BY <1>1, <1>m, MovesAre
<1>4. CopilotTypes'
  <2>1. /\ pending' \in SUBSET Words /\ drain' \in DrainRow /\ asked' \in [Turns -> SUBSET Words]
        /\ server' \in [Turns -> {"none", "asked", "running", "over"}]
    BY <1>1, <1>3, <1>a, FlowTypes DEF CopilotTypes
  <2>2. active' \in 0..MaxWords BY <1>0, <1>a DEF CopilotTypes
  <2> QED BY <1>0, <1>g, <2>1, <2>2 DEF CopilotTypes
<1>6. CountInv'
  <2>1. PICK m \in {n, n + 1} : Used(m)' /\ (m # n => pending # {} /\ pending' = {}) /\ (pending' # {} => pending # {}) BY <1>5
  <2>2. m \in 0..said' /\ (pending' # {} => m < said') BY <2>1, <1>1, <1>a
  <2>3. \E k \in 0..said' : (\A u \in Turns : server'[u] # "none" <=> u <= k) /\ (pending' # {} => k < said')
    BY <2>1, <2>2 DEF Used
  <2>4. drain'.gen <= gen' BY <1>3, <1>a DEF Rests, Idle, Asks, Stays, CountInv
  <2> QED BY <2>3, <2>4 DEF CountInv
<1>7. ASSUME NEW c \in Calls, exec[c] = "approval" PROVE c[1] \in Turns /\ server[c[1]] = "running" /\ ~turns'[c[1]].completed
  <2>1. c[1] \in Turns /\ server[c[1]] = "running" /\ ~turns[c[1]].completed /\ <<c, c>> \in waits
    BY <1>7, CallParts DEF ToolInv
  <2> QED BY <2>1, <1>g
<1>8. PlaceInv' /\ SoloInv'
  <2>1. CASE drain.pc = "waiting" /\ drain.turn = t /\ (Rests(pending) \/ Asks(pending, gen, n))
    <3>0. session = "ready" /\ session' = "ready" BY <2>1 DEF PlaceInv
    <3>1. active' # 0 => /\ active' \in Turns /\ server[active'] = "running" /\ ~turns'[active'].cut
                         /\ turns'[active'].completed => active' \in voice'.way
      BY <2>1, <1>0, <1>g DEF PlaceInv
    <3>2. \A u \in Turns : turns'[u].known => server[u] # "asked"
      BY <2>1, <1>g, <3>0 DEF PlaceInv
    <3>3. \A u \in Turns : server[u] = "none" => ~turns'[u].known /\ ~turns'[u].cut
      BY <1>g DEF TurnsInv
    <3>4. ASSUME adrift' = {}
          PROVE  /\ active' = 0
                 /\ \A u \in Turns : server[u] \in {"asked", "running"} => turns'[u].cut \/ turns'[u].completed
                 /\ \A c \in Calls : exec'[c] = "approval" => turns'[c[1]].cut /\ c \in aborted'
      <4>1. active' = 0 BY <3>4, <3>0, <2>1, <1>0 DEF SoloInv
      <4>2. \A u \in Turns : server[u] \in {"asked", "running"} => turns'[u].cut \/ turns'[u].completed
        BY <3>4, <3>0, <2>1, <1>g DEF SoloInv, On
      <4>3. \A c \in Calls : exec'[c] = "approval" => turns'[c[1]].cut /\ c \in aborted'
        BY <3>4, <4>2, <1>7, <1>0, <1>g DEF SoloInv
      <4> QED BY <4>1, <4>2, <4>3
    <3>5. CopilotTypes /\ TurnsInv /\ (Rests(pending) \/ Asks(pending, gen', n)) BY <2>1
    <3> HIDE DEF CopilotInv
    <3> QED BY <1>1, <1>4, <3>0, <3>1, <3>2, <3>3, <3>4, <3>5, LoopPlaces
  <2>2. CASE Stays(pending) /\ ~(drain.pc = "waiting" /\ drain.turn = t)
    <3>0. drain' = drain /\ server' = server BY <2>2 DEF Stays
    <3>1. PlaceInv'
      <4>1. drain'.pc # "idle" => /\ session' = "ready" /\ drain'.turn \in Turns /\ server'[drain'.turn] \in {"asked", "running"}
                                  /\ drain'.gen = gen' => ~turns'[drain'.turn].cut
        BY <3>0, <1>g DEF PlaceInv
      <4>2. active' # 0 => /\ active' \in Turns /\ server'[active'] \in {"asked", "running"} /\ ~turns'[active'].cut
                           /\ turns'[active'].completed => active' \in voice'.way
                           /\ server'[active'] = "asked" => drain'.pc = "waiting" /\ drain'.turn = active'
        BY <3>0, <1>g, <1>0 DEF PlaceInv
      <4>3. session' # "over" => \A u \in Turns : turns'[u].known /\ server'[u] = "asked" => drain'.pc = "waiting" /\ drain'.turn = u
        BY <3>0, <1>g DEF PlaceInv
      <4> QED BY <4>1, <4>2, <4>3 DEF PlaceInv
    <3>2. SoloInv'
      <4> SUFFICES ASSUME adrift = {} PROVE SoloInv' BY DEF SoloInv
      <4>1. \A u \in Turns : On(u)' => On(u) BY <3>0, <1>g DEF On
      <4>2. \A c \in Calls : turns'[c[1]].cut = turns[c[1]].cut BY <1>g, CallParts
      <4>3. drain.pc # "idle" => turns'[drain.turn].cut = turns[drain.turn].cut BY <1>g DEF PlaceInv
      <4> QED BY <4>1, <4>2, <4>3, <3>0, <1>0, <1>g DEF SoloInv
    <3> QED BY <3>1, <3>2
  <2> QED BY <1>3, <2>1, <2>2
<1>9. ToolInv'
  <2>1. \A c, e \in Calls : <<c, e>> \in waits /\ server[c[1]] = "running" =>
          /\ server'[c[1]] = "running" /\ turns'[c[1]].completed = turns[c[1]].completed /\ turns'[c[1]].calls = turns[c[1]].calls
    BY <1>5, <1>g, CallParts
  <2> QED BY <2>1, <1>0 DEF ToolInv
<1>r. ReaskInv'
  <2> SUFFICES ASSUME session # "over", ~ended, NEW u \in Turns, turns[u].cut
               PROVE  turns[u].input \subseteq pending' \cup AskedAfter(u)'
    BY <1>g, <1>0 DEF ReaskInv
  <2>1. server[u] # "none" BY DEF TurnsInv
  <2>2. u <= n BY <2>1, <1>1 DEF Used
  <2>3. turns[u].input \subseteq pending \cup AskedAfter(u) BY DEF ReaskInv
  <2> QED BY <2>2, <2>3, <1>5
<1> QED BY <1>4, <1>5, <1>6, <1>8, <1>9, <1>r

\* What the turns' own invariant needs of a step that completes t.
LEMMA FinishedTurns ==
  ASSUME CopilotInv, NEW t \in Turns, server[t] = "running", turns[t].known, SameBut(t), gen' = gen, session' = session,
         turns'[t].mute => turns'[t].completed,
         \A u \in Turns : u # t => turns'[u] = turns[u],
         \A u \in Turns : server'[u] = server[u] \/ (server[u] = "none" /\ server'[u] = "asked"),
         \A u \in Turns : server'[u] = "none" => asked'[u] = {},
         \A u \in Turns : u \in discarded' => u \in discarded \/ u = t,
         \A u \in Turns : u \in voice'.way => u \notin voice'.told /\ (u = t \/ u \in voice.way),
         \A u \in Turns : u \in voice'.told => u = t \/ u \in voice.told
  PROVE  TurnsInv'
<1> USE DEF CopilotInv, SameBut
<1>1. \A u \in Turns : ~turns'[u].known => turns'[u] = Unknown BY DEF TurnsInv
<1>2. \A u \in Turns : /\ turns'[u].known => server'[u] \in {"asked", "running"}
                       /\ server'[u] = "running" /\ session' # "over" => turns'[u].known
                       /\ server'[u] = "none" => asked'[u] = {}
                       /\ turns'[u].gen <= gen'
  BY DEF TurnsInv
<1>3. \A u \in Turns : /\ turns'[u].cut \/ turns'[u].text => turns'[u].calls > 0
                       /\ turns'[u].calls > 0 \/ turns'[u].completed => server'[u] = "running"
                       /\ turns'[u].mute => turns'[u].completed
  BY DEF TurnsInv
<1>4. \A u \in Turns : /\ u \in voice'.way => turns'[u].completed /\ u \notin voice'.told
                       /\ u \in voice'.told => turns'[u].completed
                       /\ u \in discarded' => turns'[u].known
  BY DEF TurnsInv
<1> QED BY <1>1, <1>2, <1>3, <1>4 DEF TurnsInv

\* The agent completes a turn.
LEMMA TurnCompletedStep ==
  ASSUME CopilotInv, NEW t \in Turns, TurnCompleted(t)
  PROVE  CopilotInv'
<1> USE DEF CopilotInv
<1>0. /\ server[t] = "running" /\ ~turns[t].completed /\ session # "over" /\ turns[t].known
      /\ UNCHANGED <<session, said, context, gen, toolVars, endVars, crossed, adrift>>
      /\ \A c, e \in Calls : <<c, e>> \in waits => c[1] # t
  <2>1. \A w \in waits : w[1][1] # t BY DEF TurnCompleted
  <2>2. \A c, e \in Calls : <<c, e>> \in waits => c[1] # t BY <2>1
  <2> QED BY <2>2 DEF TurnCompleted, TurnsInv
<1>1. PICK mute \in BOOLEAN :
        /\ mute => turns[t].text
        /\ turns' = [turns EXCEPT ![t].completed = TRUE, ![t].mute = mute]
        /\ \/ /\ turns[t].text /\ ~mute /\ Current(t) /\ voice' = [voice EXCEPT !.way = @ \cup {t}]
              /\ UNCHANGED <<pending, drain, asked, server, active, discarded>>
           \/ /\ ~(turns[t].text /\ ~mute /\ Current(t)) /\ Finished(t) /\ voice' = voice
              /\ discarded' = IF turns[t].text /\ ~mute THEN discarded \cup {t} ELSE discarded
  <2>1. PICK mute \in (IF turns[t].text THEN BOOLEAN ELSE {FALSE}) :
          /\ turns' = [turns EXCEPT ![t].completed = TRUE, ![t].mute = mute]
          /\ IF turns[t].text /\ ~mute /\ Current(t)
             THEN /\ voice' = [voice EXCEPT !.way = @ \cup {t}]
                  /\ UNCHANGED <<pending, drain, asked, server, active, discarded>>
             ELSE /\ discarded' = IF turns[t].text /\ ~mute THEN discarded \cup {t} ELSE discarded
                  /\ Finished(t) /\ UNCHANGED voice
    BY DEF TurnCompleted
  <2>2. mute \in BOOLEAN /\ (mute => turns[t].text) OBVIOUS
  <2> QED BY <2>1, <2>2
<1>g. /\ SameBut(t) /\ turns'[t].completed /\ turns'[t].mute = mute /\ \A u \in Turns : u # t => turns'[u] = turns[u]
  <2>1. turns \in [Turns -> TurnRow] /\ turns[t] \in TurnRow BY DEF CopilotTypes
  <2> DEFINE new == [turns[t] EXCEPT !.completed = TRUE, !.mute = mute]
  <2>2. new \in TurnRow BY <2>1 DEF TurnRow
  <2>3. /\ new.completed /\ new.mute = mute /\ new.known = turns[t].known /\ new.gen = turns[t].gen /\ new.cut = turns[t].cut
        /\ new.input = turns[t].input /\ new.calls = turns[t].calls /\ new.text = turns[t].text
    BY <2>1 DEF TurnRow
  <2>4. turns' = [turns EXCEPT ![t] = new] BY <1>1, <2>1
  <2> HIDE DEF new
  <2>5. turns' \in [Turns -> TurnRow] /\ turns'[t] = new /\ \A u \in Turns : u # t => turns'[u] = turns[u]
    BY <2>1, <2>2, <2>4
  <2> QED BY <2>3, <2>5 DEF SameBut
<1>v. voice \in VoiceRow /\ t \notin voice.way /\ t \notin voice.told BY <1>0 DEF CopilotTypes, TurnsInv
<1>c. \A u \in Turns : Current(u)' <=> Current(u) BY <1>g, <1>0 DEF SameBut, Current
<1>2. CASE /\ turns[t].text /\ ~mute /\ Current(t) /\ voice' = [voice EXCEPT !.way = @ \cup {t}]
           /\ UNCHANGED <<pending, drain, asked, server, active, discarded>>
  <2>0. voice' \in VoiceRow /\ voice'.way = voice.way \cup {t} /\ voice'.told = voice.told
    BY <1>2, <1>v DEF VoiceRow
  <2>u. UNCHANGED <<control, aborted, waits, made, exec, cache, ended, hang>> BY <1>0 DEF toolVars, endVars
  <2>1. CopilotTypes' BY <1>0, <1>2, <1>g, <2>0, <2>u DEF CopilotTypes, SameBut
  <2>2. CountInv' BY <1>0, <1>2 DEF CountInv
  <2>3. TurnsInv'
    <3>1. /\ \A u \in Turns : server'[u] = server[u] \/ (server[u] = "none" /\ server'[u] = "asked")
          /\ \A u \in Turns : server'[u] = "none" => asked'[u] = {}
          /\ \A u \in Turns : u \in discarded' => u \in discarded \/ u = t
          /\ gen' = gen /\ session' = session
      BY <1>0, <1>2 DEF TurnsInv
    <3>2. /\ \A u \in Turns : u \in voice'.way => u \notin voice'.told /\ (u = t \/ u \in voice.way)
          /\ \A u \in Turns : u \in voice'.told => u = t \/ u \in voice.told
      BY <1>v, <2>0 DEF TurnsInv
    <3> HIDE DEF CopilotInv
    <3> QED BY <1>0, <1>g, <3>1, <3>2, FinishedTurns
  <2>4. PlaceInv'
    <3>1. active' # 0 => /\ active' \in Turns /\ server'[active'] \in {"asked", "running"} /\ ~turns'[active'].cut
                         /\ turns'[active'].completed => active' \in voice'.way
                         /\ server'[active'] = "asked" => drain'.pc = "waiting" /\ drain'.turn = active'
      BY <1>2, <1>g, <2>0 DEF PlaceInv, SameBut
    <3> QED BY <3>1, <1>0, <1>2, <1>g DEF PlaceInv, SameBut
  <2>5. ToolInv' BY <1>0, <1>2, <1>g, <2>u, CallParts DEF ToolInv, SameBut
  <2>6. SoloInv'
    <3> SUFFICES ASSUME adrift = {} PROVE SoloInv' BY <1>0 DEF SoloInv
    <3>1. \A u \in Turns : On(u)' => On(u) BY <1>2, <1>0, <1>g DEF On, SameBut
    <3>2. \A c \in Calls : turns'[c[1]].cut = turns[c[1]].cut BY <1>g, CallParts DEF SameBut
    <3>3. drain.pc # "idle" => turns'[drain.turn].cut = turns[drain.turn].cut BY <1>g DEF PlaceInv, SameBut
    <3> QED BY <3>1, <3>2, <3>3, <1>0, <1>2, <1>g, <2>u DEF SoloInv, SameBut
  <2>7. ReaskInv' BY <1>0, <1>2, <1>g, <2>u DEF ReaskInv, AskedAfter, SameBut
  <2>8. AuditInv'
    <3> SUFFICES ASSUME NEW u \in Turns
                 PROVE  /\ turns'[u].text /\ turns'[u].cut => turns'[u].mute \/ u \in discarded
                        /\ u \in discarded => ~Current(u) /\ (u \in voice.told => u \in crossed)
                        /\ u \in voice'.way => Current(u) \/ u \in crossed
      BY <1>0, <1>2, <1>c, <2>0 DEF AuditInv
    <3>1. CASE u = t BY <3>1, <1>0, <1>2, <1>g, <1>c DEF AuditInv, Current, SameBut
    <3>2. CASE u # t BY <3>2, <1>0, <1>g, <2>0 DEF AuditInv
    <3> QED BY <3>1, <3>2
  <2>9. (session = "over" => hang # "waiting")' BY <1>0
  <2> QED BY <2>1, <2>2, <2>3, <2>4, <2>5, <2>6, <2>7, <2>8, <2>9 DEF CopilotInv
<1>3. CASE /\ ~(turns[t].text /\ ~mute /\ Current(t)) /\ Finished(t) /\ voice' = voice
           /\ discarded' = IF turns[t].text /\ ~mute THEN discarded \cup {t} ELSE discarded
  <2>0. discarded' \in SUBSET Turns /\ discarded \subseteq discarded' BY <1>3 DEF CopilotTypes
  <2>1. /\ CopilotTypes' /\ CountInv' /\ PlaceInv' /\ SoloInv' /\ ToolInv' /\ ReaskInv'
        /\ \A u \in Turns : server'[u] = server[u] \/ (server[u] = "none" /\ server'[u] = "asked")
        /\ \A u \in Turns : server'[u] = "none" => asked'[u] = {}
    <3>1. voice' \in VoiceRow /\ \A u \in Turns : u # t /\ u \in voice.way => u \in voice'.way BY <1>3, <1>v
    <3> HIDE DEF CopilotInv
    <3> QED BY <1>0, <1>3, <1>g, <2>0, <3>1, FinishedStep
  <2>2. TurnsInv'
    <3>1. /\ \A u \in Turns : u \in discarded' => u \in discarded \/ u = t
          /\ gen' = gen /\ session' = session
      BY <1>0, <1>3
    <3>2. /\ \A u \in Turns : u \in voice'.way => u \notin voice'.told /\ (u = t \/ u \in voice.way)
          /\ \A u \in Turns : u \in voice'.told => u = t \/ u \in voice.told
      BY <1>3 DEF TurnsInv
    <3> HIDE DEF CopilotInv
    <3> QED BY <1>0, <1>g, <2>1, <3>1, <3>2, FinishedTurns
  <2>3. AuditInv'
    <3> SUFFICES ASSUME NEW u \in Turns
                 PROVE  /\ turns'[u].text /\ turns'[u].cut => turns'[u].mute \/ u \in discarded'
                        /\ u \in discarded' => ~Current(u) /\ (u \in voice.told => u \in crossed)
                        /\ u \in voice.way => Current(u) \/ u \in crossed
      BY <1>0, <1>3, <1>c DEF AuditInv
    <3>1. CASE u = t
      <4>1. turns'[t].text = turns[t].text /\ turns'[t].cut = turns[t].cut BY <1>g DEF SameBut
      <4>2. t \in discarded' => ~Current(t) BY <1>0, <1>3 DEF AuditInv
      <4>3. turns'[t].text /\ turns'[t].cut => turns'[t].mute \/ t \in discarded' BY <4>1, <1>3, <1>g
      <4> QED BY <3>1, <4>2, <4>3, <1>v
    <3>2. CASE u # t BY <3>2, <1>0, <1>g, <1>3, <2>0 DEF AuditInv
    <3> QED BY <3>1, <3>2
  <2>4. (session = "over" => hang # "waiting")' BY <1>0
  <2> QED BY <2>1, <2>2, <2>3, <2>4 DEF CopilotInv
<1> QED BY <1>1, <1>2, <1>3

\* The voice has told a result, or could not.
LEMMA ToldStep ==
  ASSUME CopilotInv, NEW t \in Turns, Told(t) \/ NotTold(t)
  PROVE  CopilotInv'
<1> USE DEF CopilotInv
<1>0. /\ t \in voice.way /\ turns[t].completed /\ t \notin voice.told /\ server[t] = "running" /\ turns[t].known
      /\ Finished(t) /\ voice \in VoiceRow
      /\ UNCHANGED <<session, said, context, gen, toolVars, endVars, crossed, adrift>>
  BY DEF Told, NotTold, CopilotTypes, TurnsInv, Unknown
<1>1. \/ /\ voice' = [way |-> voice.way \ {t}, told |-> voice.told \cup {t}] /\ session # "over" /\ Current(t)
         /\ turns' = [turns EXCEPT ![t].given = TRUE] /\ discarded' = discarded
      \/ /\ voice' = [way |-> voice.way \ {t}, told |-> voice.told \cup {t}] /\ (session = "over" \/ ~Current(t))
         /\ turns' = turns /\ discarded' = discarded \cup {t}
      \/ voice' = [voice EXCEPT !.way = @ \ {t}] /\ turns' = turns /\ discarded' = discarded
  BY DEF Told, NotTold
<1>g. /\ SameBut(t) /\ \A u \in Turns : u # t => turns'[u] = turns[u]
      /\ turns'[t].mute = turns[t].mute
  <2>1. turns \in [Turns -> TurnRow] /\ turns[t] \in TurnRow BY DEF CopilotTypes
  <2>2. CASE turns' = turns BY <2>1, <2>2, <1>0 DEF SameBut
  <2>3. CASE turns' = [turns EXCEPT ![t].given = TRUE]
    <3> DEFINE new == [turns[t] EXCEPT !.given = TRUE]
    <3>2. new \in TurnRow BY <2>1 DEF TurnRow
    <3>3. /\ new.completed = turns[t].completed /\ new.mute = turns[t].mute /\ new.known = turns[t].known
          /\ new.gen = turns[t].gen /\ new.cut = turns[t].cut
          /\ new.input = turns[t].input /\ new.calls = turns[t].calls /\ new.text = turns[t].text
      BY <2>1 DEF TurnRow
    <3>4. turns' = [turns EXCEPT ![t] = new] BY <2>3, <2>1
    <3> HIDE DEF new
    <3>5. turns' \in [Turns -> TurnRow] /\ turns'[t] = new /\ \A u \in Turns : u # t => turns'[u] = turns[u]
      BY <2>1, <3>2, <3>4
    <3> QED BY <3>3, <3>5, <1>0 DEF SameBut
  <2> QED BY <2>2, <2>3, <1>1
<1>v. /\ voice' \in VoiceRow /\ voice'.way = voice.way \ {t}
      /\ voice'.told = voice.told \/ voice'.told = voice.told \cup {t}
  BY <1>0, <1>1 DEF VoiceRow
<1>c. \A u \in Turns : Current(u)' <=> Current(u) BY <1>g, <1>0 DEF SameBut, Current
<1>d. discarded' \in SUBSET Turns /\ discarded \subseteq discarded' /\ \A u \in Turns : u \in discarded' => u \in discarded \/ u = t
  BY <1>1 DEF CopilotTypes
<1>w. \A c, e \in Calls : <<c, e>> \in waits => c[1] # t BY <1>0 DEF ToolInv
<1>2. /\ CopilotTypes' /\ CountInv' /\ PlaceInv' /\ SoloInv' /\ ToolInv' /\ ReaskInv'
      /\ \A u \in Turns : server'[u] = server[u] \/ (server[u] = "none" /\ server'[u] = "asked")
      /\ \A u \in Turns : server'[u] = "none" => asked'[u] = {}
  <2>1. \A u \in Turns : u # t /\ u \in voice.way => u \in voice'.way BY <1>v
  <2> HIDE DEF CopilotInv
  <2> QED BY <1>0, <1>g, <1>v, <1>d, <1>w, <2>1, FinishedStep
<1>3. TurnsInv'
  <2>1. gen' = gen /\ session' = session /\ (turns'[t].mute => turns'[t].completed) BY <1>0, <1>g DEF SameBut
  <2>2. /\ \A u \in Turns : u \in voice'.way => u \notin voice'.told /\ (u = t \/ u \in voice.way)
        /\ \A u \in Turns : u \in voice'.told => u = t \/ u \in voice.told
    BY <1>v DEF TurnsInv
  <2> HIDE DEF CopilotInv
  <2> QED BY <1>0, <1>g, <1>d, <1>2, <2>1, <2>2, FinishedTurns
<1>4. AuditInv'
  <2> SUFFICES ASSUME session # "over", NEW u \in Turns
               PROVE  /\ turns'[u].text /\ turns'[u].cut => turns'[u].mute \/ u \in discarded'
                      /\ u \in discarded' => ~Current(u) /\ (u \in voice'.told => u \in crossed)
                      /\ u \in voice'.way => Current(u) \/ u \in crossed
    BY <1>0, <1>c DEF AuditInv
  <2>1. turns'[u].text /\ turns'[u].cut => turns'[u].mute \/ u \in discarded'
    BY <1>g, <1>d DEF AuditInv, SameBut
  <2>2. u \in voice'.way => Current(u) \/ u \in crossed BY <1>v DEF AuditInv
  <2>3. CASE u = t
    <3>1. t \in discarded' => ~Current(t) BY <1>1 DEF AuditInv
    <3>2. ~Current(t) => t \in crossed BY <1>0 DEF AuditInv
    <3> QED BY <2>1, <2>2, <2>3, <3>1, <3>2
  <2>4. CASE u # t
    <3>1. u \in discarded' => u \in discarded BY <2>4, <1>d
    <3>2. u \in voice'.told => u \in voice.told BY <2>4, <1>v
    <3> QED BY <2>1, <2>2, <3>1, <3>2 DEF AuditInv
  <2> QED BY <2>3, <2>4
<1>5. (session = "over" => hang # "waiting")' BY <1>0 DEF endVars
<1> QED BY <1>2, <1>3, <1>4, <1>5 DEF CopilotInv

\* Nothing of the invariant is about how a variable changes: a step that
\* changes none of them keeps it.
LEMMA CopilotStays ==
  ASSUME CopilotInv, UNCHANGED copilotVars
  PROVE  CopilotInv'
<1> USE DEF CopilotInv, copilotVars
<1>1. CopilotTypes' BY DEF CopilotTypes
<1>2. CountInv' BY DEF CountInv
<1>3. TurnsInv' BY DEF TurnsInv
<1>4. PlaceInv' BY DEF PlaceInv
<1>5. ToolInv' BY DEF ToolInv
<1>6. SoloInv' BY DEF SoloInv, On
<1>7. ReaskInv' BY DEF ReaskInv, AskedAfter
<1>8. AuditInv' BY DEF AuditInv, Current
<1>9. (session = "over" => hang # "waiting")' OBVIOUS
<1> QED BY <1>1, <1>2, <1>3, <1>4, <1>5, <1>6, <1>7, <1>8, <1>9 DEF CopilotInv

\* The copilot starts before the call, with no turn.
LEMMA CopilotStarts ==
  ASSUME Init
  PROVE  CopilotInv
<1> USE DEF Init
<1>0. 0 \in 0..MaxWords /\ 0 \in 0..MaxCalls BY LimitsAssumption
<1>1. CopilotTypes
  <2>1. Idle \in DrainRow /\ Unknown \in TurnRow BY <1>0 DEF Idle, DrainRow, Unknown, TurnRow
  <2>2. turns \in [Turns -> TurnRow] BY <2>1
  <2>3. voice \in VoiceRow BY DEF VoiceRow
  <2>4. NoCall \in Calls \cup {NoCall} OBVIOUS
  <2>5. exec \in [Calls -> {"none", "approval", "run", "ok", "failed", "late"}] OBVIOUS
  <2>6. cache \in [{"write", "end"} -> Calls \cup {NoCall}] OBVIOUS
  <2> QED BY <1>0, <2>1, <2>2, <2>3, <2>4, <2>5, <2>6 DEF CopilotTypes
<1>2. CountInv
  <2>1. \A t \in Turns : server[t] # "none" <=> t <= 0 BY LimitsAssumption DEF Turns
  <2>2. 0 \in 0..said BY <1>0
  <2>3. \E n \in 0..said : (\A t \in Turns : server[t] # "none" <=> t <= n) /\ (pending # {} => n < said)
    BY <2>1, <2>2
  <2> QED BY <2>3 DEF CountInv, Idle
<1>3. TurnsInv BY DEF TurnsInv, Unknown
<1>4. PlaceInv BY DEF PlaceInv, Idle, Unknown
<1>5. ToolInv BY DEF ToolInv
<1>6. SoloInv BY DEF SoloInv, On, Idle
<1>7. ReaskInv BY DEF ReaskInv, Unknown
<1>8. AuditInv BY DEF AuditInv, Unknown
<1> QED BY <1>1, <1>2, <1>3, <1>4, <1>5, <1>6, <1>7, <1>8 DEF CopilotInv

\* Every step keeps the invariant.
LEMMA CopilotSteps ==
  ASSUME CopilotInv, [Next]_copilotVars
  PROVE  CopilotInv'
<1>1. CASE CallStarted \/ StartFails \/ HangUp BY <1>1, EdgeStep
<1>2. CASE ThreadReady BY <1>2, ThreadReadyStep
<1>3. CASE Say BY <1>3, HeardStep, InterruptedStep
<1>4. CASE Dispose BY <1>4, DisposeStep
<1>5. CASE TurnAccepted BY <1>5, TurnAcceptedStep
<1>6. CASE TurnRefused BY <1>6, TurnRefusedStep
<1>7. ASSUME NEW t \in Turns, TurnStarted(t) \/ TurnCompleted(t) \/ Told(t) \/ NotTold(t) PROVE CopilotInv'
  BY <1>7, TurnStartedStep, TurnCompletedStep, ToldStep
<1>8. ASSUME NEW c \in Calls, ToolCall(c) PROVE CopilotInv' BY <1>8, TakenCallStep, RefusedCallStep
<1>9. ASSUME NEW c \in Calls, CachedAnswer(c) PROVE CopilotInv' BY <1>9, CachedStep
<1>10. ASSUME NEW c \in Calls, Denied(c) PROVE CopilotInv'
  <2>1. Over(c, "failed") /\ exec[c] \in {"approval", "run"} BY <1>10 DEF Denied
  <2> QED BY <2>1, OverStep
<1>11. ASSUME NEW c \in Calls, Approved(c) PROVE CopilotInv'
  <2>1. CASE c \in aborted
    <3>1. Over(c, "failed") /\ exec[c] \in {"approval", "run"} BY <1>11, <2>1 DEF Approved
    <3> QED BY <3>1, OverStep
  <2>2. CASE c \notin aborted BY <1>11, <2>2, RunStep
  <2> QED BY <2>1, <2>2
<1>12. ASSUME NEW c \in Calls, ToolEnds(c) PROVE CopilotInv'
  <2>1. PICK outcome \in {"ok", "failed", "late"} : Over(c, outcome) /\ exec[c] \in {"approval", "run"}
    BY <1>12 DEF ToolEnds
  <2> QED BY <2>1, OverStep
<1>13. CASE UNCHANGED copilotVars BY <1>13, CopilotStays
<1> QED BY <1>1, <1>2, <1>3, <1>4, <1>5, <1>6, <1>7, <1>8, <1>9, <1>10, <1>11, <1>12, <1>13 DEF Next

\* What the invariant says of a state of the copilot.
LEMMA CopilotGives ==
  ASSUME CopilotInv
  PROVE  TypeOK /\ InterruptedIsReasked /\ ResultAccounted /\ DiscardedIsUnheard /\ RunsOnce /\ NoHangupOutlives
<1> USE DEF CopilotInv
<1>1. TypeOK
  <2>1. voice.way \cup voice.told \subseteq Turns BY DEF CopilotTypes, VoiceRow
  <2> QED BY <2>1 DEF TypeOK, CopilotTypes, DrainRow, TurnRow
<1>2. InterruptedIsReasked BY DEF InterruptedIsReasked, ReaskInv, AskedAfter
<1>3. ResultAccounted BY DEF ResultAccounted, AuditInv
<1>4. DiscardedIsUnheard BY DEF DiscardedIsUnheard, AuditInv, CopilotTypes, VoiceRow
<1>5. RunsOnce
  <2> DEFINE S == {c \in Calls : c[2] = "write" /\ exec[c] \in {"run", "ok"}}
  <2>1. S \subseteq {cache["write"]} BY DEF ToolInv
  <2>2. IsFiniteSet({cache["write"]}) /\ Cardinality({cache["write"]}) = 1 BY FS_Singleton
  <2>3. IsFiniteSet(S) /\ Cardinality(S) <= Cardinality({cache["write"]}) BY <2>1, <2>2, FS_Subset
  <2>4. Cardinality(S) \in Nat BY <2>3, FS_CardinalityType
  <2> QED BY <2>2, <2>3, <2>4 DEF RunsOnce
<1>6. NoHangupOutlives BY DEF NoHangupOutlives
<1> QED BY <1>1, <1>2, <1>3, <1>4, <1>5, <1>6

\* What interrupted an approval also aborted it.
StartsUncut == adrift = {} => \A c \in Calls : exec[c] = "approval" /\ exec'[c] = "run" => ~turns[c[1]].cut
LEMMA CopilotStartsUncut ==
  ASSUME CopilotInv, [Next]_copilotVars
  PROVE  StartsUncut
<1> SUFFICES ASSUME adrift = {}, NEW c \in Calls, exec[c] = "approval", exec'[c] = "run", turns[c[1]].cut PROVE FALSE
  BY DEF StartsUncut
<1>0. exec \in [Calls -> {"none", "approval", "run", "ok", "failed", "late"}] BY DEF CopilotInv, CopilotTypes
<1>1. exec' # exec OBVIOUS
<1>2. ~(CallStarted \/ ThreadReady \/ StartFails \/ Say \/ Dispose \/ TurnAccepted \/ TurnRefused \/ HangUp)
  BY <1>1 DEF CallStarted, ThreadReady, StartFails, Say, Dispose, TurnAccepted, TurnRefused, HangUp, toolVars
<1>3. \A t \in Turns : ~(TurnStarted(t) \/ TurnCompleted(t) \/ Told(t) \/ NotTold(t))
  BY <1>1 DEF TurnStarted, TurnCompleted, Told, NotTold, toolVars
<1>4. \A e \in Calls : ~CachedAnswer(e) BY <1>1 DEF CachedAnswer
<1>5. ASSUME NEW e \in Calls, NEW outcome \in {"ok", "failed", "late"}, Over(e, outcome) PROVE FALSE
  <2>1. exec' = [exec EXCEPT ![e] = outcome] BY <1>5 DEF Over
  <2> QED BY <2>1, <1>0
<1>6. ASSUME NEW e \in Calls, ToolCall(e) PROVE FALSE
  <2>1. exec' = exec \/ exec' = [exec EXCEPT ![e] = "ok"] \/ exec' = [exec EXCEPT ![e] = "approval"]
    BY <1>6 DEF ToolCall
  <2> QED BY <2>1, <1>0
<1>7. ASSUME NEW e \in Calls, Approved(e) PROVE FALSE
  <2>1. CASE e \in aborted
    <3>1. Over(e, "failed") BY <1>7, <2>1 DEF Approved
    <3> QED BY <3>1, <1>5
  <2>2. CASE e \notin aborted
    <3>1. exec' = [exec EXCEPT ![e] = "run"] BY <1>7, <2>2 DEF Approved
    <3>2. c = e BY <3>1, <1>0
    <3> QED BY <3>2, <2>2 DEF CopilotInv, SoloInv
  <2> QED BY <2>1, <2>2
<1>8. \A e \in Calls : ~Denied(e) BY <1>5 DEF Denied
<1>9. \A e \in Calls : ~ToolEnds(e) BY <1>5 DEF ToolEnds
<1> QED BY <1>1, <1>2, <1>3, <1>4, <1>6, <1>7, <1>8, <1>9 DEF Next, copilotVars

\* The copilot of a call keeps what it promises.
LEMMA CopilotSafe ==
  Init /\ [][Next]_copilotVars =>
    [](TypeOK /\ InterruptedIsReasked /\ ResultAccounted /\ DiscardedIsUnheard /\ RunsOnce /\ NoHangupOutlives)
    /\ InterruptedNeverStarts
<1>1. Init => CopilotInv BY CopilotStarts
<1>2. CopilotInv /\ [Next]_copilotVars => CopilotInv' BY CopilotSteps
<1>3. CopilotInv => TypeOK /\ InterruptedIsReasked /\ ResultAccounted /\ DiscardedIsUnheard /\ RunsOnce /\ NoHangupOutlives
  BY CopilotGives
<1>4. CopilotInv /\ [Next]_copilotVars
        => [adrift = {} => \A c \in Calls : exec[c] = "approval" /\ exec'[c] = "run" => ~turns[c[1]].cut]_copilotVars
  BY CopilotStartsUncut DEF StartsUncut
<1> QED BY <1>1, <1>2, <1>3, <1>4, PTL DEF InterruptedNeverStarts

-----------------------------------------------------------------------------
(* The model *)

\* A behaviour of the model is one of every module in it.
LEMMA PartsRun ==
  MCSpec => /\ Answers!Spec /\ Contact!Spec /\ Gate!Spec /\ Rules!Spec /\ Campaign!Spec
            /\ Crm!Init /\ [][Crm!Next]_(Crm!clientVars)
            /\ Client!Init /\ [][Client!Next]_(Client!appVars)
            /\ Extract!Init /\ [][Extract!Next]_(Extract!extractVars)
            /\ Tools!Init /\ [][Tools!Next]_(Tools!toolVars)
            /\ Init /\ [][Next]_copilotVars
<1>1. MCInit => /\ Answers!Init /\ Contact!Init /\ Gate!Init /\ Rules!Init /\ Campaign!Init /\ Crm!Init
                /\ Client!Init /\ Extract!Init /\ Tools!Init /\ Init
    BY DEF MCInit
<1>2. [MCNext]_vars => /\ [Answers!Next]_(Answers!vars) /\ [Contact!Next]_(Contact!vars)
                       /\ [Gate!Next]_(Gate!gateVars) /\ [Rules!Next]_(Rules!vars)
                       /\ [Campaign!Next]_(Campaign!vars) /\ [Crm!Next]_(Crm!clientVars)
                       /\ [Client!Next]_(Client!appVars) /\ [Extract!Next]_(Extract!extractVars)
                       /\ [Tools!Next]_(Tools!toolVars) /\ [Next]_copilotVars
    <2>1. ASSUME MCNext PROVE /\ Answers!Next \/ UNCHANGED kVars
                              /\ Contact!Next \/ UNCHANGED cVars
                              /\ Gate!Next \/ UNCHANGED gVars
                              /\ Rules!Next \/ UNCHANGED rVars
                              /\ Campaign!Next \/ UNCHANGED dVars
                              /\ Crm!Next \/ UNCHANGED zVars
                              /\ Client!Next \/ UNCHANGED aVars
                              /\ Extract!Next \/ UNCHANGED eVars
                              /\ Tools!Next \/ UNCHANGED tVars
                              /\ Next \/ UNCHANGED copilotVars
        BY <2>1, Zenon DEF MCNext
    <2>2. ASSUME UNCHANGED vars PROVE UNCHANGED <<kVars, cVars, gVars, rVars, dVars, zVars, aVars, eVars, tVars, copilotVars>>
        BY <2>2, Zenon DEF vars
    <2>3. /\ UNCHANGED kVars => UNCHANGED Answers!vars
          /\ UNCHANGED cVars => UNCHANGED Contact!vars
          /\ UNCHANGED gVars => UNCHANGED Gate!gateVars
          /\ UNCHANGED rVars => UNCHANGED Rules!vars
          /\ UNCHANGED dVars => UNCHANGED Campaign!vars
          /\ UNCHANGED zVars => UNCHANGED Crm!clientVars
          /\ UNCHANGED aVars => UNCHANGED Client!appVars
          /\ UNCHANGED eVars => UNCHANGED Extract!extractVars
          /\ UNCHANGED tVars => UNCHANGED Tools!toolVars
        BY DEF kVars, cVars, gVars, rVars, dVars, zVars, aVars, eVars, tVars, Answers!vars, Contact!vars, Gate!gateVars,
               Rules!vars, Campaign!vars, Crm!clientVars, Client!appVars, Extract!extractVars, Tools!toolVars
    <2> QED BY <2>1, <2>2, <2>3
<1> QED BY <1>1, <1>2, PTL DEF MCSpec, Answers!Spec, Contact!Spec, Gate!Spec, Rules!Spec, Campaign!Spec

\* Whatever approvals, restarts, late answers and calls of the owner come in
\* between, the day, the minute and the switch keep their limits; whatever is
\* edited and proved, a caller hears what they may; and what is known of a
\* contact is kept.
THEOREM LimitsAreKept == MCSpec => LimitsPromise
BY PartsRun, AnswersSafe, ContactSafe, GateSafe, PTL DEF LimitsPromise

\* Whatever a client writes as a policy, and whoever is dialled when, the calls
\* go by what was written, by the day, the list and the limit of it.
THEOREM PolicyIsKept == MCSpec => []PolicyPromise
BY PartsRun, RulesSafe, PTL DEF PolicyPromise

\* Whatever clients write of campaigns, and wherever the application stops
\* between two writes, a campaign is there to be selected; and whatever the
\* operator saves while the CRM is waited for, the note is added once, where
\* its customer is.
THEOREM DirectoryIsKept == MCSpec => DirectoryPromise
BY PartsRun, CampaignsSafe, CrmSafe, PTL DEF DirectoryPromise

\* However the process of the app-server exits, refuses, is slow or comes back
\* between the steps of two starts, nothing is asked of one that was not
\* initialised and a session that is left behind is accounted for; and whenever
\* a turn ends, an extraction gives the whole of it and leaves nothing behind.
THEOREM ClientIsKept == MCSpec => ClientPromise
BY PartsRun, ClientSafe, ExtractSafe, PTL DEF ClientPromise

\* However the caller's words, the answers of the app-server, approvals, tools
\* and the end of the call come between each other, the copilot loses no words
\* and no result, runs a tool once, starts none it has aborted and hangs up no
\* later call; and a tool runs for the call whose agent asked for it.
THEOREM CopilotIsKept == MCSpec => CopilotPromise
BY PartsRun, CopilotSafe, ToolsSafe, PTL DEF CopilotPromise
=============================================================================
