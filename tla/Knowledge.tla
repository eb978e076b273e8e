----------------------------- MODULE Knowledge -----------------------------
(***************************************************************************)
(* What the assistant may tell a caller: disclose (packages/core/src/      *)
(* knowledge) sorts the items a question found into those it may speak of  *)
(* and those it withholds, by the tenant, the visibility, the age and the  *)
(* conflicts of an item, and by how far the caller is trusted.             *)
(* The items, which an owner edits between two questions, and the caller,  *)
(* whose trust grows when they verify themselves, are the state.           *)
(***************************************************************************)
EXTENDS Integers, FiniteSets

CONSTANTS Items     \* the items the retriever found for the caller's question

VARIABLES item,     \* item -> its attributes
          trust,    \* trust level of the caller
          told      \* the result of the last question, with the trust it was asked under

vars == <<item, trust, told>>

Trusts == <<"unverified", "number_match", "verified_contact", "verified_vip">>
Level(t) == CHOOSE i \in 1..4 : Trusts[i] = t
Sensitive == {"none", "personal", "credential"}
Attributes == [tenant : {"ours", "theirs"}, visibility : {"public", "known", "vip", "never", "unknown"},
               sensitive : Sensitive, stale : BOOLEAN, conflictsWith : SUBSET Items]

\* DECISION_STRICTNESS
Strictness == [deny |-> 4, transfer_to_owner |-> 3, verification_required |-> 2, allow |-> 1,
               no_match |-> 0]

\* What is missing or unknown is never disclosed.
ClassifyVisibility(i) == IF item[i].visibility = "unknown" THEN "never" ELSE item[i].visibility

MatrixDecision(t, v) ==
  CASE v = "never" -> "deny"
    [] v = "public" -> "allow"
    [] v = "known" -> IF Level(t) >= 3 THEN "allow" ELSE "verification_required"
    [] OTHER -> IF t = "verified_vip" THEN "allow"
                ELSE IF t = "number_match" THEN "verification_required" ELSE "transfer_to_owner"

\* applySensitiveStepUp makes an allowed item stricter by its category.
StepUp(decision, category, t) ==
  IF category = "none" \/ decision # "allow" THEN decision
  ELSE IF category = "credential" THEN "transfer_to_owner"
  ELSE IF t = "verified_vip" THEN decision
  ELSE IF t = "verified_contact" THEN "verification_required" ELSE "transfer_to_owner"

Decision(i, t) == StepUp(MatrixDecision(t, ClassifyVisibility(i)), item[i].sensitive, t)

Ours == {i \in Items : item[i].tenant = "ours"}
Shown == {i \in Ours : ClassifyVisibility(i) # "never"}
Fresh == {i \in Shown : ~item[i].stale}
\* Mutant: only the item that names the other is withheld.
Conflicting_onesided == {i \in Fresh : \E j \in Fresh : j \in item[i].conflictsWith /\ i # j /\ j \notin {}}
\* Both sides of a conflict are withheld, whichever names the other.
Conflicting == {i \in Fresh : \E j \in Fresh : i \in item[j].conflictsWith \/ j \in item[i].conflictsWith}
Live == Fresh \ Conflicting

Strictest(decisions) ==
  CHOOSE d \in decisions : \A e \in decisions : Strictness[d] >= Strictness[e]

Disclose(t) ==
  LET allowed == {i \in Live : Decision(i, t) = "allow"}
      decision == IF Shown = {} THEN IF Ours # {} THEN "deny" ELSE "no_match"
                  ELSE IF Live = {} THEN "verification_required"
                  ELSE Strictest({Decision(i, t) : i \in Live})
  IN  [decision |-> decision, allowed |-> allowed, withheld |-> Items \ allowed]

Init ==
  /\ item \in {f \in [Items -> Attributes] : \A i \in Items : ~f[i].stale}
  /\ trust = Trusts[1]
  /\ told = [decision |-> "no_match", allowed |-> {}, withheld |-> Items]

Ask ==
  /\ told' = Disclose(trust)
  /\ UNCHANGED <<item, trust>>

\* The caller is recognised, or verifies themselves, between two questions.
Trusted ==
  /\ \E t \in {Trusts[i] : i \in 1..4} : Level(t) > Level(trust) /\ trust' = t
  /\ UNCHANGED <<item, told>>

\* Time passes, or the owner marks an item as private.
Restricted ==
  /\ \E i \in Items :
       \/ ~item[i].stale /\ item' = [item EXCEPT ![i].stale = TRUE]
       \/ item[i].visibility # "never" /\ item' = [item EXCEPT ![i].visibility = "never"]
  /\ UNCHANGED <<trust, told>>

Next == Ask \/ Trusted \/ Restricted
Spec == Init /\ [][Next]_vars

TypeOK == trust \in {Trusts[i] : i \in 1..4} /\ told.decision \in DOMAIN Strictness

\* Whatever the caller proves, they never hear another tenant's item, one kept
\* private or of unknown visibility, an outdated one, a credential, or one
\* that another contradicts, whichever of the two says so.
NeverTold ==
  \A t \in {Trusts[i] : i \in 1..4} : \A i \in Disclose(t).allowed :
    /\ item[i].tenant = "ours" /\ item[i].visibility \in {"public", "known", "vip"}
    /\ ~item[i].stale /\ item[i].sensitive # "credential"
    /\ \A j \in Fresh : i \notin item[j].conflictsWith /\ j \notin item[i].conflictsWith

\* Verifying never costs a caller what they could hear before, although the
\* decision on the whole may become stricter (the matrix and the step-up):
\* what is no longer told has expired, been restricted or contradicted.
TrustOnlyAdds == [][\A i \in told.allowed \ told'.allowed : i \notin Live]_vars

\* An answer given as a whole keeps nothing back that was still valid.
AllowedIsComplete ==
  \A t \in {Trusts[i] : i \in 1..4} :
    Disclose(t).decision = "allow" => Live \subseteq Disclose(t).allowed /\ Live # {}
=============================================================================
