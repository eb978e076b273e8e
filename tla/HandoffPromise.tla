--------------------------- MODULE HandoffPromise ---------------------------
(***************************************************************************)
(* What a handoff promises, whatever carries it: a caller the assistant is *)
(* talking to is either taken to the owner, once, or left a message, or    *)
(* the handoff ends because a party is gone.  These are the stages of the  *)
(* handoff of docs/en/adr/0002-secretary-domain-model.md as the machine of *)
(* packages/core/src/handoff keeps them; Handoff implements them.          *)
(***************************************************************************)
EXTENDS Naturals

VARIABLES stage, \* where the handoff stands
          taken  \* how often the caller was told to move to the owner

promiseVars == <<stage, taken>>

PInit == stage = "none" /\ taken = 0

\* Looking for the owner, who may turn out not to be reachable at all.
Seek == stage = "none" /\ stage' \in {"seeking", "message"} /\ taken' = taken

\* Taking the caller to the owner happens once, and only while still looking.
Take == stage = "seeking" /\ stage' = "moving" /\ taken' = taken + 1

Meet == stage = "moving" /\ stage' = "together" /\ taken' = taken

\* A party is gone: the pair is over, or the search is called off.
Part == /\ \/ stage \in {"moving", "together"} /\ stage' = "over"
           \/ stage = "seeking" /\ stage' = "cancelled"
        /\ taken' = taken

\* Whatever goes wrong before the end, the caller may leave a message.
GiveUp == /\ stage \in {"seeking", "moving", "together"}
          /\ stage' = "message" /\ taken' = taken

PNext == Seek \/ Take \/ Meet \/ Part \/ GiveUp

PSpec == PInit /\ [][PNext]_promiseVars
=============================================================================
