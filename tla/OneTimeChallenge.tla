-------------------------- MODULE OneTimeChallenge --------------------------
(***************************************************************************)
(* What the challenge store of the admin's passkeys promises: a challenge  *)
(* is issued once for one flow, and accepted at most once, for that flow   *)
(* and before it expires.  Passkeys implements it.                         *)
(***************************************************************************)
CONSTANTS Tokens, Flows

VARIABLES
    phase,      \* of each token: "fresh", "closed", or the flow it is open for
    accepted    \* the pairs of a token and a flow that were accepted

Init == phase = [k \in Tokens |-> "fresh"] /\ accepted = {}

Issue(k, f) == /\ phase[k] = "fresh"
               /\ phase' = [phase EXCEPT ![k] = f]
               /\ UNCHANGED accepted

Accept(k, f) == /\ phase[k] = f
                /\ phase' = [phase EXCEPT ![k] = "closed"]
                /\ accepted' = accepted \cup {<<k, f>>}

\* Challenges are closed unused: expired, answered in the wrong flow, or lost
\* with the process.
Close == /\ phase' \in [Tokens -> Flows \cup {"fresh", "closed"}]
         /\ \A k \in Tokens : phase'[k] # phase[k] => phase[k] \in Flows /\ phase'[k] = "closed"
         /\ UNCHANGED accepted

Next == Close \/ \E k \in Tokens, f \in Flows : Issue(k, f) \/ Accept(k, f)

Spec == Init /\ [][Next]_<<phase, accepted>>
=============================================================================
