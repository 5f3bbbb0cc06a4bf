--------------------------- MODULE PasskeysProofs ---------------------------
(***************************************************************************)
(* The admin's passkeys, for any number of browsers, challenges and        *)
(* credentials.  The handlers hold no lock between their check and what    *)
(* they do after it; Alone says what a registration that is past its check *)
(* may still rely on, as long as it is the only one.                       *)
(***************************************************************************)
EXTENDS Passkeys, FiniteSetTheorems, TLAPS

USE NothingAssumption

Finishing(c) == handling[c].pc \in {"get", "add"}

\* A registration that was let in without a session finds the table empty
\* until it adds its own credential; no other one is under way.
Alone ==
    ~raced =>
        /\ \A c, d \in Clients : Finishing(c) /\ Finishing(d) => c = d
        /\ \A c \in Clients : Finishing(c) /\ handling[c].anon => creds = {}
        /\ \A x, y \in anonymous : x = y

PInv == PkTypeOK /\ Alone

-----------------------------------------------------------------------------
(* A set whose elements are all the same has at most one.                  *)
LEMMA AtMostOne == ASSUME NEW S, \A x, y \in S : x = y PROVE Cardinality(S) <= 1
<1>1. CASE S = {}
  BY <1>1, FS_EmptySet
<1>2. CASE S # {}
  <2>1. PICK x \in S : TRUE
    BY <1>2
  <2>2. S = {x}
    BY <2>1
  <2>3. Cardinality({x}) = 1
    BY FS_Singleton
  <2> QED BY <2>2, <2>3
<1> QED BY <1>1, <1>2

LEMMA InitPInv == PkInit => PInv
<1> SUFFICES ASSUME PkInit PROVE PInv
  OBVIOUS
<1>1. PkTypeOK
  BY DEF PkInit, PkTypeOK, NoRequest, PCs, At
<1>2. Alone
  BY DEF PkInit, Alone, NoRequest, Finishing, At
<1> QED BY <1>1, <1>2 DEF PInv

\* The challenges in memory.
Entries == [Tokens -> [flow : Flows, expired : BOOLEAN] \cup {Nothing}]

(* Set and Get keep the store of challenges well formed.                   *)
LEMMA SetTyped ==
    ASSUME NEW flow \in Flows, sessions \in Entries, issued \subseteq Tokens, Set(flow)
    PROVE  sessions' \in Entries /\ issued' \subseteq Tokens /\ issued \subseteq issued'
  BY DEF Set, Entries

LEMMA GetTyped ==
    ASSUME NEW k \in Tokens, NEW flow \in Flows, sessions \in Entries,
           accepted \subseteq Tokens \X Flows, Get(k, flow)
    PROVE  sessions' \in Entries /\ accepted' \subseteq Tokens \X Flows
  BY DEF Get, Entries

RequestType == [Clients -> [pc : PCs, arg : Tokens \cup Creds \cup {Nothing}, anon : BOOLEAN]]

LEMMA GotoTyped ==
    ASSUME NEW c \in Clients, NEW pc \in PCs, NEW arg \in Tokens \cup Creds \cup {Nothing},
           NEW anon \in BOOLEAN, handling \in RequestType, Goto(c, pc, arg, anon)
    PROVE  handling' \in RequestType
  BY DEF Goto, RequestType

(* Every handler of the passkeys keeps the types: a token that a request   *)
(* holds was issued, and what it is to delete is a credential.             *)
LEMMA StepTypeOK == PkTypeOK /\ [PkNext]_pkVars => PkTypeOK'
<1> SUFFICES ASSUME PkTypeOK, [PkNext]_pkVars PROVE PkTypeOK'
  OBVIOUS
<1> USE DEF PkTypeOK, Flows, PCs, NoRequest, At, Goto, Respond, NoteRace, pkHistory
<1>1. ASSUME NEW c \in Clients, RegisterBegin(c) PROVE PkTypeOK'
  BY <1>1 DEF RegisterBegin
<1>2. ASSUME NEW c \in Clients, RegisterBeginSet(c) PROVE PkTypeOK'
  <2>1. sessions' \in Entries /\ issued' \subseteq Tokens /\ issued \subseteq issued'
    BY <1>2, SetTyped DEF RegisterBeginSet, Entries
  <2> QED BY <1>2, <2>1 DEF RegisterBeginSet, Entries
<1>3. ASSUME NEW c \in Clients, NEW k \in issued, RegisterFinish(c, k) PROVE PkTypeOK'
  BY <1>3 DEF RegisterFinish
<1>4. ASSUME NEW c \in Clients, RegisterGet(c) PROVE PkTypeOK'
  <2>1. sessions' \in Entries /\ accepted' \subseteq Tokens \X Flows
    BY <1>4, GetTyped DEF RegisterGet, Entries
  <2>2. Goto(c, "add", Nothing, handling[c].anon) \/ Goto(c, "idle", Nothing, FALSE)
    BY <1>4 DEF RegisterGet
  <2>3. handling' \in RequestType
    BY <2>2, GotoTyped DEF RequestType
  <2> QED BY <1>4, <2>1, <2>3 DEF RegisterGet, Entries, RequestType
<1>5. ASSUME NEW c \in Clients, RegisterAdd(c) PROVE PkTypeOK'
  BY <1>5 DEF RegisterAdd
<1>6. ASSUME NEW c \in Clients, LoginBegin(c) PROVE PkTypeOK'
  <2>1. sessions' \in Entries /\ issued' \subseteq Tokens /\ issued \subseteq issued'
    BY <1>6, SetTyped DEF LoginBegin, Entries
  <2> QED BY <1>6, <2>1 DEF LoginBegin, Entries
<1>7. ASSUME NEW c \in Clients, NEW k \in issued, LoginFinish(c, k) PROVE PkTypeOK'
  <2>1. sessions' \in Entries /\ accepted' \subseteq Tokens \X Flows
    BY <1>7, GetTyped DEF LoginFinish, Entries
  <2>2. Goto(c, "verify", Nothing, FALSE) \/ UNCHANGED handling
    BY <1>7 DEF LoginFinish
  <2>3. handling' \in RequestType
    BY <2>2, GotoTyped DEF RequestType
  <2> QED BY <1>7, <2>1, <2>3 DEF LoginFinish, Entries, RequestType
<1>8. ASSUME NEW c \in Clients, LoginFinishVerify(c) PROVE PkTypeOK'
  BY <1>8 DEF LoginFinishVerify
<1>9. ASSUME NEW c \in Clients, Logout(c) PROVE PkTypeOK'
  BY <1>9 DEF Logout
<1>10. ASSUME NEW c \in Clients, NEW x \in creds, DeleteCheck(c, x) PROVE PkTypeOK'
  BY <1>10 DEF DeleteCheck
<1>11. ASSUME NEW c \in Clients, DeleteCredential(c) PROVE PkTypeOK'
  BY <1>11 DEF DeleteCredential
<1>12. ASSUME NEW k \in Tokens, Expire(k) PROVE PkTypeOK'
  BY <1>12 DEF Expire, Expired
<1>13. CASE PkRestart
  BY <1>13 DEF PkRestart
<1>14. CASE UNCHANGED pkVars
  BY <1>14 DEF pkVars
<1> QED BY <1>1, <1>2, <1>3, <1>4, <1>5, <1>6, <1>7, <1>8, <1>9, <1>10, <1>11, <1>12, <1>13, <1>14
        DEF PkNext

(* Registrations finish one at a time, or the race is noted.               *)
LEMMA StepAlone == PInv /\ [PkNext]_pkVars => Alone'
<1> SUFFICES ASSUME PInv, [PkNext]_pkVars, ~raced' PROVE Alone'
  BY DEF Alone
<1> USE DEF Finishing, At, Goto, Respond, NoRequest, pkHistory
<1>0. PkTypeOK /\ Alone
  BY DEF PInv
<1>a. ASSUME UNCHANGED <<creds, anonymous, raced>>,
             \A c \in Clients : Finishing(c)' => Finishing(c) /\ handling'[c].anon = handling[c].anon
      PROVE Alone'
  BY <1>0, <1>a DEF Alone
<1>1. ASSUME NEW c \in Clients, \/ RegisterBegin(c) \/ RegisterBeginSet(c) \/ LoginFinishVerify(c)
                                \/ RegisterGet(c)
      PROVE Alone'
  BY <1>0, <1>1, <1>a DEF PkTypeOK, RegisterBegin, RegisterBeginSet, RegisterGet, LoginFinishVerify
<1>2. ASSUME NEW c \in Clients, \/ LoginBegin(c) \/ Logout(c)
                                \/ \E k \in issued : LoginFinish(c, k)
      PROVE Alone'
  BY <1>0, <1>2, <1>a DEF PkTypeOK, LoginBegin, Logout, LoginFinish
<1>3. ASSUME NEW c \in Clients, NEW k \in issued, RegisterFinish(c, k) PROVE Alone'
  <2>1. ~raced /\ \A d \in Clients \ {c} : ~Finishing(d)
    BY <1>3 DEF RegisterFinish, NoteRace
  <2>2. handling' = [handling EXCEPT ![c] = [pc |-> "get", arg |-> k, anon |-> c \notin cookie]]
    BY <1>3 DEF RegisterFinish
  <2>3. \A d \in Clients : Finishing(d)' => d = c
    BY <1>0, <2>1, <2>2 DEF PkTypeOK
  <2>4. handling'[c].anon => creds = {}
    <3>1. creds # {} => c \in cookie
      BY <1>3 DEF RegisterFinish, FinishAllowed, MayRegister, HasCredentials
    <3>2. CASE c \in cookie
      <4>1. (c \notin cookie) = FALSE
        BY <3>2
      <4> QED BY <1>0, <2>2, <4>1 DEF PkTypeOK
    <3> QED BY <3>1, <3>2
  <2> QED BY <1>0, <1>3, <2>1, <2>3, <2>4 DEF Alone, RegisterFinish
<1>5. ASSUME NEW c \in Clients, RegisterAdd(c) PROVE Alone'
  <2>1. \A d \in Clients : ~Finishing(d)'
    BY <1>0, <1>5 DEF Alone, PkTypeOK, RegisterAdd
  <2>2. \A x, y \in anonymous' : x = y
    BY <1>0, <1>5 DEF Alone, PkTypeOK, RegisterAdd
  <2> QED BY <2>1, <2>2 DEF Alone
<1>6. ASSUME NEW c \in Clients, NEW x \in creds, DeleteCheck(c, x) PROVE Alone'
  BY <1>0, <1>6 DEF Alone, PkTypeOK, DeleteCheck
<1>7. ASSUME NEW c \in Clients, DeleteCredential(c) PROVE Alone'
  BY <1>0, <1>7 DEF Alone, PkTypeOK, DeleteCredential
<1>8. CASE (\E k \in Tokens : Expire(k)) \/ PkRestart
  BY <1>0, <1>8, <1>a DEF PkTypeOK, Expire, PkRestart
<1>9. CASE UNCHANGED pkVars
  BY <1>0, <1>9, <1>a DEF pkVars
<1> QED BY <1>1, <1>2, <1>3, <1>5, <1>6, <1>7, <1>8, <1>9 DEF PkNext

LEMMA AlwaysPInv == PkSpec => []PInv
<1>1. PInv /\ [PkNext]_pkVars => PInv'
  BY StepTypeOK, StepAlone DEF PInv
<1> QED BY InitPInv, <1>1, PTL DEF PkSpec

(* The passkeys' variables keep their types, and a request past its check  *)
(* holds a token that was issued or the id of a credential.                *)
THEOREM PasskeysTyped == PkSpec => []PkTypeOK
<1>1. PInv => PkTypeOK
  BY DEF PInv
<1> QED BY AlwaysPInv, <1>1, PTL

(* RegisterFinish: while finishes do not overlap, one credential at most   *)
(* was registered without a session, however many challenges were handed   *)
(* out while the table was empty.                                          *)
THEOREM AnonymousCorrect == PkSpec => []AnonymousOnce
<1>1. PInv => AnonymousOnce
  BY AtMostOne DEF PInv, Alone, AnonymousOnce
<1> QED BY AlwaysPInv, <1>1, PTL

-----------------------------------------------------------------------------
(* The store implements OneTimeChallenge.                                  *)

phaseOf == [k \in Tokens |-> Phase(k)]

(* An entry that Set has stored and that is in time is open.               *)
LEMMA OpenEntry ==
    ASSUME NEW flow \in Flows, NEW k \in issued, sessions[k] = [flow |-> flow, expired |-> FALSE]
    PROVE  Phase(k) = flow
<1>1. [flow |-> flow, expired |-> FALSE] # Nothing
  <2>1. [flow |-> flow, expired |-> FALSE] \in [flow : Flows, expired : BOOLEAN]
    OBVIOUS
  <2> QED BY <2>1
<1>2. sessions[k] # Nothing /\ sessions[k].expired = FALSE /\ sessions[k].flow = flow
  BY <1>1
<1> QED BY <1>2 DEF Phase, Expired

(* Set issues one challenge: the expired ones it drops were closed before. *)
LEMMA SetIssues ==
    ASSUME PkTypeOK, NEW flow \in Flows, Set(flow), UNCHANGED accepted
    PROVE  \E k \in Tokens : Challenge!Issue(k, flow)
<1>1. PICK k \in Tokens \ issued :
        /\ issued' = issued \cup {k}
        /\ sessions' = [j \in Tokens |-> IF j = k THEN [flow |-> flow, expired |-> FALSE]
                                         ELSE IF Expired(j) THEN Nothing ELSE sessions[j]]
  BY DEF Set
<1>2. Phase(k) = "fresh"
  BY DEF Phase
<1>3. Phase(k)' = flow
  <2>1. [flow |-> flow, expired |-> FALSE] # Nothing
    <3>1. [flow |-> flow, expired |-> FALSE] \in [flow : Flows, expired : BOOLEAN]
      OBVIOUS
    <3> QED BY <3>1
  <2>2. sessions'[k] = [flow |-> flow, expired |-> FALSE] /\ k \in issued'
    BY <1>1
  <2>3. sessions'[k] # Nothing /\ sessions'[k].expired = FALSE /\ sessions'[k].flow = flow
    BY <2>1, <2>2
  <2> QED BY <2>2, <2>3 DEF Phase, Expired
<1>4. ASSUME NEW j \in Tokens, j # k PROVE Phase(j)' = Phase(j)
  BY <1>1, <1>4 DEF Phase, Expired, PkTypeOK
<1>5. phaseOf' = [phaseOf EXCEPT ![k] = flow]
  BY <1>3, <1>4 DEF phaseOf
<1>6. Challenge!Issue(k, flow)
  BY <1>2, <1>5 DEF Challenge!Issue, phaseOf
<1> QED BY <1>6

(* Get accepts a challenge that is open for its flow, and closes it and    *)
(* any other it is asked for.                                              *)
LEMMA GetAccepts ==
    ASSUME PkTypeOK, NEW k \in issued, NEW flow \in Flows, Get(k, flow), UNCHANGED issued
    PROVE  Challenge!Accept(k, flow) \/ Challenge!Close
<1>1. k \in Tokens /\ sessions' = [sessions EXCEPT ![k] = Nothing]
  BY DEF PkTypeOK, Get
<1>2. Phase(k)' = "closed"
  BY <1>1 DEF Phase, PkTypeOK
<1>3. ASSUME NEW j \in Tokens, j # k PROVE Phase(j)' = Phase(j)
  BY <1>1, <1>3 DEF Phase, Expired, PkTypeOK
<1>4. phaseOf' = [phaseOf EXCEPT ![k] = "closed"]
  BY <1>2, <1>3 DEF phaseOf
<1>5. CASE GetReturns(k, flow)
  <2>1. Phase(k) = flow
    BY <1>5, OpenEntry DEF GetReturns
  <2>2. accepted' = accepted \cup {<<k, flow>>}
    BY <1>5 DEF Get
  <2> QED BY <1>1, <1>4, <2>1, <2>2 DEF Challenge!Accept, phaseOf
<1>6. CASE ~GetReturns(k, flow)
  <2>1. UNCHANGED accepted
    BY <1>6 DEF Get
  <2>2. Phase(k) \in Flows \cup {"closed"} /\ \A j \in Tokens : Phase(j) \in Flows \cup {"fresh", "closed"}
    BY DEF Phase, PkTypeOK, Expired
  <2> QED BY <1>1, <1>4, <2>1, <2>2 DEF Challenge!Close, phaseOf
<1> QED BY <1>5, <1>6

LEMMA StepChallenge == PkTypeOK /\ [PkNext]_pkVars => [Challenge!Next]_<<phaseOf, accepted>>
<1> SUFFICES ASSUME PkTypeOK, [PkNext]_pkVars PROVE [Challenge!Next]_<<phaseOf, accepted>>
  OBVIOUS
<1>a. ASSUME UNCHANGED <<sessions, issued, accepted>> PROVE UNCHANGED <<phaseOf, accepted>>
  BY <1>a DEF phaseOf, Phase, Expired
<1>b. ASSUME NEW flow \in Flows, Set(flow), UNCHANGED accepted PROVE Challenge!Next
  BY <1>b, SetIssues DEF Challenge!Next
<1>c. ASSUME NEW k \in issued, NEW flow \in Flows, Get(k, flow), UNCHANGED issued
      PROVE Challenge!Next
  <2>1. k \in Tokens
    BY DEF PkTypeOK
  <2> QED BY <1>c, <2>1, GetAccepts DEF Challenge!Next
<1>1. ASSUME NEW c \in Clients,
             \/ RegisterBegin(c) \/ RegisterAdd(c) \/ LoginFinishVerify(c) \/ Logout(c)
             \/ DeleteCredential(c) \/ (\E k \in issued : RegisterFinish(c, k))
             \/ (\E x \in creds : DeleteCheck(c, x))
      PROVE UNCHANGED <<phaseOf, accepted>>
  BY <1>1, <1>a DEF RegisterBegin, RegisterAdd, LoginFinishVerify, Logout, DeleteCredential,
                    RegisterFinish, DeleteCheck, pkHistory
<1>2. ASSUME NEW c \in Clients, RegisterBeginSet(c) PROVE [Challenge!Next]_<<phaseOf, accepted>>
  BY <1>2, <1>a, <1>b DEF RegisterBeginSet, pkHistory, Flows
<1>3. ASSUME NEW c \in Clients, LoginBegin(c) PROVE Challenge!Next
  BY <1>3, <1>b DEF LoginBegin, pkHistory, Flows
<1>4. ASSUME NEW c \in Clients, RegisterGet(c) PROVE Challenge!Next
  <2>1. handling[c].arg \in issued
    BY <1>4 DEF RegisterGet, PkTypeOK
  <2> QED BY <1>4, <1>c, <2>1 DEF RegisterGet, Flows
<1>5. ASSUME NEW c \in Clients, NEW k \in issued, LoginFinish(c, k) PROVE Challenge!Next
  BY <1>5, <1>c DEF LoginFinish, Flows
<1>6. CASE (\E k \in Tokens : Expire(k)) \/ PkRestart
  <2>1. UNCHANGED <<issued, accepted>>
    BY <1>6 DEF Expire, PkRestart, pkHistory
  <2>2. \A j \in Tokens : /\ Phase(j) \in Flows \cup {"fresh", "closed"}
                          /\ Phase(j)' # Phase(j) => Phase(j) \in Flows /\ Phase(j)' = "closed"
    BY <1>6, <2>1 DEF Expire, PkRestart, Phase, Expired, PkTypeOK
  <2>3. Challenge!Close
    BY <2>1, <2>2 DEF Challenge!Close, phaseOf
  <2> QED BY <2>3 DEF Challenge!Next
<1>7. CASE UNCHANGED pkVars
  BY <1>7, <1>a DEF pkVars
<1> QED BY <1>1, <1>2, <1>3, <1>4, <1>5, <1>6, <1>7 DEF PkNext

(* The store of challenges and the handlers that use it implement          *)
(* OneTimeChallenge: no challenge is accepted twice, after it has expired  *)
(* or in the other flow, through concurrent requests and restarts.         *)
THEOREM ChallengeRefinement == PkSpec => OneTimeUse
<1>1. PkInit => Challenge!Init
  BY DEF PkInit, Challenge!Init, Phase
<1>2. [Challenge!Next]_<<phaseOf, accepted>> => [Challenge!Next]_<<[k \in Tokens |-> Phase(k)], accepted>>
  BY DEF phaseOf
<1> QED BY <1>1, <1>2, StepChallenge, PasskeysTyped, PTL DEF PkSpec, OneTimeUse, Challenge!Spec
=============================================================================
