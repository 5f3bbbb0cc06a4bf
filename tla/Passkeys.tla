------------------------------ MODULE Passkeys ------------------------------
(***************************************************************************)
(* The admin's passkeys: the credentials table, the in-memory store of     *)
(* challenges, and the handlers that register, log in and delete.  Every   *)
(* handler reads the table or the store in one step and acts in a later    *)
(* one, with requests of other browsers in between.  The cryptography is   *)
(* the webauthn library's: an answer to a challenge verifies or does not.  *)
(***************************************************************************)
EXTENDS Naturals, FiniteSets

CONSTANTS
    Clients,    \* browsers, one request at a time each
    Tokens,     \* session tokens: a bound on the challenges issued
    Creds,      \* a bound on the credentials stored at once
    Nothing

Flows == {"register", "login"}

ASSUME NothingAssumption == Nothing \notin Tokens \cup Creds \cup [flow : Flows, expired : BOOLEAN]

VARIABLES
    creds,      \* webauthn_credentials
    sessions,   \* webauthnSessions: the entry of each token, or Nothing
    issued,     \* tokens that generateToken has returned, never to return again
    cookie,     \* browsers with a session cookie that has not expired
    handling,   \* what each browser's request is doing
    \* History, read by no action:
    accepted,   \* the pairs of a token and a flow that Get returned data for
    anonymous,  \* credentials that were registered without a session
    opened,     \* a credential has been registered
    raced       \* two registrations were past their check at once

pkVars == <<creds, sessions, issued, cookie, handling, accepted, anonymous, opened, raced>>
pkHistory == <<accepted, anonymous, opened, raced>>

PCs == {"idle", "set", "get", "add", "verify", "delete"}
NoRequest == [pc |-> "idle", arg |-> Nothing, anon |-> FALSE]

PkInit ==
    /\ creds = {}
    /\ sessions = [k \in Tokens |-> Nothing]
    /\ issued = {}
    /\ cookie = {}
    /\ handling = [c \in Clients |-> NoRequest]
    /\ accepted = {}
    /\ anonymous = {}
    /\ opened = FALSE
    /\ raced = FALSE

At(c, pc) == handling[c].pc = pc
Goto(c, pc, arg, anon) == handling' = [handling EXCEPT ![c] = [pc |-> pc, arg |-> arg, anon |-> anon]]
Respond(c) == handling' = [handling EXCEPT ![c] = NoRequest]

HasCredentials == creds # {}

-----------------------------------------------------------------------------
(* webauthnSessions, under its mutex. *)

Expired(k) == sessions[k] # Nothing /\ sessions[k].expired

\* Set drops the expired entries and stores the new one under a fresh token.
Set(flow) ==
    \E k \in Tokens \ issued :
        /\ issued' = issued \cup {k}
        /\ sessions' = [j \in Tokens |-> IF j = k THEN [flow |-> flow, expired |-> FALSE]
                                         ELSE IF Expired(j) THEN Nothing ELSE sessions[j]]

\* Get returns the data of an entry of the right flow that has not expired.
GetReturns(k, flow) == sessions[k] = [flow |-> flow, expired |-> FALSE]

\* Mutant: an entry of the other flow, or one that has expired, is as good.
Get_AnyFlow(k, flow) ==
    /\ sessions' = [sessions EXCEPT ![k] = Nothing]
    /\ accepted' = IF sessions[k] # Nothing THEN accepted \cup {<<k, flow>>} ELSE accepted

\* ... and whatever it returns, the entry is gone.
Get(k, flow) ==
    /\ sessions' = [sessions EXCEPT ![k] = Nothing]
    /\ accepted' = IF GetReturns(k, flow) THEN accepted \cup {<<k, flow>>} ELSE accepted

\* The five minutes of a challenge are over.
Expire(k) ==
    /\ sessions[k] # Nothing /\ ~Expired(k)
    /\ sessions' = [sessions EXCEPT ![k].expired = TRUE]
    /\ UNCHANGED <<creds, issued, cookie, handling, pkHistory>>

-----------------------------------------------------------------------------
(* Registration.  Without a session it needs an empty table, and to begin, the
   setup token.                                                             *)

MayRegister(c) == HasCredentials => c \in cookie

RegisterBegin(c) ==
    /\ At(c, "idle")
    /\ MayRegister(c)
    /\ Goto(c, "set", Nothing, FALSE)
    /\ UNCHANGED <<creds, sessions, issued, cookie, pkHistory>>

\* ListCredentials, BeginRegistration and Set, or an error of one of them.
RegisterBeginSet(c) ==
    /\ At(c, "set")
    /\ Set("register") \/ UNCHANGED <<sessions, issued>>
    /\ Respond(c)
    /\ UNCHANGED <<creds, cookie, pkHistory>>

\* Another registration is past its check.
NoteRace(c) == raced' = (raced \/ \E d \in Clients \ {c} : handling[d].pc \in {"get", "add"})

\* Mutant: only the beginning of a registration is checked.
FinishAllowed_Always(c) == TRUE

FinishAllowed(c) == MayRegister(c)

\* Mutant: a request without a session token goes on.
RegisterFinish_NoToken(c, k) ==
    /\ At(c, "idle")
    /\ FinishAllowed(c)
    /\ Goto(c, "get", Nothing, c \notin cookie)
    /\ NoteRace(c)
    /\ UNCHANGED <<creds, sessions, issued, cookie, accepted, anonymous, opened>>

RegisterFinish(c, k) ==
    /\ At(c, "idle")
    /\ FinishAllowed(c)
    /\ Goto(c, "get", k, c \notin cookie)
    /\ NoteRace(c)
    /\ UNCHANGED <<creds, sessions, issued, cookie, accepted, anonymous, opened>>

RegisterGet(c) ==
    LET k == handling[c].arg IN
    /\ At(c, "get")
    /\ Get(k, "register")
    /\ IF GetReturns(k, "register") THEN Goto(c, "add", Nothing, handling[c].anon) ELSE Respond(c)
    /\ UNCHANGED <<creds, issued, cookie, anonymous, opened, raced>>

\* ListCredentials, FinishRegistration and AddCredential, or an error of one of
\* them; then the cookie, which may still fail.
RegisterAdd(c) ==
    /\ At(c, "add")
    /\ \/ \E x \in Creds \ creds :
             /\ creds' = creds \cup {x}
             /\ anonymous' = IF handling[c].anon THEN anonymous \cup {x} ELSE anonymous
             /\ opened' = TRUE
             /\ cookie' \in {cookie, cookie \cup {c}}
       \/ UNCHANGED <<creds, anonymous, opened, cookie>>
    /\ Respond(c)
    /\ UNCHANGED <<sessions, issued, accepted, raced>>

-----------------------------------------------------------------------------
(* Login *)

LoginBegin(c) ==
    /\ At(c, "idle")
    /\ Set("login")
    /\ UNCHANGED <<creds, cookie, handling, pkHistory>>

LoginFinish(c, k) ==
    /\ At(c, "idle")
    /\ Get(k, "login")
    /\ IF GetReturns(k, "login") THEN Goto(c, "verify", Nothing, FALSE) ELSE UNCHANGED handling
    /\ UNCHANGED <<creds, issued, cookie, anonymous, opened, raced>>

\* The answer verifies against a credential of the table as it is now; the sign
\* count is best effort, and the cookie follows.
LoginFinishVerify(c) ==
    /\ At(c, "verify")
    /\ \/ HasCredentials /\ cookie' = cookie \cup {c}
       \/ UNCHANGED cookie
    /\ Respond(c)
    /\ UNCHANGED <<creds, sessions, issued, pkHistory>>

\* The browser drops its cookie, or its eight hours are over.
Logout(c) ==
    /\ c \in cookie
    /\ cookie' = cookie \ {c}
    /\ UNCHANGED <<creds, sessions, issued, handling, pkHistory>>

-----------------------------------------------------------------------------
(* Deleting a credential, behind requireAuth. *)

DeleteCheck(c, x) ==
    /\ At(c, "idle")
    /\ c \in cookie
    /\ Cardinality(creds) > 1
    /\ Goto(c, "delete", x, FALSE)
    /\ UNCHANGED <<creds, sessions, issued, cookie, pkHistory>>

\* DELETE ... WHERE id, which may fail or find nothing.
DeleteCredential(c) ==
    /\ At(c, "delete")
    /\ \/ creds' = creds \ {handling[c].arg} /\ anonymous' = anonymous \ {handling[c].arg}
       \/ UNCHANGED <<creds, anonymous>>
    /\ Respond(c)
    /\ UNCHANGED <<sessions, issued, cookie, accepted, opened, raced>>

\* The process restarts: challenges and requests are lost, cookies are not.
PkRestart ==
    /\ sessions' = [k \in Tokens |-> Nothing]
    /\ handling' = [c \in Clients |-> NoRequest]
    /\ UNCHANGED <<creds, issued, cookie, pkHistory>>

PkNext ==
    \/ \E c \in Clients :
          \/ RegisterBegin(c) \/ RegisterBeginSet(c) \/ RegisterGet(c) \/ RegisterAdd(c)
          \/ LoginBegin(c) \/ LoginFinishVerify(c) \/ Logout(c)
          \/ DeleteCredential(c)
          \/ \E k \in issued : RegisterFinish(c, k) \/ LoginFinish(c, k)
          \/ \E x \in creds : DeleteCheck(c, x)
    \/ \E k \in Tokens : Expire(k)
    \/ PkRestart

PkSpec == PkInit /\ [][PkNext]_pkVars

-----------------------------------------------------------------------------
(* The variables have their types, and a request past its check has what it *)
(* needs to go on.                                                          *)
PkTypeOK ==
    /\ creds \subseteq Creds
    /\ sessions \in [Tokens -> [flow : Flows, expired : BOOLEAN] \cup {Nothing}]
    /\ issued \subseteq Tokens
    /\ cookie \subseteq Clients
    /\ handling \in [Clients -> [pc : PCs, arg : Tokens \cup Creds \cup {Nothing}, anon : BOOLEAN]]
    /\ \A c \in Clients : /\ At(c, "get") => handling[c].arg \in issued
                          /\ At(c, "delete") => handling[c].arg \in Creds
    /\ accepted \subseteq Tokens \X Flows
    /\ anonymous \subseteq creds
    /\ opened \in BOOLEAN
    /\ raced \in BOOLEAN

(* "If credentials exist, only allow registration when authenticated": of   *)
(* the credentials in the table at most one was registered without a        *)
(* session, however many registrations were begun while it was empty, unless*)
(* two were finished at the same time.                                      *)
AnonymousOnce == ~raced => Cardinality(anonymous) <= 1

(* "Prevent deleting the last credential (would re-open unauthenticated     *)
(* registration)": once there is one, the table is never empty again.  The  *)
(* code does not keep it: two deletes may both have counted two.            *)
LastCredentialKept == opened => creds # {}

-----------------------------------------------------------------------------
\* A token is open while its entry is there and has not expired.
Phase(k) == IF k \notin issued THEN "fresh"
            ELSE IF sessions[k] = Nothing \/ Expired(k) THEN "closed" ELSE sessions[k].flow

Challenge == INSTANCE OneTimeChallenge WITH phase <- [k \in Tokens |-> Phase(k)]

(* The store and its two users implement OneTimeChallenge: concurrent       *)
(* finishes, the garbage collection of Set, expiry and restarts never let   *)
(* one challenge be accepted twice, late or in the other flow.              *)
OneTimeUse == Challenge!Spec
=============================================================================
