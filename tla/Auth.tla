------------------------------- MODULE Auth -------------------------------
(***************************************************************************)
(* Accounts and sessions of users: registration, login with its limiter,   *)
(* refresh token rotation, logout, password change, the middleware that    *)
(* accepts an access token, and the janitor.                               *)
(*                                                                         *)
(* An access token and a refresh token are issued together; a pair stands  *)
(* for both.  A password is the number of the change that set it.  Any     *)
(* statement may fail, and the process may restart.                        *)
(***************************************************************************)
EXTENDS Naturals, FiniteSets

CONSTANTS
    Users,              \* e-mail addresses, each with at most one account
    Requests,           \* HTTP requests that can be in flight at the same time
    MaxLoginAttempts,
    MaxLimiterEntries,
    LoginLimitWindow,
    AccessTTL,          \* accessTokenExpiration
    RefreshTTL,         \* refreshTokenExpiry
    MaxPairs,           \* bound: pairs ever issued, numbered in that order
    MaxPasswords,       \* bound: passwords a user ever has
    MaxTime,            \* bound: the clock
    None

ASSUME LimitAssumption == MaxLoginAttempts \in Nat \ {0} /\ MaxLimiterEntries \in Nat \ {0}
ASSUME TimeAssumption  == {LoginLimitWindow, AccessTTL, RefreshTTL, MaxTime} \subseteq Nat
ASSUME BoundAssumption == MaxPairs \in Nat /\ MaxPasswords \in Nat
ASSUME NoneAssumption  == None \notin Users
ASSUME FiniteAssumption == IsFiniteSet(Users) /\ IsFiniteSet(Requests)

VARIABLES
    now,        \* the clock of process and database
    entries,    \* login limiter: failures of an address and the time of the last
    password,   \* users table: the password of each account, 0 before it is registered
    pair,       \* refresh_tokens, and the claims of the access token beside each row
    revoked,    \* revoked_tokens: access tokens logged out
    req,        \* the requests in flight
    \* History, read by no action:
    loggedOut,  \* access tokens whose logout was recorded
    unsettled   \* users who may have tokens of an older password: the revocation of
                \* their last change failed, died with the process or came too soon

vars == <<now, entries, password, pair, revoked, req, loggedOut, unsettled>>
history == <<loggedOut, unsettled>>

Pairs == 1 .. MaxPairs
Times == 0 .. MaxTime
Idle  == [pc |-> "idle", user |-> None, pair |-> 0, password |-> 0]
Done(r) == req' = [req EXCEPT ![r] = Idle]

NoEntry == [failures |-> 0, at |-> 0]
NoPair  == [refresh |-> "none", user |-> None, password |-> 0, at |-> 0]

TypeOK ==
    /\ now \in Times
    /\ entries \in [Users -> [failures : Nat, at : Times]]
    /\ password \in [Users -> 0 .. MaxPasswords]
    /\ pair \in [Pairs -> [refresh : {"none", "live", "revoked", "deleted"},
                           user : Users \cup {None}, password : Nat, at : Times]]
    /\ revoked \subseteq Pairs
    /\ req \in [Requests ->
                  [pc : {"idle", "verify", "rotate", "logout",
                         "update", "revokeAll", "issue"},
                   user : Users \cup {None}, pair : 0 .. MaxPairs, password : Nat]]
    /\ \A r \in Requests : req[r].pc # "idle" => req[r].user \in Users
    /\ loggedOut \subseteq Pairs
    /\ unsettled \subseteq Users

Init ==
    /\ now = 0
    /\ entries = [u \in Users |-> NoEntry]
    /\ password = [u \in Users |-> 0]
    /\ pair = [p \in Pairs |-> NoPair]
    /\ revoked = {}
    /\ req = [r \in Requests |-> Idle]
    /\ loggedOut = {}
    /\ unsettled = {}

-----------------------------------------------------------------------------
(* The login limiter: a map guarded by a mutex. *)

Tracked(es) == {u \in Users : es[u].failures > 0}

Closed(e) == now > e.at + LoginLimitWindow

\* Mutant: the last attempt is granted twice.
Allowed_OffByOne(e) == e.failures <= MaxLoginAttempts

Allowed(e) == e.failures < MaxLoginAttempts

Sweep(es) == [u \in Users |-> IF Closed(es[u]) THEN NoEntry ELSE es[u]]

\* The maps in which there is room for one more entry: closed entries go first,
\* then one of those that failed longest ago.
MakeRoom(es) ==
    LET swept  == Sweep(es)
        oldest == {u \in Tracked(swept) :
                     \A v \in Tracked(swept) : swept[u].at <= swept[v].at}
    IN  IF Cardinality(Tracked(es)) < MaxLimiterEntries THEN {es}
        ELSE IF Cardinality(Tracked(swept)) < MaxLimiterEntries THEN {swept}
        ELSE {[swept EXCEPT ![u] = NoEntry] : u \in oldest}

RecordFailure(u) ==
    \E es \in (IF u \in Tracked(entries) THEN {entries} ELSE MakeRoom(entries)) :
        entries' = [es EXCEPT ![u] = [failures |-> es[u].failures + 1, at |-> now]]

-----------------------------------------------------------------------------
(* Registration and login. *)

\* The unique index on the address decides between two registrations.
Register(r, u) ==
    /\ req[r].pc = "idle"
    /\ password[u] = 0
    /\ MaxPasswords > 0
    /\ password' = [password EXCEPT ![u] = 1]
    /\ req' = [req EXCEPT ![r] = [pc |-> "issue", user |-> u, pair |-> 0, password |-> 1]]
    /\ UNCHANGED <<now, entries, pair, revoked, history>>

LoginCheck(r, u) ==
    /\ req[r].pc = "idle"
    /\ entries' = IF Closed(entries[u]) THEN [entries EXCEPT ![u] = NoEntry] ELSE entries
    /\ req' = IF Allowed(entries'[u])
              THEN [req EXCEPT ![r] = [pc |-> "verify", user |-> u, pair |-> 0,
                                             password |-> 0]]
              ELSE req
    /\ UNCHANGED <<now, password, pair, revoked, history>>

\* The account is read and the password compared; the limiter, which no other
\* step of the login reads, is told the outcome.  Or the query fails.
LoginVerify(r) ==
    LET u == req[r].user IN
    /\ req[r].pc = "verify"
    /\ \/ RecordFailure(u) /\ Done(r)
       \/ /\ password[u] > 0
          /\ entries' = [entries EXCEPT ![u] = NoEntry]
          /\ req' = [req EXCEPT ![r] = [pc |-> "issue", user |-> u, pair |-> 0,
                                        password |-> password[u]]]
       \/ UNCHANGED entries /\ Done(r)
    /\ UNCHANGED <<now, password, pair, revoked, history>>

\* The refresh token is stored, or an error is answered.
IssueTokenPair(r) ==
    /\ req[r].pc = "issue"
    /\ \/ \E p \in Pairs :
            /\ pair[p].refresh = "none"
            /\ \A q \in 1 .. p - 1 : pair[q].refresh # "none"
            /\ pair' = [pair EXCEPT ![p] =
                          [refresh |-> "live", user |-> req[r].user,
                           password |-> req[r].password, at |-> now]]
       \/ UNCHANGED pair
    /\ Done(r)
    /\ UNCHANGED <<now, entries, password, revoked, history>>

-----------------------------------------------------------------------------
(* Refresh, logout and password change. *)

\* Mutant: a token with no row is taken for one that was not revoked.
ValidRefresh_NotRevoked(p) == pair[p].refresh # "revoked" /\ now < pair[p].at + RefreshTTL

ValidRefresh(p) == pair[p].refresh = "live" /\ now < pair[p].at + RefreshTTL

\* The middleware JWTAuth lets an access token in.
Accepted(p) ==
    /\ pair[p].refresh # "none"
    /\ now < pair[p].at + AccessTTL
    /\ p \notin revoked

RefreshValidate(r, p) ==
    /\ req[r].pc = "idle"
    /\ ValidRefresh(p)
    /\ req' = [req EXCEPT ![r] = [pc |-> "rotate", user |-> pair[p].user, pair |-> p,
                                  password |-> pair[p].password]]
    /\ UNCHANGED <<now, entries, password, pair, revoked, history>>

RevokeRefreshToken(p) ==
    pair' = [pair EXCEPT ![p].refresh = IF @ = "live" THEN "revoked" ELSE @]

\* The old token is revoked; a failure is only logged.
RefreshRotate(r) ==
    /\ req[r].pc = "rotate"
    /\ RevokeRefreshToken(req[r].pair) \/ UNCHANGED pair
    /\ req' = [req EXCEPT ![r].pc = "issue"]
    /\ UNCHANGED <<now, entries, password, revoked, history>>

\* The access token is revoked; a failure is only logged.
LogoutRevoke(r, p) ==
    /\ req[r].pc = "idle"
    /\ Accepted(p)
    /\ \/ revoked' = revoked \cup {p} /\ loggedOut' = loggedOut \cup {p}
       \/ UNCHANGED <<revoked, loggedOut>>
    /\ req' = [req EXCEPT ![r] = [pc |-> "logout", user |-> pair[p].user, pair |-> 0,
                                  password |-> 0]]
    /\ UNCHANGED <<now, entries, password, pair, unsettled>>

\* A refresh token follows, if the client sent one; any it has will do.
LogoutRefresh(r) ==
    /\ req[r].pc = "logout"
    /\ (\E p \in Pairs : RevokeRefreshToken(p)) \/ UNCHANGED pair
    /\ Done(r)
    /\ UNCHANGED <<now, entries, password, revoked, history>>

\* The old password was compared with the hash the middleware read.
ChangeBegin(r, p) ==
    /\ req[r].pc = "idle"
    /\ Accepted(p)
    /\ req' = [req EXCEPT ![r] = [pc |-> "update", user |-> pair[p].user, pair |-> 0,
                                  password |-> 0]]
    /\ UNCHANGED <<now, entries, password, pair, revoked, history>>

UpdatePassword(r) ==
    LET u == req[r].user IN
    /\ req[r].pc = "update"
    /\ \/ /\ password[u] < MaxPasswords
          /\ password' = [password EXCEPT ![u] = @ + 1]
          /\ req' = [req EXCEPT ![r] = [pc |-> "revokeAll", user |-> u, pair |-> 0,
                                        password |-> password[u] + 1]]
       \/ Done(r) /\ UNCHANGED password
    /\ UNCHANGED <<now, entries, pair, revoked, history>>

\* A request of the user is about to issue a token under an older password: one
\* that verified before the change, or the change, if another has followed it.
TooSoon(r) ==
    LET u == req[r].user IN
    \E q \in Requests : /\ q = r \/ req[q].pc \in {"rotate", "issue"}
                        /\ req[q].user = u /\ req[q].password # password[u]

\* Mutant: the tokens that have been refreshed once are left alone.
RevokeAll_Latest(u) ==
    [p \in Pairs |->
       IF pair[p].user = u /\ pair[p].refresh = "live" /\ \A q \in Pairs :
             pair[q].user = u => q <= p
       THEN [pair[p] EXCEPT !.refresh = "revoked"] ELSE pair[p]]

RevokeAll(u) ==
    [p \in Pairs |->
       IF pair[p].user = u /\ pair[p].refresh = "live"
       THEN [pair[p] EXCEPT !.refresh = "revoked"] ELSE pair[p]]

\* All refresh tokens of the user are revoked; a failure is only logged.
RevokeAllUserRefreshTokens(r) ==
    LET u == req[r].user IN
    /\ req[r].pc = "revokeAll"
    /\ \/ /\ pair' = RevokeAll(u)
          /\ unsettled' = IF TooSoon(r) THEN unsettled \cup {u} ELSE unsettled \ {u}
       \/ UNCHANGED pair /\ unsettled' = unsettled \cup {u}
    /\ req' = [req EXCEPT ![r].pc = "issue"]
    /\ UNCHANGED <<now, entries, password, revoked, loggedOut>>

-----------------------------------------------------------------------------
(* The janitor, the clock and a restart. *)

\* Mutant: the time of issue decides, not that of expiry.
ExpiredRevocations_Issued == {p \in revoked : pair[p].at <= now}

ExpiredRevocations == {p \in revoked : pair[p].at + AccessTTL < now}

\* Cleanup stops at its first failing statement; the sweep runs in any case.
CleanOnce ==
    /\ entries' = Sweep(entries)
    /\ \/ UNCHANGED <<revoked, pair>>
       \/ /\ revoked' = revoked \ ExpiredRevocations
          /\ \/ pair' = [p \in Pairs |->
                           IF pair[p].refresh # "none" /\ pair[p].at + RefreshTTL < now
                           THEN [pair[p] EXCEPT !.refresh = "deleted"] ELSE pair[p]]
             \/ UNCHANGED pair
    /\ UNCHANGED <<now, password, req, history>>

Tick ==
    /\ now < MaxTime
    /\ now' = now + 1
    /\ UNCHANGED <<entries, password, pair, revoked, req, history>>

\* The limiter and the requests are in memory.
Restart ==
    /\ entries' = [u \in Users |-> NoEntry]
    /\ req' = [r \in Requests |-> Idle]
    /\ unsettled' = unsettled \cup
                    {u \in Users : \E r \in Requests : req[r].pc = "revokeAll" /\ req[r].user = u}
    /\ UNCHANGED <<now, password, pair, revoked, loggedOut>>

-----------------------------------------------------------------------------
Next ==
    \/ \E r \in Requests :
         \/ \E u \in Users : Register(r, u) \/ LoginCheck(r, u)
         \/ \E p \in Pairs : RefreshValidate(r, p) \/ LogoutRevoke(r, p) \/ ChangeBegin(r, p)
         \/ LoginVerify(r)
         \/ RefreshRotate(r) \/ LogoutRefresh(r)
         \/ UpdatePassword(r) \/ RevokeAllUserRefreshTokens(r)
         \/ IssueTokenPair(r)
    \/ CleanOnce \/ Tick \/ Restart

Spec == Init /\ [][Next]_vars

-----------------------------------------------------------------------------
(* The limiter's map does not outgrow its cap, and an address is tried at   *)
(* most as often as the limit allows, plus the logins that were let in      *)
(* side by side before any of them had failed.                              *)
LimiterBounded ==
    /\ Cardinality(Tracked(entries)) <= MaxLimiterEntries
    /\ \A u \in Users :
         entries[u].failures <= MaxLoginAttempts + Cardinality(Requests) - 1

(* Once its logout is recorded an access token is not accepted again: the   *)
(* janitor drops a revocation only after the token has expired by itself.   *)
LoggedOutStaysOut == \A p \in loggedOut : ~Accepted(p)

\* A change of the user's password has set it but not yet revoked the tokens.
Changing(u) == \E r \in Requests : req[r].pc = "revokeAll" /\ req[r].user = u

\* Every refresh token of the user that is still good was issued under the
\* password in force.
OnlyCurrent(u) ==
    \A p \in Pairs : pair[p].refresh = "live" /\ pair[p].user = u
                        => pair[p].password = password[u]

(* "Revoke all existing refresh tokens - force re-login on all devices":    *)
(* after a password change no refresh token of an older password is good.   *)
(* The code does not keep it: a revocation that fails is only logged, and   *)
(* one that succeeds does not reach a login or refresh that is under way.   *)
ReloginAfterChange == \A u \in Users : ~Changing(u) => OnlyCurrent(u)

(* Those two are all that can go wrong: whatever logins, refreshes, logouts *)
(* and changes interleave with a password change, once it has revoked the   *)
(* tokens while none of an older password was about to be issued, all of    *)
(* them have to log in again, and stay out.                                 *)
ReloginIfRevoked == \A u \in Users \ unsettled : ~Changing(u) => OnlyCurrent(u)
=============================================================================
