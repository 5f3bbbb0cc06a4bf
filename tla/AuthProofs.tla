----------------------------- MODULE AuthProofs -----------------------------
(***************************************************************************)
(* Sessions, for any number of users, requests and tokens and any limits   *)
(* and lifetimes.                                                          *)
(***************************************************************************)
EXTENDS Auth, FiniteSetTheorems, TLAPS

EntryType == [failures : Nat, at : Times]
PairType  == [refresh : {"none", "live", "revoked", "deleted"},
              user : Users \cup {None}, password : Nat, at : Times]
ReqType   == [pc : {"idle", "verify", "rotate", "logout", "update", "revokeAll", "issue"},
              user : Users \cup {None}, pair : 0 .. MaxPairs, password : Nat]

\* Tokens, and requests that have passed a check, belong to registered users.
Registered ==
    /\ \A p \in Pairs : pair[p].refresh # "none" =>
         pair[p].user \in Users /\ password[pair[p].user] > 0
    /\ \A r \in Requests : req[r].pc \notin {"idle", "verify"} => password[req[r].user] > 0
    /\ \A r \in Requests : req[r].pc = "rotate" => req[r].pair \in Pairs

\* An access token that was logged out is still listed, or has expired.
Out ==
    \A p \in loggedOut :
        /\ pair[p].refresh # "none"
        /\ p \in revoked \/ now >= pair[p].at + AccessTTL

\* No token that is live or on its way was issued under an older password.
Settled ==
    \A u \in Users \ unsettled : ~Changing(u) =>
        /\ \A p \in Pairs : pair[p].refresh = "live" /\ pair[p].user = u
                               => pair[p].password = password[u]
        /\ \A r \in Requests : req[r].pc \in {"rotate", "issue"} /\ req[r].user = u
                                  => req[r].password = password[u]

SInv == TypeOK /\ Registered /\ Out /\ Settled

-----------------------------------------------------------------------------
\* A swept map is a map of the limiter.
LEMMA SweepType ==
  ASSUME NEW es \in [Users -> EntryType]
  PROVE  Sweep(es) \in [Users -> EntryType]
  BY TimeAssumption DEF Sweep, NoEntry, EntryType, Times

\* So is one in which room was made.
LEMMA MakeRoomType ==
  ASSUME NEW es \in [Users -> EntryType], NEW fs \in MakeRoom(es)
  PROVE  fs \in [Users -> EntryType]
<1> NoEntry \in EntryType
  BY TimeAssumption DEF NoEntry, EntryType, Times
<1> HIDE DEF EntryType
<1> QED BY SweepType DEF MakeRoom, Tracked

\* So is one in which a failure was recorded.
LEMMA RecordType ==
  ASSUME TypeOK, NEW u \in Users, RecordFailure(u)
  PROVE  entries' \in [Users -> EntryType]
<1>1. entries \in [Users -> EntryType] /\ now \in Times
  BY DEF TypeOK, EntryType
<1>2. PICK es \in (IF u \in Tracked(entries) THEN {entries} ELSE MakeRoom(entries)) :
        entries' = [es EXCEPT ![u] = [failures |-> es[u].failures + 1, at |-> now]]
  BY DEF RecordFailure
<1>3. es \in [Users -> EntryType]
  BY <1>1, <1>2, MakeRoomType
<1>4. [failures |-> es[u].failures + 1, at |-> now] \in EntryType
  BY <1>1, <1>3 DEF EntryType
<1> QED BY <1>2, <1>3, <1>4

\* At the start there is no token and no request.
LEMMA InitSInv == Init => SInv
<1> SUFFICES ASSUME Init PROVE SInv
  OBVIOUS
<1>1. TypeOK
  BY TimeAssumption, BoundAssumption DEF Init, TypeOK, Idle, NoEntry, NoPair, Times
<1>2. Registered /\ Out /\ Settled
  BY DEF Init, Registered, Out, Settled, Idle, NoPair
<1> QED BY <1>1, <1>2 DEF SInv

\* Refresh tokens are revoked or deleted and nothing else.
Shrunk ==
    /\ pair' \in [Pairs -> PairType]
    /\ \A p \in Pairs :
         /\ pair'[p].user = pair[p].user
         /\ pair'[p].password = pair[p].password
         /\ pair'[p].at = pair[p].at
         /\ pair'[p].refresh = "none" <=> pair[p].refresh = "none"
         /\ pair'[p].refresh = "live" => pair[p].refresh = "live"

\* Tokens that do not change are a special case.
LEMMA SamePairs == TypeOK /\ UNCHANGED pair => Shrunk
  BY DEF TypeOK, Shrunk, PairType

\* Revoking one token marks it, whatever it was, and no other.
LEMMA OneRevoked ==
  ASSUME TypeOK, NEW p \in Pairs, RevokeRefreshToken(p)
  PROVE  Shrunk
<1> DEFINE new == IF pair[p].refresh = "live" THEN "revoked" ELSE pair[p].refresh
<1>1. pair \in [Pairs -> PairType]
  BY DEF TypeOK, PairType
<1>2. pair' = [pair EXCEPT ![p] = [refresh |-> new, user |-> pair[p].user,
                                   password |-> pair[p].password, at |-> pair[p].at]]
  <2> DEFINE mark == IF pair[p].refresh = "live" THEN "revoked" ELSE pair[p].refresh
  <2>1. pair[p] \in PairType
    BY <1>1
  <2>2. [pair[p] EXCEPT !.refresh = mark] = [refresh |-> mark, user |-> pair[p].user,
                               password |-> pair[p].password, at |-> pair[p].at]
    BY <2>1 DEF PairType
  <2>3. pair' = [pair EXCEPT ![p] = [pair[p] EXCEPT !.refresh = mark]]
    BY DEF RevokeRefreshToken
  <2> QED BY <2>2, <2>3
<1>3. [refresh |-> new, user |-> pair[p].user, password |-> pair[p].password,
       at |-> pair[p].at] \in PairType
  BY <1>1 DEF PairType
<1> QED BY <1>1, <1>2, <1>3 DEF Shrunk

\* Some tokens get another mark, and no token that has none or is live gets
\* "none" or "live".
LEMMA SomeMarked ==
  ASSUME TypeOK, NEW mark \in {"revoked", "deleted"}, NEW S \in SUBSET Pairs,
         \A p \in S : pair[p].refresh # "none",
         pair' = [p \in Pairs |-> IF p \in S THEN [pair[p] EXCEPT !.refresh = mark] ELSE pair[p]]
  PROVE  Shrunk
<1>1. pair \in [Pairs -> PairType]
  BY DEF TypeOK, PairType
<1>2. \A p \in Pairs : [pair[p] EXCEPT !.refresh = mark] \in PairType
  BY <1>1 DEF PairType
<1>3. pair' \in [Pairs -> PairType]
  BY <1>1, <1>2
<1>4. ASSUME NEW p \in Pairs
      PROVE  /\ pair'[p].user = pair[p].user
             /\ pair'[p].password = pair[p].password
             /\ pair'[p].at = pair[p].at
             /\ pair'[p].refresh = IF p \in S THEN mark ELSE pair[p].refresh
  BY <1>1 DEF PairType
<1> QED BY <1>3, <1>4 DEF Shrunk

\* A request that only goes on to its next step keeps its other fields.
LEMMA PcChanged ==
    ASSUME req \in [Requests -> ReqType], NEW r \in Requests, NEW c,
           req' = [req EXCEPT ![r].pc = c]
    PROVE  req' = [req EXCEPT ![r] = [pc |-> c, user |-> req[r].user, pair |-> req[r].pair,
                                      password |-> req[r].password]]
<1>1. req[r] \in ReqType
  OBVIOUS
<1>2. [req[r] EXCEPT !.pc = c] = [pc |-> c, user |-> req[r].user, pair |-> req[r].pair,
                                  password |-> req[r].password]
  BY <1>1 DEF ReqType
<1>3. req' = [req EXCEPT ![r] = [req[r] EXCEPT !.pc = c]]
  OBVIOUS
<1> QED BY <1>2, <1>3

\* What a step that changes its own request, and at most revokes tokens, must
\* show about the request.
LEMMA RequestStep ==
  ASSUME SInv, NEW r \in Requests, NEW q \in ReqType,
         req' = [req EXCEPT ![r] = q],
         q.pc # "idle" => q.user \in Users,
         q.pc \notin {"idle", "verify"} => password[q.user] > 0,
         q.pc = "rotate" => q.pair \in Pairs,
         q.pc # "revokeAll",
         req[r].pc # "revokeAll",
         q.pc \in {"rotate", "issue"} => q.user \in unsettled \/ Changing(q.user)
                                         \/ q.password = password[q.user],
         entries' \in [Users -> EntryType],
         Shrunk,
         UNCHANGED <<now, password, revoked, loggedOut, unsettled>>
  PROVE  SInv'
<1>1. TypeOK'
  BY DEF SInv, TypeOK, EntryType, ReqType, PairType, Shrunk
<1>2. Registered'
  BY DEF SInv, TypeOK, Registered, ReqType, Shrunk
<1>3. Out'
  BY DEF SInv, TypeOK, Out, Shrunk
<1>4. \A u \in Users : Changing(u)' <=> Changing(u)
  BY DEF SInv, TypeOK, Changing, ReqType
<1>5. Settled'
  BY <1>4 DEF SInv, TypeOK, Settled, ReqType, Shrunk
<1> QED BY <1>1, <1>2, <1>3, <1>5 DEF SInv

\* Every step keeps SInv: requests change their own state and at most revoke
\* tokens, except for the few that are looked at one by one.
LEMMA StepSInv == SInv /\ [Next]_vars => SInv'
<1> SUFFICES ASSUME SInv, [Next]_vars PROVE SInv'
  OBVIOUS
<1> USE NoneAssumption, TimeAssumption, BoundAssumption
<1>a. /\ entries \in [Users -> EntryType]
      /\ req \in [Requests -> ReqType]
      /\ pair \in [Pairs -> PairType]
      /\ Idle \in ReqType
  BY DEF SInv, TypeOK, EntryType, ReqType, PairType, Idle
<1>b. NoEntry \in EntryType
  BY DEF NoEntry, EntryType, Times
<1>1. CASE UNCHANGED vars
  BY <1>1 DEF vars, SInv, TypeOK, Registered, Out, Settled, Changing
<1>2. ASSUME NEW r \in Requests, NEW u \in Users, Register(r, u) PROVE SInv'
  <2> DEFINE q == [pc |-> "issue", user |-> u, pair |-> 0, password |-> 1]
  <2>1. /\ req' = [req EXCEPT ![r] = q] /\ req[r].pc = "idle"
        /\ password[u] = 0 /\ password' = [password EXCEPT ![u] = 1] /\ MaxPasswords > 0
        /\ UNCHANGED <<now, entries, pair, revoked, loggedOut, unsettled>>
    BY <1>2 DEF Register, history
  <2>2. q \in ReqType
    BY DEF ReqType
  <2>3. TypeOK'
    BY <2>1, <2>2 DEF SInv, TypeOK, ReqType
  <2>4. Registered' /\ Out'
    BY <2>1 DEF SInv, TypeOK, Registered, Out
  <2>5. \A v \in Users : Changing(v)' <=> Changing(v)
    BY <2>1, <1>a DEF Changing
  <2>6. Settled'
    <3> SUFFICES ASSUME NEW v \in Users \ unsettled', ~Changing(v)'
                 PROVE  /\ \A p \in Pairs : pair'[p].refresh = "live" /\ pair'[p].user = v
                              => pair'[p].password = password'[v]
                        /\ \A x \in Requests : req'[x].pc \in {"rotate", "issue"} /\ req'[x].user = v
                              => req'[x].password = password'[v]
      BY DEF Settled
    <3>1. v \in Users \ unsettled /\ ~Changing(v)
      BY <2>1, <2>5
    <3>2. req'[r] = q /\ \A x \in Requests \ {r} : req'[x] = req[x]
      BY <2>1, <1>a
    <3>3. password \in [Users -> 0 .. MaxPasswords]
      BY DEF SInv, TypeOK
    <3>4. CASE v = u
      BY <2>1, <3>2, <3>3, <3>4 DEF SInv, Registered
    <3>5. CASE v # u
      BY <2>1, <3>1, <3>2, <3>3, <3>5 DEF SInv, Settled
    <3> QED BY <3>4, <3>5
  <2> QED BY <2>3, <2>4, <2>6 DEF SInv
<1>3. ASSUME NEW r \in Requests, NEW u \in Users, LoginCheck(r, u) PROVE SInv'
  <2> DEFINE q == IF Allowed(entries'[u]) THEN [pc |-> "verify", user |-> u, pair |-> 0, password |-> 0]
                                            ELSE req[r]
  <2>1. req' = [req EXCEPT ![r] = q] /\ q \in ReqType /\ (q.pc = "idle" \/ q.pc = "verify")
        /\ (q.pc = "verify" => q.user = u) /\ req[r].pc = "idle"
    BY <1>3, <1>a DEF LoginCheck, ReqType, Idle
  <2>2. entries' \in [Users -> EntryType] /\ Shrunk
    BY <1>3, <1>a, <1>b, SamePairs DEF LoginCheck, SInv
  <2> HIDE DEF q
  <2> QED BY <1>3, <2>1, <2>2, RequestStep DEF LoginCheck, history
<1>4. ASSUME NEW r \in Requests, LoginVerify(r) PROVE SInv'
  <2>0. req[r].pc = "verify" /\ req[r].user \in Users /\ Shrunk
        /\ UNCHANGED <<now, password, revoked, loggedOut, unsettled>>
    BY <1>4, SamePairs DEF LoginVerify, SInv, TypeOK, history
  <2> DEFINE u == req[r].user
             q == [pc |-> "issue", user |-> u, pair |-> 0, password |-> password[u]]
  <2>1. CASE Done(r) /\ entries' \in [Users -> EntryType]
    BY <2>0, <2>1, <1>a, RequestStep DEF Done, Idle
  <2>2. CASE password[u] > 0 /\ entries' = [entries EXCEPT ![u] = NoEntry]
             /\ req' = [req EXCEPT ![r] = q]
    <3>1. q \in ReqType /\ entries' \in [Users -> EntryType]
      BY <2>0, <2>2, <1>a, <1>b DEF SInv, TypeOK, ReqType
    <3> QED BY <2>0, <2>2, <3>1, RequestStep
  <2> QED BY <1>4, <2>0, <2>1, <2>2, <1>a, RecordType DEF LoginVerify, SInv
<1>5. ASSUME NEW r \in Requests, NEW p \in Pairs, RefreshValidate(r, p) PROVE SInv'
  <2> DEFINE q == [pc |-> "rotate", user |-> pair[p].user, pair |-> p,
                   password |-> pair[p].password]
  <2>1. req' = [req EXCEPT ![r] = q] /\ req[r].pc = "idle" /\ pair[p].refresh = "live" /\ Shrunk
        /\ UNCHANGED <<now, entries, password, revoked, loggedOut, unsettled>>
    BY <1>5, SamePairs DEF RefreshValidate, ValidRefresh, SInv, history
  <2>2. q \in ReqType
    BY <1>a DEF ReqType, PairType, Pairs
  <2>3. pair[p].user \in Users /\ password[pair[p].user] > 0
        /\ (pair[p].user \in unsettled \/ Changing(pair[p].user)
            \/ pair[p].password = password[pair[p].user])
    BY <2>1 DEF SInv, Registered, Settled
  <2> QED BY <1>a, <2>1, <2>2, <2>3, RequestStep
<1>6. ASSUME NEW r \in Requests, RefreshRotate(r) PROVE SInv'
  <2> DEFINE q == [pc |-> "issue", user |-> req[r].user, pair |-> req[r].pair,
                   password |-> req[r].password]
  <2>1. req' = [req EXCEPT ![r] = q] /\ req[r].pc = "rotate" /\ q \in ReqType
    <3>1. req' = [req EXCEPT ![r].pc = "issue"] /\ req[r].pc = "rotate"
      BY <1>6 DEF RefreshRotate
    <3>2. q \in ReqType
      BY <1>a DEF ReqType
    <3> QED BY <3>1, <3>2, <1>a, PcChanged
  <2>2. req[r].pair \in Pairs /\ req[r].user \in Users /\ password[req[r].user] > 0
        /\ (req[r].user \in unsettled \/ Changing(req[r].user)
            \/ req[r].password = password[req[r].user])
    BY <2>1 DEF SInv, TypeOK, Registered, Settled
  <2>3. Shrunk /\ UNCHANGED <<now, entries, password, revoked, loggedOut, unsettled>>
    BY <1>6, <2>2, OneRevoked, SamePairs DEF RefreshRotate, SInv, history
  <2> QED BY <1>a, <2>1, <2>2, <2>3, RequestStep
<1>7. ASSUME NEW r \in Requests, NEW p \in Pairs, LogoutRevoke(r, p) PROVE SInv'
  <2> DEFINE q == [pc |-> "logout", user |-> pair[p].user, pair |-> 0, password |-> 0]
  <2>1. /\ req' = [req EXCEPT ![r] = q] /\ req[r].pc = "idle" /\ pair[p].refresh # "none"
        /\ UNCHANGED <<now, entries, password, pair, unsettled>>
    BY <1>7 DEF LogoutRevoke, Accepted
  <2>2. q \in ReqType /\ pair[p].user \in Users /\ password[pair[p].user] > 0
    BY <1>a, <2>1 DEF ReqType, PairType, Pairs, SInv, Registered
  <2>3. \/ revoked' = revoked \cup {p} /\ loggedOut' = loggedOut \cup {p}
        \/ UNCHANGED <<revoked, loggedOut>>
    BY <1>7 DEF LogoutRevoke
  <2>4. TypeOK'
    BY <2>1, <2>2, <2>3 DEF SInv, TypeOK, ReqType
  <2>5. Registered'
    BY <2>1, <2>2, <1>a DEF SInv, Registered
  <2>6. Out'
    BY <2>1, <2>3 DEF SInv, Out
  <2>7. \A v \in Users : Changing(v)' <=> Changing(v)
    BY <2>1, <1>a DEF Changing
  <2>8. Settled'
    BY <2>1, <2>7, <1>a DEF SInv, Settled
  <2> QED BY <2>4, <2>5, <2>6, <2>8 DEF SInv
<1>8. ASSUME NEW r \in Requests, LogoutRefresh(r) PROVE SInv'
  <2>1. req[r].pc = "logout" /\ req' = [req EXCEPT ![r] = Idle]
    BY <1>8 DEF LogoutRefresh, Done, SInv, Registered
  <2>2. Shrunk /\ UNCHANGED <<now, entries, password, revoked, loggedOut, unsettled>>
    BY <1>8, <2>1, OneRevoked, SamePairs DEF LogoutRefresh, SInv, history
  <2> QED BY <1>a, <2>1, <2>2, RequestStep DEF Idle
<1>9. ASSUME NEW r \in Requests, NEW p \in Pairs, ChangeBegin(r, p) PROVE SInv'
  <2> DEFINE q == [pc |-> "update", user |-> pair[p].user, pair |-> 0, password |-> 0]
  <2>1. req' = [req EXCEPT ![r] = q] /\ req[r].pc = "idle" /\ pair[p].refresh # "none" /\ Shrunk
        /\ UNCHANGED <<now, entries, password, revoked, loggedOut, unsettled>>
    BY <1>9, SamePairs DEF ChangeBegin, Accepted, SInv, history
  <2>2. q \in ReqType /\ pair[p].user \in Users /\ password[pair[p].user] > 0
    BY <1>a, <2>1 DEF ReqType, PairType, SInv, Registered
  <2> QED BY <1>a, <2>1, <2>2, RequestStep
<1>10. ASSUME NEW r \in Requests, UpdatePassword(r) PROVE SInv'
  <2>1. req[r].pc = "update" /\ req[r].user \in Users /\ Shrunk
        /\ UNCHANGED <<now, entries, pair, revoked, loggedOut, unsettled>>
    BY <1>10, SamePairs DEF UpdatePassword, SInv, TypeOK, history
  <2> DEFINE u == req[r].user
             q == [pc |-> "revokeAll", user |-> u, pair |-> 0, password |-> password[u] + 1]
  <2>2. CASE Done(r) /\ UNCHANGED password
    BY <1>a, <2>1, <2>2, RequestStep DEF Done, Idle
  <2>3. CASE /\ password[u] < MaxPasswords
             /\ password' = [password EXCEPT ![u] = @ + 1]
             /\ req' = [req EXCEPT ![r] = q]
    <3>1. password \in [Users -> 0 .. MaxPasswords]
      BY DEF SInv, TypeOK
    <3>2. q \in ReqType /\ q.user \in Users
      BY <2>1, <3>1 DEF ReqType
    <3>3. password' \in [Users -> 0 .. MaxPasswords] /\ password'[u] > 0
      BY <2>1, <2>3, <3>1
    <3>4. TypeOK'
      BY <2>1, <2>3, <3>2, <3>3 DEF SInv, TypeOK, ReqType
    <3>5. Registered'
      BY <2>1, <2>3, <3>1, <3>3, <1>a DEF SInv, Registered
    <3>6. Out'
      BY <2>1 DEF SInv, Out
    <3>7. \A v \in Users : IF v = u THEN Changing(v)' ELSE Changing(v)' <=> Changing(v)
      BY <2>1, <2>3, <1>a DEF Changing
    <3>8. \A v \in Users \ {u} : password'[v] = password[v]
      BY <2>3, <3>1
    <3>9. \A x \in Requests \ {r} : req'[x] = req[x]
      BY <2>3, <1>a
    <3>10. req'[r] = q
      BY <2>3, <1>a
    <3>11. Settled'
      <4> SUFFICES ASSUME NEW v \in Users \ unsettled', ~Changing(v)'
                   PROVE  /\ \A p \in Pairs : pair'[p].refresh = "live" /\ pair'[p].user = v
                                => pair'[p].password = password'[v]
                          /\ \A x \in Requests : req'[x].pc \in {"rotate", "issue"} /\ req'[x].user = v
                                => req'[x].password = password'[v]
        BY DEF Settled
      <4>1. v # u /\ v \notin unsettled /\ ~Changing(v) /\ password'[v] = password[v]
        BY <2>1, <3>7, <3>8
      <4> QED BY <2>1, <3>9, <3>10, <4>1 DEF SInv, Settled
    <3> QED BY <3>4, <3>5, <3>6, <3>11 DEF SInv
  <2> QED BY <1>10, <2>2, <2>3 DEF UpdatePassword
<1>11. ASSUME NEW r \in Requests, RevokeAllUserRefreshTokens(r) PROVE SInv'
  <2> DEFINE u == req[r].user
             q == [pc |-> "issue", user |-> u, pair |-> req[r].pair, password |-> req[r].password]
             S == {p \in Pairs : pair[p].user = u /\ pair[p].refresh = "live"}
  <2>1. req[r].pc = "revokeAll" /\ u \in Users /\ req' = [req EXCEPT ![r] = q] /\ q \in ReqType
        /\ UNCHANGED <<now, entries, password, revoked, loggedOut>>
    <3>1. req' = [req EXCEPT ![r].pc = "issue"] /\ req[r].pc = "revokeAll"
          /\ UNCHANGED <<now, entries, password, revoked, loggedOut>>
      BY <1>11 DEF RevokeAllUserRefreshTokens
    <3>2. q \in ReqType
      BY <1>a DEF ReqType
    <3>3. u \in Users
      BY <3>1 DEF SInv, TypeOK
    <3> QED BY <3>1, <3>2, <3>3, <1>a, PcChanged
  <2>4. Shrunk /\ unsettled' \subseteq Users
        /\ \/ unsettled' = unsettled \cup {u}
           \/ /\ unsettled' = unsettled \ {u}
              /\ ~TooSoon(r)
              /\ \A p \in Pairs : pair'[p].user = u => pair'[p].refresh # "live"
    <3>1. pair' = RevokeAll(u) => \A p \in Pairs : pair'[p].user = u => pair'[p].refresh # "live"
      BY <1>a DEF RevokeAll, PairType
    <3>2. pair' = RevokeAll(u) => Shrunk
      <4>1. RevokeAll(u) = [p \in Pairs |-> IF p \in S THEN [pair[p] EXCEPT !.refresh = "revoked"]
                                                     ELSE pair[p]]
        BY DEF RevokeAll
      <4>2. S \in SUBSET Pairs /\ \A p \in S : pair[p].refresh # "none"
        OBVIOUS
      <4> HIDE DEF S
      <4> QED BY <4>1, <4>2, SomeMarked DEF SInv
    <3>3. UNCHANGED pair => Shrunk
      BY SamePairs DEF SInv
    <3> QED BY <1>11, <2>1, <3>1, <3>2, <3>3 DEF RevokeAllUserRefreshTokens, SInv, TypeOK
  <2>5. TypeOK'
    BY <2>1, <2>4 DEF SInv, TypeOK, ReqType, PairType, Shrunk
  <2>6. Registered'
    BY <2>1, <2>4, <1>a DEF SInv, Registered, Shrunk
  <2>7. Out'
    BY <2>1, <2>4 DEF SInv, TypeOK, Out, Shrunk
  <2>8. \A v \in Users \ {u} : Changing(v)' <=> Changing(v)
    BY <2>1, <1>a DEF Changing
  <2>9. req'[r] = q /\ \A x \in Requests \ {r} : req'[x] = req[x]
    BY <2>1, <1>a
  <2>10. Settled'
    <3> SUFFICES ASSUME NEW v \in Users \ unsettled', ~Changing(v)'
                 PROVE  /\ \A p \in Pairs : pair'[p].refresh = "live" /\ pair'[p].user = v
                              => pair'[p].password = password'[v]
                        /\ \A x \in Requests : req'[x].pc \in {"rotate", "issue"} /\ req'[x].user = v
                              => req'[x].password = password'[v]
      BY DEF Settled
    <3>1. CASE v = u
      <4>1. ~TooSoon(r) /\ \A p \in Pairs : pair'[p].user = u => pair'[p].refresh # "live"
        BY <3>1, <2>4
      <4>2. password[u] = req[r].password
            /\ \A x \in Requests \ {r} : (req[x].pc \in {"rotate", "issue"} /\ req[x].user = u)
                  => req[x].password = password[u]
        BY <4>1 DEF TooSoon
      <4> QED BY <2>1, <2>9, <3>1, <4>1, <4>2
    <3>2. CASE v # u
      <4>1. v \notin unsettled /\ ~Changing(v)
        BY <3>2, <2>4, <2>8
      <4> QED BY <2>1, <2>4, <2>9, <3>2, <4>1 DEF SInv, Settled, Shrunk
    <3> QED BY <3>1, <3>2
  <2> QED BY <2>5, <2>6, <2>7, <2>10 DEF SInv
<1>12. ASSUME NEW r \in Requests, IssueTokenPair(r) PROVE SInv'
  <2>1. req[r].pc = "issue" /\ req' = [req EXCEPT ![r] = Idle] /\ req[r].user \in Users
        /\ password[req[r].user] > 0
        /\ UNCHANGED <<now, entries, password, revoked, loggedOut, unsettled>>
    BY <1>12 DEF IssueTokenPair, Done, SInv, TypeOK, Registered, history
  <2>2. CASE UNCHANGED pair
    BY <1>a, <2>1, <2>2, SamePairs, RequestStep DEF Idle, SInv
  <2>3. ASSUME NEW p \in Pairs, pair[p].refresh = "none",
               pair' = [pair EXCEPT ![p] = [refresh |-> "live", user |-> req[r].user,
                                            password |-> req[r].password, at |-> now]]
        PROVE  SInv'
    <3> DEFINE new == [refresh |-> "live", user |-> req[r].user,
                       password |-> req[r].password, at |-> now]
    <3>1. new \in PairType
      BY <1>a DEF PairType, ReqType, SInv, TypeOK
    <3>2. TypeOK'
      BY <1>a, <2>1, <2>3, <3>1 DEF SInv, TypeOK, PairType, ReqType, Idle
    <3>3. Registered'
      BY <1>a, <2>1, <2>3 DEF SInv, Registered, Idle
    <3>4. Out'
      BY <1>a, <2>1, <2>3 DEF SInv, TypeOK, Out
    <3>5. \A v \in Users : Changing(v)' <=> Changing(v)
      BY <1>a, <2>1 DEF Changing, Idle
    <3>6. Settled'
      BY <1>a, <2>1, <2>3, <3>5 DEF SInv, Settled, Idle
    <3> QED BY <3>2, <3>3, <3>4, <3>6 DEF SInv
  <2> QED BY <1>12, <2>2, <2>3 DEF IssueTokenPair
<1>13. CASE CleanOnce
  <2>1. UNCHANGED <<now, password, req, loggedOut, unsettled>> /\ entries' \in [Users -> EntryType]
    BY <1>13, <1>a, SweepType DEF CleanOnce, history
  <2>2. revoked' \subseteq revoked /\ \A p \in revoked \ revoked' : pair[p].at + AccessTTL < now
    BY <1>13 DEF CleanOnce, ExpiredRevocations
  <2>3. Shrunk
    <3> DEFINE S == {p \in Pairs : pair[p].refresh # "none" /\ pair[p].at + RefreshTTL < now}
    <3>1. [p \in Pairs |-> IF pair[p].refresh # "none" /\ pair[p].at + RefreshTTL < now
                           THEN [pair[p] EXCEPT !.refresh = "deleted"] ELSE pair[p]]
          = [p \in Pairs |-> IF p \in S THEN [pair[p] EXCEPT !.refresh = "deleted"] ELSE pair[p]]
      OBVIOUS
    <3>2. CASE UNCHANGED pair
      BY <3>2, SamePairs DEF SInv
    <3>3. CASE pair' = [p \in Pairs |-> IF p \in S THEN [pair[p] EXCEPT !.refresh = "deleted"]
                                                     ELSE pair[p]]
      <4>1. S \in SUBSET Pairs /\ \A p \in S : pair[p].refresh # "none"
        OBVIOUS
      <4> HIDE DEF S
      <4> QED BY <3>3, <4>1, SomeMarked DEF SInv
    <3> QED BY <1>13, <3>1, <3>2, <3>3 DEF CleanOnce
  <2>4. TypeOK' /\ Registered'
    BY <2>1, <2>2, <2>3 DEF SInv, TypeOK, Registered, EntryType, PairType, Shrunk
  <2>5. Out'
    <3>1. \A p \in Pairs : pair[p].at \in Nat /\ now \in Nat
      BY <1>a DEF PairType, Times, SInv, TypeOK
    <3> QED BY <2>1, <2>2, <2>3, <3>1 DEF SInv, TypeOK, Out, Shrunk
  <2>6. Settled'
    BY <2>1, <2>3 DEF SInv, Settled, Changing, Shrunk
  <2> QED BY <2>4, <2>5, <2>6 DEF SInv
<1>14. CASE Tick
  <2>1. TypeOK'
    BY <1>14 DEF Tick, history, SInv, TypeOK, Times
  <2>2. Registered' /\ Settled'
    BY <1>14 DEF Tick, history, SInv, Registered, Settled, Changing
  <2>3. Out'
    <3>1. \A p \in Pairs : pair[p].at \in Nat /\ now \in Nat
      BY <1>a DEF PairType, Times, SInv, TypeOK
    <3> QED BY <1>14, <3>1 DEF Tick, history, SInv, TypeOK, Out
  <2> QED BY <2>1, <2>2, <2>3 DEF SInv
<1>15. CASE Restart
  <2>1. TypeOK'
    BY <1>15, <1>b DEF Restart, SInv, TypeOK, Idle, EntryType
  <2>2. Registered' /\ Out'
    BY <1>15 DEF Restart, SInv, Registered, Out, Idle
  <2>3. Settled'
    BY <1>15 DEF Restart, SInv, Settled, Changing, Idle
  <2> QED BY <2>1, <2>2, <2>3 DEF SInv
<1> QED BY <1>1, <1>2, <1>3, <1>4, <1>5, <1>6, <1>7, <1>8, <1>9, <1>10, <1>11, <1>12, <1>13,
           <1>14, <1>15 DEF Next

\* So SInv holds in every state.
LEMMA AlwaysSInv == Spec => []SInv
  BY InitSInv, StepSInv, PTL DEF Spec

\* TypeOK: every token and every request past its checks has a user, through
\* failures, restarts and the janitor.
THEOREM AuthTyped == Spec => []TypeOK
<1>1. SInv => TypeOK
  BY DEF SInv
<1> QED BY AlwaysSInv, <1>1, PTL

\* LoggedOutStaysOut: JWTAuth does not accept an access token again once its
\* logout is recorded, although Cleanup forgets revocations.
THEOREM LogoutCorrect == Spec => []LoggedOutStaysOut
<1>1. SInv => LoggedOutStaysOut
  <2> SUFFICES ASSUME SInv, NEW p \in loggedOut, Accepted(p) PROVE FALSE
    BY DEF LoggedOutStaysOut
  <2>1. p \in Pairs /\ pair[p].at \in Nat /\ now \in Nat
    BY TimeAssumption DEF SInv, TypeOK, Times
  <2> QED BY <2>1, TimeAssumption DEF SInv, Out, Accepted
<1> QED BY AlwaysSInv, <1>1, PTL

\* ReloginIfRevoked: once a password change has revoked the tokens while none of
\* an older password was about to be issued, every live refresh token was issued
\* under the password in force, for any number of requests side by side.
THEOREM ReloginCorrect == Spec => []ReloginIfRevoked
<1>1. SInv => ReloginIfRevoked
  BY DEF SInv, Settled, ReloginIfRevoked, OnlyCurrent
<1> QED BY AlwaysSInv, <1>1, PTL

-----------------------------------------------------------------------------
(* The login limiter.  A login that was let in may still fail, so what the  *)
(* bound on failures counts is failures and logins under way together.      *)

\* The logins of an address that were let in and have not been answered.
Verifying(u) == {r \in Requests : req[r].pc = "verify" /\ req[r].user = u}

Throttled ==
    /\ Cardinality(Tracked(entries)) <= MaxLimiterEntries
    /\ \A u \in Users : entries[u].failures + Cardinality(Verifying(u))
                           <= MaxLoginAttempts + Cardinality(Requests) - 1

\* Addresses tracked and logins under way are finitely many.
LEMMA LimiterFinite ==
    /\ \A es : IsFiniteSet(Tracked(es)) /\ Cardinality(Tracked(es)) \in Nat
    /\ \A u : IsFiniteSet(Verifying(u)) /\ Cardinality(Verifying(u)) \in Nat
    /\ \A u : IsFiniteSet(Verifying(u)') /\ Cardinality(Verifying(u)') \in Nat
    /\ Cardinality(Requests) \in Nat
<1>1. /\ \A es : Tracked(es) \subseteq Users
      /\ \A u : Verifying(u) \subseteq Requests /\ Verifying(u)' \subseteq Requests
  BY DEF Tracked, Verifying
<1> QED BY <1>1, FiniteAssumption, FS_Subset, FS_CardinalityType

\* A subset is no larger.
LEMMA Fewer ==
    ASSUME NEW S, NEW T, IsFiniteSet(T), S \subseteq T
    PROVE  Cardinality(S) \in Nat /\ Cardinality(T) \in Nat /\ Cardinality(S) <= Cardinality(T)
BY FS_Subset, FS_CardinalityType

\* A step that at most forgets failures and ends logins keeps the bounds.
LEMMA QuietStep ==
    ASSUME Throttled, entries \in [Users -> EntryType], entries' \in [Users -> EntryType],
           \A u \in Users : entries'[u].failures \in {0, entries[u].failures},
           \A r \in Requests : req'[r].pc = "verify" => req'[r] = req[r]
    PROVE  Throttled'
<1>1. Tracked(entries') \subseteq Tracked(entries)
  BY DEF Tracked
<1>2. Cardinality(Tracked(entries')) <= MaxLimiterEntries
  BY <1>1, Fewer, LimiterFinite, LimitAssumption DEF Throttled
<1>3. ASSUME NEW u \in Users
      PROVE  entries'[u].failures + Cardinality(Verifying(u)')
                <= MaxLoginAttempts + Cardinality(Requests) - 1
  <2>1. Verifying(u)' \subseteq Verifying(u)
    BY DEF Verifying
  <2>2. Cardinality(Verifying(u)') <= Cardinality(Verifying(u))
    BY <2>1, Fewer, LimiterFinite
  <2>3. entries'[u].failures <= entries[u].failures
    BY DEF EntryType
  <2>4. entries[u].failures \in Nat /\ entries'[u].failures \in Nat
    BY DEF EntryType
  <2>5. entries[u].failures + Cardinality(Verifying(u))
           <= MaxLoginAttempts + Cardinality(Requests) - 1
    BY DEF Throttled
  <2> QED BY <2>2, <2>3, <2>4, <2>5, LimiterFinite, LimitAssumption
<1> QED BY <1>2, <1>3 DEF Throttled

\* A sweep forgets some failures.
LEMMA SweepEases ==
    ASSUME NEW es \in [Users -> EntryType]
    PROVE  /\ Sweep(es) \in [Users -> EntryType]
           /\ \A u \in Users : Sweep(es)[u].failures \in {0, es[u].failures}
BY SweepType DEF Sweep, NoEntry

\* MakeRoom leaves room for one more entry and forgets some failures: when the
\* sweep frees nothing, the entry of the oldest failure goes.
LEMMA RoomMade ==
    ASSUME NEW es \in [Users -> EntryType], Cardinality(Tracked(es)) <= MaxLimiterEntries,
           NEW fs \in MakeRoom(es)
    PROVE  /\ fs \in [Users -> EntryType]
           /\ \A v \in Users : fs[v].failures \in {0, es[v].failures}
           /\ Cardinality(Tracked(fs)) + 1 <= MaxLimiterEntries
<1> DEFINE swept == Sweep(es)
<1>1. fs \in [Users -> EntryType]
  BY MakeRoomType
<1>2. swept \in [Users -> EntryType] /\ \A v \in Users : swept[v].failures \in {0, es[v].failures}
  BY SweepEases
<1>3. MaxLimiterEntries \in Nat
  BY LimitAssumption
<1>4. CASE fs = es /\ Cardinality(Tracked(es)) < MaxLimiterEntries
  BY <1>1, <1>3, <1>4, LimiterFinite
<1>5. CASE fs = swept /\ Cardinality(Tracked(swept)) < MaxLimiterEntries
  BY <1>1, <1>2, <1>3, <1>5, LimiterFinite
<1>6. ASSUME NEW u \in Tracked(swept), fs = [swept EXCEPT ![u] = NoEntry]
      PROVE  /\ \A v \in Users : fs[v].failures \in {0, es[v].failures}
             /\ Cardinality(Tracked(fs)) + 1 <= MaxLimiterEntries
  <2> HIDE DEF swept
  <2>1. u \in Users
    BY DEF Tracked
  <2>2. fs[u].failures = 0 /\ \A v \in Users \ {u} : fs[v] = swept[v]
    BY <1>2, <1>6, <2>1 DEF NoEntry
  <2>3. \A v \in Users : fs[v].failures \in {0, es[v].failures}
    BY <1>2, <2>2
  <2>4. Tracked(fs) = Tracked(swept) \ {u}
    BY <2>1, <2>2 DEF Tracked
  <2>5. Tracked(swept) \subseteq Tracked(es)
    BY <1>2 DEF Tracked
  <2>6. Cardinality(Tracked(swept)) <= Cardinality(Tracked(es))
    BY <2>5, Fewer, LimiterFinite
  <2>7. Cardinality(Tracked(swept) \ {u}) = Cardinality(Tracked(swept)) - 1
    BY FS_RemoveElement, LimiterFinite
  <2>8. Cardinality(Tracked(fs)) + 1 <= MaxLimiterEntries
    BY <1>3, <2>4, <2>6, <2>7, LimiterFinite
  <2> QED BY <2>3, <2>8
<1> QED BY <1>1, <1>4, <1>5, <1>6 DEF MakeRoom

\* A recorded failure takes the place of a login that was under way.
LEMMA FailureStep ==
    ASSUME SInv, Throttled, NEW r \in Requests, NEW u \in Users,
           req[r].pc = "verify", req[r].user = u, RecordFailure(u), Done(r)
    PROVE  Throttled'
<1>1. entries \in [Users -> EntryType] /\ u \in Users /\ DOMAIN req = Requests
  BY DEF SInv, TypeOK, EntryType
<1>2. PICK es \in (IF u \in Tracked(entries) THEN {entries} ELSE MakeRoom(entries)) :
        entries' = [es EXCEPT ![u] = [failures |-> es[u].failures + 1, at |-> now]]
  BY DEF RecordFailure
<1>3. /\ es \in [Users -> EntryType]
      /\ \A v \in Users : es[v].failures \in {0, entries[v].failures}
      /\ Cardinality(Tracked(es) \cup {u}) <= MaxLimiterEntries
  <2>1. CASE u \in Tracked(entries)
    <3>1. es = entries /\ Tracked(es) \cup {u} = Tracked(es)
      BY <1>2, <2>1
    <3> QED BY <1>1, <3>1 DEF Throttled
  <2>2. CASE u \notin Tracked(entries)
    <3>1. /\ es \in [Users -> EntryType]
          /\ \A v \in Users : es[v].failures \in {0, entries[v].failures}
          /\ Cardinality(Tracked(es)) + 1 <= MaxLimiterEntries
      BY <1>1, <1>2, <2>2, RoomMade DEF Throttled
    <3>2. Cardinality(Tracked(es) \cup {u}) =
            IF u \in Tracked(es) THEN Cardinality(Tracked(es)) ELSE Cardinality(Tracked(es)) + 1
      BY FS_AddElement, LimiterFinite
    <3>3. Cardinality(Tracked(es) \cup {u}) <= MaxLimiterEntries
      BY <3>1, <3>2, LimiterFinite, LimitAssumption
    <3> QED BY <3>1, <3>3
  <2> QED BY <2>1, <2>2
<1>4. /\ entries'[u].failures = es[u].failures + 1
      /\ \A v \in Users \ {u} : entries'[v] = es[v]
  BY <1>1, <1>2, <1>3
<1>5. \A v \in Users : entries[v].failures \in Nat /\ es[v].failures \in Nat
  BY <1>1, <1>3 DEF EntryType
<1>6. Cardinality(Tracked(entries')) <= MaxLimiterEntries
  <2>1. Tracked(entries') \subseteq Tracked(es) \cup {u}
    BY <1>4 DEF Tracked
  <2>2. IsFiniteSet(Tracked(es) \cup {u})
    BY LimiterFinite, FS_AddElement
  <2> QED BY <2>1, <2>2, <1>3, Fewer, LimitAssumption
<1>7. /\ Verifying(u)' = Verifying(u) \ {r} /\ r \in Verifying(u)
      /\ \A v \in Users \ {u} : Verifying(v)' = Verifying(v)
  <2>1. req'[r].pc = "idle" /\ \A x \in Requests \ {r} : req'[x] = req[x]
    BY <1>1 DEF Done, Idle
  <2> QED BY <2>1 DEF Verifying
<1>8. Cardinality(Verifying(u)') = Cardinality(Verifying(u)) - 1
  BY <1>7, FS_RemoveElement, LimiterFinite
<1>9. ASSUME NEW v \in Users
      PROVE  entries'[v].failures + Cardinality(Verifying(v)')
                <= MaxLoginAttempts + Cardinality(Requests) - 1
  <2>1. entries[v].failures + Cardinality(Verifying(v))
           <= MaxLoginAttempts + Cardinality(Requests) - 1
    BY DEF Throttled
  <2>2. es[v].failures <= entries[v].failures
    BY <1>3, <1>5
  <2>3. CASE v = u
    BY <2>1, <2>2, <2>3, <1>4, <1>5, <1>8, LimiterFinite, LimitAssumption
  <2>4. CASE v # u
    BY <2>1, <2>2, <2>4, <1>4, <1>5, <1>7, LimiterFinite, LimitAssumption
  <2> QED BY <2>3, <2>4
<1> QED BY <1>6, <1>9 DEF Throttled

\* A login is let in below the limit, and there is no room for more logins
\* under way than there are requests.
LEMMA LoginStep ==
    ASSUME SInv, Throttled, NEW r \in Requests, NEW u \in Users, LoginCheck(r, u)
    PROVE  Throttled'
<1>1. /\ entries \in [Users -> EntryType] /\ req \in [Requests -> ReqType]
      /\ req[r].pc = "idle" /\ NoEntry \in EntryType
  BY TimeAssumption DEF SInv, TypeOK, EntryType, ReqType, LoginCheck, NoEntry, Times
<1>2. /\ entries' \in [Users -> EntryType]
      /\ \A v \in Users : entries'[v].failures \in {0, entries[v].failures}
  BY <1>1 DEF LoginCheck, NoEntry
<1>3. CASE req' = req
  BY <1>1, <1>2, <1>3, QuietStep
<1>4. CASE /\ Allowed(entries'[u])
           /\ req' = [req EXCEPT ![r] = [pc |-> "verify", user |-> u, pair |-> 0, password |-> 0]]
  <2>1. Tracked(entries') \subseteq Tracked(entries)
    BY <1>2 DEF Tracked
  <2>2. Cardinality(Tracked(entries')) <= MaxLimiterEntries
    BY <2>1, Fewer, LimiterFinite, LimitAssumption DEF Throttled
  <2>3. \A v \in Users : entries[v].failures \in Nat /\ entries'[v].failures \in Nat
    BY <1>1, <1>2 DEF EntryType
  <2>4. ASSUME NEW v \in Users
        PROVE  entries'[v].failures + Cardinality(Verifying(v)')
                  <= MaxLoginAttempts + Cardinality(Requests) - 1
    <3>1. CASE v = u
      <4>1. entries'[u].failures < MaxLoginAttempts
        BY <1>4 DEF Allowed
      <4>2. Verifying(u)' \subseteq Requests
        BY DEF Verifying
      <4>3. Cardinality(Verifying(u)') <= Cardinality(Requests)
        BY <4>2, Fewer, FiniteAssumption
      <4> QED BY <3>1, <4>1, <4>3, <2>3, LimiterFinite, LimitAssumption
    <3>2. CASE v # u
      <4>1. Verifying(v)' \subseteq Verifying(v)
        BY <1>1, <1>4, <3>2 DEF Verifying
      <4>2. Cardinality(Verifying(v)') <= Cardinality(Verifying(v))
        BY <4>1, Fewer, LimiterFinite
      <4>3. entries'[v].failures <= entries[v].failures
        BY <1>2, <2>3
      <4>4. entries[v].failures + Cardinality(Verifying(v))
               <= MaxLoginAttempts + Cardinality(Requests) - 1
        BY DEF Throttled
      <4> QED BY <4>2, <4>3, <4>4, <2>3, LimiterFinite, LimitAssumption
    <3> QED BY <3>1, <3>2
  <2> QED BY <2>2, <2>4 DEF Throttled
<1> QED BY <1>3, <1>4 DEF LoginCheck

\* Every step keeps the bounds: the limiter is written by the two steps of a
\* login, the janitor and a restart.
LEMMA StepThrottled == SInv /\ Throttled /\ [Next]_vars => Throttled'
<1> SUFFICES ASSUME SInv, Throttled, [Next]_vars PROVE Throttled'
  OBVIOUS
<1>1. /\ entries \in [Users -> EntryType] /\ req \in [Requests -> ReqType]
      /\ NoEntry \in EntryType /\ NoEntry.failures = 0
  BY TimeAssumption DEF SInv, TypeOK, EntryType, ReqType, NoEntry, Times
<1>2. ASSUME UNCHANGED entries,
             \A r \in Requests : req'[r].pc = "verify" => req'[r] = req[r]
      PROVE  Throttled'
  BY <1>1, <1>2, QuietStep
<1>3. ASSUME UNCHANGED entries, NEW r \in Requests, NEW q,
             req' = [req EXCEPT ![r] = q], q.pc # "verify"
      PROVE  Throttled'
  BY <1>1, <1>2, <1>3
<1>3b. ASSUME UNCHANGED entries, NEW r \in Requests, Done(r) PROVE Throttled'
  <2>1. req' = [req EXCEPT ![r] = Idle] /\ Idle.pc # "verify"
    BY <1>3b DEF Done, Idle
  <2> QED BY <1>3, <1>3b, <2>1
<1>4. CASE UNCHANGED vars
  BY <1>2, <1>4 DEF vars
<1>5. ASSUME NEW r \in Requests, NEW u \in Users, Register(r, u) PROVE Throttled'
  <2> DEFINE q == [pc |-> "issue", user |-> u, pair |-> 0, password |-> 1]
  <2>1. UNCHANGED entries /\ req' = [req EXCEPT ![r] = q] /\ q.pc # "verify"
    BY <1>5 DEF Register
  <2> HIDE DEF q
  <2> QED BY <1>3, <2>1
<1>6. ASSUME NEW r \in Requests, NEW u \in Users, LoginCheck(r, u) PROVE Throttled'
  BY <1>6, LoginStep
<1>7. ASSUME NEW r \in Requests, NEW p \in Pairs,
             RefreshValidate(r, p) \/ LogoutRevoke(r, p) \/ ChangeBegin(r, p)
      PROVE  Throttled'
  BY <1>3, <1>7 DEF RefreshValidate, LogoutRevoke, ChangeBegin
<1>8. ASSUME NEW r \in Requests, LoginVerify(r) PROVE Throttled'
  <2>1. req[r].pc = "verify" /\ req[r].user \in Users
    BY <1>8 DEF LoginVerify, SInv, TypeOK
  <2>2. CASE RecordFailure(req[r].user) /\ Done(r)
    BY <2>1, <2>2, FailureStep
  <2>3. CASE /\ entries' = [entries EXCEPT ![req[r].user] = NoEntry]
             /\ req' = [req EXCEPT ![r] = [pc |-> "issue", user |-> req[r].user, pair |-> 0,
                                           password |-> password[req[r].user]]]
    <3>1. /\ entries' \in [Users -> EntryType]
          /\ \A v \in Users : entries'[v].failures \in {0, entries[v].failures}
      BY <1>1, <2>1, <2>3
    <3>2. \A x \in Requests : req'[x].pc = "verify" => req'[x] = req[x]
      BY <1>1, <2>3
    <3> QED BY <1>1, <3>1, <3>2, QuietStep
  <2>4. CASE UNCHANGED entries /\ Done(r)
    BY <1>3b, <2>4
  <2> QED BY <1>8, <2>2, <2>3, <2>4 DEF LoginVerify
<1>9. ASSUME NEW r \in Requests, RefreshRotate(r) \/ RevokeAllUserRefreshTokens(r)
      PROVE  Throttled'
  <2>1. UNCHANGED entries /\ req' = [req EXCEPT ![r].pc = "issue"]
    BY <1>9 DEF RefreshRotate, RevokeAllUserRefreshTokens
  <2> DEFINE q == [pc |-> "issue", user |-> req[r].user, pair |-> req[r].pair,
                   password |-> req[r].password]
  <2>2. req' = [req EXCEPT ![r] = q] /\ q.pc # "verify"
    BY <1>1, <2>1, PcChanged
  <2> HIDE DEF q
  <2> QED BY <1>3, <2>1, <2>2
<1>10. ASSUME NEW r \in Requests, LogoutRefresh(r) \/ IssueTokenPair(r) PROVE Throttled'
  BY <1>3b, <1>10 DEF LogoutRefresh, IssueTokenPair
<1>11. ASSUME NEW r \in Requests, UpdatePassword(r) PROVE Throttled'
  BY <1>3, <1>3b, <1>11 DEF UpdatePassword
<1>12. CASE CleanOnce
  <2>1. entries' = Sweep(entries) /\ req' = req
    BY <1>12 DEF CleanOnce
  <2> QED BY <1>1, <2>1, SweepEases, QuietStep
<1>13. CASE Tick
  BY <1>2, <1>13 DEF Tick
<1>14. CASE Restart
  <2>1. /\ entries' \in [Users -> EntryType]
        /\ \A v \in Users : entries'[v].failures = 0
        /\ \A x \in Requests : req'[x].pc = "idle"
    BY <1>1, <1>14 DEF Restart, Idle
  <2> QED BY <1>1, <2>1, QuietStep
<1> QED BY <1>4, <1>5, <1>6, <1>7, <1>8, <1>9, <1>10, <1>11, <1>12, <1>13, <1>14 DEF Next

\* LimiterBounded: the limiter's map stays within its cap and an address within
\* its attempts, plus the logins let in side by side, for any limits and any
\* number of addresses and requests.
THEOREM LimiterCorrect == Spec => []LimiterBounded
<1>1. Init => Throttled
  <2> SUFFICES ASSUME Init PROVE Throttled
    OBVIOUS
  <2>1. Tracked(entries) = {} /\ \A u \in Users : Verifying(u) = {} /\ entries[u].failures = 0
    BY DEF Init, Tracked, Verifying, NoEntry, Idle
  <2> QED BY <2>1, FS_EmptySet, LimiterFinite, LimitAssumption DEF Throttled
<1>2. SInv /\ Throttled => LimiterBounded
  <2> SUFFICES ASSUME SInv, Throttled, NEW u \in Users
               PROVE  entries[u].failures <= MaxLoginAttempts + Cardinality(Requests) - 1
    BY DEF LimiterBounded, Throttled
  <2>1. entries[u].failures \in Nat
    BY DEF SInv, TypeOK
  <2>2. entries[u].failures + Cardinality(Verifying(u))
           <= MaxLoginAttempts + Cardinality(Requests) - 1
    BY DEF Throttled
  <2> QED BY <2>1, <2>2, LimiterFinite, LimitAssumption
<1> QED BY <1>1, <1>2, InitSInv, StepSInv, StepThrottled, PTL DEF Spec
=============================================================================
