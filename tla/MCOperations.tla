---------------------------- MODULE MCOperations ----------------------------
(***************************************************************************)
(* Small instances of what users and operators do beside the life of a     *)
(* tenant: Auth, Passkeys, Catalogue, WireGuard and IPAlloc.  They share   *)
(* no state: a behaviour runs one of them and holds the others at their    *)
(* start.                                                                  *)
(***************************************************************************)
EXTENDS Auth, Passkeys, Catalogue, WireGuard, IPAlloc, TLC

CONSTANTS OneURL, OneToken

VARIABLE part  \* chosen at the start

\* Two instances of Auth: logins of two users that do not get so far as a token,
\* and the sessions of one user who mistypes no password.
WithinAuth ==
    \/ /\ part = "logins"
       /\ \A p \in Pairs : pair[p].refresh = "none"
    \/ /\ part = "sessions"
       /\ Tracked(entries) = {}
       /\ \E u \in Users : \A v \in Users \ {u} :
             password[v] = 0 /\ \A r \in Requests : req[r].user # v

\* Two instances of Catalogue: one tenant with URLs and tokens that change, and
\* two tenants whose nodes are all reached in one way.
WithinCatalogue ==
    \/ /\ part = "clients"
       /\ Cardinality({t \in Tenants : tenant[t].step # "new"}) <= 1
    \/ /\ part = "rows"
       /\ filling = NotFilling
       /\ \A n \in Nodes : HasNode(n) => node[n].url = OneURL /\ node[n].token = OneToken

\* Nothing asked of ipalloc.Next.
NoAllocation ==
    addr = 0 /\ size = 1 /\ used = {} /\ candidate = Invalid /\ pc = "idle" /\ result = Invalid

MCInit ==
    /\ Init /\ PkInit /\ CatInit /\ WgInit
    /\ \/ part \in {"logins", "sessions", "admin", "clients", "rows", "peers"} /\ NoAllocation
       \/ part = "addresses" /\ AllocInit

MCNext ==
    /\ UNCHANGED part
    /\ \/ /\ part \in {"logins", "sessions"}
          /\ Next /\ WithinAuth'
          /\ UNCHANGED <<pkVars, catVars, wgVars, allocVars>>
       \/ part = "admin" /\ PkNext /\ UNCHANGED <<vars, catVars, wgVars, allocVars>>
       \/ /\ part \in {"clients", "rows"}
          /\ CatNext /\ WithinCatalogue'
          /\ UNCHANGED <<vars, pkVars, wgVars, allocVars>>
       \/ part = "peers" /\ WgNext /\ UNCHANGED <<vars, pkVars, catVars, allocVars>>
       \/ part = "addresses" /\ AllocNext /\ UNCHANGED <<vars, pkVars, catVars, wgVars>>

MCSpec == MCInit /\ [][MCNext]_<<vars, pkVars, catVars, wgVars, allocVars, part>>

\* Two users or tenants, and two requests, of any part are interchangeable.
Symmetry == Permutations(Users) \cup Permutations(Requests)
=============================================================================
