----------------------------- MODULE MCStations -----------------------------
(* Small instances of Stations and StationList for TLC, one behaviour       *)
(* running in one of them: two tenants that get and give back addresses and *)
(* have one slug to take; one tenant with two slugs and two creates at once;*)
(* and a client that walks through the pages of a list, while the table and *)
(* the poller stay at their start.                                          *)
EXTENDS Stations, StationList

CONSTANTS OneTenant, OneSlug

VARIABLE instance

\* All tenants have the same subdomain, one after the other, and the smallest
\* limit of a tier.
OneSubdomain == [t \in Tenants |-> OneSlug]
LimitOne == [t \in Tenants |-> 1]

WithinInstance ==
    \/ /\ instance = "addresses"
       /\ \A s \in Slugs \ {OneSlug} : station[s] = None /\ \A c \in creating : c.slug # s
    \/ /\ instance = "limits"
       /\ \A t \in Tenants \ {OneTenant} : row[t].status = "absent"

\* An empty list, already shown.
NoList ==
    rows = <<>> /\ byListeners = FALSE /\ limit = 1 /\ offset = 0 /\ shown = <<>> /\ more = FALSE

MCInit ==
    /\ Init
    /\ \/ instance \in {"addresses", "limits"} /\ NoList
       \/ instance = "list" /\ ListInit

\* The last disjunct: a client that has seen the last page is done.
MCNext ==
    /\ UNCHANGED instance
    /\ \/ Next /\ WithinInstance' /\ UNCHANGED listVars
       \/ instance = "list" /\ List /\ UNCHANGED vars
       \/ instance = "list" /\ ~more /\ UNCHANGED <<vars, listVars>>

MCSpec ==
    /\ MCInit /\ [][MCNext]_<<vars, listVars, instance>>
    /\ PollerFairness
=============================================================================
