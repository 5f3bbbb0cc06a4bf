----------------------------- MODULE WireGuard -----------------------------
(***************************************************************************)
(* WireGuard peers: the wireguard_peers table, the interface of the host,  *)
(* the handlers that change first one and then the other, and the sync     *)
(* that runs beside them when the process starts.                          *)
(*                                                                         *)
(* A key stands for a peer: its pair is generated for it and never used    *)
(* again.  The address of a row is left out: the unique index on wg_ip     *)
(* turns two allocations of one address into a failed create.  Any         *)
(* statement and any call of wg may fail.                                  *)
(***************************************************************************)
EXTENDS Naturals, FiniteSets

CONSTANTS
    Keys,          \* public keys of the peers ever created
    PeerRequests,  \* HTTP requests that can be in flight at the same time
    NoPeer

ASSUME NoPeerAssumption == NoPeer \notin Keys

VARIABLES
    row,        \* wireguard_peers: whether the peer exists and is enabled
    wg,         \* external: the peers on the interface
    peerReq,    \* the requests in flight
    sync,       \* the goroutine that runs SyncPeers
    \* History, read by no action:
    disturbed   \* peers that the last complete sync does not account for: a call
                \* failed, was left out, or was not the only one on the peer

wgVars == <<row, wg, peerReq, sync, disturbed>>

NoPeerRequest == [pc |-> "idle", key |-> NoPeer]
SyncDone      == [pc |-> "done", enabled |-> {}, apply |-> {}, remove |-> {}]
Live          == {k \in Keys : row[k].state = "live"}
Enabled       == {k \in Live : row[k].enabled}
PeerDone(r)   == peerReq' = [peerReq EXCEPT ![r] = NoPeerRequest]

WgTypeOK ==
    /\ row \in [Keys -> [state : {"none", "live", "deleted"}, enabled : BOOLEAN]]
    /\ wg \subseteq {k \in Keys : row[k].state # "none"}
    /\ peerReq \in [PeerRequests ->
                  [pc : {"idle", "read", "apply", "remove", "deleteRemove", "deleteRow"},
                   key : Keys \cup {NoPeer}]]
    /\ sync \in [pc : {"list", "show", "apply", "remove", "done"},
                 enabled : SUBSET Keys, apply : SUBSET Keys, remove : SUBSET Keys]
    /\ disturbed \subseteq Keys

\* The process has just started.
WgInit ==
    /\ row = [k \in Keys |-> [state |-> "none", enabled |-> FALSE]]
    /\ wg = {}
    /\ peerReq = [r \in PeerRequests |-> NoPeerRequest]
    /\ sync = [SyncDone EXCEPT !.pc = "list"]
    /\ disturbed = Keys

-----------------------------------------------------------------------------
(* The interface: wg set ... peer, wg set ... peer ... remove. *)

\* A call by a request or the sync for peer k, which may fail.
ApplyPeer(k) ==
    \/ wg' = wg \cup {k} /\ UNCHANGED disturbed
    \/ UNCHANGED wg /\ disturbed' = disturbed \cup {k}

RemovePeer(k) ==
    \/ wg' = wg \ {k} /\ UNCHANGED disturbed
    \/ UNCHANGED wg /\ disturbed' = disturbed \cup {k}

-----------------------------------------------------------------------------
(* The handlers of the API and of the admin pages. *)

\* Peers that a request is at work on.
Busy == {peerReq[r].key : r \in {q \in PeerRequests : peerReq[q].pc # "idle"}}

\* A request that starts finds another one, or the sync, at work on its peer.
Start(r, k, pc) ==
    /\ peerReq[r].pc = "idle"
    /\ peerReq' = [peerReq EXCEPT ![r] = [pc |-> pc, key |-> k]]
    /\ disturbed' = IF k \in Busy \/ sync.pc # "done" THEN disturbed \cup {k} ELSE disturbed

\* The two writes of wireguard_peers that several handlers share.
InsertRow(k) ==
    /\ row[k].state = "none"
    /\ row' = [row EXCEPT ![k] = [state |-> "live", enabled |-> TRUE]]

UpdateRow(k, enabled) ==
    /\ k \in Live
    /\ row' = [row EXCEPT ![k].enabled = enabled]

\* Mutant: the peer is applied first, and its insert fails.
CreatePeerAdmin_ApplyFirst(r, k) ==
    /\ row[k].state = "none"
    /\ peerReq[r].pc = "idle"
    /\ wg' = wg \cup {k}
    /\ UNCHANGED <<row, peerReq, sync, disturbed>>

\* createPeerAdmin and createTenantPeer go on to apply the new peer.
CreatePeerAdmin(r, k) ==
    /\ InsertRow(k)
    /\ Start(r, k, "apply")
    /\ UNCHANGED <<wg, sync>>

\* The JSON API leaves it to the next sync.
CreatePeer(k) ==
    /\ InsertRow(k)
    /\ disturbed' = disturbed \cup {k}
    /\ UNCHANGED <<wg, peerReq, sync>>

\* UpdatePeer of the JSON API, which may set enabled, leaves it as well.
UpdatePeer(k, enabled) ==
    /\ UpdateRow(k, enabled)
    /\ disturbed' = disturbed \cup {k}
    /\ UNCHANGED <<wg, peerReq, sync>>

SetEnabled(r, k, enabled, pc) ==
    /\ UpdateRow(k, enabled)
    /\ Start(r, k, pc)
    /\ UNCHANGED <<wg, sync>>

EnablePeer(r, k) == SetEnabled(r, k, TRUE, "read")

DisablePeer(r, k) == SetEnabled(r, k, FALSE, "remove")

\* The row is read again; if that fails or it is gone, nothing is applied.
EnableRead(r) ==
    LET k == peerReq[r].key IN
    /\ peerReq[r].pc = "read"
    /\ \/ /\ k \in Live
          /\ peerReq' = [peerReq EXCEPT ![r].pc = "apply"]
          /\ UNCHANGED disturbed
       \/ PeerDone(r) /\ disturbed' = disturbed \cup {k}
    /\ UNCHANGED <<row, wg, sync>>

Apply(r) ==
    /\ peerReq[r].pc = "apply"
    /\ ApplyPeer(peerReq[r].key)
    /\ PeerDone(r)
    /\ UNCHANGED <<row, sync>>

Remove(r) ==
    /\ peerReq[r].pc = "remove"
    /\ RemovePeer(peerReq[r].key)
    /\ PeerDone(r)
    /\ UNCHANGED <<row, sync>>

DeleteBegin(r, k) ==
    /\ k \in Live
    /\ Start(r, k, "deleteRemove")
    /\ UNCHANGED <<row, wg, sync>>

\* A failure to remove the peer is ignored.
DeleteRemove(r) ==
    /\ peerReq[r].pc = "deleteRemove"
    /\ RemovePeer(peerReq[r].key)
    /\ peerReq' = [peerReq EXCEPT ![r].pc = "deleteRow"]
    /\ UNCHANGED <<row, sync>>

DeleteRow(r) ==
    LET k == peerReq[r].key IN
    /\ peerReq[r].pc = "deleteRow"
    /\ \/ k \in Live /\ row' = [row EXCEPT ![k].state = "deleted"] /\ UNCHANGED disturbed
       \/ UNCHANGED row /\ disturbed' = disturbed \cup {k}
    /\ PeerDone(r)
    /\ UNCHANGED <<wg, sync>>

-----------------------------------------------------------------------------
(* SyncPeers. *)

\* The table is read; a failure ends the sync.
SyncList ==
    /\ sync.pc = "list"
    /\ \/ /\ sync' = [pc |-> "show", enabled |-> Enabled, apply |-> Enabled, remove |-> {}]
          /\ disturbed' = Busy
       \/ sync' = SyncDone /\ UNCHANGED disturbed
    /\ UNCHANGED <<row, wg, peerReq>>

\* Mutant: a peer that is still in the table stays, disabled or not.
Obsolete_Deleted == {k \in wg : row[k].state = "deleted"}

\* Peers on the interface that the table does not have or has disabled.
Obsolete == wg \ sync.enabled

\* The interface is read; a failure skips the sync.
SyncShow ==
    /\ sync.pc = "show"
    /\ \/ sync' = [sync EXCEPT !.pc = "apply", !.remove = Obsolete] /\ UNCHANGED disturbed
       \/ sync' = SyncDone /\ disturbed' = Keys
    /\ UNCHANGED <<row, wg, peerReq>>

\* One peer after the other; a failure is logged.
SyncApply ==
    /\ sync.pc = "apply"
    /\ \/ \E k \in sync.apply :
            /\ ApplyPeer(k)
            /\ sync' = [sync EXCEPT !.apply = @ \ {k}]
       \/ /\ sync.apply = {}
          /\ sync' = [sync EXCEPT !.pc = "remove"]
          /\ UNCHANGED <<wg, disturbed>>
    /\ UNCHANGED <<row, peerReq>>

SyncRemove ==
    /\ sync.pc = "remove"
    /\ \/ \E k \in sync.remove :
            /\ RemovePeer(k)
            /\ sync' = [sync EXCEPT !.remove = @ \ {k}]
       \/ sync.remove = {} /\ sync' = SyncDone /\ UNCHANGED <<wg, disturbed>>
    /\ UNCHANGED <<row, peerReq>>

\* The process restarts, and the interface may have gone with the host.
WgRestart ==
    /\ peerReq' = [r \in PeerRequests |-> NoPeerRequest]
    /\ sync' = [SyncDone EXCEPT !.pc = "list"]
    /\ wg' \in {wg, {}}
    /\ disturbed' = Keys
    /\ UNCHANGED row

-----------------------------------------------------------------------------
WgNext ==
    \/ \E k \in Keys : CreatePeer(k) \/ \E enabled \in BOOLEAN : UpdatePeer(k, enabled)
    \/ \E r \in PeerRequests, k \in Keys :
         CreatePeerAdmin(r, k) \/ EnablePeer(r, k) \/ DisablePeer(r, k) \/ DeleteBegin(r, k)
    \/ \E r \in PeerRequests :
         EnableRead(r) \/ Apply(r) \/ Remove(r) \/ DeleteRemove(r) \/ DeleteRow(r)
    \/ SyncList \/ SyncShow \/ SyncApply \/ SyncRemove
    \/ WgRestart

WgSpec == WgInit /\ [][WgNext]_wgVars

-----------------------------------------------------------------------------
(* The interface follows the table: once the sync is over, a peer that no   *)
(* request is at work on is on the interface exactly if it is enabled,      *)
(* unless a step failed, was left out, or ran beside another on that peer   *)
(* since the sync began.                                                    *)
InterfaceFollowsTable ==
    sync.pc = "done" =>
        \A k \in Keys \ (disturbed \cup Busy) : k \in wg <=> k \in Enabled
=============================================================================
