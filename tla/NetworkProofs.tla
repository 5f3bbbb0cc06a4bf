--------------------------- MODULE NetworkProofs ---------------------------
(***************************************************************************)
(* The addresses of tenants and peers: the loop of ipalloc.Next is correct *)
(* for an address space of any size.  The peers: the interface follows the *)
(* table, for any number of peers and requests.                            *)
(***************************************************************************)
EXTENDS IPAlloc, WireGuard, TLAPS

\* A request that is not idle has a peer with a row, and so have the peers the
\* sync is to apply.
Known ==
    /\ \A r \in PeerRequests : peerReq[r].pc # "idle" =>
         peerReq[r].key \in Keys /\ row[peerReq[r].key].state # "none"
    /\ \A k \in sync.apply \cup sync.enabled : row[k].state # "none"

\* The sync has read k as it is, and what is still to be done for k makes the
\* interface agree.
SyncOn(k) ==
    /\ sync.pc # "list"
    /\ sync.pc # "done" => (k \in Enabled <=> k \in sync.enabled)
    /\ sync.pc = "show" => (k \in sync.enabled <=> k \in sync.apply)
    /\ sync.pc = "apply" =>
         IF k \in sync.enabled THEN k \in sync.apply \cup wg /\ k \notin sync.remove
                               ELSE k \notin sync.apply /\ (k \in wg => k \in sync.remove)
    /\ sync.pc = "remove" =>
         IF k \in sync.enabled THEN k \in wg /\ k \notin sync.remove
                               ELSE k \in wg => k \in sync.remove

\* What a request still has to do for its peer k makes the interface agree.
RequestOn(r, k) ==
    /\ peerReq[r].pc \in {"read", "apply"} => k \in Enabled
    /\ peerReq[r].pc = "remove" => k \notin Enabled
    /\ peerReq[r].pc = "deleteRemove" => (k \in wg <=> k \in Enabled)
    /\ peerReq[r].pc = "deleteRow" => k \notin wg

\* r is at work on k.
On(r, k) == peerReq[r].pc # "idle" /\ peerReq[r].key = k

\* A peer that nothing has disturbed has the sync, one request or nobody at
\* work on it.
Accounted ==
    \A k \in Keys \ disturbed :
        /\ SyncOn(k)
        /\ \A r \in PeerRequests : On(r, k) =>
             /\ sync.pc = "done"
             /\ RequestOn(r, k)
             /\ \A q \in PeerRequests : On(q, k) => q = r
        /\ (sync.pc = "done" /\ \A r \in PeerRequests : ~On(r, k)) => (k \in wg <=> k \in Enabled)

Inv == WgTypeOK /\ Known /\ Accounted

-----------------------------------------------------------------------------
LEMMA BusyOn == ASSUME NEW k PROVE k \in Busy <=> \E r \in PeerRequests : On(r, k)
  BY DEF Busy, On

LEMMA InitInv == WgInit => Inv
  BY DEF WgInit, Inv, WgTypeOK, Known, Accounted, NoPeerRequest, SyncDone, On

LEMMA StepInv == Inv /\ [WgNext]_wgVars => Inv'
<1> SUFFICES ASSUME Inv, [WgNext]_wgVars PROVE Inv'
  OBVIOUS
<1> USE NoPeerAssumption
<1>1. CASE UNCHANGED wgVars
  BY <1>1 DEF wgVars, Inv, WgTypeOK, Known, Accounted, SyncOn, RequestOn, On, Enabled, Live
<1>2. ASSUME NEW k \in Keys, CreatePeer(k) PROVE Inv'
  BY <1>2 DEF CreatePeer, Inv, WgTypeOK, Known, Accounted, SyncOn, RequestOn, On, Enabled,
     Live, InsertRow
<1>3. ASSUME NEW k \in Keys, NEW enabled \in BOOLEAN, UpdatePeer(k, enabled) PROVE Inv'
  BY <1>3 DEF UpdatePeer, Inv, WgTypeOK, Known, Accounted, SyncOn, RequestOn, On, Enabled,
     Live, UpdateRow
<1>4. ASSUME NEW r \in PeerRequests, NEW k \in Keys, CreatePeerAdmin(r, k) PROVE Inv'
  <2>1. WgTypeOK'
    BY <1>4 DEF CreatePeerAdmin, Start, Inv, WgTypeOK, Known, Enabled, Live, InsertRow
  <2>2. Known'
    BY <1>4 DEF CreatePeerAdmin, Start, Inv, WgTypeOK, Known, Enabled, Live, InsertRow
  <2>3. Accounted'
    BY <1>4, BusyOn DEF CreatePeerAdmin, Start, Inv, WgTypeOK, Known, Accounted, SyncOn,
       InsertRow,
       RequestOn, On, Enabled, Live
  <2> QED BY <2>1, <2>2, <2>3 DEF Inv
<1>5. ASSUME NEW r \in PeerRequests, NEW k \in Keys, EnablePeer(r, k) PROVE Inv'
  <2>1. WgTypeOK'
    BY <1>5 DEF EnablePeer, SetEnabled, Start, Inv, WgTypeOK, Known, Enabled, Live, UpdateRow
  <2>2. Known'
    BY <1>5 DEF EnablePeer, SetEnabled, Start, Inv, WgTypeOK, Known, Enabled, Live, UpdateRow
  <2>3. Accounted'
    BY <1>5, BusyOn DEF EnablePeer, SetEnabled, Start, Inv, WgTypeOK, Known, Accounted,
       SyncOn, UpdateRow,
       RequestOn, On, Enabled, Live
  <2> QED BY <2>1, <2>2, <2>3 DEF Inv
<1>6. ASSUME NEW r \in PeerRequests, NEW k \in Keys, DisablePeer(r, k) PROVE Inv'
  <2>1. WgTypeOK'
    BY <1>6 DEF DisablePeer, SetEnabled, Start, Inv, WgTypeOK, Known, Enabled, Live, UpdateRow
  <2>2. Known'
    BY <1>6 DEF DisablePeer, SetEnabled, Start, Inv, WgTypeOK, Known, Enabled, Live, UpdateRow
  <2>3. Accounted'
    BY <1>6, BusyOn DEF DisablePeer, SetEnabled, Start, Inv, WgTypeOK, Known, Accounted,
       SyncOn, UpdateRow,
       RequestOn, On, Enabled, Live
  <2> QED BY <2>1, <2>2, <2>3 DEF Inv
<1>7. ASSUME NEW r \in PeerRequests, NEW k \in Keys, DeleteBegin(r, k) PROVE Inv'
  <2>1. WgTypeOK'
    BY <1>7 DEF DeleteBegin, Start, Inv, WgTypeOK, Known, Enabled, Live
  <2>2. Known'
    BY <1>7 DEF DeleteBegin, Start, Inv, WgTypeOK, Known, Enabled, Live
  <2>3. Accounted'
    BY <1>7, BusyOn DEF DeleteBegin, Start, Inv, WgTypeOK, Known, Accounted, SyncOn,
       RequestOn, On, Enabled, Live
  <2> QED BY <2>1, <2>2, <2>3 DEF Inv
<1>8. ASSUME NEW r \in PeerRequests, EnableRead(r) PROVE Inv'
  <2> DEFINE k == peerReq[r].key
  <2>1. CASE k \in Live /\ peerReq' = [peerReq EXCEPT ![r].pc = "apply"] /\ UNCHANGED disturbed
    <3>1. WgTypeOK' /\ Known'
      BY <1>8, <2>1 DEF EnableRead, Inv, WgTypeOK, Known, Live
    <3>2. Accounted'
      BY <1>8, <2>1 DEF EnableRead, Inv, WgTypeOK, Known, Accounted, SyncOn, RequestOn, On,
         Enabled, Live
    <3> QED BY <3>1, <3>2 DEF Inv
  <2>2. CASE PeerDone(r) /\ disturbed' = disturbed \cup {k}
    <3>1. WgTypeOK' /\ Known'
      BY <1>8, <2>2 DEF EnableRead, PeerDone, NoPeerRequest, Inv, WgTypeOK, Known, Live
    <3>2. Accounted'
      BY <1>8, <2>2 DEF EnableRead, PeerDone, NoPeerRequest, Inv, WgTypeOK, Known, Accounted,
         SyncOn, RequestOn, On,
         Enabled, Live
    <3> QED BY <3>1, <3>2 DEF Inv
  <2> QED BY <1>8, <2>1, <2>2 DEF EnableRead
<1>9. ASSUME NEW r \in PeerRequests, Apply(r) PROVE Inv'
  <2>1. WgTypeOK'
    BY <1>9 DEF Apply, ApplyPeer, PeerDone, NoPeerRequest, Inv, WgTypeOK, Known, Enabled, Live
  <2>2. Known'
    BY <1>9 DEF Apply, ApplyPeer, PeerDone, NoPeerRequest, Inv, WgTypeOK, Known, Enabled, Live
  <2>3. Accounted'
    BY <1>9 DEF Apply, ApplyPeer, PeerDone, NoPeerRequest, Inv, WgTypeOK, Known, Accounted, SyncOn,
       RequestOn, On, Enabled, Live
  <2> QED BY <2>1, <2>2, <2>3 DEF Inv
<1>10. ASSUME NEW r \in PeerRequests, Remove(r) PROVE Inv'
  <2>1. WgTypeOK'
    BY <1>10 DEF Remove, RemovePeer, PeerDone, NoPeerRequest, Inv, WgTypeOK, Known, Enabled, Live
  <2>2. Known'
    BY <1>10 DEF Remove, RemovePeer, PeerDone, NoPeerRequest, Inv, WgTypeOK, Known, Enabled, Live
  <2>3. Accounted'
    BY <1>10 DEF Remove, RemovePeer, PeerDone, NoPeerRequest, Inv, WgTypeOK, Known, Accounted,
       SyncOn,
       RequestOn, On, Enabled, Live
  <2> QED BY <2>1, <2>2, <2>3 DEF Inv
<1>11. ASSUME NEW r \in PeerRequests, DeleteRemove(r) PROVE Inv'
  <2>1. WgTypeOK'
    BY <1>11 DEF DeleteRemove, RemovePeer, Inv, WgTypeOK, Known, Enabled, Live
  <2>2. Known'
    BY <1>11 DEF DeleteRemove, RemovePeer, Inv, WgTypeOK, Known, Enabled, Live
  <2>3. Accounted'
    BY <1>11 DEF DeleteRemove, RemovePeer, Inv, WgTypeOK, Known, Accounted, SyncOn,
       RequestOn, On, Enabled, Live
  <2> QED BY <2>1, <2>2, <2>3 DEF Inv
<1>12. ASSUME NEW r \in PeerRequests, DeleteRow(r) PROVE Inv'
  <2> DEFINE k == peerReq[r].key
  <2>1. CASE k \in Live /\ row' = [row EXCEPT ![k].state = "deleted"] /\ UNCHANGED disturbed
    <3>1. WgTypeOK' /\ Known'
      BY <1>12, <2>1 DEF DeleteRow, PeerDone, NoPeerRequest, Inv, WgTypeOK, Known, Live
    <3>2. Accounted'
      BY <1>12, <2>1 DEF DeleteRow, PeerDone, NoPeerRequest, Inv, WgTypeOK, Known, Accounted,
         SyncOn, RequestOn, On,
         Enabled, Live
    <3> QED BY <3>1, <3>2 DEF Inv
  <2>2. CASE UNCHANGED row /\ disturbed' = disturbed \cup {k}
    <3>1. WgTypeOK' /\ Known'
      BY <1>12, <2>2 DEF DeleteRow, PeerDone, NoPeerRequest, Inv, WgTypeOK, Known, Live
    <3>2. Accounted'
      BY <1>12, <2>2 DEF DeleteRow, PeerDone, NoPeerRequest, Inv, WgTypeOK, Known, Accounted,
         SyncOn, RequestOn, On,
         Enabled, Live
    <3> QED BY <3>1, <3>2 DEF Inv
  <2> QED BY <1>12, <2>1, <2>2 DEF DeleteRow
<1>13. CASE SyncList
  <2>1. CASE /\ sync' = [pc |-> "show", enabled |-> Enabled, apply |-> Enabled, remove |-> {}]
            /\ disturbed' = Busy
    <3>1. WgTypeOK' /\ Known'
      BY <1>13, <2>1 DEF SyncList, Busy, Inv, WgTypeOK, Known, Enabled, Live
    <3>2. Accounted'
      BY <1>13, <2>1, BusyOn DEF SyncList, Inv, WgTypeOK, Known, Accounted, SyncOn,
         RequestOn, On,
         Enabled, Live
    <3> QED BY <3>1, <3>2 DEF Inv
  <2>2. CASE sync' = SyncDone /\ UNCHANGED disturbed
    <3>1. WgTypeOK' /\ Known'
      BY <1>13, <2>2 DEF SyncList, SyncDone, Inv, WgTypeOK, Known, Live
    <3>2. Accounted'
      BY <1>13, <2>2 DEF SyncList, SyncDone, Inv, WgTypeOK, Known, Accounted, SyncOn,
         RequestOn, On,
         Enabled, Live
    <3> QED BY <3>1, <3>2 DEF Inv
  <2> QED BY <1>13, <2>1, <2>2 DEF SyncList
<1>14. CASE SyncShow
  <2>1. CASE sync' = [sync EXCEPT !.pc = "apply", !.remove = Obsolete] /\ UNCHANGED disturbed
    <3>1. sync' = [pc |-> "apply", enabled |-> sync.enabled, apply |-> sync.apply,
                   remove |-> wg \ sync.enabled]
      BY <2>1 DEF Inv, WgTypeOK, Obsolete
    <3>2. WgTypeOK' /\ Known'
      BY <1>14, <2>1, <3>1 DEF SyncShow, Inv, WgTypeOK, Known
    <3>3. sync.pc = "show" /\ UNCHANGED <<row, wg, peerReq>> /\ Enabled' = Enabled
      BY <1>14 DEF SyncShow, Enabled, Live
    <3>4. ASSUME NEW k \in Keys \ disturbed PROVE SyncOn(k)' /\ \A r \in PeerRequests : ~On(r, k)'
      <4>1. SyncOn(k) /\ \A r \in PeerRequests : ~On(r, k)
        BY <3>3 DEF Inv, Accounted
      <4>2. SyncOn(k)'
        BY <3>1, <3>3, <4>1 DEF SyncOn
      <4> QED BY <3>3, <4>1, <4>2 DEF On
    <3>5. Accounted'
      BY <2>1, <3>1, <3>4 DEF Accounted
    <3> QED BY <3>2, <3>5 DEF Inv
  <2>2. CASE sync' = SyncDone /\ disturbed' = Keys
    <3>1. WgTypeOK' /\ Known'
      BY <1>14, <2>2 DEF SyncShow, SyncDone, Inv, WgTypeOK, Known, Live
    <3>2. Accounted'
      BY <1>14, <2>2 DEF SyncShow, SyncDone, Inv, WgTypeOK, Known, Accounted, SyncOn,
         RequestOn, On,
         Enabled, Live
    <3> QED BY <3>1, <3>2 DEF Inv
  <2> QED BY <1>14, <2>1, <2>2 DEF SyncShow
<1>15. CASE SyncApply
  <2>1. WgTypeOK'
    BY <1>15 DEF SyncApply, ApplyPeer, Inv, WgTypeOK, Known, Enabled, Live
  <2>2. Known'
    BY <1>15 DEF SyncApply, ApplyPeer, Inv, WgTypeOK, Known, Enabled, Live
  <2>3. Accounted'
    BY <1>15 DEF SyncApply, ApplyPeer, Inv, WgTypeOK, Known, Accounted, SyncOn,
       RequestOn, On, Enabled, Live
  <2> QED BY <2>1, <2>2, <2>3 DEF Inv
<1>16. CASE SyncRemove
  <2>1. WgTypeOK'
    BY <1>16 DEF SyncRemove, RemovePeer, SyncDone, Inv, WgTypeOK, Known, Enabled, Live
  <2>2. Known'
    BY <1>16 DEF SyncRemove, RemovePeer, SyncDone, Inv, WgTypeOK, Known, Enabled, Live
  <2>3. Accounted'
    BY <1>16 DEF SyncRemove, RemovePeer, SyncDone, Inv, WgTypeOK, Known, Accounted, SyncOn,
       RequestOn, On, Enabled, Live
  <2> QED BY <2>1, <2>2, <2>3 DEF Inv
<1>17. CASE WgRestart
  BY <1>17 DEF WgRestart, NoPeerRequest, SyncDone, Inv, WgTypeOK, Known, Accounted, On
<1> QED BY <1>1, <1>2, <1>3, <1>4, <1>5, <1>6, <1>7, <1>8, <1>9, <1>10, <1>11, <1>12, <1>13,
           <1>14, <1>15, <1>16, <1>17 DEF WgNext

\* WgTypeOK: the interface never has a peer that was not in the table, whatever
\* fails and whenever the process restarts.
THEOREM PeersTyped == WgSpec => []WgTypeOK
<1>1. Inv => WgTypeOK
  BY DEF Inv
<1> QED BY InitInv, StepInv, <1>1, PTL DEF WgSpec

\* InterfaceFollowsTable: enabled peers and no others are on the interface, as
\* far as SyncPeers and the handlers got to work undisturbed.
THEOREM InterfaceCorrect == WgSpec => []InterfaceFollowsTable
<1>1. Inv => InterfaceFollowsTable
  BY BusyOn DEF Inv, Accounted, InterfaceFollowsTable
<1> QED BY InitInv, StepInv, <1>1, PTL DEF WgSpec

-----------------------------------------------------------------------------
(* ipalloc.Next *)

USE SpaceAssumption, BlockAssumption

(* What the loop has established: every address it has passed is taken.    *)
(* A candidate that ran off the top of the space leaves none to look at.   *)
Passed ==
    /\ network \in Int /\ lastAddr \in Int
    /\ used \subseteq Space
    /\ candidate \in Space \cup {Invalid}
    /\ candidate # Invalid => network + 1 < candidate
    /\ pc = "loop" => \A a \in FreeAddrs : candidate # Invalid /\ candidate <= a

(* Masking an address gives an integer.                                    *)
LEMMA NetworkInt == \A a \in Int, s \in Nat \ {0} : a - (a % s) \in Int
  OBVIOUS

(* Before the loop, no host lies below the first candidate.                *)
LEMMA InitPassed == AllocInit => Passed /\ NextCorrect
<1> SUFFICES ASSUME AllocInit PROVE Passed /\ NextCorrect
  OBVIOUS
<1>1. network \in Int /\ lastAddr \in Int
  BY NetworkInt DEF AllocInit, Space, network, lastAddr
<1>2. network \in Space
  <2>1. \A a \in Nat, s \in Nat \ {0} : 0 <= a % s /\ a % s <= a
    OBVIOUS
  <2> QED
    BY <2>1 DEF AllocInit, Space, network
<1> HIDE DEF network, lastAddr
<1>3. candidate \in Space \cup {Invalid} /\ (candidate # Invalid => network + 1 < candidate)
  BY <1>1, <1>2 DEF AllocInit, AddrNext, Space, Invalid
<1>4. \A a \in FreeAddrs : candidate # Invalid /\ candidate <= a
  BY <1>1, <1>2 DEF AllocInit, AddrNext, Space, Invalid, FreeAddrs
<1> QED
  BY <1>1, <1>3, <1>4 DEF AllocInit, Passed, NextCorrect

(* An iteration of the loop of ipalloc.Next passes only taken addresses,   *)
(* and what it returns is right.                                           *)
LEMMA NextPassed == Passed /\ NextCorrect /\ [AllocNext]_allocVars => Passed' /\ NextCorrect'
<1> SUFFICES ASSUME Passed, NextCorrect, [AllocNext]_allocVars PROVE Passed' /\ NextCorrect'
  OBVIOUS
<1>0. UNCHANGED <<network, lastAddr, FreeAddrs, used>>
  BY DEF AllocNext, allocVars, Found, Taken, Exhausted, network, lastAddr, FreeAddrs
<1>1. CASE Found
  BY <1>0, <1>1 DEF Found, InRange, Passed, NextCorrect, FreeAddrs
<1>2. CASE Taken
  <2>1. /\ candidate' \in Space \cup {Invalid}
        /\ candidate' # Invalid => network' + 1 < candidate'
    BY <1>0, <1>2 DEF Taken, InRange, Passed, AddrNext, Space, Invalid
  <2>2. \A a \in FreeAddrs : a # candidate /\ candidate <= a
    BY <1>2 DEF Taken, Passed, FreeAddrs
  <2>3. \A a \in FreeAddrs' : candidate' # Invalid /\ candidate' <= a
    <3>1. /\ candidate \in Int /\ candidate # Invalid
          /\ \A a \in FreeAddrs : a \in Int /\ a <= SpaceSize - 1
      BY <1>2 DEF Taken, InRange, Passed, Space, Invalid, FreeAddrs
    <3>2. \A a \in FreeAddrs : candidate + 1 <= a /\ candidate # SpaceSize - 1
      BY <2>2, <3>1
    <3>3. candidate' = AddrNext(candidate) /\ candidate + 1 # Invalid
      BY <1>2 DEF Taken, InRange, Passed, Space, Invalid
    <3> QED
      BY <1>0, <3>1, <3>2, <3>3 DEF AddrNext
  <2> QED
    BY <1>0, <1>2, <2>1, <2>3 DEF Taken, Passed, NextCorrect
<1>3. CASE Exhausted
  <2>1. ASSUME NEW a \in FreeAddrs PROVE FALSE
    <3>1. candidate # Invalid /\ candidate <= a /\ candidate \in Int
      BY <1>3 DEF Exhausted, Passed, Space
    <3>2. a < lastAddr /\ a \in Int /\ lastAddr \in Int
      BY DEF FreeAddrs, Passed, Space
    <3> QED
      BY <1>3, <3>1, <3>2 DEF Exhausted, InRange
  <2> QED
    BY <1>0, <1>3, <2>1 DEF Exhausted, Passed, NextCorrect
<1>4. CASE UNCHANGED allocVars
  BY <1>0, <1>4 DEF allocVars, Passed, NextCorrect
<1> QED
  BY <1>1, <1>2, <1>3, <1>4 DEF AllocNext

(* ipalloc.Next hands out the first free host of the block or reports that *)
(* there is none, for every address space, every block, also at the top of *)
(* the space, and every set of taken addresses.                            *)
THEOREM AllocationCorrect == AllocSpec => []NextCorrect
  BY InitPassed, NextPassed, PTL DEF AllocSpec
============================================================================
