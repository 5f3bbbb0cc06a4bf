------------------------------- MODULE IPAlloc -------------------------------
(***************************************************************************)
(* ipalloc.Next: the first free host address of a subnet.  The IPv4 space  *)
(* is 0 .. SpaceSize - 1 and a prefix is an address and the size of its    *)
(* block; parsing and formatting are left out, since used holds addresses  *)
(* in the form they are written in.                                        *)
(***************************************************************************)
EXTENDS Integers

CONSTANTS SpaceSize,   \* number of addresses, 2^32 in the code
          BlockSizes   \* sizes of the blocks a prefix can name, powers of two

ASSUME SpaceAssumption == SpaceSize \in Nat \ {0}
ASSUME BlockAssumption == BlockSizes \subseteq Nat \ {0}

VARIABLES addr, size,  \* the prefix
          used,        \* addresses already taken
          candidate,   \* the loop variable
          pc, result

allocVars == <<addr, size, used, candidate, pc, result>>

Space == 0 .. SpaceSize - 1

\* The zero netip.Addr: not valid, and less than every address.
Invalid == -1

\* netip's Addr.Next: the zero Addr past the top of the space, and past itself.
AddrNext(a) == IF a = Invalid \/ a = SpaceSize - 1 THEN Invalid ELSE a + 1

network == addr - (addr % size)

lastAddr == network + size - 1

\* Mutant: the loop condition without the validity check.
InRange_NoValidity == candidate < lastAddr

\* The loop condition.
InRange == candidate # Invalid /\ candidate < lastAddr

AllocInit ==
    /\ addr \in Space
    /\ size \in BlockSizes
    /\ used \in SUBSET Space
    /\ candidate = AddrNext(AddrNext(network))
    /\ pc = "loop"
    /\ result = Invalid

Found ==
    /\ pc = "loop" /\ InRange
    /\ candidate \notin used
    /\ pc' = "returned"
    /\ result' = candidate
    /\ UNCHANGED <<addr, size, used, candidate>>

Taken ==
    /\ pc = "loop" /\ InRange
    /\ candidate \in used
    /\ candidate' = AddrNext(candidate)
    /\ UNCHANGED <<addr, size, used, pc, result>>

Exhausted ==
    /\ pc = "loop" /\ ~InRange
    /\ pc' = "failed"
    /\ UNCHANGED <<addr, size, used, candidate, result>>

AllocNext == Found \/ Taken \/ Exhausted

AllocSpec == AllocInit /\ [][AllocNext]_allocVars

-----------------------------------------------------------------------------
\* What may be handed out: every address of the block but the network, the
\* one after it (the gateway or hub) and the broadcast address.
FreeAddrs == {a \in Space \ used : network + 1 < a /\ a < lastAddr}

(* "Next returns the first free host address in cidr", in every block of   *)
(* the space up to its very top, and it reports "no available IPs" only    *)
(* when there is none.                                                     *)
NextCorrect ==
    /\ pc = "returned" => result \in FreeAddrs /\ \A a \in FreeAddrs : result <= a
    /\ pc = "failed" => FreeAddrs = {}
=============================================================================
