-------------------------- MODULE MCVxlanDecapAny --------------------------
(***************************************************************************)
(* Small instances of VxlanDecapAny: one address family, or both with or   *)
(* without an IPv6 VTEP address that ends in the bits of an IPv4 one.      *)
(***************************************************************************)
EXTENDS VxlanDecapAny, TLC

CONSTANTS l4, k4, l6, k6

NoLow32 == [a \in V6Local |-> NONE]
EndsInL4 == [a \in V6Local |-> l4]

\* Slots are told apart by what is in them only.
Symm == Permutations(Slot)
=============================================================================
