---------------------------- MODULE MCSonicExtPath ----------------------------
(* Two ports, one with a sub-port, a bond, and a loopback that serves as     *)
(* BVI; frames with up to MaxTags VLAN tags.                                 *)
EXTENDS SonicExtPath, TLC

CONSTANTS e0, e1, e0v, b0, l0
MCPhys == {e0, e1}
MCBond == {b0}
MCLoop == {l0}
MCSub == {e0v}
MCSup == e0v :> e0
=============================================================================
