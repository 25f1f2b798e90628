----------------------------- MODULE MCTuntermAcl -----------------------------
(* TuntermAcl on two classifier tables, one or two interfaces and one inner  *)
(* destination of each address family.                                       *)
EXTENDS TuntermAclService, TLC

CONSTANTS a4, c6
MCDst == {a4, c6}
MCV6Dst == {c6}

Symm == Permutations(Table) \cup Permutations(SwIf) \cup Permutations(Hop) \cup Permutations(Dpo)
=============================================================================
