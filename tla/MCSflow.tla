------------------------------- MODULE MCSflow -------------------------------
(* Sflow on two ports, an interface that is none, and two threads.  Integers *)
(* of two bits make the limit of the largest rate wrap around.               *)
EXTENDS Sflow, TLC

Symm == Permutations(Phys) \cup Permutations(Thread)
=============================================================================
