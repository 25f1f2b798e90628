------------------------------- MODULE MCVppCfgd -------------------------------
(* vppcfgd with two databases, one port and one device.                       *)
EXTENDS VppCfgd, TLC

=============================================================================
