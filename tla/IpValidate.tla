----------------------------- MODULE IpValidate -----------------------------
(***************************************************************************)
(* The address checks of the ip_validate plugin: ip4_validate_x1 and       *)
(* ip6_validate_x1, translated test by test, and the filter they are meant *)
(* to be, written from the address ranges alone.                           *)
(*                                                                         *)
(* An IPv4 address is <<hi, lo>>, its two 16-bit halves, so a shift by     *)
(* 16 + n is a division of hi by 2^n.  An IPv6 address is <<hi, mid, lo>>: *)
(* its first and last 16 bits and, between them, 96 bits of which the      *)
(* tests only ask whether they are zero.                                   *)
(*                                                                         *)
(* A packet is [af, group, src, dst]: its family, whether the Ethernet     *)
(* destination has the group bit, and its addresses.                       *)
(*                                                                         *)
(* A suffix after an underscore marks a deliberately wrong form of the     *)
(* operator that follows.                                                  *)
(***************************************************************************)
EXTENDS Naturals, Sequences

Word == {n \in Nat : n <= 65535}
Ip4Address == Word \X Word
Ip6Address == Word \X (0..1) \X Word

-----------------------------------------------------------------------------
(* ip4_validate_node.c: the first test that matches decides. *)

Ip4Bad_LinkLocalByte(src, dst) ==
    \/ src[1] \div 256 = 127
    \/ src[1] \div 4096 \in {14, 15}
    \/ src = <<0, 0>>
    \/ src[1] \div 256 = 169
    \/ dst[1] \div 256 = 127
    \/ dst[1] \div 256 = 169

Ip4Bad(src, dst) ==
    \/ src[1] \div 256 = 127
    \/ src[1] \div 4096 \in {14, 15}
    \/ src = <<0, 0>>
    \/ src[1] = 43518
    \/ dst[1] \div 256 = 127
    \/ dst[1] = 43518

Ip4Skipped(dst) ==
    dst = <<65535, 65535>> \/ dst[1] \div 4096 = 14

\* TRUE when ip4-validate sends the packet to error-drop.
Ip4Drops(k) ==
    /\ ~Ip4Skipped(k.dst)
    /\ k.group \/ Ip4Bad(k.src, k.dst)

-----------------------------------------------------------------------------
(* ip6_validate_node.c *)

Ip6Zero(a) == a[1] = 0 /\ a[2] = 0 /\ a[3] = 0

Ip6Loopback(a) == a[1] = 0 /\ a[2] = 0 /\ a[3] = 1

Ip6Bad(src, dst) ==
    \/ src[1] \div 256 = 255
    \/ Ip6Zero(src) \/ Ip6Loopback(src)
    \/ Ip6Zero(dst) \/ Ip6Loopback(dst)

\* TRUE when ip6-validate sends the packet to error-drop.
Ip6Drops(k) ==
    /\ k.dst[1] \div 256 # 255
    /\ k.group \/ Ip6Bad(k.src, k.dst)

-----------------------------------------------------------------------------
(* The reference: ranges of addresses, compared number by number. *)

\* a <= b for two addresses of one family, most significant part first.
AddrLeq(a, b) ==
    \/ a = b
    \/ \E n \in 1..Len(a) : /\ a[n] < b[n]
                            /\ \A m \in 1..n-1 : a[m] = b[m]

Within(a, ranges) ==
    \E r \in ranges : AddrLeq(r[1], a) /\ AddrLeq(a, r[2])

BadSource(af) ==
    IF af = "ip4"
      THEN { <<<<32512, 0>>, <<32767, 65535>>>>,       \* 127.0.0.0/8
             <<<<57344, 0>>, <<65535, 65535>>>>,       \* 224/4 and 240/4
             <<<<0, 0>>, <<0, 0>>>>,
             <<<<43518, 0>>, <<43518, 65535>>>> }      \* 169.254.0.0/16
      ELSE { <<<<65280, 0, 0>>, <<65535, 1, 65535>>>>, \* ff00::/8
             <<<<0, 0, 0>>, <<0, 0, 1>>>> }            \* :: and ::1

BadDest(af) ==
    IF af = "ip4"
      THEN { <<<<32512, 0>>, <<32767, 65535>>>>,
             <<<<43518, 0>>, <<43518, 65535>>>> }
      ELSE { <<<<0, 0, 0>>, <<0, 0, 1>>>> }

\* Destinations that are not unicast and are let through unchecked.
NotUnicast(af) ==
    IF af = "ip4"
      THEN { <<<<57344, 0>>, <<61439, 65535>>>>,       \* 224.0.0.0/4
             <<<<65535, 65535>>, <<65535, 65535>>>> }
      ELSE { <<<<65280, 0, 0>>, <<65535, 1, 65535>>>> }

\* What the plugin is there to drop.
Martian(k) ==
    /\ ~Within(k.dst, NotUnicast(k.af))
    /\ \/ k.group
       \/ Within(k.src, BadSource(k.af))
       \/ Within(k.dst, BadDest(k.af))
=============================================================================
