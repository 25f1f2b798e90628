---------------------------- MODULE MCIpIngress -----------------------------
(***************************************************************************)
(* Packets whose addresses lie on both sides of every edge of the ranges   *)
(* ip_validate tests, and the addresses of the switch and of a host.       *)
(***************************************************************************)
EXTENDS IpIngress

MCOwn == [af \in {"ip4", "ip6"} |->
            IF af = "ip4" THEN <<2560, 1>> ELSE <<8193, 1, 1>>]

MCLoopback == [af \in {"ip4", "ip6"} |->
                 IF af = "ip4" THEN <<2561, 1>> ELSE <<8193, 1, 2>>]

Edge4 == { <<0, 0>>, <<0, 1>>,
           <<32511, 65535>>, <<32512, 0>>, <<32767, 65535>>, <<32768, 0>>,
           <<43517, 65535>>, <<43518, 0>>, <<43518, 65535>>, <<43519, 0>>,
           <<57343, 65535>>, <<57344, 0>>, <<61439, 65535>>, <<61440, 0>>,
           <<65535, 65534>>, <<65535, 65535>>,
           <<2560, 1>>, <<2561, 1>>, <<2560, 9>> }

Edge6 == { <<0, 0, 0>>, <<0, 0, 1>>, <<0, 0, 2>>, <<0, 1, 0>>, <<0, 1, 1>>,
           <<1, 0, 0>>, <<1, 0, 1>>,
           <<65279, 1, 65535>>, <<65280, 0, 0>>, <<65535, 1, 65535>>,
           <<8193, 1, 1>>, <<8193, 1, 2>>, <<8193, 1, 9>> }

MCPacket ==
    [af : {"ip4"}, group : BOOLEAN, src : Edge4, dst : Edge4]
      \cup [af : {"ip6"}, group : BOOLEAN, src : Edge6, dst : Edge6]
=============================================================================
