----------------------------- MODULE IpIngress ------------------------------
(***************************************************************************)
(* What an IP frame meets between a bridged port and the switch's own IP   *)
(* stack: the ip2me nodes of sonic_ext and the ACL plugin on the port's    *)
(* l2-input-ip4/ip6 arcs, then, if the bridge hands the frame to the BVI,  *)
(* the ip_validate nodes on the BVI's ip4-unicast/ip6-unicast arcs.        *)
(*                                                                         *)
(* State is what the control plane changes: which interfaces exist, how    *)
(* often each node is enabled on each (VPP counts), the FIB table of each, *)
(* and the ports that carry a deny-all ingress ACL.  What becomes of a     *)
(* frame is a function of that state, Outcome; control-plane calls run     *)
(* under the worker barrier, so no frame sees one half done.               *)
(*                                                                         *)
(* A suffix after an underscore marks a deliberately wrong form of the     *)
(* operator that follows; no specification uses it.                        *)
(***************************************************************************)
EXTENDS IpValidate, FiniteSets

CONSTANTS
    Port,       \* bridged ports
    Bvi,        \* the bridge domain's BVI
    Table,      \* FIB tables (VRFs)
    MaxEnable,  \* bound: no call enables a node past this count
    Packet,     \* the packets considered
    Own,        \* the address of the BVI in each family
    Loopback,   \* the switch's loopback address in each family
    LoTable     \* the table the loopback address is in

ASSUME BviAssumption == Bvi \notin Port /\ LoTable \in Table

ASSUME BoundAssumption == MaxEnable \in Nat \ {0}

\* The switch's addresses are not link-local (fe80::/10): VPP answers a lookup
\* of one of those in a port's table with its link-local DPO, not a receive.
ASSUME OwnAssumption ==
    Own["ip6"][1] \div 64 # 1018 /\ Loopback["ip6"][1] \div 64 # 1018

ASSUME PacketAssumption ==
    Packet \subseteq
      [af : {"ip4"}, group : BOOLEAN, src : Ip4Address, dst : Ip4Address]
        \cup [af : {"ip6"}, group : BOOLEAN, src : Ip6Address, dst : Ip6Address]

VARIABLES
    up,      \* interfaces that exist
    valid,   \* valid[i][af]: times ipX-validate is enabled on i
    ip2me,   \* ip2me[i][af]: times sonic-ext-ip2me-ipX is enabled on i
    vrf,     \* vrf[i][af]: the table that family's fib_index_by_sw_if_index
             \* selects
    deny,    \* ports with a deny-all ingress ACL
    missing, \* families whose unicast arc refuses the ip_validate node
    over,    \* history: interfaces whose validation an API call has changed
    called   \* history: indices for which an API call was ever made

vars == <<up, valid, ip2me, vrf, deny, missing, over, called>>

Family == {"ip4", "ip6"}

Itf == Port \cup {Bvi}

Off == [af \in Family |-> 0]

TypeOK ==
    /\ up \subseteq Itf
    /\ valid \in [Itf -> [Family -> 0..MaxEnable]]
    /\ ip2me \in [Itf -> [Family -> 0..MaxEnable]]
    /\ vrf \in [Itf -> [Family -> Table]]
    /\ deny \subseteq Port
    /\ missing \subseteq Family
    /\ over \subseteq up
    /\ called \subseteq Itf

\* VPP starts with no interface; every interface starts in the same table.
Init ==
    /\ up = {} /\ deny = {} /\ over = {} /\ called = {}
    /\ valid = [i \in Itf |-> Off]
    /\ ip2me = [i \in Itf |-> Off]
    /\ vrf \in {[i \in Itf |-> [af \in Family |-> t]] : t \in Table}
    /\ missing \in SUBSET Family

-----------------------------------------------------------------------------
(* VPP's feature arcs.  Enabling counts; disabling what is not enabled is  *)
(* accepted and does nothing.                                              *)

Feature(count, enable) ==
    IF enable THEN count + 1 ELSE IF count = 0 THEN 0 ELSE count - 1

-----------------------------------------------------------------------------
(* ip_validate *)

\* Both calls are made whatever the first returns, and neither result is
\* looked at: a family whose arc refuses the node is skipped.
AddDel_AddOnly(c, add) ==
    [af \in Family |-> IF af \in missing \/ ~add THEN c[af] ELSE Feature(c[af], add)]

AddDel(c, add) ==
    [af \in Family |-> IF af \in missing THEN c[af] ELSE Feature(c[af], add)]

\* The two calls of the API handler and its rollback.
Toggled_NoRollback(c, enable) ==
    IF "ip4" \in missing
      THEN c
      ELSE LET c4 == [c EXCEPT !["ip4"] = Feature(@, enable)]
           IN  IF "ip6" \in missing
                 THEN c4
                 ELSE [c4 EXCEPT !["ip6"] = Feature(@, enable)]

Toggled(c, enable) ==
    IF "ip4" \in missing
      THEN c
      ELSE LET c4 == [c EXCEPT !["ip4"] = Feature(@, enable)]
           IN  IF "ip6" \in missing
                 THEN [c4 EXCEPT !["ip4"] = Feature(@, ~enable)]
                 ELSE [c4 EXCEPT !["ip6"] = Feature(@, enable)]

ValidateApi(i, enable) ==
    /\ i \in up
    /\ enable => \A af \in Family : valid[i][af] < MaxEnable
    /\ valid' = [valid EXCEPT ![i] = Toggled(@, enable)]
    /\ over' = over \cup {i}
    /\ called' = called \cup {i}
    /\ UNCHANGED <<up, ip2me, vrf, deny, missing>>

-----------------------------------------------------------------------------
(* sonic_ext's ip2me *)

ip2me_enable_disable(c, enable) ==
    [af \in Family |-> Feature(c[af], enable)]

\* The API handler: a free index is refused before anything is touched.
Ip2meApi(i, enable) ==
    /\ i \in up
    /\ enable => \A af \in Family : ip2me[i][af] < MaxEnable
    /\ ip2me' = [ip2me EXCEPT ![i] = ip2me_enable_disable(@, enable)]
    /\ UNCHANGED <<up, valid, vrf, deny, missing, over, called>>

\* "sonic-ext ip2me <interface> on|off": the parser only finds interfaces
\* that exist, and the last on or off on the line counts.
Ip2meCommand(i, enable) ==
    /\ i \in up
    /\ enable => \A af \in Family : ip2me[i][af] < MaxEnable
    /\ ip2me' = [ip2me EXCEPT ![i] = ip2me_enable_disable(@, enable)]
    /\ UNCHANGED <<up, valid, vrf, deny, missing, over, called>>

-----------------------------------------------------------------------------
(* VPP around the plugins *)

\* VPP creates i, and the plugin's callback runs before i carries traffic.
IfAdd(i) ==
    /\ i \notin up
    /\ up' = up \cup {i}
    /\ valid' = [valid EXCEPT ![i] = AddDel(@, TRUE)]
    /\ UNCHANGED <<ip2me, vrf, deny, missing, over, called>>

\* The plugin's callback disables its nodes once.  What VPP itself leaves of
\* the counts of a deleted interface is open: they may stay or be cleared.
IfDel(i) ==
    /\ i \in up
    /\ up' = up \ {i}
    /\ \E c \in {AddDel(valid[i], FALSE), Off} : valid' = [valid EXCEPT ![i] = c]
    /\ \E c \in {ip2me[i], Off} : ip2me' = [ip2me EXCEPT ![i] = c]
    /\ deny' = deny \ {i}
    /\ over' = over \ {i}
    /\ UNCHANGED <<vrf, missing, called>>

SetTable(i, af, t) ==
    /\ i \in up /\ vrf[i][af] # t
    /\ vrf' = [vrf EXCEPT ![i][af] = t]
    /\ UNCHANGED <<up, valid, ip2me, deny, missing, over, called>>

SetAcl(p) ==
    /\ p \in up
    /\ deny' = IF p \in deny THEN deny \ {p} ELSE deny \cup {p}
    /\ UNCHANGED <<up, valid, ip2me, vrf, missing, over, called>>

Next ==
    \/ \E i \in Itf : \/ IfAdd(i) \/ IfDel(i)
                      \/ \E af \in Family, t \in Table : SetTable(i, af, t)
                      \/ \E e \in BOOLEAN : ValidateApi(i, e)
    \/ \E p \in Port : \/ SetAcl(p)
                       \/ \E e \in BOOLEAN : Ip2meApi(p, e) \/ Ip2meCommand(p, e)

Spec == Init /\ [][Next]_vars

-----------------------------------------------------------------------------
(* A frame's way *)

\* The lookup in table t finds a receive DPO: one of the switch's addresses.
Receive(t, k) ==
    \/ Bvi \in up /\ t = vrf[Bvi][k.af] /\ k.dst = Own[k.af]
    \/ t = LoTable /\ k.dst = Loopback[k.af]

DstIsLocal_Ip4Only(i, k) == k.af = "ip4" /\ Receive(vrf[i][k.af], k)

\* The table is the receiving port's, not the BVI's.
DstIsLocal(i, k) == Receive(vrf[i][k.af], k)

\* The ip2me node, if enabled, sends what is for the switch to the arc's end
\* and everything else on to the ACL.
BypassesAcl(i, k) == ip2me[i][k.af] > 0 /\ DstIsLocal(i, k)

Dropped(i, k) ==
    /\ valid[i][k.af] > 0
    /\ IF k.af = "ip4" THEN Ip4Drops(k) ELSE Ip6Drops(k)

\* A frame that port p receives and the bridge hands to the BVI.
Outcome(p, k) ==
    CASE p \in deny /\ ~BypassesAcl(p, k) -> "acl"
      [] OTHER -> CASE Dropped(Bvi, k) -> "invalid"
                    [] ~Dropped(Bvi, k) /\ Receive(vrf[Bvi][k.af], k) -> "local"
                    [] OTHER -> "onward"

Bridged(p) == p \in up /\ Bvi \in up

-----------------------------------------------------------------------------
(* Properties *)

\* The callback is balanced: an index for which the API was never called has
\* each node enabled once while an interface uses it and not at all in between,
\* however often it is reused and although VPP need not clear its counts.  So a
\* count that is left over stems from an API call.
CallbackBalanced ==
    \A i \in Itf \ called, af \in Family \ missing :
      valid[i][af] = IF i \in up THEN 1 ELSE 0

\* A call of the ip_validate API changes both families or neither, also when
\* an arc refuses the node: the handler's "Rollback ip4 to avoid half-enabled
\* state".
ApiAllOrNothing ==
    [][\A i \in up \cap up' :
         valid'[i] # valid[i] =>
           \A af \in Family : valid'[i][af] # valid[i][af]]_vars

\* Of the packets that reach the BVI exactly those are dropped that have a
\* source, destination or frame the plugin is there to stop, unless an API
\* call changed this BVI's validation (calls for an earlier interface with its
\* index do not count): an edge of a range off by one would let martians in or
\* lose ordinary traffic, and skipping the ACL as ip2me does not skip
\* ip_validate.
ExactlyMartiansStopped ==
    \A p \in Port, k \in Packet :
      /\ Bridged(p) /\ Bvi \notin over /\ k.af \notin missing
      /\ Outcome(p, k) # "acl"
      => (Outcome(p, k) = "invalid" <=> Martian(k))

\* With ip2me on, a port's ACL cannot keep packets for the switch from the
\* switch: its BVI's address, and its loopback's where the BVI routes there.
\* (Port and BVI in one table of the family: the node's single-VRF assumption.)
Ip2meReachesHost ==
    \A p \in Port, k \in Packet :
      /\ Bridged(p) /\ vrf[p][k.af] = vrf[Bvi][k.af]
      /\ ip2me[p][k.af] > 0 /\ Receive(vrf[Bvi][k.af], k) /\ ~Martian(k)
      => Outcome(p, k) = "local"
=============================================================================
