----------------------------- MODULE SonicExtPath -----------------------------
(***************************************************************************)
(* A packet on its way through VPP with the sonic_ext nodes, composed with *)
(* the plugin's control plane (SonicExtWiring).                            *)
(*                                                                         *)
(* The model follows one buffer.  Frames are handed from worker to worker, *)
(* so a callback or CLI command of the main thread may come between any    *)
(* two steps; the arc of the device a packet comes from, and the device it *)
(* leaves by, belong to the step before.  The nodes of VPP itself          *)
(* (ethernet-input, bridging, IP lookup, linux-cp-punt) are external:      *)
(* ToVpp lets them do whatever the configuration of a SONiC port allows.   *)
(***************************************************************************)
EXTENDS SonicExtWiring, Naturals, Sequences

CONSTANTS
    OuterTag, InnerTag,  \* VLAN tags, outermost first
    MaxTags,             \* bound on the tags of a frame (at most 2)
    OpaqueReset,         \* TRUE: VPP clears opaque2 before it reuses a buffer
    NONE                 \* ~0, or no tag

VARIABLES
    at,      \* the node the packet is at; "pool" while the buffer is free
    src,     \* interface it entered VPP on (never changes; not in the code)
    wire,    \* its tags as it entered VPP (never changes; not in the code)
    rx,      \* sw_if_index[VLIB_RX], until no node reads it any more
    tx,      \* sw_if_index[VLIB_TX]
    frame,   \* its tags from l2_hdr_offset on
    room,    \* tags that fit in front of it: l2_hdr_offset / 4
    cookie,  \* sonic_ext_buffer_opaque_t; NONE without the magic
    why,     \* node that dropped it, when it is on a drop arc
    stamped, \* sonic-ext-capture wrote the cookie of this packet
    moved    \* some sonic_ext node redirected it

pvars == <<at, src, wire, rx, tx, frame, room, cookie, why, stamped, moved>>
vars == <<wvars, pvars>>

PhyIf(i) == <<"phy", i>>
TapIf(i) == <<"tap", i>>
SwIf == {"phy", "tap"} \X Itf
Stack == {s \in {<<>>, <<OuterTag>>, <<OuterTag, InnerTag>>} : Len(s) <= MaxTags}
Cookie == [orig : SwIf, tag : {OuterTag, InnerTag, NONE}]

\* The nodes a drop can come from.  sonic_ext_glean_src_nodes holds ip4-arp,
\* ip4-glean and ip6-glean, which leave the packet as it is; one name stands
\* for the three.  Of all others ip6-discover-neighbor is the one that does not.
NbrNode == {"ip-arp-glean"}
DropNode == NbrNode \cup {"ip6-discover-neighbor"}

ASSUME PathAssumption ==
    /\ MaxTags \in 0..2
    /\ OpaqueReset \in BOOLEAN
    /\ OuterTag # NONE /\ InnerTag # NONE
    /\ NONE \notin SwIf \cup Cookie \cup DropNode

Node == {"pool", "ethernet-input", "l2-trap", "punt", "drop", "interface-output"}

TypeOK ==
    /\ WTypeOK
    /\ at \in Node
    /\ src \in SwIf \cup {NONE}
    /\ rx \in SwIf \cup {NONE}
    /\ tx \in SwIf \cup {NONE}
    /\ wire \in Stack
    /\ frame \in Seq({OuterTag, InnerTag}) /\ Len(frame) <= MaxTags
    /\ room \in 0..MaxTags
    /\ cookie \in Cookie \cup {NONE}
    /\ why \in DropNode \cup {NONE}
    /\ stamped \in BOOLEAN /\ moved \in BOOLEAN

\* The buffer goes back to VPP.  The plugin leaves it to VPP to reset opaque2;
\* without that the buffer may keep the cookie of its last packet.
FreeBuffer ==
    /\ at' = "pool" /\ src' = NONE /\ rx' = NONE /\ tx' = NONE
    /\ wire' = <<>> /\ frame' = <<>> /\ room' = 0
    /\ why' = NONE /\ stamped' = FALSE /\ moved' = FALSE
    /\ cookie' \in IF OpaqueReset THEN {NONE} ELSE {NONE, cookie}

Init ==
    /\ WInit
    /\ at = "pool" /\ src = NONE /\ rx = NONE /\ tx = NONE
    /\ wire = <<>> /\ frame = <<>> /\ room = 0 /\ cookie = NONE
    /\ why = NONE /\ stamped = FALSE /\ moved = FALSE

-----------------------------------------------------------------------------
(* Packets come in: from the wire, or from Linux over a tap.  (No node of    *)
(* the plugin looks at the tags of the latter.)                              *)

\* What sonic-ext-capture leaves in the buffer; it overwrites what it finds.
Captured_Once(s, tags, cap) ==
    IF cap /\ cookie = NONE
      THEN [orig |-> s, tag |-> IF tags = <<>> THEN NONE ELSE Head(tags)]
    ELSE cookie
Captured(s, tags, cap) ==
    IF cap THEN [orig |-> s, tag |-> IF tags = <<>> THEN NONE ELSE Head(tags)]
    ELSE cookie
CrossConnected(s) == "host_xc" \in flags /\ s[1] = "tap" /\ s[2] \in hostxc \cap pair

\* A driver puts the frame at current_data 0, so the only room there ever is
\* for a tag is where one was popped.  Then the device-input arc:
\* sonic-ext-capture and sonic-ext-host-xc.
DeviceInputArc(s, tags) ==
    /\ at = "pool"
    /\ src' = s /\ wire' = tags /\ frame' = tags /\ room' = 0
    /\ stamped' = (s[1] = "phy" /\ s[2] \in capture)
    /\ cookie' = Captured(s, tags, stamped')
    /\ IF CrossConnected(s)
         THEN at' = "interface-output" /\ tx' = PhyIf(s[2]) /\ UNCHANGED rx
         ELSE at' = "ethernet-input" /\ rx' = s /\ UNCHANGED tx
    /\ UNCHANGED <<wvars, why, moved>>

-----------------------------------------------------------------------------
(* VPP's own nodes *)

\* The interfaces a packet from port e can be attributed to: the port, a bond
\* it is a member of, one of their sub-interfaces, or the BVI of its bridge.
Ingress(e) ==
    up \cap ({e} \cup Bond \cup bvi \cup {j \in Sub : Sup[j] \in {e} \cup Bond})

\* ethernet-input and what follows it.  Bridging to a BVI may pop a tag.
\* Anything from Linux that was not cross-connected, and anything VPP forwards
\* or drops for a reason of its own, is gone.
ToVpp ==
    /\ at = "ethernet-input"
    /\ \/ FreeBuffer
       \/ \E i \in Ingress(rx[2]), pop \in BOOLEAN :
             /\ rx[1] = "phy"
             /\ pop => i \in bvi /\ frame # <<>>
             /\ frame' = IF pop THEN Tail(frame) ELSE frame
             /\ room' = IF pop THEN room + 1 ELSE room
             /\ \/ at' = "punt" /\ rx' = PhyIf(i) /\ why' = NONE
                \/ /\ i \notin bvi \cup Bond /\ ~pop
                   /\ at' = "l2-trap" /\ rx' = PhyIf(i) /\ why' = NONE
                \/ at' = "drop" /\ rx' = NONE /\ why' \in DropNode
             /\ UNCHANGED <<src, wire, tx, cookie, stamped, moved>>
    /\ UNCHANGED wvars

\* linux-cp-punt rewinds to l2_hdr_offset and sends the packet to the tap of
\* the receiving interface, or drops it when there is none.
LinuxCpPunt ==
    /\ at = "punt"
    /\ \/ /\ rx[2] \in pair
          /\ at' = "interface-output" /\ tx' = TapIf(rx[2]) /\ rx' = NONE
          /\ UNCHANGED <<src, wire, frame, room, cookie, why, stamped, moved>>
       \/ rx[2] \notin pair /\ FreeBuffer
    /\ UNCHANGED wvars

-----------------------------------------------------------------------------
(* The sonic_ext nodes *)

\* sonic-ext-l2-trap-fixup: the parent port stands in for a sub-interface.
TrapFixup ==
    /\ at = "l2-trap"
    /\ \/ /\ rx[2] \in up
          /\ rx' = PhyIf(IF IsSub(rx[2]) THEN Sup[rx[2]] ELSE rx[2])
          /\ at' = "punt"
          /\ UNCHANGED <<src, wire, tx, frame, room, cookie, why, stamped, moved>>
       \/ rx[2] \notin up /\ FreeBuffer
    /\ UNCHANGED wvars

\* sonic_ext_redirect_to_ingress_tap: the port of the cookie, when it still
\* exists, has a pair, and is not the excluded tap.
IngressPort(c) == LET o == c.orig[2] IN IF IsSub(o) THEN Sup[o] ELSE o
CanRedirect_SwappedTest(c, excluded) ==
    c.orig[2] \in up /\ IngressPort(c) \in pair /\ TapIf(IngressPort(c)) = excluded
CanRedirect(c, excluded) ==
    /\ c.orig[2] \in up
    /\ IngressPort(c) \in pair
    /\ TapIf(IngressPort(c)) # excluded

\* The captured tag goes back on unless the frame starts with a tag already or
\* there is no room for it.
Push_Never(c) == FALSE
Push(c) == c.tag # NONE /\ room >= 1 /\ frame = <<>>

RedirectToIngressTap(c) ==
    /\ cookie' = NONE
    /\ frame' = IF Push(c) THEN <<c.tag>> \o frame ELSE frame
    /\ room' = IF Push(c) THEN room - 1 ELSE room
    /\ tx' = TapIf(IngressPort(c))
    /\ at' = "interface-output"
    /\ moved' = TRUE
    /\ UNCHANGED <<src, wire, rx, why, stamped>>

\* sonic-ext-glean-redirect on a drop arc.  Whether the adjacency is still
\* unresolved and whether the throttle lets the packet through is open.
GleanGate(node) == node \in NbrNode
GleanRedirect ==
    /\ at = "drop"
    /\ \/ /\ glean = DropArc /\ "punt_via_member" \in flags
          /\ GleanGate(why) /\ cookie # NONE
          /\ CanRedirect(cookie, NONE)
          /\ RedirectToIngressTap(cookie)
       \/ FreeBuffer
    /\ UNCHANGED wvars

AggrOutput_Requeues ==
    /\ at = "interface-output" /\ tx[1] = "tap" /\ tx[2] \in aggr
    /\ \/ cookie # NONE /\ ~CanRedirect(cookie, tx) /\ UNCHANGED vars
       \/ cookie = NONE /\ FreeBuffer
    /\ UNCHANGED wvars

\* interface-output on the tap of an aggregate: sonic-ext-aggr-tap-redirect.
\* With the toggle off the cookie stays; without a target it is consumed.
AggrOutput ==
    /\ at = "interface-output" /\ tx[1] = "tap" /\ tx[2] \in aggr
    /\ \/ /\ "punt_via_member" \notin flags \/ cookie = NONE
          /\ FreeBuffer
       \/ /\ "punt_via_member" \in flags /\ cookie # NONE
          /\ ~CanRedirect(cookie, tx)
          /\ FreeBuffer /\ cookie' = NONE
       \/ /\ "punt_via_member" \in flags /\ cookie # NONE
          /\ CanRedirect(cookie, tx)
          /\ RedirectToIngressTap(cookie)
    /\ UNCHANGED wvars

\* interface-output anywhere else: the device sends the packet.
PlainOutput ==
    /\ at = "interface-output" /\ ~(tx[1] = "tap" /\ tx[2] \in aggr)
    /\ FreeBuffer
    /\ UNCHANGED wvars

PacketStep ==
    \/ ToVpp \/ LinuxCpPunt \/ TrapFixup \/ GleanRedirect \/ AggrOutput \/ PlainOutput

Control ==
    /\ WNext
    /\ UNCHANGED <<at, src, wire, rx, tx, frame, room, cookie, why, stamped, moved>>

Next ==
    \/ \E e \in Phys, tags \in Stack : DeviceInputArc(PhyIf(e), tags)
    \/ \E i \in pair \ Sub : DeviceInputArc(TapIf(i), <<>>)
    \/ PacketStep
    \/ Control

Spec == Init /\ [][Next]_vars

\* A worker dispatches the frames it has.
FairSpec == Spec /\ WF_vars(PacketStep)

-----------------------------------------------------------------------------
(* Properties *)

\* Punt-via-member: while the toggle is on, a packet that was captured on a port
\* that has a pair does not leave for Linux on the tap of an aggregate, whatever
\* the control plane did while it was on its way.  (Excepted is the tap of a
\* loopback that changed its role while paired.)
NoPuntOnAggregateTap ==
    [][at = "interface-output" /\ at' = "pool" /\ "punt_via_member" \in flags
         /\ stamped /\ src[2] \in pair /\ tx[1] = "tap" /\ tx[2] \in pair
         => ~IsAggregate(tx[2]) \/ tx[2] \in turned]_vars

\* What a buffer without the magic of this packet can carry: where VPP does not
\* reset opaque2, the cookie of the buffer's last packet.
Stale == ~stamped /\ ~OpaqueReset

\* A redirected packet lands on the tap of the very port it came in on,
\* whatever the control plane did meanwhile and whatever cookie its buffer held
\* before.  (Only a packet that passed no sonic-ext-capture depends on VPP's
\* reset.)
RedirectLandsOnMember ==
    moved => Stale \/ (src[1] = "phy" /\ tx = TapIf(src[2]))

\* Linux sees a redirected packet as it was on the wire: with its tags, and not
\* with the destination ip6-discover-neighbor writes into a packet it drops.
LinuxSeesWireFrame ==
    moved =>
      /\ why # "ip6-discover-neighbor"
      /\ Stale \/ frame = wire

\* The graph has no cycle: every packet leaves VPP, so that the buffer is
\* free again and again.
EveryPacketLeaves == []<>(at = "pool")

=============================================================================
