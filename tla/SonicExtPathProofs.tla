-------------------------- MODULE SonicExtPathProofs --------------------------
(***************************************************************************)
(* Proofs about SonicExtPath for any set of interfaces.                    *)
(*                                                                         *)
(* The argument is that the cookie sonic-ext-capture writes never leaves   *)
(* its packet: it names the interface the buffer came in on as long as the *)
(* buffer lives (Carried).  So a redirection, whenever it happens, has     *)
(* only one place to go.  The cookie an earlier packet left in the buffer  *)
(* is harmless where capture overwrites it, and absent where VPP resets    *)
(* opaque2; the theorems do not assume that it does.                       *)
(***************************************************************************)
EXTENDS SonicExtPath, SonicExtWiringProofs

FromWire == \E e \in Phys : src = PhyIf(e)

\* Where a packet is and what its buffer says of it.
Carried ==
    /\ at = "pool" => ~moved /\ ~stamped /\ why = NONE
    /\ at \in {"ethernet-input", "punt", "l2-trap"} => why = NONE
    /\ at # "interface-output" => ~moved
    /\ at # "drop" => why # "ip6-discover-neighbor"
    /\ stamped => FromWire /\ (cookie # NONE => cookie.orig = src)
    /\ cookie # NONE => stamped \/ ~OpaqueReset
    /\ moved => Stale \/ (FromWire /\ tx = TapIf(src[2]))

-----------------------------------------------------------------------------
\* The composition adds nothing to the control plane: its steps are those of
\* SonicExtWiring, so what is proved of that module holds here.
LEMMA WiringSteps == [Next]_vars => [WNext]_wvars
BY Zenon DEF Next, vars, wvars, PacketStep, DeviceInputArc, ToVpp,
       LinuxCpPunt, TrapFixup, GleanRedirect, AggrOutput, PlainOutput, Control

\* The packet path implements the control plane's specification.
THEOREM PathImplementsWiring == Spec => WSpec
<1>1. Init => WInit
  BY DEF Init
<1>. QED BY <1>1, WiringSteps, PTL DEF Spec, WSpec

\* The port of a cookie written by capture is the port the packet came in on,
\* never a parent.
LEMMA PortOfCookie ==
    ASSUME Carried, cookie # NONE, stamped
    PROVE  /\ FromWire /\ IngressPort(cookie) = src[2] /\ src[2] \in Phys
           /\ cookie.orig[2] = src[2]
<1>1. PICK e \in Phys : src = PhyIf(e)
  BY DEF Carried, FromWire
<1>2. cookie.orig[2] = e /\ src[2] = e /\ e \notin Sub
  BY <1>1, WiringAssumption DEF Carried, PhyIf, Main
<1>. QED BY <1>1, <1>2 DEF IngressPort, IsSub, FromWire

\* What capture leaves in the buffer has the magic, the interface and the outer
\* tag of this very packet.
LEMMA CapturedIsCookie ==
    ASSUME NEW s \in SwIf, NEW tags \in Stack
    PROVE  /\ Captured(s, tags, TRUE) \in Cookie /\ Captured(s, tags, TRUE) # NONE
           /\ Captured(s, tags, TRUE).orig = s
           /\ Captured(s, tags, TRUE).tag = IF tags = <<>> THEN NONE ELSE OuterTag
<1>1. tags # <<>> => Head(tags) = OuterTag
  BY DEF Stack
<1>2. Captured(s, tags, TRUE) \in Cookie
  BY <1>1 DEF Captured, Cookie
<1>3. Captured(s, tags, TRUE) # NONE
  BY <1>2, PathAssumption, Zenon
<1>. QED BY <1>1, <1>2, <1>3 DEF Captured

LEMMA NoneNotMangled == NONE # "ip6-discover-neighbor"
BY PathAssumption DEF DropNode

LEMMA FreeCarried == Carried /\ FreeBuffer => Carried'
BY NoneNotMangled DEF FreeBuffer, Carried

LEMMA RedirectCarried ==
    ASSUME Carried, cookie # NONE, why # "ip6-discover-neighbor",
           RedirectToIngressTap(cookie)
    PROVE  Carried'
<1>1. /\ cookie' = NONE /\ moved' /\ at' = "interface-output"
      /\ UNCHANGED <<src, stamped, why>>
  BY DEF RedirectToIngressTap
<1>2. FromWire' <=> FromWire
  BY <1>1 DEF FromWire
<1>3. CASE stamped
  <2>1. FromWire /\ tx' = TapIf(src[2])
    BY <1>3, PortOfCookie DEF RedirectToIngressTap
  <2>. QED BY <1>1, <1>2, <2>1 DEF Carried
<1>4. CASE ~stamped
  BY <1>1, <1>4 DEF Carried, Stale
<1>. QED BY <1>3, <1>4

LEMMA CarriedInit == Init => Carried
BY NoneNotMangled DEF Init, Carried

LEMMA ArrivalCarried ==
    ASSUME Carried, NEW s \in SwIf, NEW tags \in Stack, DeviceInputArc(s, tags),
           s[1] = "phy" => \E e \in Phys : s = PhyIf(e)
    PROVE  Carried'
<1>1. /\ src' = s /\ why' = NONE /\ ~moved' /\ at' \in {"ethernet-input", "interface-output"}
      /\ ~stamped /\ stamped' \in BOOLEAN /\ cookie' = Captured(s, tags, stamped')
  BY DEF DeviceInputArc, Carried
<1>2. CASE stamped'
  <2>1. FromWire'
    BY <1>1, <1>2, ZenonT(40) DEF DeviceInputArc, FromWire
  <2>2. cookie'.orig = src'
    BY <1>1, <1>2, CapturedIsCookie, Zenon
  <2>. QED BY <1>1, <1>2, <2>1, <2>2, NoneNotMangled, ZenonT(40) DEF Carried
<1>3. CASE ~stamped'
  <2>1. cookie' = cookie
    BY <1>1, <1>3 DEF Captured
  <2>. QED BY <1>1, <1>3, <2>1, NoneNotMangled DEF Carried
<1>. QED BY <1>2, <1>3

LEMMA Sides == \A i \in Itf : PhyIf(i) \in SwIf /\ TapIf(i) \in SwIf
BY DEF PhyIf, TapIf, SwIf

LEMMA EmptyStack == <<>> \in Stack
BY PathAssumption DEF Stack

\* Where packets come from.
LEMMA Arrivals ==
    ASSUME WTypeOK
    PROVE  /\ \A e \in Phys : PhyIf(e) \in SwIf
           /\ \A i \in pair \ Sub : TapIf(i) \in SwIf /\ TapIf(i)[1] # "phy"
           /\ <<>> \in Stack
<1>1. \A e \in Phys : PhyIf(e) \in SwIf
  BY Sides DEF Itf, Main
<1>2. \A i \in pair \ Sub : TapIf(i) \in SwIf
  BY Sides DEF WTypeOK
<1>. QED BY <1>1, <1>2, EmptyStack DEF TapIf

LEMMA CarriedNext == WTypeOK /\ Carried /\ [Next]_vars => Carried'
<1>. SUFFICES ASSUME WTypeOK, Carried, [Next]_vars PROVE Carried'
  OBVIOUS
<1>1. ASSUME NEW e \in Phys, NEW tags \in Stack, DeviceInputArc(PhyIf(e), tags)
      PROVE  Carried'
  BY <1>1, Arrivals, ArrivalCarried
<1>2. ASSUME NEW i \in pair \ Sub, DeviceInputArc(TapIf(i), <<>>) PROVE Carried'
  BY <1>2, Arrivals, ArrivalCarried
<1>3. CASE FreeBuffer
  BY <1>3, FreeCarried
<1>4. CASE /\ UNCHANGED <<src, cookie, stamped, moved>> /\ ~moved
           /\ at' \in {"punt", "l2-trap", "drop", "interface-output"}
           /\ at' # "drop" => why' = NONE
  <2>1. FromWire' <=> FromWire
    BY <1>4 DEF FromWire
  <2>. QED BY <1>4, <2>1, NoneNotMangled DEF Carried
<1>5. CASE cookie # NONE /\ why # "ip6-discover-neighbor" /\ RedirectToIngressTap(cookie)
  BY <1>5, RedirectCarried
<1>6. CASE ToVpp
  BY <1>3, <1>4, <1>6 DEF ToVpp, Carried
<1>7. CASE LinuxCpPunt \/ TrapFixup
  BY <1>3, <1>4, <1>7 DEF LinuxCpPunt, TrapFixup, Carried
<1>8. CASE GleanRedirect
  BY <1>3, <1>5, <1>8 DEF GleanRedirect, GleanGate, NbrNode
<1>9. CASE AggrOutput \/ PlainOutput
  BY <1>3, <1>5, <1>9 DEF AggrOutput, PlainOutput, Carried
<1>10. CASE Control \/ UNCHANGED vars
  <2>1. FromWire' <=> FromWire
    BY <1>10 DEF Control, vars, pvars, FromWire
  <2>. QED BY <1>10, <2>1 DEF Control, vars, pvars, Carried, Stale
<1>. QED BY <1>1, <1>2, <1>6, <1>7, <1>8, <1>9, <1>10 DEF Next, PacketStep

CarriedInv == HostInv /\ Carried

LEMMA CarriedHolds == Spec => []CarriedInv
<1>1. Init => CarriedInv
  BY HostInit, CarriedInit DEF Init, CarriedInv
<1>2. CarriedInv /\ [Next]_vars => CarriedInv'
  BY WiringSteps, HostNext, CarriedNext DEF CarriedInv, HostInv
<1>. QED BY <1>1, <1>2, PTL DEF Spec

-----------------------------------------------------------------------------

\* A redirected packet lands on the tap of the port it came in on, whatever
\* happens to pairs, ports, BVIs and toggles meanwhile and whatever cookie the
\* buffer held before; only a packet that passed no capture depends on VPP's
\* reset of the buffer (RedirectLandsOnMember).
THEOREM RedirectsHome == Spec => []RedirectLandsOnMember
<1>1. CarriedInv => RedirectLandsOnMember
  BY DEF CarriedInv, Carried, RedirectLandsOnMember, FromWire, PhyIf
<1>. QED BY <1>1, CarriedHolds, PTL

-----------------------------------------------------------------------------
(* Tags *)

\* Nothing touches the tags before ethernet-input.
OnWire ==
    /\ wire \in Stack
    /\ at = "ethernet-input" => frame = wire /\ room = 0

LEMMA OnWireInit == Init => OnWire
BY EmptyStack, SMTT(40) DEF Init, OnWire

LEMMA OnWireNext == OnWire /\ [Next]_vars => OnWire'
<1>. SUFFICES ASSUME OnWire, [Next]_vars PROVE OnWire'
  OBVIOUS
<1>1. ASSUME NEW s, NEW tags \in Stack, DeviceInputArc(s, tags) PROVE OnWire'
  BY <1>1 DEF DeviceInputArc, OnWire
<1>2. CASE FreeBuffer
  BY <1>2, EmptyStack DEF FreeBuffer, OnWire
<1>4. CASE wire' = wire /\ at' # "ethernet-input"
  BY <1>4 DEF OnWire
<1>5. CASE UNCHANGED <<at, wire, frame, room>>
  BY <1>5 DEF OnWire
<1>. QED BY <1>1, <1>2, <1>4, <1>5, EmptyStack, ZenonT(40)
         DEF Next, PacketStep, ToVpp, LinuxCpPunt, TrapFixup, GleanRedirect,
             AggrOutput, PlainOutput, Control, RedirectToIngressTap, vars, pvars

\* At most the outer tag of a frame is missing, and then there is room for it;
\* the cookie knows it.  What is redirected has it back, unless there is
\* another tag under it.
Tagged ==
    /\ \/ frame = wire /\ room = 0
       \/ wire # <<>> /\ frame = Tail(wire) /\ room = 1
    /\ cookie # NONE => cookie.tag \in {OuterTag, NONE}
    /\ cookie # NONE /\ stamped => (cookie.tag = NONE <=> wire = <<>>)
    /\ moved => Stale \/ frame = wire \/ Len(wire) = 2

LEMMA StackForms ==
    ASSUME NEW s \in Stack
    PROVE  \/ s = <<>> /\ Len(s) = 0
           \/ s = <<OuterTag>> /\ Len(s) = 1 /\ Tail(s) = <<>>
           \/ s = <<OuterTag, InnerTag>> /\ Len(s) = 2 /\ Tail(s) = <<InnerTag>>
<1>1. s \in {<<>>, <<OuterTag>>, <<OuterTag, InnerTag>>}
  BY DEF Stack
<1>2. Len(<<>>) = 0 /\ Len(<<OuterTag>>) = 1 /\ Len(<<OuterTag, InnerTag>>) = 2
  OBVIOUS
<1>3. Tail(<<OuterTag>>) = <<>>
  OBVIOUS
<1>4. Tail(<<OuterTag, InnerTag>>) = <<InnerTag>>
  OBVIOUS
<1>. QED BY <1>1, <1>2, <1>3, <1>4, Zenon

LEMMA FreeTagged == Tagged /\ FreeBuffer => Tagged'
BY DEF FreeBuffer, Tagged

LEMMA RedirectRestores ==
    ASSUME OnWire, Tagged, Carried, cookie # NONE, RedirectToIngressTap(cookie)
    PROVE  Tagged'
<1>1. wire \in Stack /\ cookie' = NONE /\ wire' = wire /\ stamped' = stamped
  BY DEF RedirectToIngressTap, OnWire
<1>2. CASE Push(cookie)
  <2>1. frame = <<>> /\ cookie.tag # NONE /\ room >= 1
    BY <1>2 DEF Push
  <2>2. wire # <<>> /\ Tail(wire) = <<>> /\ room = 1 /\ cookie.tag = OuterTag
    BY <2>1 DEF Tagged
  <2>3. wire = <<OuterTag>>
    <3>1. <<InnerTag>> # <<>>
      OBVIOUS
    <3>. QED BY <1>1, <2>2, <3>1, StackForms, Zenon
  <2>4. frame' = <<OuterTag>> /\ room' = 0
    BY <1>2, <2>1, <2>2 DEF RedirectToIngressTap
  <2>. QED BY <1>1, <2>3, <2>4 DEF Tagged
<1>3. CASE ~Push(cookie)
  <2>1. frame' = frame /\ room' = room
    BY <1>3 DEF RedirectToIngressTap
  <2>2. Stale' \/ frame = wire \/ Len(wire) = 2
    <3>1. SUFFICES ASSUME ~Stale', wire # <<>>, frame = Tail(wire), room = 1
                   PROVE  Len(wire) = 2
      BY DEF Tagged
    <3>2. cookie.tag # NONE
      BY <1>1, <3>1 DEF Tagged, Carried, Stale
    <3>3. frame # <<>>
      BY <1>3, <3>1, <3>2 DEF Push
    <3>. QED BY <1>1, <3>1, <3>3, StackForms
  <2>. QED BY <1>1, <2>1, <2>2 DEF Tagged
<1>. QED BY <1>2, <1>3

LEMMA ArrivalTagged ==
    ASSUME Tagged, Carried, NEW s \in SwIf, NEW tags \in Stack, DeviceInputArc(s, tags)
    PROVE  Tagged'
<1>1. /\ wire' = tags /\ frame' = tags /\ room' = 0 /\ ~moved'
      /\ stamped' \in BOOLEAN /\ cookie' = Captured(s, tags, stamped')
  BY DEF DeviceInputArc, Carried
<1>2. CASE stamped'
  <2>1. cookie'.tag = IF tags = <<>> THEN NONE ELSE OuterTag
    BY <1>1, <1>2, CapturedIsCookie, Zenon
  <2>. QED BY <1>1, <2>1, PathAssumption DEF Tagged
<1>3. CASE ~stamped'
  <2>1. cookie' = cookie
    BY <1>1, <1>3 DEF Captured
  <2>. QED BY <1>1, <1>3, <2>1 DEF Tagged
<1>. QED BY <1>2, <1>3

LEMMA TaggedNext == WTypeOK /\ Carried /\ OnWire /\ Tagged /\ [Next]_vars => Tagged'
<1>. SUFFICES ASSUME WTypeOK, Carried, OnWire, Tagged, [Next]_vars PROVE Tagged'
  OBVIOUS
<1>1. ASSUME NEW e \in Phys, NEW tags \in Stack, DeviceInputArc(PhyIf(e), tags)
      PROVE  Tagged'
  BY <1>1, Arrivals, ArrivalTagged
<1>2. ASSUME NEW i \in pair \ Sub, DeviceInputArc(TapIf(i), <<>>) PROVE Tagged'
  BY <1>2, Arrivals, ArrivalTagged
<1>3. CASE FreeBuffer
  BY <1>3, FreeTagged
<1>4. CASE ToVpp /\ ~FreeBuffer
  <2>1. /\ frame = wire /\ room = 0 /\ UNCHANGED <<wire, cookie, stamped, moved>>
        /\ ~moved
        /\ \/ frame' = frame /\ room' = room
           \/ frame # <<>> /\ frame' = Tail(frame) /\ room' = room + 1
    BY <1>4 DEF ToVpp, OnWire, Carried
  <2>. QED BY <2>1, SMTT(40) DEF Tagged
<1>5. CASE UNCHANGED <<frame, wire, room, stamped, moved, cookie>>
  BY <1>5 DEF Tagged, Stale
<1>6. CASE cookie # NONE /\ RedirectToIngressTap(cookie)
  BY <1>6, RedirectRestores, SMTT(40)
<1>7. CASE LinuxCpPunt \/ TrapFixup \/ PlainOutput
  BY <1>3, <1>5, <1>7 DEF LinuxCpPunt, TrapFixup, PlainOutput
<1>8. CASE GleanRedirect
  BY <1>3, <1>6, <1>8 DEF GleanRedirect
<1>9. CASE AggrOutput
  BY <1>3, <1>6, <1>9 DEF AggrOutput
<1>10. CASE Control \/ UNCHANGED vars
  BY <1>5, <1>10 DEF Control, vars, pvars
<1>. QED BY <1>1, <1>2, <1>3, <1>4, <1>7, <1>8, <1>9, <1>10 DEF Next, PacketStep

TagInv == CarriedInv /\ OnWire /\ Tagged

LEMMA TagInvHolds == Spec => []TagInv
<1>1. Init => OnWire /\ Tagged
  BY OnWireInit DEF Init, Tagged
<1>2. CarriedInv /\ OnWire /\ Tagged /\ [Next]_vars => (OnWire /\ Tagged)'
  BY OnWireNext, TaggedNext DEF CarriedInv, HostInv
<1>. QED BY <1>1, <1>2, CarriedHolds, PTL DEF Spec, TagInv

\* Where at most one tag is on the wire, Linux sees a redirected frame as the
\* wire carried it, and never one ip6-discover-neighbor has rewritten
\* (LinuxSeesWireFrame).
THEOREM WireFrameSeen ==
    ASSUME MaxTags \in 0..1 PROVE Spec => []LinuxSeesWireFrame
<1>1. TagInv => LinuxSeesWireFrame
  <2>1. SUFFICES ASSUME TagInv, moved
                 PROVE  why # "ip6-discover-neighbor" /\ (Stale \/ frame = wire)
    BY DEF LinuxSeesWireFrame
  <2>2. Len(wire) <= MaxTags
    BY <2>1 DEF TagInv, OnWire, Stack
  <2>3. Stale \/ frame = wire \/ Len(wire) = 2
    BY <2>1 DEF TagInv, Tagged
  <2>4. why # "ip6-discover-neighbor"
    BY <2>1 DEF TagInv, CarriedInv, Carried
  <2>. QED BY <2>2, <2>3, <2>4
<1>. QED BY <1>1, TagInvHolds, PTL

\* What sonic_ext_redirect_to_ingress_tap may do to a frame at worst, on any
\* wire: a frame with one tag or none reaches Linux as it was, and one with
\* two tags loses at most the outer one.
WireFrameOrInner ==
    moved => \/ Stale \/ frame = wire
             \/ wire = <<OuterTag, InnerTag>> /\ frame = <<InnerTag>>

\* The case LinuxSeesWireFrame fails in is the only one: a frame of two tags,
\* the outer of which was popped (WireFrameOrInner).
THEOREM OnlyOuterTagLost == Spec => []WireFrameOrInner
<1>1. TagInv => WireFrameOrInner
  <2>1. SUFFICES ASSUME TagInv, moved, ~Stale, frame # wire
                 PROVE  wire = <<OuterTag, InnerTag>> /\ frame = <<InnerTag>>
    BY DEF WireFrameOrInner
  <2>2. wire \in Stack /\ frame = Tail(wire) /\ Len(wire) = 2
    BY <2>1 DEF TagInv, OnWire, Tagged
  <2>3. 2 # 0 /\ 2 # 1
    OBVIOUS
  <2>. QED BY <2>2, <2>3, StackForms, Zenon
<1>. QED BY <1>1, TagInvHolds, PTL

-----------------------------------------------------------------------------
(* Types *)

\* A packet in VPP has a receiving interface until it is on its way out.
Placed ==
    /\ at \in Node /\ why \in DropNode \cup {NONE}
    /\ stamped \in BOOLEAN /\ moved \in BOOLEAN
    /\ src \in SwIf \cup {NONE} /\ rx \in SwIf \cup {NONE}
    /\ at \in {"ethernet-input", "l2-trap", "punt"} => rx \in SwIf
    /\ tx \in SwIf \cup {NONE}
    /\ cookie \in Cookie \cup {NONE}

LEMMA FreePlaced == Placed /\ FreeBuffer => Placed'
<1>. SUFFICES ASSUME Placed, FreeBuffer PROVE Placed'
  OBVIOUS
<1>1. cookie' \in Cookie \cup {NONE}
  BY DEF FreeBuffer, Placed
<1>. QED BY <1>1, ZenonT(40) DEF FreeBuffer, Placed, Node

LEMMA SideOf == \A x \in SwIf : x[2] \in Itf
BY DEF SwIf

LEMMA RedirectPlaced ==
    ASSUME Placed, cookie # NONE, RedirectToIngressTap(cookie)
    PROVE  Placed'
<1>1. cookie.orig \in SwIf
  BY DEF Placed, Cookie
<1>2. IngressPort(cookie) \in Itf
  BY <1>1, SideOf, WiringAssumption DEF IngressPort, IsSub, Itf, Main
<1>3. tx' \in SwIf
  BY <1>2, Sides, Zenon DEF RedirectToIngressTap
<1>. QED BY <1>3 DEF RedirectToIngressTap, Placed, Node

LEMMA ArrivalPlaced ==
    ASSUME Placed, NEW s \in SwIf, NEW tags \in Stack, DeviceInputArc(s, tags)
    PROVE  Placed'
<1>1. cookie' \in Cookie \cup {NONE}
  <2>1. stamped' \in BOOLEAN /\ cookie' = Captured(s, tags, stamped')
    BY DEF DeviceInputArc
  <2>2. CASE stamped'
    BY <2>1, <2>2, CapturedIsCookie, Zenon
  <2>3. CASE ~stamped'
    BY <2>1, <2>3 DEF Captured, Placed
  <2>. QED BY <2>2, <2>3
<1>2. tx' \in SwIf \cup {NONE}
  BY Sides, SideOf DEF DeviceInputArc, Placed
<1>. QED BY <1>1, <1>2 DEF DeviceInputArc, Placed, Node

LEMMA PlacedNext == WTypeOK /\ Placed /\ [Next]_vars => Placed'
<1>. SUFFICES ASSUME WTypeOK, Placed, [Next]_vars PROVE Placed'
  OBVIOUS
<1>1. ASSUME NEW e \in Phys, NEW tags \in Stack, DeviceInputArc(PhyIf(e), tags)
      PROVE  Placed'
  BY <1>1, Arrivals, ArrivalPlaced
<1>2. ASSUME NEW i \in pair \ Sub, DeviceInputArc(TapIf(i), <<>>) PROVE Placed'
  BY <1>2, Arrivals, ArrivalPlaced
<1>3. CASE FreeBuffer
  BY <1>3, FreePlaced
<1>4. CASE ToVpp /\ ~FreeBuffer
  <2>1. PICK i \in Ingress(rx[2]) : rx' = PhyIf(i) \/ (at' = "drop" /\ rx' = NONE)
    BY <1>4, SMTT(40) DEF ToVpp
  <2>2. PhyIf(i) \in SwIf
    BY <2>1, Sides DEF Ingress, WTypeOK
  <2>3. rx' \in SwIf \/ (at' = "drop" /\ rx' = NONE)
    BY <2>1, <2>2
  <2>. QED BY <1>4, <2>3 DEF ToVpp, Placed, Node
<1>5. CASE LinuxCpPunt /\ ~FreeBuffer
  <2>1. tx' \in SwIf
    BY <1>5, Sides, SideOf, SMTT(40) DEF LinuxCpPunt, Placed
  <2>. QED BY <1>5, <2>1 DEF LinuxCpPunt, Placed, Node
<1>6. CASE TrapFixup /\ ~FreeBuffer
  <2>1. rx[2] \in Itf
    BY <1>6, SideOf DEF TrapFixup, Placed
  <2>2. (IF IsSub(rx[2]) THEN Sup[rx[2]] ELSE rx[2]) \in Itf
    BY <2>1, WiringAssumption DEF IsSub, Itf, Main
  <2>3. rx' \in SwIf
    BY <1>6, <2>2, Sides DEF TrapFixup
  <2>4. at' = "punt" /\ UNCHANGED <<src, tx, cookie, why, stamped, moved>>
    BY <1>6 DEF TrapFixup
  <2>5. at' \in Node
    BY <2>4 DEF Node
  <2>. QED BY <2>3, <2>4, <2>5, ZenonT(40) DEF Placed
<1>7. CASE GleanRedirect
  BY <1>3, <1>7, RedirectPlaced DEF GleanRedirect
<1>8. CASE AggrOutput \/ PlainOutput
  BY <1>3, <1>8, RedirectPlaced DEF AggrOutput, PlainOutput
<1>9. CASE Control \/ UNCHANGED vars
  BY <1>9, Zenon DEF Control, vars, pvars, Placed
<1>. QED BY <1>1, <1>2, <1>3, <1>4, <1>5, <1>6, <1>7, <1>8, <1>9 DEF Next, PacketStep

\* Whatever the nodes and the control plane do, the buffer names interfaces
\* that VPP knows and room stays within what was popped (TypeOK).
THEOREM PathTyped == Spec => []TypeOK
<1>1. Init => Placed
  BY Zenon DEF Init, Placed, Node
<1>2. TagInv /\ Placed /\ [Next]_vars => Placed'
  BY PlacedNext DEF HostInv, CarriedInv, TagInv
<1>3. TagInv /\ Placed => TypeOK
  <2>. SUFFICES ASSUME TagInv, Placed PROVE TypeOK
    OBVIOUS
  <2>1. wire \in Stack /\ Len(wire) <= MaxTags
    BY DEF TagInv, OnWire, Stack
  <2>2. /\ frame \in Seq({OuterTag, InnerTag}) /\ Len(frame) <= MaxTags
        /\ room \in 0..MaxTags
    <3>1. CASE frame = wire /\ room = 0
      <4>1. wire \in Seq({OuterTag, InnerTag})
        <5>1. /\ <<>> \in Seq({OuterTag, InnerTag})
              /\ <<OuterTag>> \in Seq({OuterTag, InnerTag})
              /\ <<OuterTag, InnerTag>> \in Seq({OuterTag, InnerTag})
          OBVIOUS
        <5>. QED BY <2>1, <5>1, StackForms, Zenon
      <4>. QED BY <2>1, <3>1, <4>1, PathAssumption
    <3>2. CASE wire # <<>> /\ frame = Tail(wire) /\ room = 1
      <4>1. \/ frame = <<>> /\ Len(wire) = 1
            \/ frame = <<InnerTag>> /\ Len(wire) = 2
        BY <2>1, <3>2, StackForms, Zenon
      <4>2. CASE frame = <<>> /\ Len(wire) = 1
        <5>1. Len(frame) = 0 /\ frame \in Seq({OuterTag, InnerTag})
          BY <4>2
        <5>2. 1 <= MaxTags /\ MaxTags \in Nat
          BY <2>1, <4>2, PathAssumption
        <5>. QED BY <3>2, <5>1, <5>2
      <4>3. CASE frame = <<InnerTag>> /\ Len(wire) = 2
        <5>1. Len(frame) = 1 /\ frame \in Seq({OuterTag, InnerTag})
          BY <4>3
        <5>2. 2 <= MaxTags /\ MaxTags \in Nat
          BY <2>1, <4>3, PathAssumption
        <5>. QED BY <3>2, <5>1, <5>2
      <4>. QED BY <4>1, <4>2, <4>3
    <3>. QED BY <3>1, <3>2 DEF TagInv, Tagged
  <2>. QED BY <2>1, <2>2 DEF TagInv, CarriedInv, HostInv, Placed, TypeOK
<1>. QED BY <1>1, <1>2, <1>3, TagInvHolds, PTL DEF Spec

-----------------------------------------------------------------------------
(* Progress *)

\* How far a packet is from leaving VPP.  An aggregate's tap may send it round
\* through interface-output once more, and then takes its cookie.
Rank ==
    CASE at = "pool" -> 0
      [] at = "interface-output" -> IF cookie = NONE THEN 1 ELSE 2
      [] at \in {"punt", "drop"} -> 3
      [] at = "l2-trap" -> 4
      [] OTHER -> 5

\* No node sends a packet back: every step that touches it brings it closer to
\* leaving, so that it is redirected a bounded number of times.
NoCycle == [][at = "pool" \/ Rank' < Rank \/ UNCHANGED pvars]_vars

\* The arcs that sonic_ext adds to VPP's graph close no loop, whatever the
\* control plane does while a packet is on them (NoCycle): the part of
\* EveryPacketLeaves that does not depend on fairness.
THEOREM PacketsDescend == Spec => NoCycle
<1>1. ASSUME [Next]_vars PROVE at = "pool" \/ Rank' < Rank \/ UNCHANGED pvars
  <2>1. CASE FreeBuffer
    BY <2>1 DEF FreeBuffer, Rank
  <2>2. ASSUME NEW s, NEW tags, DeviceInputArc(s, tags) PROVE at = "pool"
    BY <2>2 DEF DeviceInputArc
  <2>3. CASE ToVpp /\ ~FreeBuffer
    BY <2>3 DEF ToVpp, Rank
  <2>4. CASE LinuxCpPunt /\ ~FreeBuffer
    BY <2>4 DEF LinuxCpPunt, Rank
  <2>5. CASE TrapFixup /\ ~FreeBuffer
    BY <2>5 DEF TrapFixup, Rank
  <2>6. CASE GleanRedirect /\ ~FreeBuffer
    BY <2>6 DEF GleanRedirect, RedirectToIngressTap, Rank
  <2>7. CASE (AggrOutput \/ PlainOutput) /\ ~FreeBuffer
    BY <2>7 DEF AggrOutput, PlainOutput, RedirectToIngressTap, Rank
  <2>8. CASE Control \/ UNCHANGED vars
    BY <2>8 DEF Control, vars, pvars
  <2>. QED BY <1>1, <2>1, <2>2, <2>3, <2>4, <2>5, <2>6, <2>7, <2>8
           DEF Next, PacketStep
<1>. QED BY <1>1, PTL DEF Spec, NoCycle

-----------------------------------------------------------------------------
(* Punt via member *)

\* A captured packet has its cookie until it is redirected.
Held == stamped => cookie # NONE \/ moved

LEMMA HeldNext == WTypeOK /\ Held /\ [Next]_vars => Held'
<1>. SUFFICES ASSUME WTypeOK, Held, [Next]_vars PROVE Held'
  OBVIOUS
<1>1. ASSUME NEW s \in SwIf, NEW tags \in Stack, DeviceInputArc(s, tags) PROVE Held'
  <2>1. stamped' \in BOOLEAN /\ cookie' = Captured(s, tags, stamped')
    BY <1>1 DEF DeviceInputArc
  <2>2. CASE stamped'
    BY <2>1, <2>2, CapturedIsCookie, Zenon DEF Held
  <2>. QED BY <2>2 DEF Held
<1>2. CASE FreeBuffer \/ moved' \/ UNCHANGED <<cookie, stamped, moved>>
  BY <1>2, ZenonT(40) DEF FreeBuffer, Held
<1>. QED BY <1>1, <1>2, Arrivals, ZenonT(40)
         DEF Next, PacketStep, ToVpp, LinuxCpPunt, TrapFixup, GleanRedirect,
             AggrOutput, PlainOutput, RedirectToIngressTap, Control, vars, pvars

LEMMA PortIsNoAggregate == ASSUME WTypeOK, NEW e \in Phys PROVE ~IsAggregate(e)
BY WiringAssumption DEF WTypeOK, IsAggregate, IsBvi, IsBond, Main

\* A captured packet that is about to leave on the tap of an aggregate can be
\* redirected.
LEMMA MemberTapThere ==
    ASSUME WireInv, Carried, Held, stamped, src[2] \in pair, tx[1] = "tap",
           tx[2] \in pair \ turned, IsAggregate(tx[2])
    PROVE  tx[2] \in aggr /\ cookie # NONE /\ CanRedirect(cookie, tx)
<1>1. WTypeOK /\ tx[2] \in aggr
  BY DEF WireInv, HostInv, RedirectOnAggregateTaps
<1>2. FromWire /\ src[2] \in Phys
  BY DEF Carried, FromWire, PhyIf
<1>3. tx[2] # src[2]
  BY <1>1, <1>2, PortIsNoAggregate
<1>4. ~moved
  BY <1>3 DEF Carried, Stale, TapIf
<1>5. cookie # NONE
  BY <1>4 DEF Held
<1>6. TapIf(src[2]) # tx
  BY <1>3 DEF TapIf
<1>. QED BY <1>1, <1>5, <1>6, PortOfCookie DEF CanRedirect, WTypeOK

\* While the toggle is on, a packet captured on a paired port never leaves for
\* Linux on the tap of an aggregate, but for that of a loopback that changed
\* its role while paired (NoPuntOnAggregateTap).
THEOREM PuntsViaMember == Spec => NoPuntOnAggregateTap
<1>1. Init => WireInv /\ Held
  BY WireInit DEF Init, Held
<1>2. WireInv /\ Held /\ [Next]_vars => (WireInv /\ Held)'
  BY WiringSteps, WireNext, HeldNext DEF WireInv, HostInv
<1>3. ASSUME WireInv, Held, CarriedInv, [Next]_vars
      PROVE  at = "interface-output" /\ at' = "pool" /\ "punt_via_member" \in flags
               /\ stamped /\ src[2] \in pair /\ tx[1] = "tap" /\ tx[2] \in pair
               => ~IsAggregate(tx[2]) \/ tx[2] \in turned
  <2>1. SUFFICES ASSUME at = "interface-output", at' = "pool",
                        "punt_via_member" \in flags,
                        stamped, src[2] \in pair, tx[1] = "tap",
                        tx[2] \in pair \ turned, IsAggregate(tx[2])
                 PROVE  FALSE
    OBVIOUS
  <2>2. tx[2] \in aggr /\ cookie # NONE /\ CanRedirect(cookie, tx)
    BY <1>3, <2>1, MemberTapThere DEF CarriedInv
  <2>3. AggrOutput
    BY <1>3, <2>1, <2>2, Zenon
       DEF Next, PacketStep, DeviceInputArc, ToVpp, LinuxCpPunt, TrapFixup,
           GleanRedirect, PlainOutput, Control, vars, pvars
  <2>. QED BY <2>1, <2>2, <2>3 DEF AggrOutput, RedirectToIngressTap
<1>. QED BY <1>1, <1>2, <1>3, CarriedHolds, PTL DEF Spec, NoPuntOnAggregateTap

=============================================================================
