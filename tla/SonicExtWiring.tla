---------------------------- MODULE SonicExtWiring ----------------------------
(***************************************************************************)
(* The control plane of the sonic_ext plugin: which of its feature nodes   *)
(* is enabled on which interface while linux-cp (LCP) pairs come and go    *)
(* and the operator flips the two toggles.                                 *)
(*                                                                         *)
(* An LCP pair ties a VPP interface to a host tap.  The two are one to     *)
(* one, so a tap goes by the name of the interface it mirrors: a set of    *)
(* taps is a set of Itf.  The tap of a sub-interface is itself a           *)
(* sub-interface, of its parent's tap.                                     *)
(*                                                                         *)
(* Callbacks and CLI commands run on the main thread; each is one action.  *)
(***************************************************************************)
CONSTANTS
    Phys,      \* physical ports
    Bond,      \* bond (port-channel) masters
    Loop,      \* loopbacks, which a bridge domain can take as its BVI
    Sub,       \* VLAN sub-interfaces
    Sup        \* the parent of each sub-interface

Main == Phys \cup Bond \cup Loop
Itf == Main \cup Sub

ASSUME WiringAssumption ==
    /\ Main \cap Sub = {}
    /\ Phys \cap (Bond \cup Loop) = {} /\ Bond \cap Loop = {}
    /\ Sup \in [Sub -> Phys \cup Bond]

VARIABLES
    flags,    \* the non-zero members of sonic_ext_main
    up,       \* interfaces that exist
    bvi,      \* interfaces that are the BVI of a bridge domain
    pair,     \* interfaces with an LCP pair
    capture,  \* interfaces with sonic-ext-capture on device-input
    hostxc,   \* taps with sonic-ext-host-xc on device-input
    aggr,     \* taps with sonic-ext-aggr-tap-redirect on interface-output
    glean,    \* drop arcs with sonic-ext-glean-redirect
    turned    \* history: loopbacks that became a BVI, or ceased to be one,
              \* while they had an LCP pair

wvars == <<flags, up, bvi, pair, capture, hostxc, aggr, glean, turned>>

Flag == {"punt_via_member", "host_xc", "capture_enabled", "host_xc_enabled",
         "glean_redirect_enabled"}
DropArc == {"ip4-drop", "ip6-drop"}

WTypeOK ==
    /\ flags \subseteq Flag
    /\ up \subseteq Itf
    /\ bvi \subseteq Loop
    /\ pair \subseteq up
    /\ capture \subseteq Itf
    /\ hostxc \subseteq Itf
    /\ aggr \subseteq Itf
    /\ glean \subseteq DropArc
    /\ turned \subseteq Loop

-----------------------------------------------------------------------------
(* Helpers.  A suffix after an underscore marks a deliberately wrong form of *)
(* the operator that follows; no specification uses it.                      *)

\* sonic_ext_sw_is_sub
IsSub_Unchecked(i) == FALSE
IsSub(i) == i \in Sub

\* sonic_ext_phy_is_bvi, sonic_ext_phy_is_bond, sonic_ext_phy_is_aggregate
IsBvi(i) == i \in bvi \cap up
IsBond(i) == i \in up /\ (i \in Bond \/ (i \in Sub /\ Sup[i] \in Bond))
IsAggregate(i) == IsBvi(i) \/ IsBond(i)

\* What VPP does when a device-input feature is disabled on i: feature strings
\* are shared, so that on a sub-interface it strips the parent too.
Stripped(i) == IF i \in Sub THEN {i, Sup[i]} ELSE {i}

\* sonic_ext_capture_enable_disable and sonic_ext_host_xc_enable_disable: the
\* set of interfaces with the feature, after the call for i.
DeviceInput(on, i, enable) ==
    IF IsSub(i) THEN on
    ELSE IF enable THEN on \cup {i} ELSE on \ Stripped(i)

\* The lcp_itf_pair_walk of sonic_ext_set_punt_via_member and _host_xc.
CaptureWalk == {i \in pair : ~IsAggregate(i) /\ ~IsSub(i)}
HostXcWalk == {i \in pair : ~IsSub(i)}

-----------------------------------------------------------------------------
(* The plugin *)

\* sonic_ext_set_punt_via_member
SetPuntViaMember(enable) ==
    /\ flags' = IF enable
                  THEN flags \cup {"punt_via_member", "capture_enabled",
                                   "glean_redirect_enabled"}
                  ELSE flags \ {"punt_via_member"}
    /\ capture' = IF enable /\ "capture_enabled" \notin flags
                    THEN capture \cup CaptureWalk ELSE capture
    /\ glean' = IF enable /\ "glean_redirect_enabled" \notin flags
                  THEN DropArc ELSE glean
    /\ UNCHANGED <<up, bvi, pair, hostxc, aggr, turned>>

\* sonic_ext_set_host_xc
SetHostXc(enable) ==
    /\ flags' = IF enable THEN flags \cup {"host_xc", "host_xc_enabled"}
                  ELSE flags \ {"host_xc"}
    /\ hostxc' = IF enable /\ "host_xc_enabled" \notin flags
                   THEN hostxc \cup HostXcWalk ELSE hostxc
    /\ UNCHANGED <<up, bvi, pair, capture, aggr, glean, turned>>

\* sonic_ext_init, which sets both toggles before any pair exists.
WInit ==
    /\ flags = Flag
    /\ up = Phys
    /\ bvi = {} /\ pair = {} /\ capture = {} /\ hostxc = {} /\ aggr = {}
    /\ glean = DropArc
    /\ turned = {}

\* LCP creates the pair and calls sonic_ext_lcp_pair_add_cb.  A sub-interface's
\* tap needs its parent's.
PairAdd(i) ==
    /\ i \in up \ pair
    /\ i \in Sub => Sup[i] \in pair
    /\ pair' = pair \cup {i}
    /\ capture' = IF "capture_enabled" \in flags /\ ~IsAggregate(i)
                    THEN DeviceInput(capture, i, TRUE) ELSE capture
    /\ hostxc' = IF "host_xc_enabled" \in flags
                   THEN DeviceInput(hostxc, i, TRUE) ELSE hostxc
    /\ aggr' = IF IsAggregate(i) THEN aggr \cup {i} ELSE aggr
    /\ UNCHANGED <<flags, up, bvi, glean, turned>>

PairDel_KeepsCapture(i) ==
    /\ i \in pair
    /\ \A j \in pair \cap Sub : Sup[j] # i
    /\ pair' = pair \ {i}
    /\ hostxc' = IF "host_xc_enabled" \in flags
                   THEN DeviceInput(hostxc, i, FALSE) ELSE hostxc
    /\ aggr' = IF IsAggregate(i) THEN aggr \ {i} ELSE aggr
    /\ UNCHANGED <<flags, up, bvi, glean, capture, turned>>

PairDel_KeepsRedirect(i) ==
    /\ i \in pair
    /\ \A j \in pair \cap Sub : Sup[j] # i
    /\ pair' = pair \ {i}
    /\ capture' = IF "capture_enabled" \in flags /\ ~IsAggregate(i)
                    THEN DeviceInput(capture, i, FALSE) ELSE capture
    /\ hostxc' = IF "host_xc_enabled" \in flags
                   THEN DeviceInput(hostxc, i, FALSE) ELSE hostxc
    /\ UNCHANGED <<flags, up, bvi, glean, aggr, turned>>

\* LCP calls sonic_ext_lcp_pair_del_cb and then deletes the pair.  (What VPP
\* clears by itself when the tap goes is not relied on.)
PairDel(i) ==
    /\ i \in pair
    /\ \A j \in pair \cap Sub : Sup[j] # i
    /\ pair' = pair \ {i}
    /\ capture' = IF "capture_enabled" \in flags /\ ~IsAggregate(i)
                    THEN DeviceInput(capture, i, FALSE) ELSE capture
    /\ hostxc' = IF "host_xc_enabled" \in flags
                   THEN DeviceInput(hostxc, i, FALSE) ELSE hostxc
    /\ aggr' = IF IsAggregate(i) THEN aggr \ {i} ELSE aggr
    /\ UNCHANGED <<flags, up, bvi, glean, turned>>

-----------------------------------------------------------------------------
(* VPP around the plugin *)

IfCreate(i) ==
    /\ i \notin up
    /\ i \in Sub => Sup[i] \in up
    /\ up' = up \cup {i}
    /\ UNCHANGED <<flags, bvi, pair, capture, hostxc, aggr, glean, turned>>

\* LCP drops the pair first; VPP drops the features of what it deletes.
IfDelete(i) ==
    /\ i \in up \ (pair \cup Phys)
    /\ \A j \in up \cap Sub : Sup[j] # i
    /\ up' = up \ {i}
    /\ bvi' = bvi \ {i}
    /\ capture' = capture \ {i}
    /\ UNCHANGED <<flags, pair, hostxc, aggr, glean, turned>>

\* A bridge domain takes or releases a loopback as its BVI.  The plugin is not
\* told: it looks at the role only when a pair is added or deleted.
ToggleBvi(i) ==
    /\ i \in Loop \cap up
    /\ bvi' = IF i \in bvi THEN bvi \ {i} ELSE bvi \cup {i}
    /\ turned' = IF i \in pair THEN turned \cup {i} ELSE turned
    /\ UNCHANGED <<flags, up, pair, capture, hostxc, aggr, glean>>

WNext ==
    \/ \E e \in BOOLEAN : SetPuntViaMember(e) \/ SetHostXc(e)
    \/ \E i \in Itf : \/ PairAdd(i) \/ PairDel(i)
                      \/ IfCreate(i) \/ IfDelete(i) \/ ToggleBvi(i)

WSpec == WInit /\ [][WNext]_wvars

-----------------------------------------------------------------------------
(* Properties *)

\* host-xc is on the tap of every paired main interface and nowhere else,
\* whatever sub-ports were created and deleted before: a frame Linux sends on
\* such a tap never falls through to ethernet-input, where a VLAN tag would
\* have it dropped as unknown.
HostXcOnMainTaps == hostxc = pair \ Sub

\* Capture is on the paired wire ports and on no aggregate: it records the
\* member a packet came in on, and a BVI or bond is never a member.  A loopback
\* that changes its role while it is paired can be wrong about itself, and only
\* about itself.
CaptureOnWirePorts ==
    capture \ turned = {i \in pair \ (Sub \cup turned) : ~IsAggregate(i)}

\* Redirection is on the taps of aggregates and on no member tap; a packet sent
\* to a member tap is not redirected again.  Again a change of role while paired
\* harms no other interface.
RedirectOnAggregateTaps ==
    aggr \ turned = {i \in pair \ turned : IsAggregate(i)}

=============================================================================
