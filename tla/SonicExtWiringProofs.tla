------------------------- MODULE SonicExtWiringProofs -------------------------
(***************************************************************************)
(* Proofs about SonicExtWiring for any set of ports, bonds, loopbacks and  *)
(* sub-interfaces.  The wiring is exact only because the two "enabled"     *)
(* flags are set by sonic_ext_init and never cleared (Sticky): a pair      *)
(* added while one of them was off would miss its feature.                 *)
(***************************************************************************)
EXTENDS SonicExtWiring, TLAPS

\* The once-only flags stay set after sonic_ext_init.
Sticky == {"capture_enabled", "host_xc_enabled"} \subseteq flags

HostInv == WTypeOK /\ Sticky /\ HostXcOnMainTaps
WireInv == HostInv /\ CaptureOnWirePorts /\ RedirectOnAggregateTaps

LEMMA HostInit == WInit => HostInv
BY WiringAssumption
   DEF WInit, HostInv, WTypeOK, Sticky, HostXcOnMainTaps, Itf, Main, Flag, DropArc

LEMMA HostNext == HostInv /\ [WNext]_wvars => HostInv'
<1>. SUFFICES ASSUME HostInv, [WNext]_wvars PROVE HostInv'
  OBVIOUS
<1>. USE WiringAssumption DEF HostInv, WTypeOK, Sticky, HostXcOnMainTaps, Itf, Main
<1>1. ASSUME NEW e \in BOOLEAN, SetPuntViaMember(e) PROVE HostInv'
  BY <1>1 DEF SetPuntViaMember, CaptureWalk, Flag, DropArc
<1>2. ASSUME NEW e \in BOOLEAN, SetHostXc(e) PROVE HostInv'
  BY <1>2 DEF SetHostXc, HostXcWalk, Flag
<1>3. ASSUME NEW i \in Itf, PairAdd(i) PROVE HostInv'
  BY <1>3 DEF PairAdd, DeviceInput, IsSub
<1>4. ASSUME NEW i \in Itf, PairDel(i) PROVE HostInv'
  BY <1>4 DEF PairDel, DeviceInput, IsSub, Stripped
<1>5. ASSUME NEW i \in Itf, IfCreate(i) \/ IfDelete(i) \/ ToggleBvi(i)
      PROVE  HostInv'
  BY <1>5 DEF IfCreate, IfDelete, ToggleBvi
<1>6. CASE UNCHANGED wvars
  BY <1>6 DEF wvars
<1>. QED BY <1>1, <1>2, <1>3, <1>4, <1>5, <1>6 DEF WNext

\* host-xc stays on exactly the taps of paired main interfaces, also when
\* sub-ports come and go and whatever the BVIs do (HostXcOnMainTaps).
THEOREM HostXcExact == WSpec => [](WTypeOK /\ HostXcOnMainTaps)
<1>1. HostInv => WTypeOK /\ HostXcOnMainTaps
  BY DEF HostInv
<1>. QED BY <1>1, HostInit, HostNext, PTL DEF WSpec

-----------------------------------------------------------------------------
\* An action that leaves the pairs alone and does not change what is an
\* aggregate among those that never changed their role keeps capture and
\* redirection in place.
LEMMA AggregatesKept ==
    ASSUME WireInv, HostInv', pair' = pair, aggr' = aggr,
           capture' \ turned' = capture \ turned', turned \subseteq turned',
           \A i \in pair \ turned' : IsAggregate(i)' <=> IsAggregate(i)
    PROVE  WireInv'
<1>1. CaptureOnWirePorts'
  BY DEF WireInv, CaptureOnWirePorts
<1>2. RedirectOnAggregateTaps'
  BY DEF WireInv, RedirectOnAggregateTaps
<1>. QED BY <1>1, <1>2 DEF WireInv

LEMMA WireInit == WInit => WireInv
BY HostInit DEF WInit, WireInv, CaptureOnWirePorts, RedirectOnAggregateTaps

LEMMA WireNext == WireInv /\ [WNext]_wvars => WireInv'
<1>. SUFFICES ASSUME WireInv, [WNext]_wvars PROVE WireInv'
  OBVIOUS
<1>0. HostInv'
  BY HostNext DEF WireInv
<1>t. WTypeOK /\ Sticky
  BY DEF WireInv, HostInv
<1>1. ASSUME NEW e \in BOOLEAN, SetPuntViaMember(e) PROVE WireInv'
  <2>1. UNCHANGED <<pair, aggr, capture, turned>>
    BY <1>1, <1>t DEF SetPuntViaMember, Sticky
  <2>2. \A i \in pair : IsAggregate(i)' <=> IsAggregate(i)
    BY <1>1 DEF SetPuntViaMember, IsAggregate, IsBvi, IsBond
  <2>. QED BY <1>0, <2>1, <2>2, AggregatesKept
<1>2. ASSUME NEW e \in BOOLEAN, SetHostXc(e) PROVE WireInv'
  <2>1. UNCHANGED <<pair, aggr, capture, turned>>
    BY <1>2 DEF SetHostXc
  <2>2. \A i \in pair : IsAggregate(i)' <=> IsAggregate(i)
    BY <1>2 DEF SetHostXc, IsAggregate, IsBvi, IsBond
  <2>. QED BY <1>0, <2>1, <2>2, AggregatesKept
<1>3. ASSUME NEW i \in Itf, PairAdd(i) PROVE WireInv'
  <2>1. \A j \in Itf : IsAggregate(j)' <=> IsAggregate(j)
    BY <1>3 DEF PairAdd, IsAggregate, IsBvi, IsBond
  <2>2. pair \subseteq Itf /\ pair' = pair \cup {i} /\ i \notin pair /\ turned' = turned
    BY <1>3, <1>t DEF PairAdd, WTypeOK
  <2>3. RedirectOnAggregateTaps'
    BY <1>3, <2>1, <2>2 DEF PairAdd, WireInv, RedirectOnAggregateTaps
  <2>4. CaptureOnWirePorts'
    BY <1>3, <1>t, <2>1, <2>2
       DEF PairAdd, WireInv, CaptureOnWirePorts, Sticky, DeviceInput, IsSub
  <2>. QED BY <1>0, <2>3, <2>4 DEF WireInv
<1>4. ASSUME NEW i \in Itf, PairDel(i) PROVE WireInv'
  <2>1. \A j \in Itf : IsAggregate(j)' <=> IsAggregate(j)
    BY <1>4 DEF PairDel, IsAggregate, IsBvi, IsBond
  <2>2. pair \subseteq Itf /\ pair' = pair \ {i} /\ i \in pair /\ turned' = turned
    BY <1>4, <1>t DEF PairDel, WTypeOK
  <2>3. RedirectOnAggregateTaps'
    BY <1>4, <2>1, <2>2 DEF PairDel, WireInv, RedirectOnAggregateTaps
  <2>4. CaptureOnWirePorts'
    BY <1>4, <1>t, <2>1, <2>2
       DEF PairDel, WireInv, CaptureOnWirePorts, Sticky, DeviceInput, IsSub,
           Stripped
  <2>. QED BY <1>0, <2>3, <2>4 DEF WireInv
<1>5. ASSUME NEW i \in Itf, IfCreate(i) PROVE WireInv'
  <2>1. UNCHANGED <<pair, aggr, capture, turned>> /\ i \notin pair
    BY <1>5, <1>t DEF IfCreate, WTypeOK
  <2>2. \A j \in pair : IsAggregate(j)' <=> IsAggregate(j)
    BY <1>5, <2>1, <1>t DEF IfCreate, IsAggregate, IsBvi, IsBond, WTypeOK
  <2>. QED BY <1>0, <2>1, <2>2, AggregatesKept
<1>6. ASSUME NEW i \in Itf, IfDelete(i) PROVE WireInv'
  <2>1. UNCHANGED <<pair, aggr, turned>> /\ i \notin pair
    BY <1>6 DEF IfDelete
  <2>2. capture' \ turned = capture \ turned
    BY <1>6, <2>1 DEF IfDelete, WireInv, CaptureOnWirePorts
  <2>3. \A j \in pair : IsAggregate(j)' <=> IsAggregate(j)
    BY <1>6, <2>1, <1>t DEF IfDelete, IsAggregate, IsBvi, IsBond, WTypeOK
  <2>. QED BY <1>0, <2>1, <2>2, <2>3, AggregatesKept
<1>7. ASSUME NEW i \in Itf, ToggleBvi(i) PROVE WireInv'
  <2>1. /\ UNCHANGED <<pair, aggr, capture>> /\ turned \subseteq turned'
        /\ i \notin pair \ turned'
    BY <1>7 DEF ToggleBvi
  <2>2. \A j \in pair \ turned' : IsAggregate(j)' <=> IsAggregate(j)
    BY <1>7, <2>1 DEF ToggleBvi, IsAggregate, IsBvi, IsBond
  <2>. QED BY <1>0, <2>1, <2>2, AggregatesKept
<1>8. CASE UNCHANGED wvars
  <2>1. \A j \in pair : IsAggregate(j)' <=> IsAggregate(j)
    BY <1>8 DEF wvars, IsAggregate, IsBvi, IsBond
  <2>. QED BY <1>0, <1>8, <2>1, AggregatesKept DEF wvars
<1>. QED BY <1>1, <1>2, <1>3, <1>4, <1>5, <1>6, <1>7, <1>8 DEF WNext

\* Capture is on exactly the paired wire ports, but for loopbacks that changed
\* their role while paired (CaptureOnWirePorts) ...
THEOREM CaptureExact == WSpec => []CaptureOnWirePorts
<1>1. WireInv => CaptureOnWirePorts
  BY DEF WireInv
<1>. QED BY <1>1, WireInit, WireNext, PTL DEF WSpec

\* ... and redirection on exactly the taps of paired aggregates, with the same
\* exception (RedirectOnAggregateTaps).
THEOREM RedirectExact == WSpec => []RedirectOnAggregateTaps
<1>1. WireInv => RedirectOnAggregateTaps
  BY DEF WireInv
<1>. QED BY <1>1, WireInit, WireNext, PTL DEF WSpec

=============================================================================
