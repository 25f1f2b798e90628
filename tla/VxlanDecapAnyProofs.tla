------------------------ MODULE VxlanDecapAnyProofs ------------------------
(***************************************************************************)
(* Proofs about VxlanDecapAny, for every set of addresses and tunnels and  *)
(* for a hash table that may refuse insertions.                            *)
(*                                                                         *)
(* The survivor searches can pick a tunnel of the other family whose      *)
(* local address has the bits they compare.  The invariant makes no        *)
(* assumption against that: it leaves out the wildcards of such addresses, *)
(* so everything that does not read one of them is proved of every box,    *)
(* and NoCollision is the condition of the rest.                           *)
(***************************************************************************)
EXTENDS VxlanDecapAny, TLAPS

NoCollision == \A a \in V6Local : Low32[a] = NONE

\* An IPv6 VTEP address of this box ends in the bits of this IPv4 one, or this
\* IPv6 one is an IPv4 one with zeros in front.
Ambiguous(l) ==
  \/ l \in V4Local /\ \E a \in V6Local : Low32[a] = l
  \/ l \in Compat /\ Low32[l] # NONE

\* The wildcard keys of ambiguous addresses.
Doubtful(k) ==
  \/ Ambiguous(k[1]) /\ k[2] = NONE
  \/ k[1] = NONE /\ Ambiguous(k[2])

\* EntriesLive but for the wildcards of ambiguous addresses.
EntriesElsewhere ==
  \A k \in Key : by_key[k] # NONE /\ ~Doubtful(k) =>
    LET t == tunnel[by_key[k]]
    IN  /\ t # NONE
        /\ ExactKey(t) = k \/ (OwnsWildcard(t) /\ WildKey(t) = k)

IInv == TypeOK /\ EntriesElsewhere /\ WildcardKept /\ PromiscExact

\* The keys of a tunnel are keys of the table.
LEMMA KeysTyped ==
  ASSUME NEW t \in Tunnel
  PROVE  ExactKey(t) \in Key /\ WildKey(t) \in Key /\ t # NONE
<1>1. t.local \in Local /\ t.remote \in Remote /\ t.ctx \in Ctx
  BY DEF Tunnel, Local, Remote
<1>2. t # NONE
  BY VxlanAssumption
<1> QED
  BY <1>1, <1>2 DEF ExactKey, WildKey, Key

\* A wildcard key is never an exact key: its own address is where the
\* remote would be, or the remote is missing.
LEMMA KeysDiffer ==
  ASSUME NEW t \in Tunnel, NEW u \in Tunnel
  PROVE  WildKey(t) # ExactKey(u)
<1>1. /\ t.local \in Local /\ t.remote \in Remote
      /\ u.local \in Local /\ u.remote \in Remote
  BY DEF Tunnel, Local, Remote
<1>2. NONE \notin Remote /\ NONE \notin Local /\ Local \cap Remote = {}
  BY VxlanAssumption
<1> QED
  BY <1>1, <1>2 DEF ExactKey, WildKey

\* Tunnels share a wildcard key exactly when they have the same local
\* address and VNI, FIB and port.
LEMMA SharedWildcard ==
  ASSUME NEW t \in Tunnel, NEW u \in Tunnel
  PROVE  WildKey(t) = WildKey(u) <=> t.local = u.local /\ t.ctx = u.ctx
<1>1. t.local \in Local /\ u.local \in Local
  BY DEF Tunnel, Local
<1>2. NONE \notin Local
  BY VxlanAssumption
<1> QED
  BY <1>1, <1>2 DEF WildKey, IsV4

\* But for an ambiguous address the survivor search compares whole addresses.
LEMMA SurvivorLocal ==
  ASSUME NEW t \in Tunnel, NEW u \in Tunnel, ~Ambiguous(t.local), SameLocal(t, u)
  PROVE  u.local = t.local
<1>1. t.local \in Local /\ u.local \in Local
  BY DEF Tunnel, Local
<1>2. \A x \in {t, u} : ~IsV4(x) => x.local \in V6Local
  BY <1>1 DEF IsV4, Local
<1>3. CASE IsV4(t) /\ ~IsV4(u) /\ Low32[u.local] = t.local
  BY <1>2, <1>3 DEF Ambiguous, IsV4
<1>4. CASE ~IsV4(t) /\ IsV4(u) /\ t.local \in Compat /\ Low32[t.local] = u.local
  BY <1>1, <1>4, VxlanAssumption DEF Ambiguous
<1> QED
  BY <1>3, <1>4 DEF SameLocal

\* The wildcard of an address that is not ambiguous is not doubtful, and no
\* exact entry is.
LEMMA Undoubted ==
  /\ ~Ambiguous(NONE)
  /\ \A l, c : Doubtful(<<l, NONE, c>>) <=> Ambiguous(l)
  /\ \A l, c : Doubtful(<<NONE, l, c>>) <=> Ambiguous(l)
  /\ \A r \in Remote : ~Ambiguous(r)
<1>1. /\ V4Local \subseteq Local /\ V6Local \subseteq Local
      /\ NONE \notin Local /\ Local \cap Remote = {} /\ Compat \subseteq V6Local
  BY VxlanAssumption DEF Local
<1>2. \A l : Ambiguous(l) => l \in Local
  BY <1>1 DEF Ambiguous
<1>3. ~Ambiguous(NONE) /\ \A r \in Remote : ~Ambiguous(r)
  BY <1>1, <1>2
<1>4. ASSUME NEW l, NEW c
      PROVE  /\ Doubtful(<<l, NONE, c>>) <=> Ambiguous(l)
             /\ Doubtful(<<NONE, l, c>>) <=> Ambiguous(l)
  BY <1>3 DEF Doubtful
<1> QED BY <1>3, <1>4, ZenonT(40)

\* Each step keeps the types.
LEMMA TypeStep ==
  ASSUME TypeOK, [Next]_vars
  PROVE  TypeOK'
<1> USE DEF TypeOK
<1>1. CASE UNCHANGED vars
  BY <1>1 DEF vars
<1>2. ASSUME NEW t \in Tunnel, AddExisting(t) \/ DelMissing(t)
      PROVE  TypeOK'
  BY <1>2, Zenon DEF AddExisting, DelMissing, Refuse
<1>3. ASSUME NEW t \in Tunnel, NEW s \in Slot, AddFails(t, s)
      PROVE  TypeOK'
  BY <1>3, KeysTyped DEF AddFails, Refuse, Rollback
<1>4. ASSUME NEW t \in Tunnel, NEW s \in Slot, AddTunnel(t, s)
      PROVE  TypeOK'
  BY <1>4, KeysTyped, Zenon DEF AddTunnel
<1>5. ASSUME NEW s \in Slot, DelTunnel(s)
      PROVE  TypeOK'
  <2>1. tunnel[s] \in Tunnel
    BY <1>5 DEF DelTunnel
  <2>2. NextOwners(s) \subseteq Slot \cup {NONE}
    BY DEF NextOwners, Survivors, Live
  <2>3. ExactKey(tunnel[s]) \in Key /\ WildKey(tunnel[s]) \in Key
    BY <2>1, KeysTyped
  <2> QED
    BY <1>5, <2>2, <2>3, ZenonT(40) DEF DelTunnel, ClearPromisc
<1> QED
  BY <1>1, <1>2, <1>3, <1>4, <1>5 DEF Next

\* A tunnel added to a free slot leaves the others' entries alone.
LEMMA AddStep ==
  ASSUME IInv, NEW t \in Tunnel, NEW s \in Slot, AddTunnel(t, s), TypeOK'
  PROVE  (EntriesElsewhere /\ WildcardKept /\ PromiscExact)'
<1> DEFINE e == ExactKey(t)
           w == WildKey(t)
<1>1. /\ e \in Key /\ w \in Key /\ e # w /\ t # NONE
      /\ s # NONE
  BY KeysTyped, KeysDiffer, VxlanAssumption
<1>2. /\ by_key[e] = NONE
      /\ tunnel[s] = NONE
      /\ tunnel' = [tunnel EXCEPT ![s] = t]
      /\ by_key' = IF OwnsWildcard(t)
                   THEN [by_key EXCEPT ![e] = s, ![w] = s]
                   ELSE [by_key EXCEPT ![e] = s]
      /\ lost' = IF OwnsWildcard(t) THEN lost \ {w} ELSE lost
      /\ promisc' = IF t.decap_any THEN promisc \cup {s} ELSE promisc
  BY DEF AddTunnel
<1>3. /\ tunnel'[s] = t
      /\ \A u \in Slot \ {s} : tunnel'[u] = tunnel[u]
  BY <1>2 DEF IInv, TypeOK
<1>4. /\ by_key'[e] = s
      /\ OwnsWildcard(t) => by_key'[w] = s
      /\ \A k \in Key \ {e, w} : by_key'[k] = by_key[k]
      /\ ~OwnsWildcard(t) => by_key'[w] = by_key[w]
  BY <1>1, <1>2 DEF IInv, TypeOK
<1>5. EntriesElsewhere'
  <2> SUFFICES ASSUME NEW k \in Key, by_key'[k] # NONE,
                      ~Doubtful(k)
               PROVE  LET v == tunnel'[by_key'[k]]
                      IN  /\ v # NONE
                          /\ ExactKey(v) = k \/ (OwnsWildcard(v) /\ WildKey(v) = k)
    BY DEF EntriesElsewhere
  <2>1. CASE k = e
    BY <2>1, <1>1, <1>3, <1>4
  <2>2. CASE k = w /\ OwnsWildcard(t)
    BY <2>2, <1>1, <1>3, <1>4
  <2>3. CASE k # e /\ ~(k = w /\ OwnsWildcard(t))
    <3>1. by_key'[k] = by_key[k]
      BY <2>3, <1>4
    <3>2. /\ by_key[k] \in Slot
          /\ tunnel[by_key[k]] # NONE
      BY <3>1 DEF IInv, TypeOK, EntriesElsewhere
    <3>3. tunnel'[by_key[k]] = tunnel[by_key[k]]
      BY <3>2, <1>2, <1>3
    <3> QED
      BY <3>1, <3>2, <3>3 DEF IInv, EntriesElsewhere
  <2> QED
    BY <2>1, <2>2, <2>3
<1>6. WildcardKept'
  <2> SUFFICES ASSUME NEW u \in Slot, tunnel'[u] # NONE
               PROVE  /\ by_key'[ExactKey(tunnel'[u])] = u
                      /\ \/ ~tunnel'[u].decap_any
                         \/ tunnel'[u].remote \in Group
                         \/ by_key'[WildKey(tunnel'[u])] # NONE
                         \/ WildKey(tunnel'[u]) \in lost'
    BY DEF WildcardKept, Live
  <2>1. CASE u = s
    BY <2>1, <1>1, <1>3, <1>4 DEF OwnsWildcard
  <2>2. CASE u # s
    <3> DEFINE x == tunnel[u]
    <3>1. tunnel'[u] = x /\ x \in Tunnel
      BY <2>2, <1>3 DEF IInv, TypeOK
    <3>2. /\ by_key[ExactKey(x)] = u
          /\ \/ ~x.decap_any
             \/ x.remote \in Group
             \/ by_key[WildKey(x)] # NONE
             \/ WildKey(x) \in lost
      BY <3>1 DEF IInv, WildcardKept, Live
    <3>3. ExactKey(x) \in Key \ {e, w}
      <4>1. u # NONE
        BY VxlanAssumption
      <4> QED
        BY <3>1, <3>2, <4>1, <1>2, KeysTyped, KeysDiffer
    <3>4. WildKey(x) \in Key /\ WildKey(x) # e
      BY <3>1, KeysTyped, KeysDiffer
    <3>5. by_key'[ExactKey(x)] = u
      BY <3>2, <3>3, <1>4
    <3>6. CASE WildKey(x) = w /\ OwnsWildcard(t)
      BY <3>1, <3>5, <3>6, <1>1, <1>4
    <3>7. CASE ~(WildKey(x) = w /\ OwnsWildcard(t))
      <4>1. by_key'[WildKey(x)] = by_key[WildKey(x)]
        BY <3>4, <3>7, <1>4
      <4>2. WildKey(x) \in lost => WildKey(x) \in lost'
        BY <3>7, <1>2
      <4> QED
        BY <3>1, <3>2, <3>5, <4>1, <4>2
    <3> QED
      BY <3>6, <3>7
  <2> QED
    BY <2>1, <2>2
<1>7. PromiscExact'
  BY <1>1, <1>2, <1>3 DEF IInv, TypeOK, PromiscExact, RoutedAnyMac
<1> QED
  BY <1>5, <1>6, <1>7

\* A deleted tunnel leaves no entry behind, and its wildcard to a survivor.
LEMMA DelStep ==
  ASSUME IInv, NEW s \in Slot, DelTunnel(s), TypeOK'
  PROVE  (EntriesElsewhere /\ WildcardKept /\ PromiscExact)'
<1> DEFINE t == tunnel[s]
           e == ExactKey(t)
           w == WildKey(t)
<1>1. t \in Tunnel /\ t # NONE /\ s # NONE
  BY VxlanAssumption DEF DelTunnel, IInv, TypeOK
<1>2. e \in Key /\ w \in Key /\ e # w
  BY <1>1, KeysTyped, KeysDiffer
<1>3. /\ tunnel' = [tunnel EXCEPT ![s] = NONE]
      /\ promisc' = ClearPromisc(s)
  BY DEF DelTunnel
<1>4. tunnel'[s] = NONE /\ \A u \in Slot \ {s} : tunnel'[u] = tunnel[u]
  BY <1>3, SMTT(40) DEF IInv, TypeOK
<1>5. /\ by_key'[e] = NONE
      /\ \A k \in Key \ {e, w} : by_key'[k] = by_key[k]
      /\ ~OwnsWildcard(t) => by_key'[w] = by_key[w] /\ lost' = lost
      /\ OwnsWildcard(t) =>
           /\ by_key'[w] \in NextOwners(s)
           /\ lost' = IF by_key'[w] = NONE /\ Survivors(s) # {}
                      THEN lost \cup {w} ELSE lost \ {w}
  <2>1. CASE OwnsWildcard(t)
    <3>1. PICK o \in NextOwners(s) :
            /\ by_key' = [by_key EXCEPT ![e] = NONE, ![w] = o]
            /\ lost' = IF o = NONE /\ Survivors(s) # {}
                       THEN lost \cup {w} ELSE lost \ {w}
      BY <2>1 DEF DelTunnel
    <3> QED
      BY <2>1, <3>1, <1>2 DEF IInv, TypeOK
  <2>2. CASE ~OwnsWildcard(t)
    <3>1. by_key' = [by_key EXCEPT ![e] = NONE] /\ lost' = lost
      BY <2>2 DEF DelTunnel
    <3> QED
      BY <2>2, <3>1, <1>2 DEF IInv, TypeOK
  <2> QED
    BY <2>1, <2>2
<1>6. ASSUME NEW u \in Survivors(s), ~Ambiguous(t.local)
      PROVE  /\ u \in Slot \ {s} /\ tunnel[u] \in Tunnel
             /\ OwnsWildcard(tunnel[u]) /\ WildKey(tunnel[u]) = w
  <2>1. /\ u \in Slot \ {s} /\ tunnel[u] \in Tunnel
        /\ OwnsWildcard(tunnel[u]) /\ SameLocal(t, tunnel[u])
        /\ tunnel[u].ctx = t.ctx
    BY DEF Survivors, Live, IInv, TypeOK
  <2>2. tunnel[u].local = t.local
    BY <1>1, <1>6, <2>1, SurvivorLocal
  <2> QED
    BY <1>1, <2>1, <2>2, SharedWildcard
<1>7. ASSUME NEW u \in Slot \ {s}, tunnel[u] # NONE,
             OwnsWildcard(tunnel[u]), WildKey(tunnel[u]) = w
      PROVE  u \in Survivors(s)
  <2>1. tunnel[u] \in Tunnel
    BY <1>7 DEF IInv, TypeOK
  <2>2. tunnel[u].local = t.local /\ tunnel[u].ctx = t.ctx
    BY <1>1, <1>7, <2>1, SharedWildcard
  <2>3. SameLocal(t, tunnel[u])
    BY <2>2 DEF SameLocal
  <2> QED
    BY <1>7, <2>2, <2>3 DEF Survivors, Live
<1>8. EntriesElsewhere'
  <2> SUFFICES ASSUME NEW k \in Key, by_key'[k] # NONE,
                      ~Doubtful(k)
               PROVE  LET v == tunnel'[by_key'[k]]
                      IN  /\ v # NONE
                          /\ ExactKey(v) = k \/ (OwnsWildcard(v) /\ WildKey(v) = k)
    BY DEF EntriesElsewhere
  <2>1. k # e
    BY <1>5, SMTT(40)
  <2>2. CASE k = w /\ OwnsWildcard(t)
    <3>1. by_key'[w] \in Survivors(s)
      BY <2>2, <1>5 DEF NextOwners
    <3>2. ~Ambiguous(t.local)
      BY <2>2, Undoubted, SMTT(40) DEF WildKey
    <3> QED
      BY <2>2, <3>1, <3>2, <1>1, <1>4, <1>6, VxlanAssumption
  <2>3. CASE ~(k = w /\ OwnsWildcard(t))
    <3>1. by_key'[k] = by_key[k]
      BY <2>1, <2>3, <1>5
    <3>2. /\ by_key[k] \in Slot
          /\ tunnel[by_key[k]] # NONE
          /\ \/ ExactKey(tunnel[by_key[k]]) = k
             \/ OwnsWildcard(tunnel[by_key[k]]) /\ WildKey(tunnel[by_key[k]]) = k
      BY <3>1 DEF IInv, TypeOK, EntriesElsewhere
    <3>3. by_key[k] # s
      BY <3>2, <2>1, <2>3, SMTT(40)
    <3> QED
      BY <3>1, <3>2, <3>3, <1>4, SMTT(40)
  <2> QED
    BY <2>2, <2>3
<1>9. WildcardKept'
  <2> SUFFICES ASSUME NEW u \in Slot, tunnel'[u] # NONE
               PROVE  /\ by_key'[ExactKey(tunnel'[u])] = u
                      /\ \/ ~tunnel'[u].decap_any
                         \/ tunnel'[u].remote \in Group
                         \/ by_key'[WildKey(tunnel'[u])] # NONE
                         \/ WildKey(tunnel'[u]) \in lost'
    BY DEF WildcardKept, Live
  <2> DEFINE x == tunnel[u]
  <2>1. u # s /\ tunnel'[u] = x /\ x # NONE /\ x \in Tunnel
    BY <1>4, SMTT(40) DEF IInv, TypeOK
  <2>2. /\ by_key[ExactKey(x)] = u
        /\ by_key[e] = s
        /\ \/ ~OwnsWildcard(x)
           \/ by_key[WildKey(x)] # NONE
           \/ WildKey(x) \in lost
    BY <2>1, <1>1, SMTT(40) DEF IInv, WildcardKept, Live, OwnsWildcard
  <2>3. ExactKey(x) \in Key \ {e, w} /\ WildKey(x) \in Key \ {e}
    BY <2>1, <2>2, <1>1, KeysTyped, KeysDiffer, SMTT(40)
  <2>4. by_key'[ExactKey(x)] = u
    BY <2>2, <2>3, <1>5, SMTT(40)
  <2>5. CASE OwnsWildcard(x) /\ WildKey(x) = w /\ OwnsWildcard(t)
    <3>1. Survivors(s) # {}
      BY <2>1, <2>5, <1>7, SMTT(40)
    <3>2. by_key'[w] # NONE \/ w \in lost'
      BY ONLY <2>5, <3>1, <1>5, SMTT(40)
    <3> QED
      BY ONLY <2>1, <2>4, <2>5, <3>2, SMTT(40)
  <2>6. CASE WildKey(x) # w \/ ~OwnsWildcard(t)
    <3>1. by_key'[WildKey(x)] = by_key[WildKey(x)]
      BY <2>3, <2>6, <1>5, SMTT(40)
    <3>2. WildKey(x) \in lost => WildKey(x) \in lost'
      BY <2>6, <1>5
    <3> QED
      BY <2>1, <2>2, <2>4, <3>1, <3>2, SMTT(40) DEF OwnsWildcard
  <2>7. CASE ~OwnsWildcard(x)
    BY <2>1, <2>4, <2>7 DEF OwnsWildcard
  <2> QED
    BY <2>5, <2>6, <2>7, SMTT(40)
<1>10. PromiscExact'
  BY <1>1, <1>3, <1>4 DEF IInv, TypeOK, PromiscExact, RoutedAnyMac, ClearPromisc
<1> QED
  BY <1>8, <1>9, <1>10

\* IInv is inductive.
LEMMA InvStep ==
  ASSUME IInv, [Next]_vars
  PROVE  IInv'
<1>0. TypeOK'
  BY TypeStep, SMTT(40) DEF IInv
<1>1. CASE UNCHANGED vars
  BY <1>0, <1>1 DEF IInv, vars, EntriesElsewhere, WildcardKept, PromiscExact,
                    RoutedAnyMac, Live
<1>2. ASSUME NEW t \in Tunnel, NEW s \in Slot, AddTunnel(t, s)
      PROVE  IInv'
  BY <1>0, <1>2, AddStep DEF IInv
<1>3. ASSUME NEW s \in Slot, DelTunnel(s)
      PROVE  IInv'
  BY <1>0, <1>3, DelStep, SMTT(40) DEF IInv
<1>4. ASSUME UNCHANGED <<tunnel, by_key, promisc, lost>>
      PROVE  IInv'
  BY <1>0, <1>4 DEF IInv, EntriesElsewhere, WildcardKept, PromiscExact,
                    RoutedAnyMac, Live
<1>5. ASSUME NEW t \in Tunnel, AddExisting(t) \/ DelMissing(t)
      PROVE  IInv'
  BY <1>4, <1>5 DEF AddExisting, DelMissing, Refuse
<1>6. ASSUME NEW t \in Tunnel, NEW s \in Slot, AddFails(t, s)
      PROVE  IInv'
  <2>1. by_key' = by_key
    BY <1>6, KeysTyped DEF AddFails, Rollback, IInv, TypeOK
  <2> QED
    BY <1>4, <1>6, <2>1 DEF AddFails, Refuse
<1> QED
  BY <1>1, <1>2, <1>3, <1>5, <1>6 DEF Next

\* The invariant holds whatever tunnels are added and deleted, and whichever
\* insertions the hash table refuses.
THEOREM Invariance == Spec => []IInv
<1>1. Init => IInv
  BY VxlanAssumption, Zenon DEF Init, IInv, TypeOK, EntriesElsewhere, WildcardKept,
                         PromiscExact, RoutedAnyMac, Live
<1>2. IInv /\ [Next]_vars => IInv'
  BY InvStep
<1> QED
  BY <1>1, <1>2, PTL DEF Spec

\* Whatever addresses a box has, the only entries that can be wrong are the
\* wildcards of ambiguous addresses: every exact entry, every group's entry and
\* every other wildcard leads to a live tunnel it was made for
\* (EntriesElsewhere).
THEOREM CollisionContained == Spec => [](TypeOK /\ EntriesElsewhere)
<1>1. IInv => TypeOK /\ EntriesElsewhere
  BY DEF IInv
<1> QED
  BY <1>1, Invariance, PTL

LEMMA Unambiguous == ASSUME NoCollision, NEW l PROVE ~Ambiguous(l)
BY VxlanAssumption DEF NoCollision, Ambiguous, Local

\* Without an ambiguous address every entry of the hash tables leads to a live
\* tunnel it was made for (EntriesLive).
THEOREM TablesConsistent == ASSUME NoCollision PROVE Spec => []EntriesLive
<1>1. ASSUME NEW l PROVE ~Ambiguous(l)
  BY Unambiguous
<1>2. IInv => EntriesLive
  BY <1>1 DEF IInv, EntriesElsewhere, EntriesLive, OwnsWildcard, Doubtful
<1> QED
  BY <1>2, Invariance, PTL

\* A wildcard outlives the tunnel it points at while another decap-any tunnel
\* of its key lives (WildcardKept), with or without ambiguous addresses.
THEOREM WildcardsOutlive == Spec => []WildcardKept
<1>1. IInv => WildcardKept
  BY DEF IInv
<1> QED
  BY <1>1, Invariance, PTL

\* Only frames of decap-any tunnels are routed whatever their MAC, although
\* interface indices are used again (PromiscExact).
THEOREM PromiscSound == Spec => []PromiscExact
<1>1. IInv => PromiscExact
  BY DEF IInv
<1> QED
  BY <1>1, Invariance, PTL

\* A live IPv4 tunnel is in the table under its exact key.
LEMMA InTable4 ==
  ASSUME IInv, NEW s \in Live, tunnel[s].remote \in V4Remote
  PROVE  /\ tunnel[s] \in Tunnel /\ tunnel[s].local \in V4Local
         /\ tunnel[s].remote \notin Group =>
              by_key[<<tunnel[s].local, tunnel[s].remote, tunnel[s].ctx>>] = s
         /\ tunnel[s].remote \in Group =>
              by_key[<<NONE, tunnel[s].remote, tunnel[s].ctx>>] = s
<1>1. tunnel[s] \in Tunnel
  BY DEF IInv, TypeOK, Live
<1>2. tunnel[s].local \in V4Local
  BY <1>1, VxlanAssumption DEF Tunnel
<1>3. by_key[ExactKey(tunnel[s])] = s
  BY DEF IInv, WildcardKept
<1> QED
  BY <1>1, <1>2, <1>3 DEF ExactKey, IsV4

\* An entry of the table leads to a live tunnel with that key.
LEMMA Entry ==
  ASSUME IInv, NEW k \in Key, by_key[k] # NONE, ~Doubtful(k)
  PROVE  LET t == tunnel[by_key[k]]
         IN  /\ by_key[k] \in Live /\ t \in Tunnel
             /\ ExactKey(t) = k \/ (OwnsWildcard(t) /\ WildKey(t) = k)
BY SMTT(40) DEF IInv, TypeOK, EntriesElsewhere, Live

\* What the three entries an IPv4 lookup consults lead to.
LEMMA ExactEntry ==
  ASSUME IInv, NEW l \in V4Local, NEW r \in V4Remote \ Group, NEW c \in Ctx,
         by_key[<<l, r, c>>] # NONE
  PROVE  by_key[<<l, r, c>>] \in MadeFor(l, r, c)
<1>1. l # NONE /\ r # NONE /\ r \notin Local /\ l \in Local /\ r \in Remote
  BY VxlanAssumption DEF Local, Remote
<1>2. PICK f : f = by_key[<<l, r, c>>]
  OBVIOUS
<1>3. /\ f \in Live /\ tunnel[f] \in Tunnel
      /\ ExactKey(tunnel[f]) = <<l, r, c>> \/ WildKey(tunnel[f]) = <<l, r, c>>
  <2>1. <<l, r, c>> \in Key /\ ~Doubtful(<<l, r, c>>)
    BY <1>1 DEF Key, Doubtful
  <2> QED BY <1>2, <2>1, Entry
<1>4. tunnel[f].local \in Local
  BY <1>3 DEF Tunnel, Local
<1>5. tunnel[f].local = l /\ tunnel[f].remote = r /\ tunnel[f].ctx = c
  BY <1>1, <1>3, <1>4 DEF ExactKey, WildKey
<1> QED BY <1>2, <1>3, <1>5 DEF MadeFor

LEMMA WildEntry ==
  ASSUME IInv, NEW l \in V4Local, NEW c \in Ctx, by_key[<<l, NONE, c>>] # NONE,
         ~Ambiguous(l)
  PROVE  by_key[<<l, NONE, c>>] \in AnySource(l, c)
<1>1. l # NONE /\ l \in Local /\ NONE \notin Remote
  BY VxlanAssumption DEF Local
<1>2. PICK f : f = by_key[<<l, NONE, c>>]
  OBVIOUS
<1>3. /\ f \in Live /\ tunnel[f] \in Tunnel
      /\ \/ ExactKey(tunnel[f]) = <<l, NONE, c>>
         \/ OwnsWildcard(tunnel[f]) /\ WildKey(tunnel[f]) = <<l, NONE, c>>
  <2>1. <<l, NONE, c>> \in Key /\ ~Doubtful(<<l, NONE, c>>)
    BY <1>1, Undoubted DEF Key
  <2> QED BY <1>2, <2>1, Entry
<1>4. tunnel[f].remote # NONE
  BY <1>1, <1>3 DEF Tunnel, Remote
<1>5. OwnsWildcard(tunnel[f]) /\ tunnel[f].local = l /\ tunnel[f].ctx = c
  BY <1>1, <1>3, <1>4 DEF ExactKey, WildKey
<1> QED BY <1>2, <1>3, <1>5 DEF AnySource

LEMMA GroupEntry ==
  ASSUME IInv, NEW g \in Group \cap V4Remote, NEW c \in Ctx,
         by_key[<<NONE, g, c>>] # NONE
  PROVE  LET t == tunnel[by_key[<<NONE, g, c>>]]
         IN  /\ by_key[<<NONE, g, c>>] \in Live
             /\ t.local \in V4Local /\ t.remote = g /\ t.ctx = c
<1>1. g # NONE /\ g \in Remote /\ g \notin Local /\ NONE \notin Local
  BY VxlanAssumption DEF Local, Remote
<1>2. PICK f : f = by_key[<<NONE, g, c>>]
  OBVIOUS
<1>3. /\ f \in Live /\ tunnel[f] \in Tunnel
      /\ ExactKey(tunnel[f]) = <<NONE, g, c>> \/ WildKey(tunnel[f]) = <<NONE, g, c>>
  <2>1. <<NONE, g, c>> \in Key /\ ~Doubtful(<<NONE, g, c>>)
    BY <1>1, Undoubted DEF Key
  <2> QED BY <1>2, <2>1, Entry
<1>4. tunnel[f].local \in Local
  BY <1>3 DEF Tunnel, Local
<1>5. tunnel[f].remote = g /\ tunnel[f].ctx = c
  BY <1>1, <1>3, <1>4 DEF ExactKey, WildKey
<1>6. tunnel[f].local \in V4Local
  BY <1>3, <1>5, VxlanAssumption DEF Tunnel
<1> QED BY <1>2, <1>3, <1>5, <1>6

\* Decap4AsConfigured but for the packets to ambiguous addresses.
Decap4Elsewhere ==
  \A l \in V4Local \cup (Group \cap V4Remote), r \in V4Remote \ Group, c \in Ctx :
    ~Ambiguous(l) => Decap4Follows(l, r, c)

LEMMA Follows4 == IInv => Decap4Elsewhere
<1>1. ASSUME IInv, NEW l \in V4Local, NEW r \in V4Remote \ Group, NEW c \in Ctx,
             ~Ambiguous(l)
      PROVE  \/ Find4(l, r, c) \in MadeFor(l, r, c)
             \/ /\ MadeFor(l, r, c) = {}
                /\ \/ Find4(l, r, c) \in AnySource(l, c)
                   \/ /\ Find4(l, r, c) = NONE
                      /\ AnySource(l, c) = {} \/ <<l, NONE, c>> \in lost
  <2>1. l \notin Group /\ l \notin Remote
    BY VxlanAssumption DEF Local
  <2>2. CASE by_key[<<l, r, c>>] # NONE
    BY <1>1, <2>1, <2>2, ExactEntry DEF Find4
  <2>3. CASE by_key[<<l, r, c>>] = NONE
    <3>1. Find4(l, r, c) = by_key[<<l, NONE, c>>]
      BY <2>1, <2>3 DEF Find4
    <3>2. MadeFor(l, r, c) = {}
      <4> SUFFICES ASSUME NEW s \in MadeFor(l, r, c) PROVE FALSE
        OBVIOUS
      <4>1. /\ s \in Live /\ tunnel[s].remote = r /\ tunnel[s].ctx = c
            /\ tunnel[s].local = l \/ \E u \in Live : tunnel[u].remote = l
        BY DEF MadeFor
      <4>2. \A u \in Live : tunnel[u].remote \in Remote
        BY <1>1 DEF IInv, TypeOK, Live, Tunnel, Remote
      <4>3. tunnel[s].local = l
        BY <2>1, <4>1, <4>2
      <4>4. by_key[<<l, r, c>>] = s
        BY <1>1, <4>1, <4>3, InTable4, ZenonT(40)
      <4> QED BY <2>3, <4>1, <4>4, VxlanAssumption DEF Live
    <3>3. CASE by_key[<<l, NONE, c>>] # NONE
      BY <1>1, <3>1, <3>2, <3>3, WildEntry, SMTT(40)
    <3>4. CASE by_key[<<l, NONE, c>>] = NONE
      <4>1. ASSUME NEW s \in AnySource(l, c) PROVE <<l, NONE, c>> \in lost
        <5>1. s \in Live /\ OwnsWildcard(tunnel[s]) /\ WildKey(tunnel[s]) = <<l, NONE, c>>
          BY <4>1 DEF AnySource, WildKey, IsV4
        <5> QED BY <1>1, <3>4, <5>1 DEF IInv, WildcardKept, OwnsWildcard
      <4> QED BY <3>1, <3>2, <3>4, <4>1
    <3> QED BY <3>3, <3>4
  <2> QED BY <2>2, <2>3
<1>2. ASSUME IInv, NEW g \in Group \cap V4Remote, NEW r \in V4Remote \ Group,
             NEW c \in Ctx
      PROVE  \/ Find4(g, r, c) \in MadeFor(g, r, c)
             \/ /\ MadeFor(g, r, c) = {}
                /\ Find4(g, r, c) = NONE /\ AnySource(g, c) = {}
  <2>1. \A u \in Live : tunnel[u] \in Tunnel /\ tunnel[u].local \in Local
    BY <1>2 DEF IInv, TypeOK, Live, Tunnel, Local
  <2>2. g \notin Local
    BY VxlanAssumption DEF Remote
  <2>3. AnySource(g, c) = {}
    BY <2>1, <2>2 DEF AnySource
  <2>4. ASSUME NEW s \in MadeFor(g, r, c)
        PROVE  Find4(g, r, c) = s
    <3>1. PICK u \in Live : /\ tunnel[u].remote = g /\ tunnel[u].ctx = c
                            /\ tunnel[u].local = tunnel[s].local
      BY <2>1, <2>2, <2>4 DEF MadeFor
    <3>2. s \in Live /\ tunnel[s].remote = r /\ tunnel[s].ctx = c
      BY <2>4 DEF MadeFor
    <3>3. by_key[<<NONE, g, c>>] = u /\ u # NONE
      <4>1. u # NONE
        BY <3>1, VxlanAssumption DEF Live
      <4> QED BY <1>2, <3>1, <4>1, InTable4, Zenon
    <3>4. by_key[<<tunnel[u].local, r, c>>] = s
      BY <1>2, <3>1, <3>2, InTable4, Zenon
    <3> QED BY <3>3, <3>4 DEF Find4, OldFind4
  <2>5. ASSUME Find4(g, r, c) # NONE
        PROVE  Find4(g, r, c) \in MadeFor(g, r, c)
    <3>1. PICK m : m = by_key[<<NONE, g, c>>]
      OBVIOUS
    <3>2. m # NONE /\ Find4(g, r, c) = by_key[<<tunnel[m].local, r, c>>]
      BY <2>5, <3>1 DEF Find4, OldFind4
    <3>3. /\ m \in Live /\ tunnel[m].local \in V4Local
          /\ tunnel[m].remote = g /\ tunnel[m].ctx = c
      BY <1>2, <3>1, <3>2, GroupEntry
    <3>4. Find4(g, r, c) \in MadeFor(tunnel[m].local, r, c)
      BY <1>2, <2>5, <3>2, <3>3, ExactEntry
    <3>5. tunnel[m].local \notin Remote
      BY <3>3, VxlanAssumption DEF Local
    <3>6. \A u \in Live : tunnel[u].remote \in Remote
      BY <2>1 DEF Tunnel, Remote
    <3> QED BY <3>3, <3>4, <3>5, <3>6 DEF MadeFor
  <2> QED BY <2>3, <2>4, <2>5
<1> QED
  BY <1>1, <1>2 DEF Decap4Elsewhere, Decap4Follows

\* For IPv4 the patch keeps its promises: a packet is decapsulated by the
\* tunnel made for its source, otherwise by a decap-any tunnel of its
\* destination and VNI, and otherwise not at all.  This holds on every box for
\* the packets to the addresses that are not ambiguous (Decap4Elsewhere).
THEOREM Decap4Contained == Spec => []Decap4Elsewhere
BY Follows4, Invariance, PTL

\* On a box without ambiguous addresses it holds for all of them
\* (Decap4AsConfigured).
THEOREM Decap4Correct == ASSUME NoCollision PROVE Spec => []Decap4AsConfigured
<1>1. ASSUME NEW l PROVE ~Ambiguous(l)
  BY Unambiguous
<1>2. Decap4Elsewhere => Decap4AsConfigured
  BY <1>1 DEF Decap4Elsewhere, Decap4AsConfigured
<1> QED
  BY <1>2, Decap4Contained, PTL

\* A refused add or delete leaves tunnels, table and bitmap as they were,
\* also when the wildcard is refused after the exact entry went in; for this
\* the addresses need not be free of collisions.
THEOREM RefusalsClean == Spec => RefusalLeavesNoTrace
<1> DEFINE Quiet == rv' => UNCHANGED <<tunnel, by_key, promisc>>
<1>1. Init => TypeOK
  BY VxlanAssumption, Zenon DEF Init, TypeOK
<1>2. TypeOK /\ [Next]_vars => TypeOK'
  BY TypeStep
<1>3. TypeOK /\ [Next]_vars => [Quiet]_vars
  <2> SUFFICES ASSUME TypeOK, Next PROVE Quiet
    OBVIOUS
  <2>1. ASSUME NEW t \in Tunnel, AddExisting(t) \/ DelMissing(t)
        PROVE  Quiet
    BY <2>1 DEF AddExisting, DelMissing, Refuse
  <2>2. ASSUME NEW t \in Tunnel, NEW s \in Slot, AddFails(t, s)
        PROVE  Quiet
    <3>1. by_key' = by_key
      BY <2>2, KeysTyped DEF AddFails, Rollback, TypeOK
    <3> QED
      BY <2>2, <3>1 DEF AddFails, Refuse
  <2>3. ASSUME NEW t \in Tunnel, NEW s \in Slot, AddTunnel(t, s)
        PROVE  Quiet
    BY <2>3 DEF AddTunnel
  <2>4. ASSUME NEW s \in Slot, DelTunnel(s)
        PROVE  Quiet
    BY <2>4 DEF DelTunnel
  <2> QED
    BY <2>1, <2>2, <2>3, <2>4 DEF Next
<1> QED
  BY <1>1, <1>2, <1>3, PTL DEF Spec, RefusalLeavesNoTrace

-----------------------------------------------------------------------------
(* IPv6                                                                    *)

\* What the two entries an IPv6 lookup consults lead to.
LEMMA SourceEntry ==
  ASSUME IInv, NEW r \in V6Remote, NEW c \in Ctx, by_key[<<NONE, r, c>>] # NONE
  PROVE  by_key[<<NONE, r, c>>] \in FromSource(r, c)
<1>1. r # NONE /\ r \in Remote /\ r \notin Local /\ NONE \notin Local
  BY VxlanAssumption DEF Local, Remote
<1>2. PICK f : f = by_key[<<NONE, r, c>>]
  OBVIOUS
<1>3. /\ f \in Live /\ tunnel[f] \in Tunnel
      /\ ExactKey(tunnel[f]) = <<NONE, r, c>> \/ WildKey(tunnel[f]) = <<NONE, r, c>>
  <2>1. <<NONE, r, c>> \in Key /\ ~Doubtful(<<NONE, r, c>>)
    BY <1>1, Undoubted DEF Key
  <2> QED BY <1>2, <2>1, Entry
<1>4. tunnel[f].local \in Local
  BY <1>3 DEF Tunnel, Local
<1>5. tunnel[f].remote = r /\ tunnel[f].ctx = c
  BY <1>1, <1>3, <1>4 DEF ExactKey, WildKey
<1> QED BY <1>2, <1>3, <1>5 DEF FromSource

LEMMA Wild6Entry ==
  ASSUME IInv, NEW l \in V6Local, NEW c \in Ctx, by_key[<<NONE, l, c>>] # NONE,
         ~Ambiguous(l)
  PROVE  by_key[<<NONE, l, c>>] \in AnySource(l, c)
<1>1. l # NONE /\ l \in Local /\ l \notin Remote /\ NONE \notin Local
  BY VxlanAssumption, SMTT(40) DEF Local
<1>2. PICK f : f = by_key[<<NONE, l, c>>]
  OBVIOUS
<1>3. /\ f \in Live /\ tunnel[f] \in Tunnel
      /\ \/ ExactKey(tunnel[f]) = <<NONE, l, c>>
         \/ OwnsWildcard(tunnel[f]) /\ WildKey(tunnel[f]) = <<NONE, l, c>>
  <2>1. <<NONE, l, c>> \in Key /\ ~Doubtful(<<NONE, l, c>>)
    BY <1>1, Undoubted DEF Key
  <2> QED BY <1>2, <2>1, Entry
<1>4. tunnel[f].remote \in Remote /\ tunnel[f].local \in Local
  BY <1>3 DEF Tunnel, Remote, Local
<1>5. OwnsWildcard(tunnel[f]) /\ tunnel[f].local = l /\ tunnel[f].ctx = c
  BY <1>1, <1>3, <1>4 DEF ExactKey, WildKey
<1> QED BY <1>2, <1>3, <1>5 DEF AnySource

\* A live tunnel to an IPv6 remote is in the table under that address.
LEMMA InTable6 ==
  ASSUME IInv, NEW r \in V6Remote, NEW c \in Ctx, NEW s \in FromSource(r, c)
  PROVE  by_key[<<NONE, r, c>>] = s /\ s # NONE
<1>1. s \in Live /\ tunnel[s].remote = r /\ tunnel[s].ctx = c
  BY DEF FromSource
<1>2. tunnel[s] \in Tunnel /\ s # NONE
  BY <1>1, VxlanAssumption DEF IInv, TypeOK, Live
<1>3. tunnel[s].local \notin V4Local
  BY <1>1, <1>2, VxlanAssumption DEF Tunnel
<1>4. by_key[ExactKey(tunnel[s])] = s
  BY <1>1, SMTT(40) DEF IInv, WildcardKept
<1> QED BY <1>1, <1>2, <1>3, <1>4 DEF ExactKey, IsV4

\* Decap6AsConfigured but for the packets to ambiguous addresses.
Decap6Elsewhere ==
  \A l \in V6Local \cup (Group \cap V6Remote), r \in V6Remote \ Group, c \in Ctx :
    ~Ambiguous(l) => Decap6Follows(l, r, c)

\* A source with a tunnel is decided by that tunnel.
LEMMA KnownSource6 ==
  ASSUME IInv, NEW l \in V6Local \cup (Group \cap V6Remote), NEW r \in V6Remote \ Group,
         NEW c \in Ctx, by_key[<<NONE, r, c>>] # NONE
  PROVE  Decap6Follows(l, r, c)
<1>1. PICK f : f = by_key[<<NONE, r, c>>]
  OBVIOUS
<1>2. f \in FromSource(r, c)
  BY <1>1, SourceEntry
<1>3. \A s \in FromSource(r, c) : s = f
  BY <1>1, InTable6
<1>4. f # NONE
  BY <1>1
<1>5. FromSource(l, c) = {} <=> l \notin Group \/ by_key[<<NONE, l, c>>] = NONE
  <2>1. CASE l \in V6Local
    <3>1. l \notin Remote /\ l \notin Group
      BY <2>1, VxlanAssumption DEF Local
    <3>2. \A s \in Live : tunnel[s].remote \in Remote
      BY DEF IInv, TypeOK, Live, Tunnel, Remote
    <3> QED BY <3>1, <3>2 DEF FromSource
  <2>2. CASE l \in Group \cap V6Remote
    <3>1. ASSUME NEW s \in FromSource(l, c) PROVE by_key[<<NONE, l, c>>] # NONE
      BY <2>2, <3>1, InTable6
    <3>2. ASSUME by_key[<<NONE, l, c>>] # NONE PROVE FromSource(l, c) # {}
      BY <2>2, <3>2, SourceEntry
    <3> QED BY <2>2, <3>1, <3>2
  <2> QED BY <2>1, <2>2
<1>6. Find6(l, r, c) = IF tunnel[f].local # l /\ FromSource(l, c) = {} THEN NONE ELSE f
  BY <1>1, <1>4, <1>5 DEF Find6, OldFind6
<1> QED BY <1>2, <1>3, <1>6 DEF Decap6Follows

LEMMA Follows6 == IInv => Decap6Elsewhere
<1> SUFFICES ASSUME IInv, NEW l \in V6Local \cup (Group \cap V6Remote),
                    NEW r \in V6Remote \ Group, NEW c \in Ctx, ~Ambiguous(l),
                    by_key[<<NONE, r, c>>] = NONE
             PROVE  Decap6Follows(l, r, c)
  BY KnownSource6, ZenonT(40) DEF Decap6Elsewhere
<1>1. Find6(l, r, c) = by_key[<<NONE, l, c>>]
  BY DEF Find6
<1>2. FromSource(r, c) = {}
  BY InTable6
<1>3. CASE by_key[<<NONE, l, c>>] # NONE
  <2>1. by_key[<<NONE, l, c>>] \in AnySource(l, c) \cup FromSource(l, c)
    BY <1>3, Wild6Entry, SourceEntry
  <2> QED BY <1>1, <1>2, <2>1 DEF Decap6Follows
<1>4. CASE by_key[<<NONE, l, c>>] = NONE
  <2>1. ASSUME NEW s \in AnySource(l, c) PROVE <<NONE, l, c>> \in lost
    <3>1. s \in Live /\ tunnel[s] \in Tunnel /\ tunnel[s].local = l
      BY DEF AnySource, Live, IInv, TypeOK
    <3>2. l \notin V4Local
      BY <3>1, VxlanAssumption DEF Tunnel, Local, Remote
    <3>3. OwnsWildcard(tunnel[s]) /\ WildKey(tunnel[s]) = <<NONE, l, c>>
      BY <3>2 DEF AnySource, WildKey, IsV4
    <3> QED BY <1>4, <3>1, <3>3 DEF IInv, WildcardKept, OwnsWildcard
  <2>2. FromSource(l, c) = {}
    <3>1. CASE l \in V6Local
      <4>1. \A s \in Live : tunnel[s].remote \in Remote
        BY DEF IInv, TypeOK, Live, Tunnel, Remote
      <4>2. l \notin Remote
        BY <3>1, VxlanAssumption DEF Local
      <4> QED BY <4>1, <4>2 DEF FromSource
    <3>2. CASE l \in V6Remote
      BY <1>4, <3>2, InTable6
    <3> QED BY <3>1, <3>2
  <2> QED BY <1>1, <1>2, <1>4, <2>1, <2>2 DEF Decap6Follows
<1> QED BY <1>3, <1>4

\* For IPv6 the table decides by the tunnel to the source if there is one and,
\* if there is none, by a decap-any tunnel or the group of the destination.
\* This holds on every box for the packets to the addresses that are not
\* ambiguous (Decap6Elsewhere).
THEOREM Decap6Contained == Spec => []Decap6Elsewhere
BY Follows6, Invariance, PTL

\* On a box without ambiguous addresses it holds for all of them
\* (Decap6AsConfigured).
THEOREM Decap6Correct == ASSUME NoCollision PROVE Spec => []Decap6AsConfigured
<1>1. ASSUME NEW l PROVE ~Ambiguous(l)
  BY Unambiguous
<1>2. Decap6Elsewhere => Decap6AsConfigured
  BY <1>1 DEF Decap6Elsewhere, Decap6AsConfigured
<1> QED
  BY <1>2, Decap6Contained, PTL

\* What is left of AnySource6 on a box with several IPv6 VTEP addresses: it
\* holds for every source that is not the remote of a tunnel of another one.
AnySource6Undisputed ==
  \A s \in Live, r \in V6Remote \ Group :
    LET t == tunnel[s]
        f == Find6(t.local, r, t.ctx)
    IN  /\ t.local \in V6Local /\ OwnsWildcard(t) /\ ~Ambiguous(t.local)
        /\ WildKey(t) \notin lost
        /\ \A u \in FromSource(r, t.ctx) : tunnel[u].local = t.local
        => f # NONE /\ tunnel[f].local = t.local

\* A packet to a decap-any tunnel's address and VNI is decapsulated there,
\* whatever its source, if no tunnel of another local address claims the
\* source (AnySource6Undisputed).
THEOREM UndisputedAccepted == Spec => []AnySource6Undisputed
<1>1. Decap6Elsewhere /\ TypeOK => AnySource6Undisputed
  <2> SUFFICES ASSUME Decap6Elsewhere, TypeOK, NEW s \in Live, NEW r \in V6Remote \ Group,
                      tunnel[s].local \in V6Local, OwnsWildcard(tunnel[s]),
                      ~Ambiguous(tunnel[s].local), WildKey(tunnel[s]) \notin lost,
                      \A u \in FromSource(r, tunnel[s].ctx) : tunnel[u].local = tunnel[s].local
               PROVE  /\ Find6(tunnel[s].local, r, tunnel[s].ctx) # NONE
                      /\ tunnel[Find6(tunnel[s].local, r, tunnel[s].ctx)].local = tunnel[s].local
    BY DEF AnySource6Undisputed
  <2>1. PICK l \in V6Local, c \in Ctx : l = tunnel[s].local /\ c = tunnel[s].ctx
    BY DEF TypeOK, Live, Tunnel
  <2>2. PICK f : f = Find6(l, r, c)
    OBVIOUS
  <2>3. WildKey(tunnel[s]) = <<NONE, l, c>>
    BY <2>1, VxlanAssumption DEF WildKey, IsV4
  <2>4. s \in AnySource(l, c)
    BY <2>1 DEF AnySource
  <2>5. \/ f \in FromSource(r, c) /\ tunnel[f].local = l
        \/ f \in AnySource(l, c)
    <3>1. FromSource(l, c) = {}
      <4>1. \A u \in Live : tunnel[u].remote \in Remote
        BY ZenonT(40) DEF TypeOK, Live, Tunnel, Remote
      <4>2. l \notin Remote
        BY VxlanAssumption DEF Local
      <4> QED BY <4>1, <4>2 DEF FromSource
    <3>2. Decap6Follows(l, r, c)
      BY <2>1, ZenonT(40) DEF Decap6Elsewhere
    <3> QED BY <2>1, <2>2, <2>3, <2>4, <3>1, <3>2, ZenonT(40) DEF Decap6Follows
  <2>6. f \in Slot /\ f # NONE /\ tunnel[f].local = l
    BY <2>5, VxlanAssumption, ZenonT(40) DEF FromSource, AnySource, Live
  <2> QED BY <2>1, <2>2, <2>6
<1> QED BY <1>1, Decap6Contained, CollisionContained, PTL

\* On a box with one IPv6 VTEP address that is not ambiguous the patch keeps its
\* promise to accept any source (AnySource6).
THEOREM OneVtepAcceptsAny ==
  ASSUME \A a, b \in V6Local : a = b, NoCollision
  PROVE  Spec => []AnySource6
<1>1. AnySource6Undisputed /\ TypeOK => AnySource6
  <2> SUFFICES ASSUME AnySource6Undisputed, TypeOK, NEW s \in Live, NEW r \in V6Remote \ Group,
                      tunnel[s].local \in V6Local,
                      tunnel[s].decap_any, tunnel[s].remote \notin Group,
                      WildKey(tunnel[s]) \notin lost
               PROVE  LET f == Find6(tunnel[s].local, r, tunnel[s].ctx)
                      IN  f # NONE /\ tunnel[f].local = tunnel[s].local
    BY DEF AnySource6
  <2>1. ASSUME NEW u \in FromSource(r, tunnel[s].ctx)
        PROVE  tunnel[u].local = tunnel[s].local
    <3>1. tunnel[u] \in Tunnel /\ tunnel[u].remote = r
      BY DEF FromSource, Live, TypeOK
    <3>2. tunnel[u].local \in V6Local
      BY <3>1, VxlanAssumption DEF Tunnel
    <3> QED BY <3>2
  <2> QED BY <2>1, Unambiguous, ZenonT(40) DEF AnySource6Undisputed, OwnsWildcard
<1> QED BY <1>1, UndisputedAccepted, CollisionContained, PTL

-----------------------------------------------------------------------------
(* The bypass node of tunterm_acl                                          *)

\* The copy of the lookup finds a tunnel exactly when one was made for the
\* source of the packet, and then it is that one.
LEMMA CopyFinds ==
  ASSUME IInv, NEW l \in V4Local \cup (Group \cap V4Remote),
         NEW r \in V4Remote \ Group, NEW c \in Ctx
  PROVE  /\ OldFind4(l, r, c) # NONE => OldFind4(l, r, c) \in MadeFor(l, r, c)
         /\ MadeFor(l, r, c) # {} => OldFind4(l, r, c) # NONE
         /\ OldFind4(l, r, c) # NONE => Find4(l, r, c) = OldFind4(l, r, c)
<1>1. \A u \in Live : /\ tunnel[u] \in Tunnel /\ tunnel[u].local \in Local
                      /\ tunnel[u].remote \in Remote /\ u # NONE
  BY VxlanAssumption DEF IInv, TypeOK, Live, Tunnel, Local, Remote
<1>2. CASE l \in V4Local
  <2>1. l \notin Group /\ l \notin Remote
    BY <1>2, VxlanAssumption DEF Local
  <2>2. OldFind4(l, r, c) = by_key[<<l, r, c>>]
    BY <2>1 DEF OldFind4
  <2>3. ASSUME NEW s \in MadeFor(l, r, c) PROVE by_key[<<l, r, c>>] = s /\ s # NONE
    <3>1. s \in Live /\ tunnel[s].local = l /\ tunnel[s].remote = r /\ tunnel[s].ctx = c
      BY <1>1, <2>1, SMTT(40) DEF MadeFor
    <3> QED BY <1>1, <3>1, InTable4, ZenonT(40)
  <2> QED BY <1>2, <2>1, <2>2, <2>3, ExactEntry, Zenon DEF Find4
<1>3. CASE l \in Group \cap V4Remote
  <2>1. ~Ambiguous(l) /\ l \notin Local
    BY <1>3, VxlanAssumption, Undoubted DEF Remote
  <2>2. Find4(l, r, c) = OldFind4(l, r, c)
    BY <1>3 DEF Find4
  <2>3. AnySource(l, c) = {}
    BY <1>1, <2>1 DEF AnySource
  <2>4. Decap4Follows(l, r, c)
    BY <1>3, <2>1, Follows4 DEF Decap4Elsewhere
  <2>5. NONE \notin MadeFor(l, r, c)
    BY <1>1 DEF MadeFor
  <2> QED BY <2>2, <2>3, <2>4, <2>5 DEF Decap4Follows
<1> QED BY <1>2, <1>3, ZenonT(40)

\* The ACL sees exactly the sound VXLAN packets with a tunnel made for their
\* source, and each is received on such a tunnel afterwards, also on a box
\* with ambiguous addresses (DivertedAsConfigured).
THEOREM DivertedExactly == Spec => []DivertedAsConfigured
<1>1. IInv => DivertedAsConfigured
  <2> SUFFICES ASSUME IInv, NEW p \in Outer, NEW l \in V4Local \cup (Group \cap V4Remote),
                      NEW r \in V4Remote \ Group, NEW c \in Ctx
               PROVE  /\ Bypass(p, l, r, c) = "tunterm-acl" <=>
                           p.udp /\ p.flags /\ p.sound /\ MadeFor(l, r, c) # {}
                      /\ Bypass(p, l, r, c) = "tunterm-acl" =>
                           Find4(l, r, c) \in MadeFor(l, r, c)
    BY DEF DivertedAsConfigured
  <2>1. ASSUME NEW s \in MadeFor(l, r, c) PROVE Vtep(l)
    <3>1. CASE l \in V4Local
      <4>1. \A u \in Live : tunnel[u].remote \in Remote
        BY DEF IInv, TypeOK, Live, Tunnel, Remote
      <4>2. s \in Live /\ tunnel[s].local = l /\ tunnel[s].remote \notin Group
        BY <3>1, <4>1, VxlanAssumption DEF MadeFor, Local
      <4> QED BY <4>2 DEF Vtep
    <3>2. CASE l \in Group \cap V4Remote
      <4>1. \A u \in Live : tunnel[u].local \in Local
        BY DEF IInv, TypeOK, Live, Tunnel, Local
      <4>2. PICK u \in Live : tunnel[u].remote = l
        BY <3>2, <4>1, VxlanAssumption DEF MadeFor, Remote
      <4> QED BY <3>2, <4>2 DEF Vtep
    <3> QED BY <3>1, <3>2
  <2>2. Bypass(p, l, r, c) = "tunterm-acl" <=>
          p.udp /\ p.flags /\ p.sound /\ OldFind4(l, r, c) # NONE /\ Vtep(l)
    BY DEF Bypass, Outer
  <2> QED BY <2>1, <2>2, CopyFinds, ZenonT(40)
<1> QED BY <1>1, Invariance, PTL

-----------------------------------------------------------------------------
(* The tunnel table implements the tunnel API's promise                    *)

\* A gate is a wildcard entry: the tunnels of that local address and context
\* have it, and it is never an exact entry.
LEMMA Gates ==
  ASSUME NEW l \in Local, NEW c \in Ctx
  PROVE  /\ GateKey(l, c) \in Key
         /\ \A t \in Tunnel : GateKey(l, c) = WildKey(t) <=> <<l, c>> = Service!Gate(t)
         /\ \A t \in Tunnel : GateKey(l, c) # ExactKey(t)
<1>1. /\ NONE \notin Local /\ NONE \notin Remote /\ Local \cap Remote = {}
      /\ V4Local \cap V6Local = {}
  BY VxlanAssumption
<1>2. \A t \in Tunnel : t.local \in Local /\ t.remote \in Remote
  BY DEF Tunnel, Local, Remote
<1>3. GateKey(l, c) \in Key
  BY DEF GateKey, Key
<1>4. \A t \in Tunnel : GateKey(l, c) = WildKey(t) <=> <<l, c>> = Service!Gate(t)
  BY <1>1, <1>2 DEF GateKey, WildKey, IsV4, Service!Gate
<1>5. \A t \in Tunnel : GateKey(l, c) # ExactKey(t)
  BY <1>1, <1>2 DEF GateKey, ExactKey
<1> QED BY <1>3, <1>4, <1>5

\* Sets that agree on all but one element.
LEMMA OneElement ==
  ASSUME NEW P, NEW O, NEW x, \A y : y # x => (y \in P <=> y \in O)
  PROVE  /\ x \in P => P = O \cup {x}
         /\ x \notin P => P = O \ {x}
         /\ (x \in P <=> x \in O) => P = O
<1>1. ASSUME x \in P PROVE P = O \cup {x}
  BY <1>1
<1>2. ASSUME x \notin P PROVE P = O \ {x}
  BY <1>2
<1>3. ASSUME x \in P <=> x \in O PROVE P = O
  <2>1. \A y : y \in P <=> y \in O
    BY <1>3
  <2> QED BY <2>1
<1> QED BY <1>1, <1>2, <1>3

\* The gates after a step that changes no entry but an exact one and the
\* wildcard of t.
LEMMA OpenAfter ==
  ASSUME NEW t \in Tunnel,
         \A k \in Key \ {ExactKey(t), WildKey(t)} : by_key'[k] = by_key[k]
  PROVE  /\ by_key'[WildKey(t)] # NONE => Open' = Open \cup {Service!Gate(t)}
         /\ by_key'[WildKey(t)] = NONE => Open' = Open \ {Service!Gate(t)}
         /\ by_key'[WildKey(t)] = by_key[WildKey(t)] => Open' = Open
<1>1. t.local \in Local /\ t.ctx \in Ctx
  BY DEF Tunnel, Local
<1>2. Service!Gate(t) \in Local \X Ctx
  BY <1>1 DEF Service!Gate
<1>3. ASSUME NEW g \in Local \X Ctx, g # Service!Gate(t)
      PROVE  g \in Open' <=> g \in Open
  <2>1. PICK l \in Local, c \in Ctx : g = <<l, c>>
    OBVIOUS
  <2>2. GateKey(l, c) \in Key \ {ExactKey(t), WildKey(t)}
    BY <1>3, <2>1, Gates
  <2> QED BY <2>1, <2>2 DEF Open
<1>4. /\ Service!Gate(t) \in Open <=> by_key[WildKey(t)] # NONE
      /\ Service!Gate(t) \in Open' <=> by_key'[WildKey(t)] # NONE
  <2>1. Service!Gate(t) = <<t.local, t.ctx>>
    BY DEF Service!Gate
  <2>2. GateKey(t.local, t.ctx) = WildKey(t)
    BY DEF GateKey, WildKey, IsV4
  <2> QED BY <1>1, <2>1, <2>2 DEF Open
<1>5. Open \subseteq Local \X Ctx /\ Open' \subseteq Local \X Ctx
  BY DEF Open
<1>6. \A g : g # Service!Gate(t) => (g \in Open' <=> g \in Open)
  BY <1>3, <1>5, Zenon
<1> QED BY <1>4, <1>6, OneElement

LEMMA InitService == Init => Service!Init
<1> SUFFICES ASSUME Init PROVE Service!Init
  OBVIOUS
<1>1. Conf = {}
  BY DEF Init, Conf, Live
<1>2. Open = {}
  <2>1. ASSUME NEW g \in Local \X Ctx PROVE by_key[GateKey(g[1], g[2])] = NONE
    BY Gates DEF Init
  <2> QED BY <2>1 DEF Open
<1> QED BY <1>1, <1>2 DEF Init, Service!Init

\* Tunnels in different slots have different exact keys.
LEMMA ConfOf ==
  ASSUME IInv
  PROVE  /\ Conf \subseteq Tunnel
         /\ \A s \in Live : tunnel[s] \in Conf
         /\ \A s, u \in Live : u # s => ExactKey(tunnel[u]) # ExactKey(tunnel[s])
<1>1. \A s \in Live : tunnel[s] \in Tunnel /\ by_key[ExactKey(tunnel[s])] = s
  BY ZenonT(40) DEF IInv, TypeOK, WildcardKept, Live
<1> QED BY <1>1 DEF Conf

LEMMA AddService ==
  ASSUME IInv, NEW t \in Tunnel, NEW s \in Slot, AddTunnel(t, s)
  PROVE  Service!Add(t)
<1>1. /\ ExactKey(t) \in Key /\ WildKey(t) \in Key /\ ExactKey(t) # WildKey(t)
      /\ t # NONE /\ s # NONE
  BY KeysTyped, KeysDiffer, VxlanAssumption
<1>2. /\ by_key[ExactKey(t)] = NONE /\ tunnel[s] = NONE
      /\ tunnel' = [tunnel EXCEPT ![s] = t] /\ rv' = FALSE
      /\ by_key' = IF OwnsWildcard(t)
                   THEN [by_key EXCEPT ![ExactKey(t)] = s, ![WildKey(t)] = s]
                   ELSE [by_key EXCEPT ![ExactKey(t)] = s]
  BY DEF AddTunnel
<1>3. /\ \A k \in Key \ {ExactKey(t), WildKey(t)} : by_key'[k] = by_key[k]
      /\ by_key'[WildKey(t)] = IF OwnsWildcard(t) THEN s ELSE by_key[WildKey(t)]
  BY <1>1, <1>2 DEF IInv, TypeOK
<1>4. Conf' = Conf \cup {t}
  <2>1. tunnel'[s] = t /\ \A u \in Slot \ {s} : tunnel'[u] = tunnel[u]
    BY <1>2 DEF IInv, TypeOK
  <2>2. Live' = Live \cup {s} /\ s \notin Live
    BY <1>1, <1>2, <2>1, SMTT(40) DEF Live
  <2> QED BY <2>1, <2>2 DEF Conf, Live
<1>5. Open' = IF t \in Opening THEN Open \cup {Service!Gate(t)} ELSE Open
  BY <1>1, <1>3, OpenAfter DEF Opening
<1>6. \A u \in Conf : Identity[u] # Identity[t]
  <2> SUFFICES ASSUME NEW x \in Live PROVE Identity[tunnel[x]] # Identity[t]
    BY SMTT(40) DEF Conf
  <2>1. tunnel[x] \in Tunnel /\ by_key[ExactKey(tunnel[x])] = x /\ x # NONE
    BY VxlanAssumption DEF IInv, TypeOK, WildcardKept, Live
  <2> QED BY <1>2, <2>1 DEF Identity
<1> QED BY <1>2, <1>4, <1>5, <1>6 DEF Service!Add

LEMMA DelService ==
  ASSUME NoCollision, IInv, NEW s \in Slot, DelTunnel(s)
  PROVE  tunnel[s] \in Tunnel /\ Service!Del(tunnel[s])
<1>0. PICK t : t = tunnel[s]
  OBVIOUS
<1>1. t \in Tunnel /\ t # NONE /\ s \in Live
  BY <1>0 DEF DelTunnel, IInv, TypeOK, Live
<1>2. ExactKey(t) \in Key /\ WildKey(t) \in Key /\ ExactKey(t) # WildKey(t)
  BY <1>1, KeysTyped, KeysDiffer
<1>3. tunnel' = [tunnel EXCEPT ![s] = NONE] /\ rv' = FALSE
  BY DEF DelTunnel
<1>4. Conf' = Conf \ {t}
  <2>1. tunnel'[s] = NONE /\ \A u \in Slot \ {s} : tunnel'[u] = tunnel[u]
    BY <1>3 DEF IInv, TypeOK
  <2>2. Live' = Live \ {s}
    BY <2>1 DEF Live
  <2>3. \A u \in Live \ {s} : tunnel[u] # t
    BY <1>0, <1>1, ConfOf
  <2> QED BY <1>0, <2>1, <2>2, <2>3 DEF Conf, Live
<1>5. Survivors(s) # {} <=> Service!StaysOpen(t)
  <2>1. \A l : ~Ambiguous(l)
    BY Unambiguous
  <2>2. ASSUME NEW u \in Live
        PROVE  /\ tunnel[u] \in Tunnel /\ (u # s <=> tunnel[u] # t)
               /\ SameLocal(t, tunnel[u]) <=> tunnel[u].local = t.local
    BY <1>0, <1>1, <2>1, ConfOf, SurvivorLocal, SMTT(40) DEF SameLocal, IInv, TypeOK, Live
  <2>3. ASSUME NEW u \in Live
        PROVE  u \in Survivors(s) <=>
                 tunnel[u] \in (Conf \cap Opening) \ {t} /\ Service!Gate(tunnel[u]) = Service!Gate(t)
    BY <1>0, <2>2 DEF Survivors, Conf, Opening, Service!Gate
  <2>4. Survivors(s) \subseteq Live
    BY DEF Survivors
  <2> QED BY <2>3, <2>4 DEF Service!StaysOpen, Conf
<1>6. CASE OwnsWildcard(t)
  <2>1. PICK o \in NextOwners(s) : by_key' = [by_key EXCEPT ![ExactKey(t)] = NONE, ![WildKey(t)] = o]
    BY <1>0, <1>6 DEF DelTunnel
  <2>2. /\ \A k \in Key \ {ExactKey(t), WildKey(t)} : by_key'[k] = by_key[k]
        /\ by_key'[WildKey(t)] = o
    BY <1>2, <2>1, SMTT(40) DEF IInv, TypeOK
  <2>3. \/ o # NONE /\ Survivors(s) # {}
        \/ o = NONE /\ (Survivors(s) # {} => HashMayFail)
    BY VxlanAssumption DEF NextOwners, Survivors, Live
  <2>4. t \in Opening
    BY <1>1, <1>6, SMTT(40) DEF Opening
  <2>5. \/ Service!StaysOpen(t) /\ Open' = Open \cup {Service!Gate(t)}
        \/ (Service!StaysOpen(t) => HashMayFail) /\ Open' = Open \ {Service!Gate(t)}
    BY <1>1, <1>5, <2>2, <2>3, OpenAfter
  <2> QED BY <1>0, <1>1, <1>3, <1>4, <2>4, <2>5, ConfOf DEF Service!Del
<1>7. CASE ~OwnsWildcard(t)
  <2>1. by_key' = [by_key EXCEPT ![ExactKey(t)] = NONE]
    BY <1>0, <1>7 DEF DelTunnel
  <2>2. /\ \A k \in Key \ {ExactKey(t), WildKey(t)} : by_key'[k] = by_key[k]
        /\ by_key'[WildKey(t)] = by_key[WildKey(t)]
    BY <1>2, <2>1 DEF IInv, TypeOK
  <2>3. Open' = Open /\ t \notin Opening
    BY <1>1, <1>7, <2>2, OpenAfter DEF Opening
  <2> QED BY <1>0, <1>1, <1>3, <1>4, <2>3, ConfOf DEF Service!Del
<1> QED BY <1>6, <1>7

\* Slots, hash entries and the owner of a wildcard are details: what the
\* table does is what the tunnel API promises (ImplementsService).
THEOREM TableImplementsService == ASSUME NoCollision PROVE Spec => ImplementsService
<1>1. IInv /\ [Next]_vars => [Service!Next]_(Service!vars)
  <2> SUFFICES ASSUME IInv, [Next]_vars PROVE [Service!Next]_(Service!vars)
    OBVIOUS
  <2>1. ASSUME UNCHANGED <<tunnel, by_key>> PROVE Conf' = Conf /\ Open' = Open
    BY <2>1 DEF Conf, Open, Live
  <2>2. CASE UNCHANGED vars
    BY <2>1, <2>2 DEF vars, Service!vars
  <2>3. ASSUME UNCHANGED <<tunnel, by_key>>, rv' = TRUE PROVE Service!Next
    BY <2>1, <2>3 DEF Service!Next, Service!Refuse
  <2>4. ASSUME NEW t \in Tunnel, AddExisting(t) \/ DelMissing(t)
        PROVE  Service!Next
    BY <2>3, <2>4, Zenon DEF AddExisting, DelMissing, Refuse
  <2>5. ASSUME NEW t \in Tunnel, NEW s \in Slot, AddFails(t, s)
        PROVE  Service!Next
    <3>1. by_key' = by_key
      BY <2>5, KeysTyped DEF AddFails, Rollback, IInv, TypeOK
    <3> QED BY <2>3, <2>5, <3>1 DEF AddFails, Refuse
  <2>6. ASSUME NEW t \in Tunnel, NEW s \in Slot, AddTunnel(t, s)
        PROVE  Service!Next
    BY <2>6, AddService DEF Service!Next
  <2>7. ASSUME NEW s \in Slot, DelTunnel(s)
        PROVE  Service!Next
    BY <2>7, DelService DEF Service!Next
  <2> QED BY <2>2, <2>4, <2>5, <2>6, <2>7 DEF Next
<1> QED BY <1>1, InitService, Invariance, PTL DEF Spec, ImplementsService, Service!Spec
=============================================================================
