--------------------------- MODULE VxlanDecapAny ---------------------------
(***************************************************************************)
(* The VXLAN tunnel table with source-independent ("decap-any") decap:     *)
(* vppbld/patches/0017-sonic-vxlan-vnet-source-independent-decap.patch.    *)
(*                                                                         *)
(* Every tunnel has an exact entry in a hash table.  A decap-any tunnel    *)
(* with a unicast remote also has a wildcard entry, shared by the          *)
(* decap-any tunnels of the same local address, VNI, FIB and port.  The    *)
(* IPv6 keys hold one address only, so a wildcard (the local address) and  *)
(* an exact entry (the remote address) live in the same key space.         *)
(*                                                                         *)
(* Tunnel add and delete are API handlers: they run on the main thread     *)
(* with the workers stopped, so each one is a single step.  The hash table *)
(* may refuse an insertion (HashMayFail); a removal does not fail.         *)
(*                                                                         *)
(* A name with a suffix after an underscore is a deliberately wrong form   *)
(* of the definition it prefixes; no specification uses it.                *)
(***************************************************************************)
CONSTANTS
  Slot,         \* tunnel pool slots; the sw_if_index of a tunnel is its slot
  V4Local, V6Local,     \* local VTEP addresses
  V4Remote, V6Remote,   \* remote addresses, unicast or multicast
  Group,        \* the multicast ones among the remote addresses
  Low32,        \* the last 32 bits of an IPv6 local address, as an IPv4 one
  Compat,       \* the IPv6 local addresses whose other bits are 0
  Ctx,          \* a VNI with its encap FIB index and UDP port
  HashMayFail,  \* whether the hash table may refuse an insertion
  NONE

Local == V4Local \cup V6Local
Remote == V4Remote \cup V6Remote

Tunnel ==
  [local : V4Local, remote : V4Remote, ctx : Ctx, decap_any : BOOLEAN]
    \cup [local : V6Local, remote : V6Remote, ctx : Ctx, decap_any : BOOLEAN]

\* The addresses of a box and of its peers are disjoint: a tunnel never has
\* a VTEP address of this box as its remote.
ASSUME VxlanAssumption ==
  /\ V4Local \cap V6Local = {}
  /\ V4Remote \cap V6Remote = {}
  /\ Local \cap Remote = {}
  /\ Group \subseteq Remote
  /\ NONE \notin Local \cup Remote \cup Slot \cup Tunnel
  /\ Low32 \in [V6Local -> V4Local \cup {NONE}]
  /\ Compat \subseteq V6Local
  /\ HashMayFail \in BOOLEAN

VARIABLES
  tunnel,    \* vxm->tunnels: the live tunnels, NONE in a free slot
  by_key,    \* vxlan4_tunnel_by_key and vxlan6_tunnel_by_key
  promisc,   \* l2_bvi_l3_promiscuous_bitmap
  lost,      \* wildcard keys dropped because a re-point failed (history)
  rv         \* whether the last add or delete was refused

vars == <<tunnel, by_key, promisc, lost, rv>>

Key == (Local \cup {NONE}) \X (Local \cup Remote \cup {NONE}) \X Ctx

Live == {s \in Slot : tunnel[s] # NONE}

TypeOK ==
  /\ tunnel \in [Slot -> Tunnel \cup {NONE}]
  /\ by_key \in [Key -> Slot \cup {NONE}]
  /\ promisc \subseteq Slot
  /\ lost \subseteq Key
  /\ rv \in BOOLEAN

-----------------------------------------------------------------------------
(* Keys.                                                                   *)

IsV4(t) == t.local \in V4Local

\* An IPv4 key holds both addresses, and only the group of a multicast
\* tunnel; an IPv6 key holds the remote address or the group.
ExactKey(t) ==
  IF IsV4(t) /\ t.remote \notin Group
  THEN <<t.local, t.remote, t.ctx>>
  ELSE <<NONE, t.remote, t.ctx>>

WildKey(t) ==
  IF IsV4(t) THEN <<t.local, NONE, t.ctx>> ELSE <<NONE, t.local, t.ctx>>

\* Only a decap-any tunnel with a unicast remote registers a wildcard.
OwnsWildcard(t) == t.decap_any /\ t.remote \notin Group

-----------------------------------------------------------------------------
(* Lookups of the data path.                                               *)

\* vxlan4_find_tunnel before the patch, which is also what the copy in
\* tunterm_acl_decap.c does: exact, then multicast.
OldFind4(l, r, c) ==
  IF l \notin Group
  THEN by_key[<<l, r, c>>]
  ELSE LET m == by_key[<<NONE, l, c>>]
       IN  IF m = NONE THEN NONE ELSE by_key[<<tunnel[m].local, r, c>>]

OldFind6_NoDipCheck(l, r, c) == by_key[<<NONE, r, c>>]

\* The source finds the tunnel; the destination must then be its local
\* address, or a group some tunnel joined.
OldFind6(l, r, c) ==
  LET t0 == by_key[<<NONE, r, c>>]
  IN  IF \/ t0 = NONE
         \/ /\ tunnel[t0].local # l
            /\ l \notin Group \/ by_key[<<NONE, l, c>>] = NONE
      THEN NONE ELSE t0

Find4_WildFirst(l, r, c) ==
  IF l \in Group
  THEN OldFind4(l, r, c)
  ELSE IF by_key[<<l, NONE, c>>] # NONE
       THEN by_key[<<l, NONE, c>>]
       ELSE by_key[<<l, r, c>>]

\* The patched lookups.  The IPv4 wildcard is the key with source 0.
Find4(l, r, c) ==
  IF l \in Group
  THEN OldFind4(l, r, c)
  ELSE IF by_key[<<l, r, c>>] # NONE
       THEN by_key[<<l, r, c>>]
       ELSE by_key[<<l, NONE, c>>]

\* The IPv6 wildcard is looked up only when no tunnel has this remote.
Find6(l, r, c) ==
  IF by_key[<<NONE, r, c>>] = NONE
  THEN by_key[<<NONE, l, c>>]
  ELSE OldFind6(l, r, c)

\* What the bypass node reads of an outer header beside the addresses and the
\* VNI: UDP and not a fragment, the VXLAN flags are just I, and the UDP
\* length and checksum hold.
Outer == [udp : BOOLEAN, flags : BOOLEAN, sound : BOOLEAN]

\* vtep_table: the local address of a unicast tunnel, the group of another.
Vtep(l) ==
  \E s \in Live :
    l = IF tunnel[s].remote \in Group THEN tunnel[s].remote ELSE tunnel[s].local

Bypass_NoLookup(p, l, r, c) ==
  IF ~p.udp \/ ~p.flags \/ ~Vtep(l)
  THEN "next-feature"
  ELSE IF p.sound THEN "tunterm-acl" ELSE "error-drop"

\* tunterm_acl_ip_vxlan_bypass_inline: the next node of a packet.  What is
\* not for a known tunnel of this box stays on the ip4-unicast arc.
Bypass(p, l, r, c) ==
  IF ~p.udp \/ ~p.flags \/ OldFind4(l, r, c) = NONE \/ ~Vtep(l)
  THEN "next-feature"
  ELSE IF p.sound THEN "tunterm-acl" ELSE "error-drop"

\* l2_to_bvi: whether a frame from tunnel s with a foreign destination MAC
\* is routed.
RoutedAnyMac(s) == s \in promisc

-----------------------------------------------------------------------------
(* Tunnel add and delete.                                                  *)

Init ==
  /\ tunnel = [s \in Slot |-> NONE]
  /\ by_key = [k \in Key |-> NONE]
  /\ promisc = {}
  /\ lost = {}
  /\ rv = FALSE

Refuse ==
  /\ rv' = TRUE
  /\ UNCHANGED <<tunnel, promisc, lost>>

\* VNET_API_ERROR_TUNNEL_EXIST.
AddExisting(t) ==
  /\ by_key[ExactKey(t)] # NONE
  /\ Refuse
  /\ UNCHANGED by_key

Rollback_Skipped(table, t) == table

Rollback(table, t) == [table EXCEPT ![ExactKey(t)] = NONE]

\* An insertion fails: the exact one, or the wildcard one after the exact
\* one was made.
AddFails(t, s) ==
  /\ HashMayFail
  /\ by_key[ExactKey(t)] = NONE
  /\ tunnel[s] = NONE
  /\ Refuse
  /\ \/ UNCHANGED by_key
     \/ /\ OwnsWildcard(t)
        /\ by_key' = Rollback([by_key EXCEPT ![ExactKey(t)] = s], t)

\* The new tunnel takes over an existing wildcard of its key.
AddTunnel(t, s) ==
  /\ by_key[ExactKey(t)] = NONE
  /\ tunnel[s] = NONE
  /\ tunnel' = [tunnel EXCEPT ![s] = t]
  /\ IF OwnsWildcard(t)
     THEN /\ by_key' = [by_key EXCEPT ![ExactKey(t)] = s, ![WildKey(t)] = s]
          /\ lost' = lost \ {WildKey(t)}
     ELSE /\ by_key' = [by_key EXCEPT ![ExactKey(t)] = s]
          /\ UNCHANGED lost
  /\ promisc' = IF t.decap_any THEN promisc \cup {s} ELSE promisc
  /\ rv' = FALSE

\* Neither search looks at the family of the candidate.  The IPv4 one compares
\* the last 32 bits of the local addresses, the IPv6 one all 128 of them, of
\* which an IPv4 address has the last 32.
SameLocal(t, u) ==
  \/ u.local = t.local
  \/ IsV4(t) /\ ~IsV4(u) /\ Low32[u.local] = t.local
  \/ ~IsV4(t) /\ IsV4(u) /\ t.local \in Compat /\ Low32[t.local] = u.local

Survivors_Self(s) ==
  {u \in Live :
     /\ OwnsWildcard(tunnel[u])
     /\ SameLocal(tunnel[s], tunnel[u])
     /\ tunnel[u].ctx = tunnel[s].ctx}

Survivors_AnyTunnel(s) ==
  {u \in Live \ {s} :
     /\ SameLocal(tunnel[s], tunnel[u])
     /\ tunnel[u].ctx = tunnel[s].ctx}

Survivors_None(s) == {}

\* The tunnels that may take over the wildcard of the tunnel in slot s.
Survivors(s) ==
  {u \in Live \ {s} :
     /\ OwnsWildcard(tunnel[u])
     /\ SameLocal(tunnel[s], tunnel[u])
     /\ tunnel[u].ctx = tunnel[s].ctx}

\* The slot the wildcard of s points at after s is deleted, or NONE.
NextOwners(s) ==
  IF Survivors(s) = {}
  THEN {NONE}
  ELSE Survivors(s) \cup (IF HashMayFail THEN {NONE} ELSE {})

ClearPromisc_OnlyOwner(s) ==
  IF OwnsWildcard(tunnel[s]) THEN promisc \ {s} ELSE promisc

ClearPromisc(s) == IF tunnel[s].decap_any THEN promisc \ {s} ELSE promisc

DelTunnel(s) ==
  LET t == tunnel[s] IN
  /\ t # NONE
  /\ tunnel' = [tunnel EXCEPT ![s] = NONE]
  /\ promisc' = ClearPromisc(s)
  /\ IF OwnsWildcard(t)
     THEN \E w \in NextOwners(s) :
            /\ by_key' = [by_key EXCEPT ![ExactKey(t)] = NONE,
                                        ![WildKey(t)] = w]
            /\ lost' = IF w = NONE /\ Survivors(s) # {}
                       THEN lost \cup {WildKey(t)}
                       ELSE lost \ {WildKey(t)}
     ELSE /\ by_key' = [by_key EXCEPT ![ExactKey(t)] = NONE]
          /\ UNCHANGED lost
  /\ rv' = FALSE

\* VNET_API_ERROR_NO_SUCH_ENTRY.
DelMissing(t) ==
  /\ by_key[ExactKey(t)] = NONE
  /\ Refuse
  /\ UNCHANGED by_key

Next ==
  \/ \E t \in Tunnel : AddExisting(t)
  \/ \E t \in Tunnel, s \in Slot : AddFails(t, s)
  \/ \E t \in Tunnel, s \in Slot : AddTunnel(t, s)
  \/ \E s \in Slot : DelTunnel(s)
  \/ \E t \in Tunnel : DelMissing(t)

Spec == Init /\ [][Next]_vars

-----------------------------------------------------------------------------
(* Properties.                                                             *)

\* A hash entry always leads to a live tunnel it was made for: a freed slot
\* is in no entry, whichever of the tunnels that shared its wildcard is
\* deleted first.
EntriesLive ==
  \A k \in Key : by_key[k] # NONE =>
    LET t == tunnel[by_key[k]]
    IN  /\ t # NONE
        /\ \/ ExactKey(t) = k
           \/ t.decap_any /\ t.remote \notin Group /\ WildKey(t) = k

\* A wildcard stays as long as one decap-any tunnel of its key does, unless
\* the hash table refused to re-point it and no tunnel was added since.
WildcardKept ==
  \A s \in Live :
    /\ by_key[ExactKey(tunnel[s])] = s
    /\ \/ ~tunnel[s].decap_any
       \/ tunnel[s].remote \in Group
       \/ by_key[WildKey(tunnel[s])] # NONE
       \/ WildKey(tunnel[s]) \in lost

\* Only frames of a decap-any tunnel are routed whatever their MAC: a slot
\* that is freed and given to an ordinary tunnel is strict again.
PromiscExact ==
  \A s \in Slot :
    RoutedAnyMac(s) <=> (tunnel[s] # NONE /\ tunnel[s].decap_any)

\* A refused add or delete leaves no trace, also when the exact entry was
\* already in the table when the wildcard was refused.
RefusalLeavesNoTrace ==
  [][rv' => UNCHANGED <<tunnel, by_key, promisc>>]_vars

\* The tunnels made for the source of a packet.  One to a group is for the
\* tunnel from that source at a VTEP that has joined the group.
MadeFor(l, r, c) ==
  {s \in Live :
     /\ tunnel[s].remote = r /\ tunnel[s].ctx = c
     /\ \/ tunnel[s].local = l
        \/ \E u \in Live : /\ tunnel[u].remote = l /\ tunnel[u].ctx = c
                           /\ tunnel[u].local = tunnel[s].local}

AnySource(l, c) ==
  {s \in Live : OwnsWildcard(tunnel[s]) /\ tunnel[s].local = l /\ tunnel[s].ctx = c}

\* The tunnel made for the source gets the packet, otherwise any source is
\* accepted by a decap-any tunnel of the destination, and otherwise, or if the
\* hash table refused to re-point the wildcard, it is not decapsulated.
Decap4Follows(l, r, c) ==
  LET f == Find4(l, r, c)
  IN  \/ f \in MadeFor(l, r, c)
      \/ /\ MadeFor(l, r, c) = {}
         /\ \/ f \in AnySource(l, c)
            \/ f = NONE /\ (AnySource(l, c) = {} \/ <<l, NONE, c>> \in lost)

\* The IPv4 lookup decides by what is configured and not by how the table got
\* there, so the patch "never changes existing decap" of other destinations.
Decap4AsConfigured ==
  \A l \in V4Local \cup (Group \cap V4Remote), r \in V4Remote \ Group, c \in Ctx :
    Decap4Follows(l, r, c)

\* Whatever the source, a packet to the local address and VNI of a
\* decap-any tunnel is decapsulated, by a tunnel of that local address.
AnySource6 ==
  \A s \in Live, r \in V6Remote \ Group :
    LET t == tunnel[s]
        f == Find6(t.local, r, t.ctx)
    IN  /\ t.local \in V6Local
        /\ t.decap_any /\ t.remote \notin Group
        /\ WildKey(t) \notin lost
        => f # NONE /\ tunnel[f].local = t.local

\* The tunnel whose remote is the source of an IPv6 packet, whatever its local
\* address: the IPv6 key leaves room for one.
FromSource(r, c) == {s \in Live : tunnel[s].remote = r /\ tunnel[s].ctx = c}

\* A tunnel to the source decides alone: it takes the packets to its local
\* address and to a group that has a tunnel, and those to another VTEP address
\* of this box are not decapsulated.  A source without a tunnel is accepted by a
\* decap-any tunnel of the destination, unless the hash table refused to
\* re-point the wildcard.  As wildcards and groups share a key space, the tunnel
\* of a group accepts such a source too, decap-any or not.
Decap6Follows(l, r, c) ==
  LET f == Find6(l, r, c)
      takers == AnySource(l, c) \cup FromSource(l, c)
  IN  \/ /\ f \in FromSource(r, c)
         /\ tunnel[f].local = l \/ FromSource(l, c) # {}
      \/ /\ f = NONE /\ FromSource(r, c) # {} /\ FromSource(l, c) = {}
         /\ \A s \in FromSource(r, c) : tunnel[s].local # l
      \/ /\ FromSource(r, c) = {}
         /\ \/ f \in takers
            \/ f = NONE /\ (takers = {} \/ <<NONE, l, c>> \in lost)

\* The IPv6 lookup, too, decides by what is configured and not by how the table
\* got there, although exact entries, groups and wildcards share one key space.
Decap6AsConfigured ==
  \A l \in V6Local \cup (Group \cap V6Remote), r \in V6Remote \ Group, c \in Ctx :
    Decap6Follows(l, r, c)

\* The bypass node takes off the ip4-unicast arc exactly the sound VXLAN
\* packets that have a tunnel made for their source, and vxlan4-input, where
\* they end after the ACL, decapsulates them on such a tunnel: no packet
\* passes the ACL for one tunnel and is received on another.
DivertedAsConfigured ==
  \A p \in Outer, l \in V4Local \cup (Group \cap V4Remote), r \in V4Remote \ Group, c \in Ctx :
    LET diverted == Bypass(p, l, r, c) = "tunterm-acl"
    IN  /\ diverted <=> p.udp /\ p.flags /\ p.sound /\ MadeFor(l, r, c) # {}
        /\ diverted => Find4(l, r, c) \in MadeFor(l, r, c)

\* tunterm-ip4-vxlan-bypass recognises every packet the patched VXLAN input
\* decapsulates, as a copy of the bypass node would.
TuntermSeesDecap ==
  \A p \in Outer, l \in V4Local, r \in V4Remote \ Group, c \in Ctx :
    /\ p.udp /\ p.flags /\ p.sound
    /\ Find4(l, r, c) # NONE
    => Bypass(p, l, r, c) = "tunterm-acl"

\* The addresses and contexts a wildcard entry opens to any source.
GateKey(l, c) == IF l \in V4Local THEN <<l, NONE, c>> ELSE <<NONE, l, c>>

Open == {g \in Local \X Ctx : by_key[GateKey(g[1], g[2])] # NONE}

Conf == {tunnel[s] : s \in Live}

Identity == [t \in Tunnel |-> ExactKey(t)]

Opening == {t \in Tunnel : OwnsWildcard(t)}

Service == INSTANCE VxlanService WITH
  MayRefuse <- HashMayFail, conf <- Conf, open <- Open, refused <- rv

\* The tunnel table implements the tunnel API's promise: slots, hash entries
\* and the wildcard's owner are not visible in it.  An address is open to any
\* source from the first decap-any tunnel to the last, in whatever order they
\* come and go.
ImplementsService == Service!Spec
=============================================================================
