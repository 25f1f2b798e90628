# TLA+ models of sonic-platform-vpp

Models, model-checking configurations and machine-checked proofs for the parts
of this repository that carry state: the VPP plugins it adds
(`vppbld/plugins`), the VPP patches that carry state of their own (decap-any VXLAN
and sFlow, `vppbld/patches`), and the daemon
that writes VPP's configuration (`platform/mkrules/src/sonic-vppcfgd`).
`PROJECT.json` lists every component, run, mapped definition, hazard, finding
and theorem; this file explains them.

Paths below are relative to `src/`.

## 1. The system

SONiC runs with VPP as its forwarding plane. syncd programs VPP over its binary
API; Linux sees each front-panel port as a tap that the linux-cp (LCP) plugin
pairs with a VPP interface. The repository adds what VPP lacks for this.

| Part | State it owns | Operations that change it | Talks to |
|---|---|---|---|
| `tunterm_acl` control plane (`tunterm_acl_api.c`, `_redirect.c`) | classifier tables and sessions, the redirect pool and its hash, per-interface slots, the family flag of each index, the bypass feature | `add_replace`, `del`, `interface_add_del`, FIB back-walk | VPP's classifier (shared table pool), FIB, interfaces |
| `tunterm_acl` data plane (`_decap.c`, `_node.c`) | none | divert a VXLAN packet to the ACL, look up its inner destination | VPP's VXLAN tunnel table |
| `sonic_ext` control plane (`sonic_ext.c`, `cli.c`, `sonic_ext_api.c`) | five flags; which node is enabled on which interface | two toggles, LCP pair add/delete callbacks, ip2me enable | LCP, interfaces, bridge domains |
| `sonic_ext` packet path (capture, host-xc, aggregate-tap redirect, glean redirect, L2-trap fix-up) | a cookie in each buffer | one step per graph node | the control plane, linux-cp, interface-output |
| `sonic_ext` ip2me (`ip2me_node.c`) | none | skip the ACL for packets to the switch | FIB, ACL plugin |
| `ip_validate` | the feature on each interface | API toggle with rollback, interface callback | feature arcs |
| VXLAN decap-any (patch 0017) | exact and wildcard hash entries, tunnel pool, promiscuous bitmap | tunnel add, tunnel delete | `l2_to_bvi`, the tunterm bypass node |
| `vppcfgd` | the merged template, three files on disk | select, pop, merge, commit | CONFIG_DB and STATE_DB, VPP's start |
| sFlow (patches 0012-0014) | rate and direction of each port, a countdown per thread and port, the arcs sflow is on | six API calls, a frame of packets | feature arcs, the global rate and direction |
| IPIP patch 0009, flow hash 0011/0015, bond statistics 0008, class E 0010 | see section 6 | | VPP |
| boot scripts | interface names, environment | start-up | all of the above |

### What is hard to get right

* Table indices, interface indices, tunnel slots and buffers are **recycled**;
  whatever is indexed by one must be right for the new owner (`table_af`, the
  slots, the promiscuous bitmap, the buffer cookie, feature counts).
* Several handlers do **several things that can fail one by one**: a replace
  clears a table and adds rules one at a time; a tunnel add inserts two hash
  entries; `ip_validate` enables two arcs; `commit` writes three files.
* **Other actors move between the steps**: back-walks between API calls,
  control-plane callbacks between two graph nodes of one packet, database
  writes between subscription, select and pop, a crash between two files.
* Some answers are **asked twice at different times** (is this interface an
  aggregate? at pair add and at pair delete) or **kept in two places** (the
  tunnel lookup of VPP and the plugin's copy of it).
* A value is **drawn for one setting and used under another**: an sFlow countdown
  outlives the rate it was drawn for.
* Two kinds of entry can **share a key space** (IPv6 exact, wildcard and
  multicast keys; IPv4 and IPv6 survivors).

### What it should do

An attached ACL redirects exactly the inner destinations of its rules, with
current forwarding. Features are on exactly where the design wants them. Linux
sees a punted frame on the tap of the port it came in on, as it was on the wire.
A decap-any VTEP accepts every source and nothing else changes. Martian packets
stop at the validators, others do not; packets for the switch are not lost to an
ACL. A sample reports the rate at which it was taken. VPP's files
on disk are those of one configuration, and it contains every row of the databases.

## 2. Modelling conventions

* VPP runs API handlers, CLI commands and callbacks on the main thread with the
  workers held at a barrier, so each is **one action**. A packet, by contrast,
  crosses several nodes, and in `SonicExtPath` the control plane may run between
  any two of them.
* VPP's own code is not in this repository. Definitions that stand for it
  (interface creation, the classifier's pool, FIB changes, feature arcs) are
  written from how `src/` uses them and are marked `external` in the map.
  `vnet_feature_enable_disable` counts: two enables need two disables, a disable
  of what is off does nothing. Whether a deleted interface keeps its counts is left
  open where a property depends on it (`IfDel` of `IpIngress`).
* A patch is modelled as the code it leaves behind; the code around it that the
  patch does not show is external.
* A name with a suffix after an underscore (`Find4_WildFirst`) is a deliberately
  wrong form of the definition it prefixes. No specification uses it; each
  property has one that breaks it, so that no property holds vacuously.
* Bounds are named constants: `MaxRules`, `MaxTags`, `MaxEvents`, `MaxEnable`,
  `MaxFrame`, `U32`, and the sizes of the constant sets.

## 3. The modules

### `TuntermAcl`

State follows the plugin's: `classify` is the classifier's table pool (an index
is free, ours with a family, or another client's), `table_af` the vector
`classify_table_index_is_v6`, `slot` the two vectors by `sw_if_index`,
`redirect` the plugin's pool and hash, `session` the classifier's sessions,
`walk` the entries an asynchronous back-walk has still to visit, `rv` the
`retval` of the reply. `AddAcl`, `ReplaceAcl`, `Malformed`, `DelAcl`, `Attach`,
`Detach` are the three handlers with their early returns; `AddRules` is the loop
that installs rules until one cannot be decoded and returns with the prefix
installed; `ClearFails` is a clear stopped by a missing session. `ForeignAlloc`
and `ForeignFree` are other users of the shared table pool, `PathChange` and
`BackWalk` the FIB. `NodeVerdict` is what the `tunterm-acl` node decides.

`Careful` says whether the client keeps the API's contract (it names only
indices it was given and has not deleted). Some guarantees need it and some do
not; the two runs and the theorems say which. `misused` is history: the indices a
client named out of turn. `Sound(t)` collects what must hold of one index (its
entries belong to a table of the plugin of their family, sessions mirror them, only
slots of its family name it), and `MisuseContained` says that it holds of every
index that was not misused, whatever happens to the others. It does not extend to
attachments: detaching a misused index goes by a family flag that may be wrong, and
can empty the slot of another ACL.

`Attach` and `Detach` do not fail at the feature arc: arc and node are literals, the
node is the plugin's own, and `vnet_feature_enable_disable` refuses only what it does
not know.

### `AclService` and `TuntermAclService`

`AclService` is the abstract specification: what the plugin promises a client,
without classifier, table pool, family flags, features or FIB graph. There are
ACLs of one family each, bound to interfaces; a request is done in one step or
refused without a trace; the forwarding in use for a rule is that of its path at
some moment since it was written. `TuntermAclService` gives the refinement
mapping: a pool index is an ACL when it holds a table of the plugin, the content
is the redirect pool, the forwarding in use the classifier's sessions, the
bindings the slots, the reply the `retval`. A request that failed half way would
map to the reply `"broken"`, which the service never gives.

### `SonicExtWiring` and `SonicExtPath`

`SonicExtWiring` holds the sets of interfaces that have each node enabled, with
the toggles (`SetPuntViaMember`, `SetHostXc`: enable once, walk the existing
pairs) and the pair callbacks. A tap is named by the interface it mirrors.
Pair add and pair delete each ask anew whether an interface is an aggregate, so
what one enabled the other may not disable if a loopback became or ceased to be a
BVI in between. The model lets that happen and records such interfaces in `turned`
(history); the properties say that it harms no other interface.

`SonicExtPath` extends it with one packet. `DeviceInputArc` takes a frame with up to
`MaxTags` tags from a port, or one from a tap, and runs capture and host-xc in their
order; `ToVpp` lets VPP's own nodes do what a SONiC port allows (pop a tag,
bridge, route, drop for want of a neighbour, trap); `LinuxCpPunt`, `TrapFixup`,
`GleanRedirect`, `AggrOutput` and `PlainOutput` follow. Between any two of them the
control plane may run; the device a packet comes from and the one it leaves by
belong to the step next to them. When the buffer is freed its cookie is gone if
`OpaqueReset`, and may stay if not: the plugin relies on VPP for this, and the run
takes the harder case. `src`, `wire`, `stamped` (capture saw this packet) and
`moved` are history, there to state properties.

### `VxlanDecapAny`

Tunnels sit in slots; `by_key` is the hash table. `AddTunnel`, `AddFails` (with
`Rollback`), `AddExisting`, `DelTunnel` (with the survivor search `Survivors`,
`NextOwners`) and `DelMissing` are the handler's ways through. `Find4`/`Find6`
are the patched lookups, `OldFind4`/`OldFind6` the unpatched ones, which are also
what `tunterm_acl_decap.c` carries as a copy; `Bypass` is that plugin's bypass
node. `Low32` says which IPv4 address the last 32 bits of an IPv6 one spell,
because the union `ip46_address_t` lets the code read them so; `Compat` are the IPv6
addresses that have only zeros in front of them, which the IPv6 search for a survivor
takes for the IPv4 address. Lookups are of packets to VTEP addresses and to groups.

### `VxlanService`

What the tunnel API promises a client: a set of configured tunnels, and the gates
(local address and VNI) that are open to any source. A gate opens with the first
decap-any tunnel at it and closes with the last; in between it closes only if
memory runs out, and the next delete at the gate may open it again. There are no
slots, no hash entries and no wildcard that belongs to one tunnel. The refinement
mapping is at the end of `VxlanDecapAny`: `Conf` is what is in the slots, `Open` the
gates whose wildcard key has an entry.

### `VppCfgd`

`db` and `inbox` are the databases and their notifications; the daemon goes
through `Subscribe`, `Select`, `Drain`, `Commit`, and `Open`/`Write` for each of
its three files. `cfg` is the template object itself: `get_config` returns it and
not a copy, so merges are permanent until a restart. `Kill` ends the daemon at
any step and only `Start`, an operator, brings it back. `giver` is history: the
database whose row was the last to name a device. Rows are abstracted to
the set of vports and the names of devices; a `BAD` row has a field that is not
JSON.

### `Sflow`

`rate`, `direction` and `skip` are the per-port and per-thread fields the patches
add, `samplingN` and `samplingD` the global ones, `arc` where the node is on.
`Enable`, `Disable`, `SetPortRate`, `SetPortDirection`, `SetGlobalRate` and
`SetGlobalDirection` are the handlers; `Frame` is a frame of packets on one
thread, which runs the countdown down and draws again. `Lim` keeps the width of
the 32-bit `2N - 1`, with `U32` for the number of values. `drawn` is history: the
rate a countdown was drawn for. The third arc, of drop monitoring, follows one
global switch that these patches do not touch, and is left out.

### `IpValidate` and `IpIngress`

`IpValidate` has the two validators as operators over addresses, test by test
(`Ip4Drops`, `Ip6Drops`), and next to them the filter written as ranges of
addresses (`Martian`), the reference they are compared with. `IpIngress` has the
control plane of `ip_validate` and of ip2me and composes both with the ACL:
`Outcome(p, k)` is what becomes of packet `k` that port `p` receives and the
bridge hands to its BVI. Each interface has a table per family (`vrf`), as in
`fib_index_by_sw_if_index` of `ip4_main` and `ip6_main`, and moves between tables
one family at a time. Deleting an interface runs the callback of `ip_validate`;
whether VPP clears the counts as well is open, so a reused index may start with what
API calls left on it. `over` and `called` are history: interfaces whose validation
an API call has changed, and indices for which one was ever made. The switch's
addresses are not link-local (`OwnAssumption`): a lookup of such an address in a
port's table gives VPP's link-local DPO and not a receive, so for them ip2me decides
nothing.

## 4. The runs

Each `.cfg` instantiates an `MC...` module. Deadlock is checked everywhere.

| Run | Bounds | What it shows |
|---|---|---|
| `tunterm_careful` | 2 tables, 2 interfaces, one IPv4 and one IPv6 destination, 1 path list, 2 forwardings, up to 2 rules | entries, sessions, slots, feature and verdicts stay consistent; the plugin implements `AclService`; stale sessions are refreshed |
| `tunterm_careless` | the same with 1 interface, any client, symmetric | what holds even if the client mixes up indices, and that the harm stays with those it mixed up |
| `path` | 2 ports, one with a sub-port, a bond, a loopback, frames with 0 or 1 tag, buffers that may keep a cookie | features are on exactly the intended interfaces; where punted packets end up and what they look like; none circles |
| `vxlan` | 3 slots, 1 IPv4 and 2 IPv6 VTEPs, unicast and multicast remotes, 2 VNIs, failing insertions, symmetric in the slots | the table implements `VxlanService`; bitmap and lookups, to addresses and to groups, keep the patch's promises; the bypass node diverts exactly what has a tunnel for its source |
| `vppcfgd` | 1 port, 1 device with 2 names, 2 databases, 2 database changes or kills | files of one configuration, no row missed, none lost again and none undone by an older one, order of the files, DPDK only with devices, progress |
| `sflow` | 2 ports and an interface that is none, 2 threads, rates 0, 2 and 3 with 4 values of a `u32`, frames of up to 2 packets, symmetric | countdowns are never zero, arcs follow the configuration, a change of rate leaves no old countdown behind |
| `ip_ingress` | 1 port and its BVI, 2 tables, counts up to 2, about 1 060 packets with addresses on both sides of every range edge | validators equal their reference; the callback leaves nothing behind on an index; an ACL keeps nothing from the switch that is for it |
| `path_qinq`, `vxlan_mixed`, `vxlan_any6`, `vxlan_tunterm`, `vppcfgd_raise` | small instances | disagreements between code and comments, see section 7 |

**Why the bounds suffice.** Two tables are needed for index reuse next to a
live ACL and for replacing one ACL by another; two interfaces for a delete refused
because of one while the other is free; two rules for a replace that stops half
way; two forwardings of a path list for a session to be stale. Three tunnel slots
allow two sharing a wildcard beside a third; two contexts show that VNIs do not
mix. A sub-port and its parent suffice for the arc index they share. In `vppcfgd`
every database may hold a row at the start, so two events let a row change while it
is being read and the daemon die, or both databases name the device anew; two names
tell an older row from a newer one. (`vppcfgd_raise` has three events and one name.)
`DPDK_DISABLE` is off in that run, since it hides the devices; the theorems cover
both values. A count of 2 distinguishes "on" from "counted twice". One
packet is enough for the path: nodes keep no state across packets but the cookie,
which the recycled buffer carries; two ports, so that a cookie can name another
port than the packet's own. For sFlow, with 4 values of a `u32` the rate 3 makes
`2N - 1` wrap and 2 does not, and two threads show one that was not seeded. The
theorems of section 5 remove these bounds for the safety properties.

`tunterm_careless`, `vxlan` and `sflow` use symmetry; they have no liveness
property, and the refinement mapping of `vxlan` does not depend on the slots. The
runs with liveness (`tunterm_careful`, `path`, `vppcfgd`) use none. Every module's
type invariant is proved; only that of `TuntermAcl` is also part of a run.

**The properties.** The most telling ones, by hazard:

* *Recycled indices*: `SlotsSound`, `RedirectsOwned`, `PromiscExact`,
  `CallbackBalanced`, `ImplementsService` (slots are not visible), `MisuseContained`
  (a wrong index harms no other), `RedirectLandsOnMember` (a cookie that outlives its
  packet does not move the next one).
* *Partial failure*: `SessionsMirrorRedirects` after a replace that stops,
  `ImplementsService` (a refusal leaves no trace), `RefusalLeavesNoTrace`,
  `EntriesLive`, `ApiAllOrNothing`, `FilesOfOneConfig`, `StartupHasBootup`.
* *Interleaving*: `VerdictFollowsAcl` with pending back-walks,
  `NoPuntOnAggregateTap` (the test at the tap is at the time the packet gets there),
  `CaptureOnWirePorts` and `RedirectOnAggregateTaps` (roles that change between pair
  add and pair delete), `QuietFilesCoverRows` (rows that change between preload,
  select and pop).
* *Stale values*: `SamplesHonest`, `SamplersReady`, `WildcardKept`, `MergedStays`,
  `DpdkOnlyWithDevices`.
* *End-to-end behaviour*: `LinuxSeesWireFrame` (tags and destination),
  `Decap4AsConfigured`, `Decap6AsConfigured`, `DivertedAsConfigured`,
  `ArcsAsConfigured`, `ExactlyMartiansStopped`, `Ip2meReachesHost`.
* *Liveness*: `SessionsConverge`, `EveryPacketLeaves`, `PortsReachBootup`. The
  first and the last have the form "again and again": a stale session, or a port
  missing from the files, does not stay so for ever.

**Fairness.** `tunterm_careful` assumes that each pending back-walk is visited
(weak fairness of `BackWalk(t, d)`): VPP's FIB walk process drains its queue.
`path` assumes that a packet in a node is processed (weak fairness of
`PacketStep`): the workers' dispatch loop. `vppcfgd` assumes that the daemon
takes its next step (weak fairness of `DaemonStep`): the operating system
schedules it, and `select` has a timeout. Nothing is assumed of databases,
clients, operators or `Start`.

## 5. The proofs

TLAPS checks the theorems of eight modules for every value of the constants that
satisfies the named assumptions (`TuntermAssumption`, `WiringAssumption`,
`PathAssumption`, `VxlanAssumption`, `VppCfgdAssumption`, `SflowAssumption`,
`BviAssumption`, `BoundAssumption`, `OwnAssumption`, `PacketAssumption`): any number of tables,
interfaces, rules, tunnels, rows, ports, threads, and any packet.

**`TuntermAclProofs`.** `TypeCorrect` proves `TypeOK` together with
`WalksEntries` (a pending back-walk has an entry to visit), without which a
back-walk could write a session for nothing and the type invariant would not be
inductive. `FeatureNeedsAcl` holds for any client, and so does `MisuseStays`:
`MInv` joins `MisuseContained` with the types and with `FlagAgrees`, the family flag
of a live table is the family of the table. It is the missing link between the pool
and the slots, as `Attach` chooses the slot by the flag and the data plane by the
packet. Soundness is a matter of one index, so `NextSound` proves it index by index:
an action that names `t` leaves every other index as it was (`FrameSound`), and one
that names it in turn keeps it sound (`UpdateSound` for add and replace). A careful
client misuses nothing (`CarefulTurns`), so for it `IInv`, which is `MInv` with
`misused` empty and the feature where it belongs, is inductive. From it follow `TablesSafe`, `SlotsSafe`, `FeatureExact`, `SessionsMirrored` and
`VerdictSound`. `OthersSafe` says what is left for a client that repeats indices:
an index the plugin never handed out has no entry, session, slot or pending visit
(it needs that every table of the plugin was handed out, `OwnGiven`).
`QueueShrinks` (only a change of forwarding adds to the pending back-walks) and
`VisitsLeaveFresh` (what leaves the queue is up to date or gone) are the steps by
which `SessionsConverge` comes about; only that the steps are taken is left to
fairness.

**`TuntermServiceProofs`.** `PluginImplementsService`: with a careful client
every step of the plugin is, through the mapping, a step of `AclService`. The
proof has one step per action and uses `IInv`: that a replace or delete never
stops at a missing session is what keeps the reply `"broken"` away, and the
family flag is what makes an attach bind the ACL in its own family's place.

**`SonicExtWiringProofs`.** `HostInv` adds `Sticky` (once a feature has been
enabled its flag stays), and gives `HostXcExact`. `WireInv` adds the other two, and
gives `CaptureExact` and `RedirectExact`; lemma `AggregatesKept` covers the steps
that leave alone which of the interfaces outside `turned` are aggregates. Nothing is
assumed of BVI changes.

**`SonicExtPathProofs`.** `PathImplementsWiring` shows that the packet's steps
leave the control plane alone, so that the wiring theorems hold on the path too.
`Carried` (a cookie that capture wrote for this packet names the port it came in on,
and only a packet that capture did not see can carry another's) gives
`RedirectsHome`, for either value of `OpaqueReset`. `TagInv` says what can be left of a frame
at each node: with `Tagged`, either the frame and the captured tag together still
give the frame of the wire, or the wire carried two tags and the outer one is the
only loss. `WireFrameSeen` is the case of at most one tag, and takes from `Carried`
that no packet whose destination was rewritten leaves a drop arc; `OnlyOuterTagLost` holds
for any number and says that what `path_qinq` shows is all that can happen.
`PathTyped` needs `Placed`, which ties the node a packet is at to what it carries
there. `PacketsDescend` proves that every step of a packet lowers `Rank`, whatever
the control plane does between two of them: an aggregate's tap may send it round
through interface-output once, and takes its cookie when it does.
`Held` (a captured packet keeps its cookie until it is redirected) gives
`PuntsViaMember`: with the wiring invariants of `SonicExtWiringProofs`, the tap of an
aggregate has the redirect node at the moment the packet gets there, and the tap of
its port is another one that exists.

**`VxlanDecapAnyProofs`.** `IInv` holds with any address bits. It is the types with
`WildcardKept`, `PromiscExact` and `EntriesElsewhere`: `EntriesLive` but for the
wildcards of an IPv4 address that an IPv6 VTEP address ends in, and of an IPv6 one that
is an IPv4 one with zeros in front (`Ambiguous`). None of
these is inductive alone, since deleting a tunnel re-points its wildcard at a
survivor that must be live and must own that wildcard. `Invariance` proves it, on
`KeysDiffer`. `WildcardsOutlive` and `PromiscSound` are parts of it and need no
assumption; `CollisionContained`, `Decap4Contained` and `Decap6Contained` say that a
collision does no harm beyond the ambiguous address, so that what `vxlan_mixed` shows is all that can
happen. With `NoCollision` nothing is ambiguous, which gives `TablesConsistent` and,
through `Follows4`, `Decap4Correct`.

For IPv6 the difficulty is the key space in which exact, wildcard and multicast keys
meet: an entry found under the source's key may only be that of the tunnel to the
source, and one found under the destination's key only a wildcard or, for a packet to
a group, the entry of that group. `Follows6` derives from this what the lookup finds
for every destination that is not ambiguous (`Decap6Contained`), and with
`NoCollision` it is `Decap6AsConfigured` (`Decap6Correct`). It names the two cases in
which a decap-any VTEP refuses a packet, so `UndisputedAccepted` (every source that
has no tunnel at another local address is accepted) and `OneVtepAcceptsAny`
(`AnySource6` itself, if the box has one IPv6 VTEP address and no collision) follow:
the extent of `vxlan_any6`. `DivertedExactly` is the same for the bypass node's copy of the
lookup: what it misses are the packets of the wildcard and no others.

`TableImplementsService` proves the refinement of `VxlanService` under
`NoCollision`, action by action; the interesting step is a delete, where the gate
stays open exactly if there is a survivor that the hash table accepts.
`RefusalsClean` proves `RefusalLeavesNoTrace`.

**`VppCfgdProofs`.** `DaemonTyped` proves the type invariant. `Written` says which of
the three files are those of `cfg` at each point of a commit, and that a
startup.conf has its bootup.conf; it gives `RoundsComplete` and `BootupFirst`.
`Noticed` says where a row of a subscribed database can be: notified, about to be
popped, in the preload, or already in `cfg`, there with the row's own name for every
device that no other database named since (`giver`). Since merging takes nothing out
(`MergeKeeps`) and commit takes devices out only where DPDK is off or there are none
(`PreparedKeeps`), a row once in `cfg` stays there (`RoundsAccumulate`), and
`NoRowMissed` follows with `Written`. `DpdkSound` carries through merge and commit
that the plugin, the defaults and the devices agree, and gives `DpdkNeedsDevices`
for every file of every daemon. `RoundsEnd` proves that every step of a round lowers
`RoundRank`, the pops and file operations it has left. `RaisesOnlyWithoutRow` is the
extent of `vppcfgd_raise`: if no row is deleted and no other key of the table
changes, every round reads a row (`Readable`) and `commit` does not raise. Both
conditions are needed.

**`SflowProofs`.** `IInv` says that an enabled port has been seeded for every
thread and that the arcs are those of the direction in force. `NeverZero` needs
that `U32` is even: `2N - 1` is odd and so never wraps to 0. `RatesHonest` is an
action property, proved request by request from the effect of a reseed: a countdown
becomes dishonest only on a port without a rate of its own, by switching global
sampling on or off. The same lemma (`NextHonest`) gives two invariants:
`OwnRateInForce` (a port with its own rate is always sampled at it) and
`HonestWhileOn` (while global sampling is never off, every port is).

**`IpIngressProofs`.** `Ip4Exact` and `Ip6Exact` prove the validators equal to the
ranges for every address, by turning shifts into bounds on the halves and the
lexicographic order of addresses into arithmetic (`Leq4`, `Leq6`). `IInv` adds
`Counted` (both families of an interface are enabled equally often, and the
rollback restores a count that was not 0: with 0 a refused disable would leave 1)
and `Validating`; from it follow `TypeCorrect`, `CallbackClean`, `ApiAtomic` and, with the
validators, `MartiansStopped`. `HostReached` follows from the order of the nodes and
the validators' exactness.

**Only model-checked.** Liveness (`SessionsConverge`, `EveryPacketLeaves`,
`PortsReachBootup`) is out of the prover's reach. For each, the part that does not
depend on fairness is proved: `QueueShrinks` and `VisitsLeaveFresh`;
`PacketsDescend`; `NoRowMissed` and `RoundsEnd`. What the runs add is that under the
stated fairness the steps are enabled and taken. The violations of section 7 are
TLC's; the proofs bound them. Every other property of a passing run is a theorem.

## 6. Not modelled

* IPIP MP2P tunnels (patch 0009): the patch adds a mode to the tunnel add and one
  more search to the lookup. The tunnel database, the construction of its keys and
  the deletion of tunnels are VPP's and not shown, so a model would be of code that
  is not here.
* Flow hash (0011, 0015): a function of packet bytes; nothing but parsing to
  state. Bond statistics (0008): which interface a drop is counted on. Class E
  option (0010): a start-up flag. Build patches (0001-0006): no state.
* Boot scripts: shell commands that run once and in sequence, before anything else,
  and keep no state afterwards. `vppcfg_load.py`, which writes the database row, is
  `SetRow` of `VppCfgd`.
* `tunterm_acl_cli.c` prints the slots and changes nothing.
* `platform/vpp/...` holds second copies of some plugin files; the models follow
  `vppbld/plugins`.
* Inside modelled parts: traces, counters and CLI output; the glean throttle,
  which only selects among equal packets (a free choice in the model); the UDP
  length and checksum arithmetic of the bypass node (one Boolean of a packet);
  a classifier that runs out of memory, on which VPP aborts; `NO_LINUX_NL`;
  sFlow's packet pool, seeds and counters, and its arc for drop monitoring.
* The sFlow handlers run with the workers at a barrier, so the order of seeding and
  enabling inside one of them is not visible; what is checked is that after each
  handler every thread of an enabled port has been seeded.

## 7. Findings

Runs that end in a violation, each of a statement made in the repository:

* `path_qinq`: the captured outer tag is pushed back only if the frame has no
  VLAN ethertype left. If VPP popped the outer tag of a double-tagged frame, the
  inner one is such an ethertype, and Linux gets the frame without its outer tag.
* `vxlan_mixed`: the search for a survivor of an IPv4 wildcard compares 32 bits of
  every decap-any tunnel's address, IPv6 ones included, and can re-point the
  wildcard at an IPv6 tunnel.
* `vxlan_any6`: for IPv6 the wildcard is not tried if the packet's source is the
  remote of a tunnel of another VTEP; the packet is then refused.
* `vxlan_tunterm`: the bypass node's copy of the tunnel lookup has no wildcard
  step, so packets only the wildcard accepts are decapsulated past the ACL.
* `vppcfgd_raise`: `commit` raises `TypeError` after a round without a SET of
  `PLATFORM|vpp`, such as its deletion or a change of another key; the daemon
  ends, and supervisord does not restart it.

Observed while modelling, without a run of their own:

* The flags `capture_enabled` and `host_xc_enabled` stay set after a toggle is
  turned off, so pairs added later are still wired (`sonic_ext.c:390-394`,
  `410-416`). The nodes test the toggle themselves.
* `l2_trap_fixup_node.c:72-78` speaks of a second tag being added where
  `sonic_ext.c:166-173` adds none; the comment at `glean_redirect_node.c:188-189`
  is wider than the test at 217-239.
* The IPv6 wildcard key equals the exact key of a multicast tunnel whose group is
  the packet's destination. A packet from an unknown source to that group, dropped
  before patch 0017, is decapsulated after it, whether or not the group's tunnel is
  decap-any (patch line 61; the comment at 59-60 says existing decap is unchanged).
  `Decap6AsConfigured` states the lookup as it is.
* `vppcfgd` never removes what it merged; `disable_dpdk_cfg` changes the template
  object for good, so a later row with devices is rendered with
  `dpdk_plugin.so` still disabled and without the template's defaults. A VPP that
  starts in the middle of a commit can read a truncated file.
* If a port and its BVI are in different VRFs, ip2me decides by the port's table
  (its comment says so): a loopback address in that table is taken past the ACL
  though the BVI's table would forward it. `Ip2meReachesHost` assumes one table of
  the packet's family, as the code does.
* An empty `add_replace` of an existing ACL clears it whatever family the request
  names: with no rule to look at, the family check is skipped
  (`tunterm_acl_api.c:100`). The family of the index stays what it was.

## 8. What could follow

* An abstract specification for `VppCfgd` (the files are a merge of rows that have
  been in the databases), as `AclService` is for `TuntermAcl` and `VxlanService` for
  `VxlanDecapAny`.
* A packet path with several packets in flight. Nodes share nothing but the
  configuration, so the one-packet theorems should carry over packet by packet.
