------------------------------ MODULE TuntermAcl ------------------------------
(***************************************************************************)
(* The control plane of the tunterm_acl plugin and the lookup its data     *)
(* plane makes: ACLs that are applied to the inner destination of a VXLAN  *)
(* packet after decapsulation and redirect it over a FIB path.             *)
(*                                                                         *)
(* An ACL is a classifier table of VPP; each rule is a redirect entry of   *)
(* the plugin (linked into the FIB graph) and a session in that table.     *)
(* The tables come from one pool that every classifier user shares, so an  *)
(* index that is freed may come back as somebody else's table.             *)
(*                                                                         *)
(* API handlers run on the main thread with the workers stopped, so each   *)
(* is one action.  A FIB back-walk of a popular path list is asynchronous: *)
(* between the change of the path and the visit of an entry other handlers *)
(* may run.                                                                *)
(***************************************************************************)
EXTENDS Naturals, Sequences

CONSTANTS
    Table,     \* indices of the classifier's table pool
    SwIf,      \* sw_if_index values
    Dst,       \* inner destination addresses
    V6Dst,     \* the IPv6 ones
    Hop,       \* FIB path lists a rule can redirect over
    Dpo,       \* forwarding a path list can contribute
    NONE,      \* ~0, or no entry
    BAD,       \* a path fib_api_path_decode rejects
    MaxRules,  \* bound on the number of rules of one request
    Careful    \* TRUE: the client keeps the contract stated at Names

ASSUME TuntermAssumption ==
    /\ V6Dst \subseteq Dst
    /\ NONE \notin Table \cup Hop \cup Dpo
    /\ BAD \notin Hop \cup {NONE}
    /\ MaxRules \in Nat
    /\ Careful \in BOOLEAN

VARIABLES
    live,      \* interfaces that exist
    classify,  \* the table pool: what each index holds
    table_af,  \* classify_table_index_is_v6, with "ip4" for 0
    given,     \* indices the plugin has ever handed out
    misused,   \* those a client ever named when they were not a tunterm ACL
    slot,      \* classify_table_index_by_sw_if_index_v4 and _v6
    enabled,   \* interfaces with feature tunterm-ip4-vxlan-bypass on
    redirect,  \* the redirect entries: path list by table and match
    session,   \* classifier sessions: DPO stored as metadata
    fwd,       \* what each path list contributes now
    walk,      \* entries a FIB back-walk still has to visit
    rv         \* retval of the reply sent by this step, if any

config == <<classify, table_af, given, misused, slot, enabled, redirect>>
vars == <<live, config, session, fwd, walk, rv>>

Af == {"ip4", "ip6"}
AfOf(d) == IF d \in V6Dst THEN "ip6" ELSE "ip4"

Rule == [dst : Dst, path : Hop \cup {BAD}]
RuleList == UNION {[1..n -> Rule] : n \in 0..MaxRules}

Errors == {"INVALID_VALUE", "INVALID_VALUE_2", "RSRC_IN_USE",
           "INVALID_SW_IF_INDEX", "BAD_RULE", "NO_SUCH_TABLE", "CLEAR_FAILED"}

TypeOK ==
    /\ live \subseteq SwIf
    /\ classify \in [Table -> Af \cup {"free", "foreign"}]
    /\ table_af \in [Table -> Af]
    /\ given \subseteq Table
    /\ misused \subseteq Table
    /\ slot \in [SwIf -> [Af -> Table \cup {NONE}]]
    /\ enabled \subseteq SwIf
    /\ redirect \in [Table -> [Dst -> Hop \cup {NONE}]]
    /\ session \in [Table -> [Dst -> Dpo \cup {NONE}]]
    /\ fwd \in [Hop -> Dpo]
    /\ walk \subseteq Table \X Dst
    /\ rv \in Errors \cup {"none", "ok"}

NoEntry == [d \in Dst |-> NONE]

\* What vec_validate fills classify_table_index_is_v6 with, and what a delete
\* writes back: 0.
FreshFlag_AllOnes == NONE
FreshFlag == "ip4"

Init ==
    /\ live = {}
    /\ classify = [t \in Table |-> "free"]
    /\ table_af = [t \in Table |-> FreshFlag]
    /\ given = {}
    /\ misused = {}
    /\ slot = [s \in SwIf |-> [a \in Af |-> NONE]]
    /\ enabled = {}
    /\ redirect = [t \in Table |-> NoEntry]
    /\ session = [t \in Table |-> NoEntry]
    /\ fwd \in [Hop -> Dpo]
    /\ walk = {}
    /\ rv = "none"

-----------------------------------------------------------------------------
(* Helpers *)

\* The API's contract: the index of a request is "an existing tunterm
\* index".  A careless client may repeat one that has been deleted since.
Names(t) == IF Careful THEN classify[t] \in Af ELSE t \in given

\* A history of the contract's breaches, which no handler reads.
NoteMisuse(t) == misused' = IF classify[t] \in Af THEN misused ELSE misused \cup {t}

\* tunterm_acl_del looks for the index in both slots of every interface.
Attached_V4Only(t) == \E s \in SwIf : slot[s]["ip4"] = t
Attached(t) == \E s \in SwIf, a \in Af : slot[s][a] = t

\* (Operators with a suffix after an underscore are deliberately wrong forms
\* of the operator that follows; no specification uses them.)

\* A rule the loop stops at: its path does not decode, or its address family
\* is not the request's.
Bad_NoFamilyCheck(r, af) == r.path = BAD
Bad(r, af) == r.path = BAD \/ AfOf(r.dst) # af

\* The positions the loop gets through before the first bad rule.
Good(rules, af) ==
    {j \in DOMAIN rules : \A k \in 1..j : ~Bad(rules[k], af)}

\* m is what the rules at positions P leave in the pool: of two rules with
\* one match the later updates the entry of the earlier.
Installs(m, rules, P) ==
    \A d \in Dst :
        \/ /\ m[d] = NONE
           /\ \A j \in P : rules[j].dst # d
        \/ \E j \in P :
              /\ rules[j].dst = d
              /\ m[d] = rules[j].path
              /\ \A k \in P : rules[k].dst = d => k <= j

\* tunterm_acl_redirect_del_ipr deletes the session first and returns when
\* the classifier has no such table or session.
Deletable(t, d, cls) == cls[t] # "free" /\ session[t][d] # NONE
Entries(t) == {d \in Dst : redirect[t][d] # NONE}
Clearable(t, cls) == \A d \in Entries(t) : Deletable(t, d, cls)

\* tunterm_acl_redirect_clear stops at the first entry it cannot delete,
\* with the entries it met before that one gone.
ClearFails(t, cls) ==
    /\ ~Clearable(t, cls)
    /\ \E D \in SUBSET {d \in Entries(t) : Deletable(t, d, cls)} :
          /\ redirect' = [redirect EXCEPT ![t] =
                            [d \in Dst |-> IF d \in D THEN NONE ELSE @[d]]]
          /\ session' = [session EXCEPT ![t] =
                            [d \in Dst |-> IF d \in D THEN NONE ELSE @[d]]]
          /\ walk' = walk \ ({t} \X D)
    /\ rv' = "CLEAR_FAILED"

\* The rules go in one by one.  tunterm_acl_redirect_add puts the entry in the
\* pool and only then adds the session, which fails without a table.
AddRules(t, cls, af, rules) ==
    LET P == Good(rules, af)
        Q == IF cls[t] = "free" THEN P \cap {1} ELSE P
    IN  /\ \E m \in [Dst -> {rules[j].path : j \in Q} \cup {NONE}] :
              /\ Installs(m, rules, Q)
              /\ redirect' = [redirect EXCEPT ![t] = m]
              /\ session' = [session EXCEPT ![t] =
                    [d \in Dst |-> IF m[d] = NONE \/ cls[t] = "free"
                                     THEN NONE ELSE fwd[m[d]]]]
        /\ walk' = walk \ ({t} \X Dst)
        /\ rv' = IF cls[t] = "free" /\ Q # {} THEN "NO_SUCH_TABLE"
                 ELSE IF P = DOMAIN rules THEN "ok" ELSE "BAD_RULE"

Update_ClearFirst(t, cls, afs, af, rules) ==
    \/ /\ rules # <<>> /\ afs[t] # af
       /\ redirect' = [redirect EXCEPT ![t] = NoEntry]
       /\ session' = [session EXCEPT ![t] = NoEntry]
       /\ walk' = walk \ ({t} \X Dst)
       /\ rv' = "INVALID_VALUE_2"
    \/ /\ rules = <<>> \/ afs[t] = af
       /\ Clearable(t, cls) /\ AddRules(t, cls, af, rules)

\* update_classify_table_and_sessions from the address family check on; cls
\* and afs are the pool and the flags after a creation.  A request without
\* rules skips the check: it clears the table whatever its family.
Update(t, cls, afs, af, rules) ==
    \/ /\ rules # <<>> /\ afs[t] # af
       /\ rv' = "INVALID_VALUE_2"
       /\ UNCHANGED <<redirect, session, walk>>
    \/ /\ rules = <<>> \/ afs[t] = af
       /\ \/ ClearFails(t, cls)
          \/ Clearable(t, cls) /\ AddRules(t, cls, af, rules)

-----------------------------------------------------------------------------
(* API handlers *)

\* tunterm_acl_add_replace with index ~0: the table is created first, and
\* stays when a rule is refused.
AddAcl(t, af, rules) ==
    /\ classify[t] = "free"
    /\ classify' = [classify EXCEPT ![t] = af]
    /\ table_af' = [table_af EXCEPT ![t] = af]
    /\ given' = given \cup {t}
    /\ Update(t, classify', table_af', af, rules)
    /\ UNCHANGED <<live, misused, slot, enabled, fwd>>

\* tunterm_acl_add_replace with an index.
ReplaceAcl(t, af, rules) ==
    /\ Names(t)
    /\ NoteMisuse(t)
    /\ Update(t, classify, table_af, af, rules)
    /\ UNCHANGED <<live, classify, table_af, given, slot, enabled, fwd>>

\* A request that is refused before anything is touched: a message shorter
\* than its rule count asks for, a table the classifier cannot create, or
\* index ~0 in a delete, attach or detach.
Malformed ==
    /\ rv' = "INVALID_VALUE"
    /\ UNCHANGED <<live, config, session, fwd, walk>>

\* tunterm_acl_del
DelAcl(t) ==
    /\ Names(t)
    /\ NoteMisuse(t)
    /\ \/ /\ Attached(t)
          /\ rv' = "RSRC_IN_USE"
          /\ UNCHANGED <<classify, table_af, redirect, session, walk>>
       \/ /\ ~Attached(t)
          /\ ClearFails(t, classify)
          /\ UNCHANGED <<classify, table_af>>
       \/ /\ ~Attached(t)
          /\ Clearable(t, classify)
          /\ redirect' = [redirect EXCEPT ![t] = NoEntry]
          /\ session' = [session EXCEPT ![t] = NoEntry]
          /\ walk' = walk \ ({t} \X Dst)
          /\ classify' = [classify EXCEPT ![t] = "free"]
          /\ table_af' = [table_af EXCEPT ![t] = FreshFlag]
          /\ rv' = "ok"
    /\ UNCHANGED <<live, given, slot, enabled, fwd>>

\* tunterm_acl_interface_add_del, is_add = 1.  vnet_feature_enable_disable is
\* taken to succeed, here and in a detach: it refuses an arc or a feature it
\* does not know, and both are literals the plugin itself registers.
Attach(s, t) ==
    /\ Names(t)
    /\ NoteMisuse(t)
    /\ \/ /\ s \notin live
          /\ rv' = "INVALID_SW_IF_INDEX"
          /\ UNCHANGED <<slot, enabled>>
       \/ /\ s \in live
          /\ slot' = [slot EXCEPT ![s][table_af[t]] = t]
          /\ enabled' = enabled \cup {s}
          /\ rv' = "ok"
    /\ UNCHANGED <<live, classify, table_af, given, redirect, session, fwd, walk>>

\* The feature survives a detach when both slots were filled.
StaysEnabled_Never(s) == FALSE
StaysEnabled_Always(s) == TRUE
StaysEnabled(s) == \A a \in Af : slot[s][a] # NONE

\* tunterm_acl_interface_add_del, is_add = 0.  Any index the client was ever
\* given may be named: one that is not attached is refused.
Detach(s, t) ==
    /\ t \in given
    /\ \/ /\ s \notin live
          /\ rv' = "INVALID_SW_IF_INDEX"
          /\ UNCHANGED <<slot, enabled>>
       \/ /\ s \in live
          /\ \A a \in Af : slot[s][a] # t
          /\ rv' = "INVALID_VALUE_2"
          /\ UNCHANGED <<slot, enabled>>
       \/ /\ s \in live
          /\ \E a \in Af : slot[s][a] = t
          /\ enabled' = IF StaysEnabled(s) THEN enabled ELSE enabled \ {s}
          /\ slot' = [slot EXCEPT ![s][table_af[t]] = NONE]
          /\ rv' = "ok"
    /\ UNCHANGED <<live, classify, table_af, given, misused, redirect, session, fwd, walk>>

-----------------------------------------------------------------------------
(* VPP around the plugin *)

IfCreate(s) ==
    /\ s \notin live
    /\ live' = live \cup {s}
    /\ rv' = "none"
    /\ UNCHANGED <<config, session, fwd, walk>>

\* VPP drops the features of an interface it deletes; the plugin registers no
\* callback, so the slots stay.  A careful client detaches first.
IfDelete(s) ==
    /\ s \in live
    /\ Careful => \A a \in Af : slot[s][a] = NONE
    /\ live' = live \ {s}
    /\ enabled' = enabled \ {s}
    /\ rv' = "none"
    /\ UNCHANGED <<classify, table_af, given, misused, slot, redirect, session, fwd, walk>>

ForeignAlloc(t) ==
    /\ classify[t] = "free"
    /\ classify' = [classify EXCEPT ![t] = "foreign"]
    /\ rv' = "none"
    /\ UNCHANGED <<live, table_af, given, misused, slot, enabled, redirect, session, fwd, walk>>

ForeignFree(t) ==
    /\ classify[t] = "foreign"
    /\ classify' = [classify EXCEPT ![t] = "free"]
    /\ session' = [session EXCEPT ![t] = NoEntry]
    /\ rv' = "none"
    /\ UNCHANGED <<live, table_af, given, misused, slot, enabled, redirect, fwd, walk>>

PathChange(h, p) ==
    /\ fwd[h] # p
    /\ fwd' = [fwd EXCEPT ![h] = p]
    /\ walk' = walk \cup {w \in Table \X Dst : redirect[w[1]][w[2]] = h}
    /\ rv' = "none"
    /\ UNCHANGED <<live, config, session>>

BackWalk_NoStack(t, d) ==
    /\ <<t, d>> \in walk
    /\ walk' = walk \ {<<t, d>>}
    /\ rv' = "none"
    /\ UNCHANGED <<live, config, session, fwd>>

\* tunterm_acl_redirect_back_walk_notify: stack the entry again.
BackWalk(t, d) ==
    /\ <<t, d>> \in walk
    /\ walk' = walk \ {<<t, d>>}
    /\ session' = IF classify[t] = "free" THEN session
                  ELSE [session EXCEPT ![t][d] = fwd[redirect[t][d]]]
    /\ rv' = "none"
    /\ UNCHANGED <<live, config, fwd>>

Next ==
    \/ \E t \in Table, af \in Af, rules \in RuleList :
          AddAcl(t, af, rules) \/ ReplaceAcl(t, af, rules)
    \/ Malformed
    \/ \E t \in Table : DelAcl(t) \/ ForeignAlloc(t) \/ ForeignFree(t)
    \/ \E s \in SwIf, t \in Table : Attach(s, t) \/ Detach(s, t)
    \/ \E s \in SwIf : IfCreate(s) \/ IfDelete(s)
    \/ \E h \in Hop, p \in Dpo : PathChange(h, p)
    \/ \E t \in Table, d \in Dst : BackWalk(t, d)

Spec == Init /\ [][Next]_vars

\* The FIB walk process runs until its queue is empty.
FairSpec == Spec /\ \A t \in Table, d \in Dst : WF_vars(BackWalk(t, d))

-----------------------------------------------------------------------------
(* The lookup of the data plane *)

\* tunterm_acl_node on a packet received on s: the inner ethertype picks the
\* slot, the classifier session the forwarding; everything else goes on to
\* vxlan4-input (NONE here).
NodeVerdict_V4Slot(s, d) ==
    LET t == slot[s]["ip4"]
    IN  IF t = NONE THEN NONE ELSE session[t][d]
NodeVerdict(s, d) ==
    LET t == slot[s][AfOf(d)]
    IN  IF t = NONE THEN NONE ELSE session[t][d]

-----------------------------------------------------------------------------
(* Properties *)

\* Every redirect entry of the plugin belongs to a live tunterm table of the
\* entry's own address family.  This is what ASSERT (0 == rv) in the back-walk
\* callback relies on, and what keeps a back-walk from writing a session into
\* a table that another classifier user got under a recycled index.
Owned(t) == \A d \in Dst : redirect[t][d] # NONE => classify[t] = AfOf(d)
RedirectsOwned == \A t \in Table : Owned(t)

\* Redirect entries and classifier sessions stand one to one, and a session
\* carries what its path list contributes now unless a back-walk is on its
\* way to it: clear, replace and delete never leave one without the other.
Mirrored(t) ==
    \A d \in Dst :
        \/ redirect[t][d] = NONE /\ session[t][d] = NONE
        \/ /\ redirect[t][d] # NONE
           /\ session[t][d] # NONE
           /\ session[t][d] = fwd[redirect[t][d]] \/ <<t, d>> \in walk
SessionsMirrorRedirects == \A t \in Table : Mirrored(t)

\* An interface's IPv4 slot names a live tunterm table that matches IPv4
\* destinations, the IPv6 slot one that matches IPv6 destinations: the node
\* dereferences the slot's table without a check.
SlotsSound ==
    \A s \in SwIf, a \in Af :
        slot[s][a] # NONE => classify[slot[s][a]] = a

\* A client that goes on using the index of an ACL it has deleted harms that
\* index only, for as long as others come and go under the same numbers: an
\* index that was never named out of turn still holds entries of its own
\* family only, mirrored in its sessions, and every slot that names it is the
\* one of a live table's family.
Sound(t) ==
    /\ Owned(t)
    /\ Mirrored(t)
    /\ \A s \in SwIf, a \in Af : slot[s][a] = t => classify[t] = a
MisuseContained == \A t \in Table \ misused : Sound(t)

\* The bypass feature is on exactly on the interfaces that have an ACL in a
\* slot: the feature is switched off with the last slot and not before.
FeatureIffAttached ==
    \A s \in SwIf : s \in enabled <=> \E a \in Af : slot[s][a] # NONE

\* Whatever the client does, the feature is never on without an ACL in a slot.
FeatureImpliesAttached ==
    \A s \in enabled : \E a \in Af : slot[s][a] # NONE

\* A packet is redirected over the path its ACL's rule names, and only then:
\* the verdict of the data plane is the rule's current forwarding when the
\* attached ACL has a rule for the destination and no back-walk is pending.
VerdictFollowsAcl ==
    \A s \in enabled, d \in Dst :
        LET t == slot[s][AfOf(d)]
            h == IF t = NONE THEN NONE ELSE redirect[t][d]
        IN  /\ h = NONE => NodeVerdict(s, d) = NONE
            /\ h # NONE => \/ NodeVerdict(s, d) = fwd[h]
                           \/ <<t, d>> \in walk

\* A session that carries an outdated forwarding does not keep it: the
\* back-walk brings it up to date or its entry goes, even while path lists
\* keep changing.
SessionsConverge ==
    \A t \in Table, d \in Dst :
        LET Stale == redirect[t][d] # NONE /\ session[t][d] # fwd[redirect[t][d]]
        IN  []<>~Stale

=============================================================================
