------------------------- MODULE TuntermServiceProofs -------------------------
(***************************************************************************)
(* The plugin implements AclService, for every number of tables,           *)
(* interfaces, destinations, path lists and rules.  The inductive          *)
(* invariant of TuntermAclProofs is what makes each step of the plugin a   *)
(* step of the service: a clear cannot fail half way, the family flag an   *)
(* attach and a detach go by is the family of the ACL, and the sessions of *)
(* an index that is no ACL are empty.                                      *)
(***************************************************************************)
EXTENDS TuntermAclService, TuntermAclProofs

LEMMA InitService == Init => Service!Init
<1>. SUFFICES ASSUME Init PROVE Service!Init
  OBVIOUS
<1>1. AclOf(classify) = [t \in Table |-> "absent"]
  BY DEF Init, AclOf, Af
<1>2. ReplyOf(rv) = "none"
  BY DEF Init, ReplyOf, Refused
<1>. QED BY <1>1, <1>2
         DEF Init, Service!Init, Service!Nothing, Service!Family, Af, NoEntry

\* A step that gives a client no answer and touches nothing the service knows.
LEMMA ElsewhereStep ==
    ASSUME AclOf(classify)' = AclOf(classify), UNCHANGED <<redirect, session, slot, fwd>>,
           rv' = "none"
    PROVE  Service!Next
<1>1. ReplyOf(rv') = "none"
  BY DEF ReplyOf, Refused
<1>2. Service!Elsewhere
  BY <1>1 DEF Service!Elsewhere
<1>. QED BY <1>2 DEF Service!Next

LEMMA RefuseStep ==
    ASSUME AclOf(classify)' = AclOf(classify), UNCHANGED <<redirect, session, slot, fwd>>,
           rv' \in Refused
    PROVE  Service!Next
<1>1. ReplyOf(rv') = "refused"
  BY DEF ReplyOf, Refused
<1>2. Service!Refuse
  BY <1>1 DEF Service!Refuse
<1>. QED BY <1>2 DEF Service!Next

\* Under the invariant the rules of a request are written as a whole, or the
\* request is refused.
LEMMA WriteStep ==
    ASSUME IInv, NEW t \in Table, NEW a \in Af, NEW af \in Af,
           NEW rules \in RuleList,
           classify[t] \in {"free", a}, classify'[t] = a, table_af'[t] = a,
           classify' = [classify EXCEPT ![t] = a],
           classify[t] = "free" => a = af,
           UNCHANGED <<slot, fwd>>,
           Update(t, classify', table_af', af, rules)
    PROVE  Service!Next
<1>. USE DEF IInv
<1>0. "free" \notin Af
  BY DEF Af
<1>1. Clearable(t, classify')
  BY <1>0, Zenon DEF Clearable, Entries, Deletable, TableInv, SessionsMirrorRedirects, Mirrored
<1>2. CASE /\ table_af'[t] # af
           /\ rv' = "INVALID_VALUE_2"
           /\ UNCHANGED <<redirect, session, walk>>
  <2>1. classify' = classify
    BY <1>2 DEF TypeOK
  <2>. QED BY <1>2, <2>1, RefuseStep DEF Refused, AclOf
<1>3. CASE (rules = <<>> \/ table_af'[t] = af) /\ AddRules(t, classify', af, rules)
  <2>1. PICK m \in [Dst -> Hop \cup {NONE}] :
           /\ Installs(m, rules, Good(rules, af))
           /\ redirect' = [redirect EXCEPT ![t] = m]
           /\ session' = [session EXCEPT ![t] =
                 [d \in Dst |-> IF m[d] = NONE THEN NONE ELSE fwd[m[d]]]]
    <3>1. classify'[t] # "free" /\ AddRules(t, classify', af, rules)
      BY <1>0, <1>3
    <3>. QED BY ONLY <3>1, rules \in RuleList, AddRulesToLive
  <2>2. m \in Service!Content(a)
    <3>. SUFFICES ASSUME NEW d \in Dst, m[d] # NONE PROVE AfOf(d) = a
      BY DEF Service!Content, Service!FamilyOf, AfOf
    <3>1. PICK j \in Good(rules, af) : rules[j].dst = d
      BY <2>1 DEF Installs
    <3>2. j \in DOMAIN rules /\ DOMAIN rules \subseteq Nat \ {0}
      BY <3>1 DEF Good, RuleList
    <3>3. j \in 1..j
      BY <3>2
    <3>4. ~Bad(rules[j], af)
      BY <3>1, <3>3 DEF Good
    <3>5. AfOf(d) = af
      BY <3>1, <3>4 DEF Bad
    <3>6. rules # <<>>
      BY <3>2
    <3>. QED BY <1>3, <3>5, <3>6
  <2>3. ReplyOf(rv') \in {"ok", "partial"}
    <3>1. rv' \in {"ok", "BAD_RULE"}
      BY <1>0, <1>3 DEF AddRules
    <3>. QED BY <3>1 DEF ReplyOf, Refused
  <2>4. /\ AclOf(classify)[t] \in {"absent", a}
        /\ AclOf(classify') = [AclOf(classify) EXCEPT ![t] = a]
    BY <1>0, ZenonT(40) DEF AclOf, TypeOK
  <2>5. redirect'[t] = m
    BY <2>1 DEF TypeOK
  <2>6. Service!Write(t, a)
    BY <2>1, <2>2, <2>3, <2>4, <2>5, ZenonT(40) DEF Service!Write
  <2>. QED BY <2>6 DEF Service!Next, Service!Family, Af
<1>. QED BY <1>1, <1>2, <1>3, Zenon DEF Update, ClearFails

\* Every step of a plugin with a careful client is a step of the service.
LEMMA StepService ==
    ASSUME Careful, IInv, [Next]_vars
    PROVE  [Service!Next]_(Service!vars)
<1>. USE DEF IInv
<1>0. "free" \notin Af /\ "foreign" \notin Af
  BY DEF Af
<1>1. ASSUME NEW t \in Table, NEW af \in Af, NEW rules \in RuleList,
             AddAcl(t, af, rules)
      PROVE  Service!Next
  <2>1. /\ classify[t] = "free"
        /\ classify' = [classify EXCEPT ![t] = af]
        /\ classify'[t] = af /\ table_af'[t] = af
        /\ UNCHANGED <<slot, fwd>>
        /\ Update(t, classify', table_af', af, rules)
    BY <1>1 DEF AddAcl, TypeOK
  <2>. QED BY <2>1, WriteStep, Zenon
<1>2. ASSUME NEW t \in Table, NEW af \in Af, NEW rules \in RuleList,
             ReplaceAcl(t, af, rules)
      PROVE  Service!Next
  <2>1. PICK a \in Af : a = classify[t]
    BY <1>2 DEF ReplaceAcl, Names
  <2>2. table_af[t] = a
    BY <2>1 DEF SlotInv, FlagAgrees
  <2>3. /\ classify' = [classify EXCEPT ![t] = a]
        /\ classify'[t] = a /\ table_af'[t] = a
        /\ UNCHANGED <<slot, fwd>>
        /\ Update(t, classify', table_af', af, rules)
    BY <1>2, <2>1, <2>2 DEF ReplaceAcl, TypeOK
  <2>4. classify[t] \in {"free", a} /\ classify[t] # "free"
    BY <1>0, <2>1
  <2>. QED BY <2>3, <2>4, WriteStep, Zenon
<1>3. CASE Malformed
  BY <1>3, RefuseStep DEF Malformed, config, Refused, AclOf
<1>4. ASSUME NEW t \in Table, DelAcl(t) PROVE Service!Next
  <2>1. classify[t] \in Af
    BY <1>4 DEF DelAcl, Names
  <2>2. Clearable(t, classify)
    BY <1>0, <2>1, Zenon
       DEF Clearable, Entries, Deletable, TableInv, SessionsMirrorRedirects, Mirrored
  <2>3. CASE rv' = "RSRC_IN_USE" /\ UNCHANGED <<classify, redirect, session>>
    BY <1>4, <2>3, RefuseStep DEF DelAcl, Refused, AclOf
  <2>4. CASE /\ ~Attached(t)
             /\ redirect' = [redirect EXCEPT ![t] = NoEntry]
             /\ session' = [session EXCEPT ![t] = NoEntry]
             /\ classify' = [classify EXCEPT ![t] = "free"]
             /\ rv' = "ok"
    <3>1. /\ AclOf(classify)[t] # "absent"
          /\ AclOf(classify') = [AclOf(classify) EXCEPT ![t] = "absent"]
      BY <1>0, <2>1, <2>4, Zenon DEF AclOf, TypeOK, Af
    <3>2. ReplyOf(rv') = "ok"
      BY <2>4 DEF ReplyOf, Refused
    <3>3. \A s \in SwIf, a \in Service!Family : slot[s][a] # t
      BY <2>4 DEF Attached, Service!Family, Af
    <3>4. UNCHANGED <<slot, fwd>> /\ Service!Nothing = NoEntry
      BY <1>4 DEF DelAcl, Service!Nothing, NoEntry
    <3>5. Service!Remove(t)
      BY <2>4, <3>1, <3>2, <3>3, <3>4, Zenon DEF Service!Remove
    <3>. QED BY <3>5 DEF Service!Next
  <2>. QED BY <1>4, <2>2, <2>3, <2>4, Zenon DEF DelAcl, ClearFails
<1>5. ASSUME NEW t \in Table, ForeignAlloc(t) \/ ForeignFree(t)
      PROVE  Service!Next
  <2>1. AclOf(classify') = AclOf(classify)
    BY <1>0, <1>5 DEF ForeignAlloc, ForeignFree, AclOf, TypeOK
  <2>2. session' = session
    <3>1. classify[t] \notin Af
      BY <1>0, <1>5 DEF ForeignAlloc, ForeignFree
    <3>2. \A d \in Dst : session[t][d] = NONE
      BY <3>1, Zenon DEF TableInv, RedirectsOwned, Owned, SessionsMirrorRedirects, Mirrored, AfOf, Af
    <3>3. session[t] = NoEntry
      BY <3>2 DEF NoEntry, TypeOK
    <3>. QED BY <1>5, <3>3 DEF ForeignAlloc, ForeignFree, TypeOK
  <2>3. UNCHANGED <<redirect, slot, fwd>> /\ rv' = "none"
    BY <1>5 DEF ForeignAlloc, ForeignFree
  <2>. QED BY <2>1, <2>2, <2>3, ElsewhereStep, SMTT(40)
<1>6. ASSUME NEW s \in SwIf, NEW t \in Table, Attach(s, t) PROVE Service!Next
  <2>1. UNCHANGED <<classify, redirect, session, fwd>>
    BY <1>6 DEF Attach
  <2>2. CASE rv' = "INVALID_SW_IF_INDEX" /\ slot' = slot
    BY <2>1, <2>2, RefuseStep DEF Refused, AclOf
  <2>3. CASE slot' = [slot EXCEPT ![s][table_af[t]] = t] /\ rv' = "ok"
    <3>1. classify[t] \in Af /\ table_af[t] = classify[t]
      BY <1>6 DEF Attach, Names, SlotInv, FlagAgrees
    <3>2. AclOf(classify)[t] = table_af[t] /\ table_af[t] # "absent"
      BY <3>1 DEF AclOf, Af
    <3>3. ReplyOf(rv') = "ok"
      BY <2>3 DEF ReplyOf, Refused
    <3>4. AclOf(classify') = AclOf(classify)
      BY <2>1
    <3>5. Service!Bind(s, t)
      BY <2>1, <2>3, <3>2, <3>3, <3>4 DEF Service!Bind
    <3>. QED BY <3>5 DEF Service!Next
  <2>. QED BY <1>6, <2>2, <2>3 DEF Attach
<1>7. ASSUME NEW s \in SwIf, NEW t \in Table, Detach(s, t) PROVE Service!Next
  <2>1. UNCHANGED <<classify, redirect, session, fwd>>
    BY <1>7 DEF Detach
  <2>2. CASE rv' \in Refused /\ slot' = slot
    BY <2>1, <2>2, RefuseStep DEF AclOf
  <2>3. CASE /\ \E a \in Af : slot[s][a] = t
             /\ slot' = [slot EXCEPT ![s][table_af[t]] = NONE]
             /\ rv' = "ok"
    <3>1. \A a \in Af : slot[s][a] = t <=> a = table_af[t]
      <4>1. \A a \in Af : slot[s][a] = t => a = table_af[t]
        BY TuntermAssumption DEF SlotInv, SlotsSound, FlagAgrees
      <4>. QED BY <2>3, <4>1
    <3>2. slot' = [slot EXCEPT ![s] =
                     [a \in Af |-> IF slot[s][a] = t THEN NONE ELSE slot[s][a]]]
      BY <2>3, <3>1, ZenonT(40) DEF TypeOK
    <3>3. ReplyOf(rv') = "ok"
      BY <2>3 DEF ReplyOf, Refused
    <3>4. AclOf(classify') = AclOf(classify)
      BY <2>1
    <3>5. Service!Unbind(s, t)
      BY <2>1, <2>3, <3>2, <3>3, <3>4, ZenonT(40) DEF Service!Unbind, Service!Family, Af
    <3>. QED BY <3>5 DEF Service!Next
  <2>. QED BY <1>7, <2>2, <2>3, SMTT(40) DEF Detach, Refused
<1>8. ASSUME NEW s \in SwIf, IfCreate(s) \/ IfDelete(s) PROVE Service!Next
  BY <1>8, ElsewhereStep DEF IfCreate, IfDelete, config, AclOf
<1>9. ASSUME NEW h \in Hop, NEW p \in Dpo, PathChange(h, p) PROVE Service!Next
  <2>1. ReplyOf(rv') = "none"
    BY <1>9 DEF PathChange, ReplyOf, Refused
  <2>2. Service!PathChange(h, p)
    BY <1>9, <2>1 DEF PathChange, config, Service!PathChange, AclOf
  <2>. QED BY <2>2 DEF Service!Next
<1>10. ASSUME NEW t \in Table, NEW d \in Dst, BackWalk(t, d) PROVE Service!Next
  <2>1. redirect[t][d] # NONE
    BY <1>10 DEF BackWalk, TableInv, WalksEntries
  <2>2. classify[t] \in Af
    BY <2>1 DEF TableInv, RedirectsOwned, Owned, AfOf, Af
  <2>3. session' = [session EXCEPT ![t][d] = fwd[redirect[t][d]]]
    BY <1>0, <1>10, <2>2 DEF BackWalk
  <2>4. ReplyOf(rv') = "none"
    BY <1>10 DEF BackWalk, ReplyOf, Refused
  <2>5. Service!Refresh(t, d)
    BY <1>10, <2>1, <2>3, <2>4, Zenon DEF BackWalk, config, Service!Refresh, AclOf
  <2>. QED BY <2>5 DEF Service!Next
<1>11. CASE UNCHANGED vars
  BY <1>11 DEF vars, config, Service!vars, AclOf, ReplyOf
<1>. QED BY <1>1, <1>2, <1>3, <1>4, <1>5, <1>6, <1>7, <1>8, <1>9, <1>10, <1>11
         DEF Next

\* The plugin implements the service its API promises, when the client names
\* only ACLs that exist (ImplementsService).
THEOREM PluginImplementsService == ASSUME Careful PROVE Spec => ImplementsService
<1>1. IInv /\ [Next]_vars => [Service!Next]_(Service!vars)
  BY StepService
<1>. QED BY <1>1, InitService, CarefulInv, PTL
         DEF Spec, ImplementsService, Service!Spec

=============================================================================
