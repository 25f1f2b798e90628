--------------------------- MODULE TuntermAclProofs ---------------------------
(***************************************************************************)
(* Proofs about TuntermAcl for every number of tables, interfaces,         *)
(* destinations, path lists and rules.                                     *)
(*                                                                         *)
(* TypeOK, FeatureImpliesAttached and MisuseContained hold whatever the    *)
(* client does.  MisuseContained is not inductive alone: MInv adds the two *)
(* facts the code never tests, that the address family flag agrees with    *)
(* the table (FlagAgrees) and that a back-walk only visits entries of the  *)
(* pool (WalksEntries).  A client that keeps the contract (Careful)        *)
(* misuses no index, so MInv gives the invariants about all the tables;    *)
(* IInv joins them.                                                        *)
(***************************************************************************)
EXTENDS TuntermAcl, TLAPS

\* The flag classify_table_index_is_v6 of a live tunterm table is the address
\* family its mask was built for.
FlagAgrees == \A t \in Table : classify[t] \in Af => table_af[t] = classify[t]

\* A back-walk is only ever on its way to an entry that is in the pool.
WalksEntries ==
    \A t \in Table, d \in Dst : <<t, d>> \in walk => redirect[t][d] # NONE

TableInv == RedirectsOwned /\ SessionsMirrorRedirects /\ WalksEntries
SlotInv == SlotsSound /\ FlagAgrees /\ FeatureIffAttached
IInv == TypeOK /\ TableInv /\ SlotInv /\ misused = {}

MInv == TypeOK /\ WalksEntries /\ FlagAgrees /\ MisuseContained

-----------------------------------------------------------------------------
(* Types *)

\* The rules that go in are good ones, so the paths they leave in the pool
\* are path lists.
LEMMA GoodPaths ==
    ASSUME NEW af, NEW rules \in RuleList, NEW Q \in SUBSET Good(rules, af)
    PROVE  {rules[j].path : j \in Q} \subseteq Hop
<1>. SUFFICES ASSUME NEW j \in Q PROVE rules[j].path \in Hop
  OBVIOUS
<1>1. j \in DOMAIN rules /\ DOMAIN rules \subseteq Nat \ {0}
  BY DEF Good, RuleList
<1>2. rules[j] \in Rule
  BY <1>1 DEF RuleList
<1>3. j \in 1..j
  BY <1>1
<1>4. ~Bad(rules[j], af)
  BY <1>3 DEF Good
<1>. QED BY <1>2, <1>4 DEF Bad, Rule

LEMMA AddRulesInstalls ==
    ASSUME NEW t, NEW cls, NEW af, NEW rules \in RuleList,
           AddRules(t, cls, af, rules)
    PROVE  \E m \in [Dst -> Hop \cup {NONE}] :
              /\ cls[t] # "free" => Installs(m, rules, Good(rules, af))
              /\ redirect' = [redirect EXCEPT ![t] = m]
              /\ session' = [session EXCEPT ![t] =
                    [d \in Dst |-> IF m[d] = NONE \/ cls[t] = "free"
                                     THEN NONE ELSE fwd[m[d]]]]
<1>. DEFINE P == Good(rules, af)
            Q == IF cls[t] = "free" THEN P \cap {1} ELSE P
<1>1. {rules[j].path : j \in Q} \subseteq Hop
  BY GoodPaths
<1>2. [Dst -> {rules[j].path : j \in Q} \cup {NONE}] \subseteq [Dst -> Hop \cup {NONE}]
  BY <1>1
<1>3. PICK m \in [Dst -> {rules[j].path : j \in Q} \cup {NONE}] :
              /\ Installs(m, rules, Q)
              /\ redirect' = [redirect EXCEPT ![t] = m]
              /\ session' = [session EXCEPT ![t] =
                    [d \in Dst |-> IF m[d] = NONE \/ cls[t] = "free"
                                     THEN NONE ELSE fwd[m[d]]]]
  BY Zenon DEF AddRules
<1>. QED BY <1>2, <1>3, Zenon

\* The same for a table that exists: all the good rules have a session.
LEMMA AddRulesToLive ==
    ASSUME NEW t, NEW cls, NEW af, NEW rules \in RuleList, cls[t] # "free",
           AddRules(t, cls, af, rules)
    PROVE  \E m \in [Dst -> Hop \cup {NONE}] :
              /\ Installs(m, rules, Good(rules, af))
              /\ redirect' = [redirect EXCEPT ![t] = m]
              /\ session' = [session EXCEPT ![t] =
                    [d \in Dst |-> IF m[d] = NONE THEN NONE ELSE fwd[m[d]]]]
<1>1. PICK m \in [Dst -> Hop \cup {NONE}] :
         /\ cls[t] # "free" => Installs(m, rules, Good(rules, af))
         /\ redirect' = [redirect EXCEPT ![t] = m]
         /\ session' = [session EXCEPT ![t] =
               [d \in Dst |-> IF m[d] = NONE \/ cls[t] = "free"
                                THEN NONE ELSE fwd[m[d]]]]
  BY AddRulesInstalls
<1>2. session' = [session EXCEPT ![t] =
         [d \in Dst |-> IF m[d] = NONE THEN NONE ELSE fwd[m[d]]]]
  BY <1>1, Zenon
<1>. QED BY <1>1, <1>2, Zenon

\* The three variables Update assigns keep their types.
LEMMA UpdateType ==
    ASSUME TypeOK, NEW t \in Table, NEW af \in Af, NEW rules \in RuleList,
           NEW cls, NEW afs, Update(t, cls, afs, af, rules)
    PROVE  /\ redirect' \in [Table -> [Dst -> Hop \cup {NONE}]]
           /\ session' \in [Table -> [Dst -> Dpo \cup {NONE}]]
           /\ walk' \subseteq Table \X Dst
           /\ rv' \in Errors \cup {"none", "ok"}
<1>1. CASE UNCHANGED <<redirect, session, walk>> /\ rv' = "INVALID_VALUE_2"
  BY <1>1 DEF TypeOK, Errors
<1>2. CASE ClearFails(t, cls)
  BY <1>2 DEF TypeOK, ClearFails, Errors
<1>3. CASE AddRules(t, cls, af, rules)
  <2>1. PICK m \in [Dst -> Hop \cup {NONE}] :
           /\ redirect' = [redirect EXCEPT ![t] = m]
           /\ session' = [session EXCEPT ![t] =
                 [d \in Dst |-> IF m[d] = NONE \/ cls[t] = "free"
                                  THEN NONE ELSE fwd[m[d]]]]
    BY <1>3, AddRulesInstalls
  <2>2. walk' = walk \ ({t} \X Dst)
    BY <1>3 DEF AddRules
  <2>3. rv' \in {"NO_SUCH_TABLE", "ok", "BAD_RULE"}
    BY <1>3 DEF AddRules
  <2>. QED BY <2>1, <2>2, <2>3 DEF TypeOK, Errors
<1>. QED BY <1>1, <1>2, <1>3 DEF Update

\* Types are kept.  A back-walk stacks what the entry's path list contributes,
\* so this needs the entry to be there.
LEMMA NextType == TypeOK /\ WalksEntries /\ [Next]_vars => TypeOK'
<1>. SUFFICES ASSUME TypeOK, WalksEntries, [Next]_vars PROVE TypeOK'
  OBVIOUS
<1>1. ASSUME NEW t \in Table, NEW af \in Af, NEW rules \in RuleList,
             AddAcl(t, af, rules)
      PROVE  TypeOK'
  <2>1. Update(t, classify', table_af', af, rules)
    BY <1>1 DEF AddAcl
  <2>2. /\ redirect' \in [Table -> [Dst -> Hop \cup {NONE}]]
        /\ session' \in [Table -> [Dst -> Dpo \cup {NONE}]]
        /\ walk' \subseteq Table \X Dst
        /\ rv' \in Errors \cup {"none", "ok"}
    BY <2>1, UpdateType
  <2>. QED BY <1>1, <2>2, Zenon DEF AddAcl, TypeOK
<1>2. ASSUME NEW t \in Table, NEW af \in Af, NEW rules \in RuleList,
             ReplaceAcl(t, af, rules)
      PROVE  TypeOK'
  <2>1. Update(t, classify, table_af, af, rules)
    BY <1>2 DEF ReplaceAcl
  <2>2. /\ redirect' \in [Table -> [Dst -> Hop \cup {NONE}]]
        /\ session' \in [Table -> [Dst -> Dpo \cup {NONE}]]
        /\ walk' \subseteq Table \X Dst
        /\ rv' \in Errors \cup {"none", "ok"}
    BY <2>1, UpdateType
  <2>. QED BY <1>2, <2>2 DEF ReplaceAcl, NoteMisuse, TypeOK
<1>3. CASE Malformed
  BY <1>3 DEF Malformed, TypeOK, Errors, config
<1>4. ASSUME NEW t \in Table, DelAcl(t) PROVE TypeOK'
  <2>1. CASE UNCHANGED <<classify, table_af, redirect, session, walk>>
             /\ rv' = "RSRC_IN_USE"
    BY <1>4, <2>1 DEF DelAcl, NoteMisuse, TypeOK, Errors
  <2>2. CASE ClearFails(t, classify) /\ UNCHANGED <<classify, table_af>>
    <3>1. PICK D \in SUBSET Dst :
             /\ redirect' = [redirect EXCEPT ![t] =
                               [d \in Dst |-> IF d \in D THEN NONE ELSE @[d]]]
             /\ session' = [session EXCEPT ![t] =
                               [d \in Dst |-> IF d \in D THEN NONE ELSE @[d]]]
             /\ walk' = walk \ ({t} \X D)
             /\ rv' = "CLEAR_FAILED"
      BY <2>2, Zenon DEF ClearFails, Entries
    <3>. QED BY <1>4, <2>2, <3>1 DEF DelAcl, NoteMisuse, TypeOK, Errors
  <2>3. CASE /\ redirect' = [redirect EXCEPT ![t] = NoEntry]
             /\ session' = [session EXCEPT ![t] = NoEntry]
             /\ walk' = walk \ ({t} \X Dst)
             /\ classify' = [classify EXCEPT ![t] = "free"]
             /\ table_af' = [table_af EXCEPT ![t] = FreshFlag]
             /\ rv' = "ok"
    <3>1. NoEntry \in [Dst -> Hop \cup {NONE}] /\ NoEntry \in [Dst -> Dpo \cup {NONE}]
      BY DEF NoEntry
    <3>2. FreshFlag \in Af
      BY DEF Af, FreshFlag
    <3>. QED BY <1>4, <2>3, <3>1, <3>2 DEF DelAcl, NoteMisuse, TypeOK
  <2>. QED BY <1>4, <2>1, <2>2, <2>3 DEF DelAcl
<1>5. ASSUME NEW t \in Table, ForeignAlloc(t) \/ ForeignFree(t) PROVE TypeOK'
  <2>1. NoEntry \in [Dst -> Dpo \cup {NONE}]
    BY DEF NoEntry
  <2>2. CASE ForeignAlloc(t)
    BY <2>2 DEF ForeignAlloc, TypeOK
  <2>3. CASE ForeignFree(t)
    <3>1. session' \in [Table -> [Dst -> Dpo \cup {NONE}]]
      BY <2>1, <2>3 DEF ForeignFree, TypeOK
    <3>2. classify' \in [Table -> Af \cup {"free", "foreign"}]
      BY <2>3 DEF ForeignFree, TypeOK
    <3>. QED BY <2>3, <3>1, <3>2 DEF ForeignFree, TypeOK
  <2>. QED BY <1>5, <2>2, <2>3
<1>6. ASSUME NEW s \in SwIf, NEW t \in Table, Attach(s, t) PROVE TypeOK'
  <2>0. [slot EXCEPT ![s][table_af[t]] = t] \in [SwIf -> [Af -> Table \cup {NONE}]]
    BY DEF TypeOK
  <2>1. slot' \in [SwIf -> [Af -> Table \cup {NONE}]] /\ enabled' \subseteq SwIf
    BY <1>6, <2>0, ZenonT(40) DEF Attach, TypeOK
  <2>2. rv' \in Errors \cup {"ok"}
    BY <1>6 DEF Attach, Errors
  <2>. QED BY <1>6, <2>1, <2>2 DEF Attach, NoteMisuse, TypeOK
<1>7. ASSUME NEW s \in SwIf, NEW t \in Table, Detach(s, t) PROVE TypeOK'
  <2>0. [slot EXCEPT ![s][table_af[t]] = NONE] \in [SwIf -> [Af -> Table \cup {NONE}]]
    BY DEF TypeOK
  <2>1. slot' \in [SwIf -> [Af -> Table \cup {NONE}]] /\ enabled' \subseteq SwIf
    BY <1>7, <2>0 DEF Detach, TypeOK
  <2>2. rv' \in Errors \cup {"ok"}
    BY <1>7 DEF Detach, Errors
  <2>. QED BY <1>7, <2>1, <2>2 DEF Detach, TypeOK
<1>8. ASSUME NEW s \in SwIf, IfCreate(s) \/ IfDelete(s) PROVE TypeOK'
  BY <1>8 DEF IfCreate, IfDelete, TypeOK, config
<1>9. ASSUME NEW h \in Hop, NEW p \in Dpo, PathChange(h, p) PROVE TypeOK'
  BY <1>9 DEF PathChange, TypeOK, config
<1>10. ASSUME NEW t \in Table, NEW d \in Dst, BackWalk(t, d) PROVE TypeOK'
  <2>1. fwd[redirect[t][d]] \in Dpo
    BY <1>10 DEF BackWalk, TypeOK, WalksEntries
  <2>. QED BY <1>10, <2>1 DEF BackWalk, TypeOK, config
<1>11. CASE UNCHANGED vars
  BY <1>11 DEF vars, config, TypeOK
<1>. QED BY <1>1, <1>2, <1>3, <1>4, <1>5, <1>6, <1>7, <1>8, <1>9, <1>10, <1>11
         DEF Next

\* What the replacement of a table's entries does to the pending visits.
LEMMA UpdateWalks ==
    ASSUME TypeOK, WalksEntries, NEW t \in Table, NEW af \in Af,
           NEW rules \in RuleList, NEW cls, NEW afs,
           Update(t, cls, afs, af, rules)
    PROVE  WalksEntries'
<1>1. CASE UNCHANGED <<redirect, session, walk>>
  BY <1>1 DEF WalksEntries
<1>2. CASE ClearFails(t, cls)
  <2>1. PICK D \in SUBSET Dst :
           /\ redirect' = [redirect EXCEPT ![t] =
                             [d \in Dst |-> IF d \in D THEN NONE ELSE @[d]]]
           /\ walk' = walk \ ({t} \X D)
    BY <1>2, ZenonT(40) DEF ClearFails, Entries
  <2>. QED BY <2>1 DEF TypeOK, WalksEntries
<1>3. CASE AddRules(t, cls, af, rules)
  <2>1. PICK m \in [Dst -> Hop \cup {NONE}] :
           redirect' = [redirect EXCEPT ![t] = m]
    BY <1>3, AddRulesInstalls, SMTT(40)
  <2>2. walk' = walk \ ({t} \X Dst)
    BY <1>3, SMTT(40) DEF AddRules
  <2>. QED BY <2>1, <2>2, SMTT(40) DEF TypeOK, WalksEntries
<1>. QED BY <1>1, <1>2, <1>3 DEF Update

LEMMA NextWalks == TypeOK /\ WalksEntries /\ [Next]_vars => WalksEntries'
<1>. SUFFICES ASSUME TypeOK, WalksEntries, [Next]_vars PROVE WalksEntries'
  BY SMTT(40)
<1>1. ASSUME NEW t \in Table, NEW af \in Af, NEW rules \in RuleList,
             AddAcl(t, af, rules) \/ ReplaceAcl(t, af, rules)
      PROVE  WalksEntries'
  BY <1>1, UpdateWalks, Zenon DEF AddAcl, ReplaceAcl
<1>2. ASSUME NEW t \in Table, DelAcl(t) PROVE WalksEntries'
  <2>1. CASE UNCHANGED <<redirect, walk>>
    BY <2>1 DEF WalksEntries
  <2>2. CASE ClearFails(t, classify)
    <3>1. PICK D \in SUBSET Dst :
             /\ redirect' = [redirect EXCEPT ![t] =
                               [d \in Dst |-> IF d \in D THEN NONE ELSE @[d]]]
             /\ walk' = walk \ ({t} \X D)
      BY <2>2, Zenon DEF ClearFails, Entries
    <3>. QED BY <3>1 DEF TypeOK, WalksEntries
  <2>3. CASE /\ redirect' = [redirect EXCEPT ![t] = NoEntry]
             /\ walk' = walk \ ({t} \X Dst)
    BY <2>3 DEF TypeOK, WalksEntries
  <2>. QED BY <1>2, <2>1, <2>2, <2>3 DEF DelAcl
<1>3. ASSUME NEW h \in Hop, NEW p \in Dpo, PathChange(h, p)
      PROVE  WalksEntries'
  BY <1>3, TuntermAssumption DEF PathChange, config, WalksEntries
<1>4. ASSUME NEW t \in Table, NEW d \in Dst, BackWalk(t, d)
      PROVE  WalksEntries'
  BY <1>4 DEF BackWalk, config, WalksEntries
<1>5. CASE UNCHANGED <<redirect, walk>>
  BY <1>5 DEF WalksEntries
<1>. QED BY <1>1, <1>2, <1>3, <1>4, <1>5
         DEF Next, Malformed, Attach, Detach, IfCreate, IfDelete,
             ForeignAlloc, ForeignFree, vars, config

\* Every variable keeps its type, whatever the client does (TypeOK).
THEOREM TypeCorrect == Spec => [](TypeOK /\ WalksEntries)
<1>1. Init => TypeOK /\ WalksEntries
  BY DEF Init, TypeOK, WalksEntries, NoEntry, FreshFlag, Af
<1>2. TypeOK /\ WalksEntries /\ [Next]_vars => (TypeOK /\ WalksEntries)'
  BY NextType, NextWalks
<1>. QED BY <1>1, <1>2, PTL DEF Spec

-----------------------------------------------------------------------------
(* What holds whatever the client does *)

\* The feature is never on without an ACL in a slot (FeatureImpliesAttached):
\* the interface handler enables it only as it fills a slot, and leaves it on
\* after a detach only if both slots were filled.
THEOREM FeatureNeedsAcl == Spec => []FeatureImpliesAttached
<1>1. Init => FeatureImpliesAttached
  BY DEF Init, FeatureImpliesAttached
<1>2. TypeOK /\ FeatureImpliesAttached /\ [Next]_vars => FeatureImpliesAttached'
  <2>. SUFFICES ASSUME TypeOK, FeatureImpliesAttached, [Next]_vars
                PROVE  FeatureImpliesAttached'
    OBVIOUS
  <2>1. ASSUME NEW s \in SwIf, NEW t \in Table, Attach(s, t)
        PROVE  FeatureImpliesAttached'
    <3>1. CASE UNCHANGED <<slot, enabled>>
      BY <3>1 DEF FeatureImpliesAttached
    <3>2. CASE /\ slot' = [slot EXCEPT ![s][table_af[t]] = t]
               /\ enabled' = enabled \cup {s}
      <4>1. slot'[s][table_af[t]] = t /\ table_af[t] \in Af /\ t # NONE
        BY <3>2, TuntermAssumption DEF TypeOK
      <4>2. \A r \in SwIf \ {s} : slot'[r] = slot[r]
        BY <3>2 DEF TypeOK
      <4>. QED BY <3>2, <4>1, <4>2 DEF FeatureImpliesAttached, TypeOK
    <3>. QED BY <2>1, <3>1, <3>2 DEF Attach
  <2>2. ASSUME NEW s \in SwIf, NEW t \in Table, Detach(s, t)
        PROVE  FeatureImpliesAttached'
    <3>1. CASE UNCHANGED <<slot, enabled>>
      BY <3>1 DEF FeatureImpliesAttached
    <3>2. CASE /\ enabled' = IF StaysEnabled(s) THEN enabled ELSE enabled \ {s}
               /\ slot' = [slot EXCEPT ![s][table_af[t]] = NONE]
      <4>1. \A r \in SwIf \ {s} : slot'[r] = slot[r]
        BY <3>2 DEF TypeOK
      <4>2. \A a \in Af : a # table_af[t] => slot'[s][a] = slot[s][a]
        BY <3>2 DEF TypeOK
      <4>3. PICK b \in Af : b # table_af[t]
        BY DEF Af
      <4>4. s \in enabled' => slot'[s][b] # NONE
        BY <3>2, <4>2, <4>3 DEF StaysEnabled
      <4>. QED BY <3>2, <4>1, <4>4 DEF FeatureImpliesAttached, TypeOK
    <3>. QED BY <2>2, <3>1, <3>2 DEF Detach
  <2>3. CASE slot' = slot /\ enabled' \subseteq enabled
    BY <2>3 DEF FeatureImpliesAttached
  <2>. QED BY <2>1, <2>2, <2>3, ZenonT(40)
           DEF Next, AddAcl, ReplaceAcl, Malformed, DelAcl, IfCreate, IfDelete,
               ForeignAlloc, ForeignFree, PathChange, BackWalk, vars, config
<1>. QED BY <1>1, <1>2, TypeCorrect, PTL DEF Spec

\* The plugin stays out of the tables of other classifier users as long as
\* their index was never its own: no entry, no session, no slot and no pending
\* visit, whatever indices a client repeats.
OthersUntouched ==
    \A t \in Table \ given :
        /\ redirect[t] = NoEntry /\ session[t] = NoEntry
        /\ \A s \in SwIf, a \in Af : slot[s][a] # t
        /\ \A d \in Dst : <<t, d>> \notin walk

\* Every tunterm table was handed out.
OwnGiven == \A t \in Table : classify[t] \in Af => t \in given

LEMMA NamesGiven == ASSUME TypeOK, OwnGiven, NEW t \in Table, Names(t) PROVE t \in given
BY SMTT(40) DEF OwnGiven, Names

\* An update touches the entries and sessions of its own table only.
LEMMA UpdateLocal ==
    ASSUME TypeOK, NEW t \in Table, NEW af \in Af, NEW rules \in RuleList,
           NEW cls, NEW afs, Update(t, cls, afs, af, rules)
    PROVE  /\ \A u \in Table \ {t} : redirect'[u] = redirect[u] /\ session'[u] = session[u]
           /\ walk' \subseteq walk
           /\ \A u \in Table \ {t}, d \in Dst : <<u, d>> \in walk => <<u, d>> \in walk'
<1>1. CASE UNCHANGED <<redirect, session, walk>>
  BY <1>1
<1>2. CASE ClearFails(t, cls)
  BY <1>2, SMTT(40) DEF ClearFails, TypeOK
<1>3. CASE AddRules(t, cls, af, rules)
  <2>1. PICK m \in [Dst -> Hop \cup {NONE}] :
           /\ redirect' = [redirect EXCEPT ![t] = m]
           /\ session' = [session EXCEPT ![t] =
                 [d \in Dst |-> IF m[d] = NONE \/ cls[t] = "free"
                                  THEN NONE ELSE fwd[m[d]]]]
    BY <1>3, AddRulesInstalls
  <2>2. walk' = walk \ ({t} \X Dst)
    BY <1>3, SMTT(40) DEF AddRules
  <2>. QED BY <2>1, <2>2, SMTT(40) DEF TypeOK
<1>. QED BY <1>1, <1>2, <1>3 DEF Update

\* A step that gives or changes nothing outside given keeps OthersUntouched.
LEMMA UntouchedKept ==
    ASSUME OthersUntouched, given \subseteq given', walk' \subseteq walk,
           \A u \in Table \ given' : redirect'[u] = redirect[u] /\ session'[u] = session[u],
           \A s \in SwIf, a \in Af : slot'[s][a] \in {slot[s][a], NONE} \cup given'
    PROVE  OthersUntouched'
<1>. SUFFICES ASSUME NEW t \in Table \ given'
              PROVE  /\ redirect'[t] = NoEntry /\ session'[t] = NoEntry
                     /\ \A s \in SwIf, a \in Af : slot'[s][a] # t
                     /\ \A d \in Dst : <<t, d>> \notin walk'
  BY DEF OthersUntouched, NoEntry
<1>1. t \in Table \ given /\ t # NONE
  BY TuntermAssumption
<1>. QED BY <1>1, SMTT(40) DEF OthersUntouched

LEMMA UntouchedNext ==
    ASSUME TypeOK, OthersUntouched, OwnGiven, [Next]_vars
    PROVE  OthersUntouched' /\ OwnGiven'
<1>0. "free" \notin Af /\ "foreign" \notin Af
  BY DEF Af
<1>1. ASSUME NEW t \in Table, NEW af \in Af, NEW rules \in RuleList, AddAcl(t, af, rules)
      PROVE  OthersUntouched' /\ OwnGiven'
  <2>1. PICK cls, afs : Update(t, cls, afs, af, rules)
    BY <1>1, Zenon DEF AddAcl
  <2>2. /\ given' = given \cup {t} /\ slot' = slot
        /\ classify' = [classify EXCEPT ![t] = af]
    BY <1>1 DEF AddAcl
  <2>3. OthersUntouched'
    BY <2>1, <2>2, UpdateLocal, UntouchedKept
  <2>4. OwnGiven'
    BY <2>2 DEF OwnGiven, TypeOK
  <2>. QED BY <2>3, <2>4
<1>2. ASSUME NEW t \in Table, NEW af \in Af, NEW rules \in RuleList, ReplaceAcl(t, af, rules)
      PROVE  OthersUntouched' /\ OwnGiven'
  <2>1. /\ Update(t, classify, table_af, af, rules) /\ t \in given
        /\ UNCHANGED <<given, slot, classify>>
    BY <1>2, NamesGiven DEF ReplaceAcl
  <2>2. OthersUntouched'
    BY <2>1, UpdateLocal, UntouchedKept
  <2>. QED BY <2>1, <2>2 DEF OwnGiven
<1>3. ASSUME NEW t \in Table, DelAcl(t)
      PROVE  OthersUntouched' /\ OwnGiven'
  <2>1. t \in given /\ given' = given /\ slot' = slot
    BY <1>3, NamesGiven DEF DelAcl
  <2>2. /\ \A u \in Table \ {t} : redirect'[u] = redirect[u] /\ session'[u] = session[u]
        /\ walk' \subseteq walk
    BY <1>3 DEF DelAcl, ClearFails, TypeOK
  <2>3. OthersUntouched'
    BY <2>1, <2>2, UntouchedKept
  <2>4. OwnGiven'
    BY <1>0, <1>3, <2>1, Zenon DEF DelAcl, OwnGiven, TypeOK
  <2>. QED BY <2>3, <2>4
<1>4. ASSUME NEW t \in Table, ForeignAlloc(t) \/ ForeignFree(t)
      PROVE  OthersUntouched' /\ OwnGiven'
  <2>1. /\ UNCHANGED <<given, slot, redirect, walk>>
        /\ session' = session \/ session' = [session EXCEPT ![t] = NoEntry]
    BY <1>4 DEF ForeignAlloc, ForeignFree
  <2>2. \A u \in Table \ given : session'[u] = session[u]
    BY <2>1, ZenonT(40) DEF OthersUntouched, TypeOK
  <2>3. OthersUntouched'
    BY <2>1, <2>2, UntouchedKept
  <2>4. OwnGiven'
    BY <1>0, <1>4 DEF ForeignAlloc, ForeignFree, OwnGiven, TypeOK
  <2>. QED BY <2>3, <2>4
<1>5. ASSUME NEW s \in SwIf, NEW t \in Table, Attach(s, t) \/ Detach(s, t)
      PROVE  OthersUntouched' /\ OwnGiven'
  <2>1. /\ t \in given /\ table_af[t] \in Af
        /\ UNCHANGED <<classify, given, redirect, session, walk>>
    BY <1>5, NamesGiven DEF Attach, Detach, TypeOK
  <2>2. \/ slot' = slot
        \/ \E x \in {t, NONE} : slot' = [slot EXCEPT ![s][table_af[t]] = x]
    BY <1>5 DEF Attach, Detach
  <2>3. \A r \in SwIf, a \in Af : slot'[r][a] \in {slot[r][a], NONE} \cup given
    <3>1. CASE slot' = slot
      BY <3>1
    <3>2. ASSUME NEW x \in {t, NONE}, slot' = [slot EXCEPT ![s][table_af[t]] = x]
          PROVE  \A r \in SwIf, a \in Af : slot'[r][a] \in {slot[r][a], x}
      BY <2>1, <3>2 DEF TypeOK
    <3>. QED BY <2>1, <2>2, <3>1, <3>2
  <2>4. OthersUntouched'
    BY <2>1, <2>3, UntouchedKept
  <2>. QED BY <2>1, <2>4 DEF OwnGiven
<1>6. ASSUME NEW h \in Hop, NEW p \in Dpo, PathChange(h, p)
      PROVE  OthersUntouched' /\ OwnGiven'
  <2>1. /\ UNCHANGED <<classify, given, slot, redirect, session>>
        /\ walk' = walk \cup {w \in Table \X Dst : redirect[w[1]][w[2]] = h}
    BY <1>6 DEF PathChange, config
  <2>2. \A t \in Table \ given, d \in Dst : redirect[t][d] # h
    BY TuntermAssumption DEF OthersUntouched, NoEntry
  <2>3. OthersUntouched'
    BY <2>1, <2>2 DEF OthersUntouched, NoEntry
  <2>. QED BY <2>1, <2>3 DEF OwnGiven
<1>7. ASSUME NEW t \in Table, NEW d \in Dst, BackWalk(t, d)
      PROVE  OthersUntouched' /\ OwnGiven'
  <2>1. /\ UNCHANGED <<classify, given, slot, redirect>> /\ walk' \subseteq walk
        /\ t \in given
        /\ \A u \in Table \ {t} : session'[u] = session[u]
    BY <1>7 DEF BackWalk, config, OthersUntouched, TypeOK
  <2>2. OthersUntouched'
    BY <2>1, UntouchedKept
  <2>. QED BY <2>1, <2>2 DEF OwnGiven
<1>8. CASE UNCHANGED <<classify, given, slot, redirect, session, walk>>
  BY <1>8 DEF OthersUntouched, OwnGiven, NoEntry
<1>. QED BY <1>1, <1>2, <1>3, <1>4, <1>5, <1>6, <1>7, <1>8, ZenonT(40)
         DEF Next, Malformed, IfCreate, IfDelete, vars, config

\* A table whose index the plugin never handed out is never touched by it,
\* even for a client that repeats deleted indices (OthersUntouched).
THEOREM OthersSafe == Spec => []OthersUntouched
<1>1. Init => OthersUntouched /\ OwnGiven
  BY TuntermAssumption DEF Init, OthersUntouched, OwnGiven, NoEntry, Af
<1>2. TypeOK /\ OthersUntouched /\ OwnGiven /\ [Next]_vars => OthersUntouched' /\ OwnGiven'
  BY UntouchedNext
<1>. QED BY <1>1, <1>2, TypeCorrect, PTL DEF Spec

-----------------------------------------------------------------------------
(* A table whose index is never misused                                    *)

\* A step that leaves an index alone leaves it sound.
LEMMA FrameSound ==
    ASSUME NEW u \in Table, Sound(u), fwd' = fwd,
           redirect'[u] = redirect[u], session'[u] = session[u],
           classify'[u] = classify[u],
           \A d \in Dst : <<u, d>> \in walk => <<u, d>> \in walk',
           \A s \in SwIf, a \in Af : slot'[s][a] = u => slot[s][a] = u
    PROVE  Sound(u)'
<1>1. Owned(u)'
  BY DEF Sound, Owned
<1>2. Mirrored(u)'
  BY ZenonT(40) DEF Sound, Mirrored
<1>3. \A s \in SwIf, a \in Af : slot'[s][a] = u => classify'[u] = a
  BY DEF Sound
<1>. QED BY <1>1, <1>2, <1>3 DEF Sound

\* An index without entries, sessions and slots is sound.
LEMMA EmptySound ==
    ASSUME NEW u \in Table,
           \A d \in Dst : redirect'[u][d] = NONE /\ session'[u][d] = NONE,
           \A s \in SwIf, a \in Af : slot'[s][a] # u
    PROVE  Sound(u)'
BY DEF Sound, Owned, Mirrored

\* An index that holds no tunterm table has none of the three.
LEMMA SoundEmpty ==
    ASSUME NEW u \in Table, Sound(u), classify[u] \notin Af
    PROVE  /\ \A d \in Dst : redirect[u][d] = NONE /\ session[u][d] = NONE
           /\ \A s \in SwIf, a \in Af : slot[s][a] # u
<1>1. \A d \in Dst : redirect[u][d] = NONE
  BY DEF Sound, Owned, AfOf, Af
<1>2. \A d \in Dst : session[u][d] = NONE
  BY <1>1, ZenonT(40) DEF Sound, Mirrored
<1>. QED BY <1>1, <1>2 DEF Sound

\* Where entries and sessions mirror each other a clear does not fail.
LEMMA SoundClears ==
    ASSUME NEW u \in Table, Mirrored(u), NEW cls, cls[u] # "free"
    PROVE  Clearable(u, cls)
BY ZenonT(40) DEF Clearable, Entries, Deletable, Mirrored

\* The rules of a request replace entries and sessions by others that fit.
LEMMA UpdateSound ==
    ASSUME TypeOK, TypeOK',
           NEW t \in Table, NEW af \in Af, NEW rules \in RuleList,
           Sound(t), slot' = slot, fwd' = fwd,
           classify'[t] \in Af, table_af'[t] = classify'[t],
           classify[t] \in {"free", classify'[t]},
           Update(t, classify', table_af', af, rules)
    PROVE  Sound(t)'
<1>0. "free" \notin Af
  BY DEF Af
<1>1. Clearable(t, classify')
  <2>1. PICK cls : cls = classify'
    OBVIOUS
  <2>2. cls[t] # "free" /\ Mirrored(t)
    BY <1>0, <2>1 DEF Sound
  <2>3. Clearable(t, cls)
    BY <2>2, SoundClears
  <2>. QED BY <2>1, <2>3
<1>2. \A s \in SwIf, a \in Af : slot'[s][a] = t => classify'[t] = a
  BY <1>0 DEF Sound
<1>3. CASE UNCHANGED <<redirect, session, walk>>
  <2>1. Owned(t)'
    <3>. SUFFICES ASSUME NEW d \in Dst, redirect[t][d] # NONE
                  PROVE  classify'[t] = AfOf(d)
      BY <1>3 DEF Owned
    <3>1. classify[t] = AfOf(d) /\ AfOf(d) # "free"
      BY DEF Sound, Owned, AfOf
    <3>. QED BY <3>1
  <2>2. Mirrored(t)'
    BY <1>3 DEF Sound, Mirrored
  <2>. QED BY <1>2, <2>1, <2>2 DEF Sound
<1>4. CASE (rules = <<>> \/ table_af'[t] = af) /\ AddRules(t, classify', af, rules)
  <2>1. PICK m \in [Dst -> Hop \cup {NONE}] :
           /\ Installs(m, rules, Good(rules, af))
           /\ redirect' = [redirect EXCEPT ![t] = m]
           /\ session' = [session EXCEPT ![t] =
                 [d \in Dst |-> IF m[d] = NONE THEN NONE ELSE fwd[m[d]]]]
    <3>1. PICK cls : cls = classify'
      OBVIOUS
    <3>2. cls[t] # "free" /\ AddRules(t, cls, af, rules)
      BY <1>0, <1>4, <3>1, SMTT(40)
    <3>. QED BY ONLY <3>2, rules \in RuleList, AddRulesToLive
  <2>2. \A d \in Dst : m[d] # NONE => AfOf(d) = classify'[t]
    <3>. SUFFICES ASSUME NEW d \in Dst, m[d] # NONE PROVE AfOf(d) = classify'[t]
      BY SMTT(40)
    <3>1. PICK j \in Good(rules, af) : rules[j].dst = d
      BY <2>1 DEF Installs
    <3>2. j \in DOMAIN rules /\ DOMAIN rules \subseteq Nat \ {0}
      BY <3>1 DEF Good, RuleList
    <3>3. j \in 1..j
      BY <3>2
    <3>4. ~Bad(rules[j], af)
      BY <3>1, <3>3 DEF Good
    <3>5. AfOf(d) = af
      BY <3>1, <3>4 DEF Bad
    <3>6. rules # <<>>
      BY <3>2, SMTT(40)
    <3>. QED BY <1>4, <3>5, <3>6, SMTT(40)
  <2>3. /\ redirect'[t] = m
        /\ \A d \in Dst : session'[t][d] = IF m[d] = NONE THEN NONE ELSE fwd[m[d]]
    BY <2>1, SMTT(40) DEF TypeOK
  <2>4. Owned(t)'
    BY <2>2, <2>3, ZenonT(40) DEF Owned
  <2>5. Mirrored(t)'
    <3>. SUFFICES ASSUME NEW d \in Dst
                  PROVE  \/ redirect'[t][d] = NONE /\ session'[t][d] = NONE
                         \/ /\ redirect'[t][d] # NONE
                            /\ session'[t][d] # NONE
                            /\ \/ session'[t][d] = fwd'[redirect'[t][d]]
                               \/ <<t, d>> \in walk'
      BY ZenonT(40) DEF Mirrored
    <3>1. m[d] # NONE => fwd[m[d]] \in Dpo
      BY DEF TypeOK
    <3>2. /\ redirect'[t][d] = m[d]
          /\ session'[t][d] = IF m[d] = NONE THEN NONE ELSE fwd[m[d]]
      BY ONLY <2>3, d \in Dst, SMTT(40)
    <3>3. fwd' = fwd /\ NONE \notin Dpo
      BY TuntermAssumption, Zenon
    <3>. QED BY ONLY <3>1, <3>2, <3>3
  <2>. QED BY <1>2, <2>4, <2>5 DEF Sound
<1>. QED BY <1>1, <1>3, <1>4 DEF Update, ClearFails

\* The flag is written with the table it describes, and a table of the plugin
\* is made nowhere else.
LEMMA FlagNext == ASSUME TypeOK, FlagAgrees, [Next]_vars PROVE FlagAgrees'
<1>0. "free" \notin Af /\ "foreign" \notin Af
  BY DEF Af
<1>1. ASSUME NEW t \in Table, NEW af \in Af, NEW rules \in RuleList, AddAcl(t, af, rules)
      PROVE  FlagAgrees'
  BY <1>1 DEF AddAcl, FlagAgrees, TypeOK
<1>2. ASSUME NEW t \in Table, DelAcl(t) PROVE FlagAgrees'
  <2>1. CASE UNCHANGED <<classify, table_af>>
    BY <2>1 DEF FlagAgrees
  <2>2. CASE /\ classify' = [classify EXCEPT ![t] = "free"]
             /\ table_af' = [table_af EXCEPT ![t] = FreshFlag]
    BY <1>0, <2>2 DEF FlagAgrees, TypeOK
  <2>. QED BY <1>2, <2>1, <2>2 DEF DelAcl
<1>3. ASSUME NEW t \in Table, ForeignAlloc(t) \/ ForeignFree(t) PROVE FlagAgrees'
  BY <1>0, <1>3 DEF ForeignAlloc, ForeignFree, FlagAgrees, TypeOK
<1>4. CASE UNCHANGED <<classify, table_af>>
  BY <1>4 DEF FlagAgrees
<1>. QED BY <1>1, <1>2, <1>3, <1>4, ZenonT(40)
         DEF Next, ReplaceAcl, Malformed, Attach, Detach, IfCreate, IfDelete,
             PathChange, BackWalk, vars, config

\* The history only grows, and a request that names an index out of turn is in
\* it at once.
LEMMA MisuseGrows == ASSUME [Next]_vars PROVE misused \subseteq misused'
BY Zenon DEF Next, AddAcl, ReplaceAcl, DelAcl, Malformed, Attach, Detach, IfCreate, IfDelete,
       ForeignAlloc, ForeignFree, PathChange, BackWalk, NoteMisuse, vars, config

LEMMA InTurn == ASSUME NEW t \in Table, NoteMisuse(t), t \notin misused' PROVE classify[t] \in Af
BY DEF NoteMisuse

\* An index that no request named out of turn is sound after the step.
LEMMA NextSound ==
    ASSUME MInv, TypeOK', [Next]_vars, NEW u \in Table \ misused'
    PROVE  Sound(u)'
<1>. USE DEF MInv
<1>0. "free" \notin Af /\ "foreign" \notin Af
  BY DEF Af
<1>s. Sound(u)
  BY MisuseGrows DEF MisuseContained
<1>1. ASSUME NEW t \in Table, NEW af \in Af, NEW rules \in RuleList,
             AddAcl(t, af, rules)
      PROVE  Sound(u)'
  <2>1. /\ classify'[t] = af /\ table_af'[t] = af /\ classify[t] = "free"
        /\ \A v \in Table \ {t} : classify'[v] = classify[v]
        /\ slot' = slot /\ fwd' = fwd /\ Update(t, classify', table_af', af, rules)
    BY <1>1 DEF AddAcl, TypeOK
  <2>2. CASE u = t
    BY <1>s, <2>1, <2>2, UpdateSound, Zenon
  <2>3. CASE u # t
    <3>1. PICK cls, afs : Update(t, cls, afs, af, rules)
      BY <2>1, Zenon
    <3>2. /\ redirect'[u] = redirect[u] /\ session'[u] = session[u]
          /\ \A d \in Dst : <<u, d>> \in walk => <<u, d>> \in walk'
      BY <2>3, <3>1, UpdateLocal, ZenonT(40)
    <3>. QED BY <1>s, <2>1, <2>3, <3>2, FrameSound, ZenonT(40)
  <2>. QED BY <2>2, <2>3
<1>2. ASSUME NEW t \in Table, NEW af \in Af, NEW rules \in RuleList,
             ReplaceAcl(t, af, rules)
      PROVE  Sound(u)'
  <2>1. /\ classify' = classify /\ table_af' = table_af /\ slot' = slot /\ fwd' = fwd
        /\ Update(t, classify, table_af, af, rules)
        /\ NoteMisuse(t)
    BY <1>2 DEF ReplaceAcl
  <2>2. CASE u = t
    <3>1. classify[t] \in Af
      BY <2>1, <2>2, InTurn
    <3>2. table_af[t] = classify[t]
      BY <3>1 DEF FlagAgrees
    <3>3. Update(t, classify', table_af', af, rules)
      BY <2>1
    <3>. QED BY <1>s, <2>1, <2>2, <3>1, <3>2, <3>3, UpdateSound, Zenon
  <2>3. CASE u # t
    <3>1. /\ redirect'[u] = redirect[u] /\ session'[u] = session[u]
          /\ \A d \in Dst : <<u, d>> \in walk => <<u, d>> \in walk'
      BY <2>1, <2>3, UpdateLocal, Zenon
    <3>. QED BY <1>s, <2>1, <3>1, FrameSound
  <2>. QED BY <2>2, <2>3
<1>3. ASSUME NEW t \in Table, DelAcl(t) PROVE Sound(u)'
  <2>1. slot' = slot /\ fwd' = fwd /\ NoteMisuse(t)
    BY <1>3 DEF DelAcl
  <2>2. CASE u = t
    <3>1. classify[t] \in Af
      BY <2>1, <2>2, InTurn
    <3>2. Clearable(t, classify)
      BY <1>0, <1>s, <2>2, <3>1, SoundClears DEF Sound
    <3>3. CASE UNCHANGED <<classify, redirect, session, walk>>
      BY <1>s, <2>1, <3>3, FrameSound, ZenonT(40)
    <3>4. CASE /\ ~Attached(t)
               /\ redirect' = [redirect EXCEPT ![t] = NoEntry]
               /\ session' = [session EXCEPT ![t] = NoEntry]
      <4>1. \A d \in Dst : redirect'[t][d] = NONE /\ session'[t][d] = NONE
        BY <3>4 DEF TypeOK, NoEntry
      <4>2. \A s \in SwIf, a \in Af : slot'[s][a] # t
        BY <2>1, <3>4 DEF Attached
      <4>. QED BY <2>2, <4>1, <4>2, EmptySound
    <3>. QED BY <1>3, <3>2, <3>3, <3>4 DEF DelAcl, ClearFails
  <2>3. CASE u # t
    <3>1. /\ redirect'[u] = redirect[u] /\ session'[u] = session[u]
          /\ classify'[u] = classify[u]
          /\ \A d \in Dst : <<u, d>> \in walk => <<u, d>> \in walk'
      <4>1. CASE ClearFails(t, classify) /\ UNCHANGED <<classify, table_af>>
        BY <2>3, <4>1 DEF ClearFails, TypeOK
      <4>2. CASE UNCHANGED <<classify, table_af, redirect, session, walk>>
        BY <4>2
      <4>3. CASE /\ redirect' = [redirect EXCEPT ![t] = NoEntry]
                 /\ session' = [session EXCEPT ![t] = NoEntry]
                 /\ walk' = walk \ ({t} \X Dst)
                 /\ classify' = [classify EXCEPT ![t] = "free"]
        BY <2>3, <4>3 DEF TypeOK
      <4>. QED BY <1>3, <4>1, <4>2, <4>3, Zenon DEF DelAcl
    <3>. QED BY <1>s, <2>1, <3>1, FrameSound, ZenonT(40)
  <2>. QED BY <2>2, <2>3
<1>4. ASSUME NEW t \in Table, ForeignAlloc(t) \/ ForeignFree(t) PROVE Sound(u)'
  <2>1. /\ UNCHANGED <<slot, redirect, walk, fwd>> /\ classify[t] \notin Af
        /\ session' = session \/ session' = [session EXCEPT ![t] = NoEntry]
        /\ \A v \in Table \ {t} : classify'[v] = classify[v]
    BY <1>0, <1>4 DEF ForeignAlloc, ForeignFree, TypeOK
  <2>2. CASE u = t
    <3>1. /\ \A d \in Dst : redirect[t][d] = NONE /\ session[t][d] = NONE
          /\ \A s \in SwIf, a \in Af : slot[s][a] # t
      BY <1>s, <2>1, <2>2, SoundEmpty
    <3>2. \A d \in Dst : session'[t][d] = NONE
      BY <2>1, <3>1 DEF TypeOK, NoEntry
    <3>. QED BY <2>1, <2>2, <3>1, <3>2, EmptySound
  <2>3. CASE u # t
    <3>1. session'[u] = session[u]
      BY <2>1, <2>3 DEF TypeOK
    <3>. QED BY <1>s, <2>1, <2>3, <3>1, FrameSound, ZenonT(40)
  <2>. QED BY <2>2, <2>3
<1>5. ASSUME NEW s \in SwIf, NEW t \in Table, Attach(s, t) PROVE Sound(u)'
  <2>1. UNCHANGED <<classify, redirect, session, walk, fwd>> /\ NoteMisuse(t)
    BY <1>5 DEF Attach
  <2>2. CASE slot' = slot
    BY <1>s, <2>1, <2>2, FrameSound
  <2>3. CASE slot' = [slot EXCEPT ![s][table_af[t]] = t]
    <3>1. \A r \in SwIf, a \in Af :
             \/ slot'[r][a] = slot[r][a]
             \/ slot'[r][a] = t /\ a = table_af[t]
      BY <2>3 DEF TypeOK
    <3>2. CASE u = t
      <4>1. table_af[t] = classify[t]
        BY <2>1, <3>2, InTurn DEF FlagAgrees
      <4>2. \A r \in SwIf, a \in Af : slot'[r][a] = u => classify'[u] = a
        BY <1>s, <2>1, <3>1, <3>2, <4>1 DEF Sound
      <4>3. Owned(u)' /\ Mirrored(u)'
        BY <1>s, <2>1 DEF Sound, Owned, Mirrored
      <4>. QED BY <4>2, <4>3 DEF Sound
    <3>3. CASE u # t
      BY <1>s, <2>1, <3>1, <3>3, FrameSound, ZenonT(40)
    <3>. QED BY <3>2, <3>3
  <2>. QED BY <1>5, <2>2, <2>3 DEF Attach
<1>6. ASSUME NEW s \in SwIf, NEW t \in Table, Detach(s, t) PROVE Sound(u)'
  <2>1. UNCHANGED <<classify, redirect, session, walk, fwd>>
    BY <1>6 DEF Detach
  <2>2. \A r \in SwIf, a \in Af : slot'[r][a] \in {slot[r][a], NONE}
    <3>1. CASE slot' = slot
      BY <3>1
    <3>2. CASE slot' = [slot EXCEPT ![s][table_af[t]] = NONE]
      BY <3>2 DEF TypeOK
    <3>. QED BY <1>6, <3>1, <3>2 DEF Detach
  <2>3. u # NONE
    BY TuntermAssumption
  <2>. QED BY <1>s, <2>1, <2>2, <2>3, FrameSound, Zenon
<1>7. ASSUME NEW h \in Hop, NEW p \in Dpo, PathChange(h, p) PROVE Sound(u)'
  <2>1. /\ UNCHANGED <<classify, slot, redirect, session>>
        /\ walk' = walk \cup {w \in Table \X Dst : redirect[w[1]][w[2]] = h}
        /\ \A g \in Hop \ {h} : fwd'[g] = fwd[g]
    BY <1>7, SMTT(40) DEF PathChange, config, TypeOK
  <2>2. Mirrored(u)'
    <3>. SUFFICES ASSUME NEW d \in Dst, redirect[u][d] # NONE
                  PROVE  \/ session[u][d] = fwd'[redirect[u][d]]
                         \/ <<u, d>> \in walk'
      BY <1>s, <2>1, ZenonT(40) DEF Sound, Mirrored
    <3>1. redirect[u][d] \in Hop
      BY DEF TypeOK
    <3>. QED BY <1>s, <2>1, <3>1 DEF Sound, Mirrored
  <2>. QED BY <1>s, <2>1, <2>2, ZenonT(40) DEF Sound, Owned
<1>8. ASSUME NEW t \in Table, NEW d \in Dst, BackWalk(t, d) PROVE Sound(u)'
  <2>1. /\ UNCHANGED <<classify, slot, redirect, fwd>> /\ walk' = walk \ {<<t, d>>}
        /\ \/ session' = session
           \/ session' = [session EXCEPT ![t][d] = fwd[redirect[t][d]]]
    BY <1>8 DEF BackWalk, config
  <2>2. CASE u # t
    <3>1. session'[u] = session[u] /\ \A e \in Dst : <<u, e>> \in walk => <<u, e>> \in walk'
      BY <2>1, <2>2 DEF TypeOK
    <3>. QED BY <1>s, <2>1, <3>1, FrameSound
  <2>3. CASE u = t
    <3>1. redirect[t][d] # NONE /\ redirect[t][d] \in Hop
      <4>1. <<t, d>> \in walk
        BY <1>8 DEF BackWalk
      <4>2. redirect[t][d] # NONE
        BY <4>1 DEF WalksEntries
      <4>. QED BY ONLY <4>2, TypeOK, t \in Table, d \in Dst DEF TypeOK
    <3>2. classify[t] # "free"
      BY <1>s, <2>3, <3>1 DEF Sound, Owned, AfOf
    <3>3. session' = [session EXCEPT ![t][d] = fwd[redirect[t][d]]]
      BY <1>8, <3>2 DEF BackWalk
    <3>4. /\ session'[t][d] = fwd[redirect[t][d]]
          /\ \A e \in Dst \ {d} : session'[t][e] = session[t][e]
      BY <3>3 DEF TypeOK
    <3>5. fwd[redirect[t][d]] # NONE
      BY <3>1, TuntermAssumption DEF TypeOK
    <3>6. Mirrored(t)'
      <4>. SUFFICES ASSUME NEW e \in Dst
                    PROVE  \/ redirect[t][e] = NONE /\ session'[t][e] = NONE
                           \/ /\ redirect[t][e] # NONE
                              /\ session'[t][e] # NONE
                              /\ \/ session'[t][e] = fwd[redirect[t][e]]
                                 \/ <<t, e>> \in walk'
        BY <2>1, ZenonT(40) DEF Mirrored
      <4>1. CASE e = d
        BY <3>1, <3>4, <3>5, <4>1, ZenonT(40)
      <4>2. CASE e # d
        <5>1. session'[t][e] = session[t][e] /\ (<<t, e>> \in walk => <<t, e>> \in walk')
          BY <2>1, <3>4, <4>2
        <5>. QED BY <1>s, <2>3, <5>1, ZenonT(40) DEF Sound, Mirrored
      <4>. QED BY <4>1, <4>2
    <3>. QED BY <1>s, <2>1, <2>3, <3>6 DEF Sound, Owned
  <2>. QED BY <2>2, <2>3
<1>9. CASE UNCHANGED <<classify, slot, redirect, session, fwd, walk>>
  BY <1>s, <1>9, FrameSound
<1>. QED BY <1>1, <1>2, <1>3, <1>4, <1>5, <1>6, <1>7, <1>8, <1>9, ZenonT(40)
         DEF Next, Malformed, IfCreate, IfDelete, vars, config

LEMMA NextMInv == MInv /\ [Next]_vars => MInv'
<1>. SUFFICES ASSUME MInv, [Next]_vars PROVE MInv'
  OBVIOUS
<1>1. TypeOK' /\ WalksEntries'
  BY NextType, NextWalks DEF MInv
<1>2. FlagAgrees'
  BY FlagNext DEF MInv
<1>3. MisuseContained'
  BY <1>1, NextSound DEF MisuseContained
<1>. QED BY <1>1, <1>2, <1>3 DEF MInv

LEMMA InitMInv == Init => MInv
<1>. SUFFICES ASSUME Init PROVE MInv
  OBVIOUS
<1>1. TypeOK /\ WalksEntries
  BY DEF Init, TypeOK, WalksEntries, NoEntry, FreshFlag, Af
<1>2. FlagAgrees
  BY DEF Init, FlagAgrees, Af
<1>3. ASSUME NEW t \in Table PROVE Sound(t)
  <2>1. \A d \in Dst : redirect[t][d] = NONE /\ session[t][d] = NONE
    BY DEF Init, NoEntry
  <2>2. \A s \in SwIf, a \in Af : slot[s][a] # t
    BY TuntermAssumption DEF Init
  <2>. QED BY <2>1, <2>2 DEF Sound, Owned, Mirrored
<1>. QED BY <1>1, <1>2, <1>3 DEF MInv, MisuseContained


\* Whatever indices a client repeats after it has deleted them, the ones it
\* used in turn are whole (MisuseContained).
THEOREM MisuseStays == Spec => []MisuseContained
<1>1. MInv => MisuseContained
  BY DEF MInv
<1>. QED BY <1>1, InitMInv, NextMInv, PTL DEF Spec

-----------------------------------------------------------------------------
(* What the contract buys *)

\* A client that keeps the contract names no index out of turn.
LEMMA CarefulTurns == ASSUME Careful, misused = {}, [Next]_vars PROVE misused' = {}
BY ZenonT(40) DEF Next, AddAcl, ReplaceAcl, DelAcl, Malformed, Attach, Detach, IfCreate, IfDelete,
       ForeignAlloc, ForeignFree, PathChange, BackWalk, Names, NoteMisuse, vars, config

\* Attach, detach and the deletion of an interface keep feature and slots in
\* step.
LEMMA NextFeature ==
    ASSUME Careful, IInv, [Next]_vars
    PROVE  FeatureIffAttached'
<1>. USE DEF IInv
<1>1. CASE UNCHANGED <<slot, enabled>>
  BY <1>1 DEF SlotInv, FeatureIffAttached
<1>2. ASSUME NEW s \in SwIf, NEW t \in Table, Attach(s, t) PROVE FeatureIffAttached'
  <2>1. CASE UNCHANGED <<slot, enabled>>
    BY <1>1, <2>1
  <2>2. CASE /\ slot' = [slot EXCEPT ![s][table_af[t]] = t]
             /\ enabled' = enabled \cup {s}
    <3>1. table_af[t] \in Af /\ t # NONE
      BY TuntermAssumption DEF TypeOK
    <3>2. slot'[s][table_af[t]] = t /\ \A r \in SwIf \ {s} : slot'[r] = slot[r]
      BY <2>2 DEF TypeOK
    <3>. QED BY <2>2, <3>1, <3>2 DEF SlotInv, FeatureIffAttached
  <2>. QED BY <1>2, <2>1, <2>2 DEF Attach
<1>3. ASSUME NEW s \in SwIf, NEW t \in Table, Detach(s, t) PROVE FeatureIffAttached'
  <2>1. CASE UNCHANGED <<slot, enabled>>
    BY <1>1, <2>1
  <2>2. CASE /\ \E a \in Af : slot[s][a] = t
             /\ enabled' = IF StaysEnabled(s) THEN enabled ELSE enabled \ {s}
             /\ slot' = [slot EXCEPT ![s][table_af[t]] = NONE]
    <3>1. PICK a \in Af : slot[s][a] = t
      BY <2>2
    <3>2. table_af[t] = a
      BY <3>1, TuntermAssumption DEF SlotInv, SlotsSound, FlagAgrees
    <3>3. PICK b \in Af : b # a /\ \A c \in Af : c = a \/ c = b
      BY DEF Af
    <3>4. /\ slot'[s][a] = NONE
          /\ \A c \in Af : c # a => slot'[s][c] = slot[s][c]
          /\ \A r \in SwIf \ {s} : slot'[r] = slot[r]
      BY <2>2, <3>2 DEF TypeOK
    <3>5. t # NONE
      BY TuntermAssumption
    <3>6. s \in enabled' <=> \E c \in Af : slot'[s][c] # NONE
      <4>1. s \in enabled
        BY <3>1, <3>5 DEF SlotInv, FeatureIffAttached
      <4>2. s \in enabled' <=> slot[s][b] # NONE
        BY <2>2, <3>1, <3>3, <3>5, <4>1 DEF StaysEnabled
      <4>3. slot'[s][b] = slot[s][b]
        BY <3>3, <3>4
      <4>. QED BY <3>3, <3>4, <4>2, <4>3, ZenonT(40)
    <3>7. \A r \in SwIf \ {s} : r \in enabled' <=> r \in enabled
      BY <2>2
    <3>. QED BY <3>4, <3>6, <3>7 DEF SlotInv, FeatureIffAttached
  <2>. QED BY <1>3, <2>1, <2>2 DEF Detach
<1>4. ASSUME NEW s \in SwIf, IfDelete(s) PROVE FeatureIffAttached'
  <2>1. s \notin enabled
    BY <1>4 DEF IfDelete, SlotInv, FeatureIffAttached
  <2>. QED BY <1>1, <1>4, <2>1 DEF IfDelete
<1>. QED BY <1>1, <1>2, <1>3, <1>4, ZenonT(40)
         DEF Next, AddAcl, ReplaceAcl, DelAcl, Malformed, ForeignAlloc, ForeignFree,
             IfCreate, PathChange, BackWalk, vars, config

LEMMA NextIInv == ASSUME Careful PROVE IInv /\ [Next]_vars => IInv'
<1>. SUFFICES ASSUME IInv, [Next]_vars PROVE IInv'
  OBVIOUS
<1>1. MInv
  <2>1. \A t \in Table : Sound(t)
    BY TuntermAssumption DEF IInv, TableInv, SlotInv, RedirectsOwned,
       SessionsMirrorRedirects, SlotsSound, Sound
  <2>. QED BY <2>1 DEF IInv, TableInv, SlotInv, MInv, MisuseContained
<1>2. MInv' /\ misused' = {}
  BY <1>1, NextMInv, CarefulTurns DEF IInv
<1>3. \A t \in Table : Sound(t)'
  BY <1>2 DEF MInv, MisuseContained
<1>4. TableInv'
  BY <1>2, <1>3 DEF MInv, TableInv, RedirectsOwned, SessionsMirrorRedirects, Sound
<1>5. SlotsSound'
  BY <1>2, <1>3 DEF MInv, TypeOK, SlotsSound, Sound
<1>6. FeatureIffAttached'
  BY NextFeature
<1>. QED BY <1>2, <1>4, <1>5, <1>6 DEF MInv, IInv, SlotInv

\* The contract is enough for the whole of the invariant: every redirect entry
\* lives in a live tunterm table of its family, entries and sessions mirror
\* each other, slots name live tables of their family, and the feature is on
\* exactly where an ACL is attached.
THEOREM CarefulInv == ASSUME Careful PROVE Spec => []IInv
<1>1. Init => IInv
  <2>. SUFFICES ASSUME Init PROVE IInv
    OBVIOUS
  <2>1. MInv /\ misused = {}
    BY InitMInv DEF Init
  <2>2. FeatureIffAttached /\ SlotsSound
    BY DEF Init, FeatureIffAttached, SlotsSound
  <2>. QED BY <2>1, <2>2 DEF IInv, MInv, MisuseContained, TableInv, SlotInv, Sound,
              RedirectsOwned, SessionsMirrorRedirects
<1>. QED BY <1>1, NextIInv, PTL DEF Spec

\* Every redirect entry is one of a live table of its family, so the back-walk
\* callback's ASSERT (0 == rv) is safe (RedirectsOwned).
THEOREM TablesSafe == ASSUME Careful PROVE Spec => []RedirectsOwned
<1>1. IInv => RedirectsOwned
  BY DEF IInv, TableInv
<1>. QED BY <1>1, CarefulInv, PTL

\* The node's unchecked dereference of a slot's table is safe (SlotsSound).
THEOREM SlotsSafe == ASSUME Careful PROVE Spec => []SlotsSound
<1>1. IInv => SlotsSound
  BY DEF IInv, SlotInv
<1>. QED BY <1>1, CarefulInv, PTL

\* The bypass feature is on exactly where a slot is used (FeatureIffAttached):
\* attach, detach and the deletion of an interface keep the two in step.
THEOREM FeatureExact == ASSUME Careful PROVE Spec => []FeatureIffAttached
<1>1. IInv => FeatureIffAttached
  BY DEF IInv, SlotInv
<1>. QED BY <1>1, CarefulInv, PTL

\* Clear, replace, delete and back-walk keep entries and sessions one to one.
THEOREM SessionsMirrored == ASSUME Careful PROVE Spec => []SessionsMirrorRedirects
<1>1. IInv => SessionsMirrorRedirects
  BY SMTT(40) DEF IInv, TableInv
<1>. QED BY <1>1, CarefulInv, PTL

\* The data plane's verdict is the attached ACL's (VerdictFollowsAcl).
THEOREM VerdictSound == ASSUME Careful PROVE Spec => []VerdictFollowsAcl
<1>1. IInv => VerdictFollowsAcl
  <2>. SUFFICES ASSUME IInv, NEW s \in enabled, NEW d \in Dst
                PROVE  LET t == slot[s][AfOf(d)]
                           h == IF t = NONE THEN NONE ELSE redirect[t][d]
                       IN  /\ h = NONE => NodeVerdict(s, d) = NONE
                           /\ h # NONE => \/ NodeVerdict(s, d) = fwd[h]
                                          \/ <<t, d>> \in walk
    BY Zenon DEF VerdictFollowsAcl
  <2>1. AfOf(d) \in Af /\ s \in SwIf
    BY DEF AfOf, Af, IInv, TypeOK
  <2>2. slot[s][AfOf(d)] \in Table \cup {NONE}
    BY <2>1 DEF IInv, TypeOK
  <2>3. CASE slot[s][AfOf(d)] = NONE
    BY <2>3, Zenon DEF NodeVerdict
  <2>4. CASE slot[s][AfOf(d)] # NONE
    <3>1. Mirrored(slot[s][AfOf(d)])
      BY <2>2, <2>4 DEF IInv, TableInv, SessionsMirrorRedirects
    <3>. QED BY <2>4, <3>1, Zenon DEF NodeVerdict, Mirrored
  <2>. QED BY <2>3, <2>4, Zenon
<1>. QED BY <1>1, CarefulInv, PTL

-----------------------------------------------------------------------------
(* The safety half of SessionsConverge                                     *)

\* Only a change of a path list queues visits, so while none changes the
\* back-walk's queue only shrinks.
OnlyPathsQueue == [][walk' \subseteq walk \/ fwd' # fwd]_vars

\* An entry that leaves the queue has up-to-date forwarding or is gone: no
\* handler that runs before the walk gets there drops a visit that is due.
LeavesFresh ==
    [][\A t \in Table, d \in Dst :
          <<t, d>> \in walk \ walk' =>
             \/ redirect'[t][d] = NONE
             \/ session'[t][d] = fwd'[redirect'[t][d]]]_vars

\* Whatever the client does, the queue of a back-walk gets longer only when a
\* path list changes (OnlyPathsQueue).
THEOREM QueueShrinks == Spec => OnlyPathsQueue
<1>1. TypeOK /\ [Next]_vars => [walk' \subseteq walk \/ fwd' # fwd]_vars
  <2>. SUFFICES ASSUME TypeOK, Next PROVE walk' \subseteq walk \/ fwd' # fwd
    OBVIOUS
  <2>1. ASSUME NEW t \in Table, NEW af \in Af, NEW rules \in RuleList,
               AddAcl(t, af, rules) \/ ReplaceAcl(t, af, rules)
        PROVE  walk' \subseteq walk
    <3>1. PICK cls, afs : Update(t, cls, afs, af, rules)
      BY <2>1, Zenon DEF AddAcl, ReplaceAcl
    <3>. QED BY <3>1, UpdateLocal
  <2>2. ASSUME NEW t \in Table, DelAcl(t) PROVE walk' \subseteq walk
    BY <2>2 DEF DelAcl, ClearFails
  <2>3. ASSUME NEW h \in Hop, NEW p \in Dpo, PathChange(h, p) PROVE fwd' # fwd
    BY <2>3 DEF PathChange, TypeOK
  <2>4. ASSUME NEW t \in Table, NEW d \in Dst, BackWalk(t, d) PROVE walk' \subseteq walk
    BY <2>4 DEF BackWalk
  <2>5. CASE walk' = walk
    BY <2>5
  <2>. QED BY <2>1, <2>2, <2>3, <2>4, <2>5, ZenonT(40)
           DEF Next, Malformed, ForeignAlloc, ForeignFree, Attach, Detach, IfCreate, IfDelete
<1>. QED BY <1>1, TypeCorrect, PTL DEF Spec, OnlyPathsQueue

\* With a careful client a session is out of date only while its visit is in
\* the queue (LeavesFresh): a walk process that empties its queue leaves every
\* session up to date.
THEOREM VisitsLeaveFresh == ASSUME Careful PROVE Spec => LeavesFresh
<1>. DEFINE Fresh == \A t \in Table, d \in Dst :
                        <<t, d>> \in walk \ walk' =>
                           \/ redirect'[t][d] = NONE
                           \/ session'[t][d] = fwd'[redirect'[t][d]]
<1>1. SessionsMirrorRedirects' => Fresh
  BY DEF SessionsMirrorRedirects, Mirrored
<1>2. IInv /\ [Next]_vars => [Fresh]_vars
  BY <1>1, NextIInv DEF IInv, TableInv
<1>. QED BY <1>2, CarefulInv, PTL DEF Spec, LeavesFresh
=============================================================================
