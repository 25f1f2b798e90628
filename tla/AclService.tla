------------------------------ MODULE AclService ------------------------------
(***************************************************************************)
(* What the API of the tunterm_acl plugin promises a client, with none of  *)
(* the machinery: no classifier, no table pool, no address family flags,   *)
(* no features, no FIB graph.  There are ACLs of one address family each;  *)
(* an interface has at most one of each family; the forwarding in use for  *)
(* a rule is that of the rule's path at some moment since the rule was     *)
(* written.  TuntermAclService shows that TuntermAcl implements this.      *)
(***************************************************************************)
CONSTANTS Table, SwIf, Dst, V6Dst, Hop, Dpo, NONE

VARIABLES
    acl,    \* the address family of each ACL, or "absent"
    rule,   \* the path each ACL redirects a destination over
    out,    \* the forwarding in use for it
    bound,  \* the ACLs of each interface, by address family
    fwd,    \* what each path contributes now
    reply   \* what this step answers to a client, if anything

vars == <<acl, rule, out, bound, fwd, reply>>

Family == {"ip4", "ip6"}
FamilyOf(d) == IF d \in V6Dst THEN "ip6" ELSE "ip4"

\* What an ACL of a family can say.
Content(a) ==
    {m \in [Dst -> Hop \cup {NONE}] :
        \A d \in Dst : m[d] # NONE => FamilyOf(d) = a}

Nothing == [d \in Dst |-> NONE]

Init ==
    /\ acl = [t \in Table |-> "absent"]
    /\ rule = [t \in Table |-> Nothing]
    /\ out = [t \in Table |-> Nothing]
    /\ bound = [s \in SwIf |-> [a \in Family |-> NONE]]
    /\ fwd \in [Hop -> Dpo]
    /\ reply = "none"

-----------------------------------------------------------------------------

\* Create an ACL, or replace the content of one of the same family, in one
\* step and with the forwarding of this moment.  "partial" tells the client
\* that a rule was refused and the ones before it were taken.
Write(t, a) ==
    /\ acl[t] \in {"absent", a}
    /\ reply' \in {"ok", "partial"}
    /\ acl' = [acl EXCEPT ![t] = a]
    /\ LET m == rule'[t]
       IN  /\ m \in Content(a)
           /\ rule' = [rule EXCEPT ![t] = m]
           /\ out' = [out EXCEPT ![t] =
                 [d \in Dst |-> IF m[d] = NONE THEN NONE ELSE fwd[m[d]]]]
    /\ UNCHANGED <<bound, fwd>>

Remove(t) ==
    /\ acl[t] # "absent"
    /\ \A s \in SwIf, a \in Family : bound[s][a] # t
    /\ acl' = [acl EXCEPT ![t] = "absent"]
    /\ rule' = [rule EXCEPT ![t] = Nothing]
    /\ out' = [out EXCEPT ![t] = Nothing]
    /\ reply' = "ok"
    /\ UNCHANGED <<bound, fwd>>

Bind(s, t) ==
    /\ acl[t] # "absent"
    /\ bound' = [bound EXCEPT ![s][acl[t]] = t]
    /\ reply' = "ok"
    /\ UNCHANGED <<acl, rule, out, fwd>>

Unbind(s, t) ==
    /\ \E a \in Family : bound[s][a] = t
    /\ bound' = [bound EXCEPT ![s] =
                    [a \in Family |-> IF @[a] = t THEN NONE ELSE @[a]]]
    /\ reply' = "ok"
    /\ UNCHANGED <<acl, rule, out, fwd>>

\* A refused request leaves everything as it was.
Refuse ==
    /\ reply' = "refused"
    /\ UNCHANGED <<acl, rule, out, bound, fwd>>

\* A path changes, and the forwarding in use follows later.
PathChange(h, p) ==
    /\ fwd' = [fwd EXCEPT ![h] = p]
    /\ reply' = "none"
    /\ UNCHANGED <<acl, rule, out, bound>>

Refresh(t, d) ==
    /\ rule[t][d] # NONE
    /\ out' = [out EXCEPT ![t][d] = fwd[rule[t][d]]]
    /\ reply' = "none"
    /\ UNCHANGED <<acl, rule, bound, fwd>>

\* Something else happens in the switch.
Elsewhere ==
    /\ reply' = "none"
    /\ UNCHANGED <<acl, rule, out, bound, fwd>>

Next ==
    \/ \E t \in Table, a \in Family : Write(t, a)
    \/ \E t \in Table : Remove(t)
    \/ \E s \in SwIf, t \in Table : Bind(s, t) \/ Unbind(s, t)
    \/ Refuse
    \/ \E h \in Hop, p \in Dpo : PathChange(h, p)
    \/ \E t \in Table, d \in Dst : Refresh(t, d)
    \/ Elsewhere

Spec == Init /\ [][Next]_vars
=============================================================================
