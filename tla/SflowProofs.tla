----------------------------- MODULE SflowProofs -----------------------------
(***************************************************************************)
(* Proofs about Sflow for any set of ports, threads and rates.             *)
(***************************************************************************)
EXTENDS Sflow, TLAPS

\* An enabled port implies that total_threads is set (sflow_enable_disable
\* sees to it), so a change of its rate always seeds its samplers; and its
\* samplers are ready whether or not an arc is on.
Seeded ==
    /\ enabled # {} => threads
    /\ \A t \in Thread, p \in enabled : skip[t][p] \in 1..Lim(drawn[t][p])

\* The arcs are always those sflow_enable_disable_interface would choose now.
ArcsExact ==
    \A p \in Phys :
        arc[p] = ArcsFor(Resolve(direction[p], samplingD), p \in enabled)

IInv == TypeOK /\ Seeded /\ ArcsExact

\* The modulus of the draw is odd before and after it wraps, so it is never 0:
\* there is no division by zero and always a countdown to draw.
LEMMA LimPositive == ASSUME NEW n \in Nat PROVE Lim(n) \in Nat \ {0}
<1>1. PICK h \in Nat : U32 = 2 * h /\ h > 0
  BY SflowAssumption
<1>2. CASE n <= 1
  BY <1>2 DEF Lim
<1>3. CASE n > 1
  <2>. DEFINE x == 2 * n - 1
  <2>1. x \in Nat /\ U32 \in Nat /\ U32 > 0
    BY <1>1, <1>3
  <2>2. x % U32 \in 0..(U32 - 1) /\ x = U32 * (x \div U32) + (x % U32)
    BY <2>1
  <2>3. x \div U32 \in Int
    BY <2>1
  <2>4. PICK k \in Int : U32 * (x \div U32) = 2 * k
    <3>1. h * (x \div U32) \in Int
      BY <2>3
    <3>2. U32 * (x \div U32) = 2 * (h * (x \div U32))
      BY <1>1, <2>3
    <3>. QED BY <3>1, <3>2
  <2>5. x % U32 # 0
    BY <2>2, <2>4
  <2>. QED BY <1>3, <2>2, <2>5 DEF Lim
<1>. QED BY <1>2, <1>3

-----------------------------------------------------------------------------
\* What seeding the samplers of the ports P does.
LEMMA ReseedEffect ==
    ASSUME TypeOK, NEW P \in SUBSET Phys, NEW n \in Rate, Reseed(P, n)
    PROVE  /\ skip' \in [Thread -> [Phys -> Nat]]
           /\ drawn' \in [Thread -> [Phys -> Rate]]
           /\ \A t \in Thread, p \in P :
                 skip'[t][p] \in 1..Lim(n) /\ drawn'[t][p] = n
           /\ \A t \in Thread, p \in Phys \ P :
                 skip'[t][p] = skip[t][p] /\ drawn'[t][p] = drawn[t][p]
<1>1. n \in Nat /\ Lim(n) \in Nat
  BY LimPositive, SflowAssumption
<1>2. PICK f \in [Thread -> [P -> 1..Lim(n)]] :
         skip' = [t \in Thread |->
                    [p \in Phys |-> IF p \in P THEN f[t][p] ELSE skip[t][p]]]
  BY DEF Reseed
<1>3. \A t \in Thread, p \in P : f[t][p] \in 1..Lim(n) /\ f[t][p] \in Nat
  BY <1>1, <1>2
<1>4. skip' \in [Thread -> [Phys -> Nat]]
  BY <1>2, <1>3 DEF TypeOK
<1>5. drawn' \in [Thread -> [Phys -> Rate]]
  BY DEF Reseed, TypeOK
<1>. QED BY <1>2, <1>3, <1>4, <1>5 DEF Reseed

LEMMA EffectiveTyped ==
    ASSUME NEW a \in Rate, NEW b \in Rate
    PROVE  Effective(a, b) \in Rate
BY DEF Effective

LEMMA ResolveTyped ==
    ASSUME NEW d \in Dirn, NEW g \in Dirn \ {"unset"}
    PROVE  Resolve(d, g) \in {"rx", "tx", "both"}
BY DEF Dirn, Resolve

LEMMA ArcsTyped ==
    ASSUME NEW d \in {"rx", "tx", "both"}, NEW on
    PROVE  ArcsFor(d, on) \in SUBSET {"rx", "tx"}
BY Zenon DEF ArcsFor

\* Those are the arcs of the direction in force.
LEMMA ArcsFollow == TypeOK /\ ArcsExact => ArcsAsConfigured
<1>. SUFFICES ASSUME TypeOK, ArcsExact, NEW p \in Phys, NEW a \in {"rx", "tx"}
              PROVE  a \in arc[p] <=>
                        /\ p \in enabled
                        /\ \/ direction[p] \in {a, "both"}
                           \/ direction[p] = "unset" /\ samplingD \in {a, "both"}
  BY DEF ArcsAsConfigured
<1>1. arc[p] = ArcsFor(Resolve(direction[p], samplingD), p \in enabled)
  BY DEF ArcsExact
<1>2. direction[p] \in Dirn /\ samplingD \in Dirn \ {"unset"}
  BY DEF TypeOK
<1>3. CASE p \notin enabled
  BY <1>1, <1>3 DEF ArcsFor
<1>4. CASE p \in enabled
  <2>1. a \in arc[p] <=> Resolve(direction[p], samplingD) \in {a, "both"}
    <3>1. Resolve(direction[p], samplingD) \in {"rx", "tx", "both"}
      BY <1>2, ResolveTyped
    <3>2. arc[p] = IF Resolve(direction[p], samplingD) = "both"
                     THEN {"rx", "tx"} ELSE {Resolve(direction[p], samplingD)}
      BY <1>1, <1>4 DEF ArcsFor
    <3>. QED BY <3>1, <3>2
  <2>. QED BY <1>2, <1>4, <2>1 DEF Resolve, Dirn
<1>. QED BY <1>3, <1>4

-----------------------------------------------------------------------------
(* One lemma per group of requests *)

LEMMA EnableStep ==
    ASSUME IInv, NEW p \in Phys, Enable(p)
    PROVE  IInv'
<1>. USE DEF IInv
<1>1. EffectiveN(p) \in Rate
  BY EffectiveTyped DEF TypeOK, EffectiveN
<1>2. /\ skip' \in [Thread -> [Phys -> Nat]]
      /\ drawn' \in [Thread -> [Phys -> Rate]]
      /\ \A t \in Thread, q \in {p} :
            skip'[t][q] \in 1..Lim(EffectiveN(p)) /\ drawn'[t][q] = EffectiveN(p)
      /\ \A t \in Thread, q \in Phys \ {p} :
            skip'[t][q] = skip[t][q] /\ drawn'[t][q] = drawn[t][q]
  <2>1. {p} \in SUBSET Phys /\ Reseed({p}, EffectiveN(p))
    BY DEF Enable
  <2>2. PICK n \in Rate : n = EffectiveN(p)
    BY <1>1
  <2>. QED BY <2>1, <2>2, ReseedEffect, Zenon
<1>3. direction[p] \in Dirn /\ samplingD \in Dirn \ {"unset"}
  BY DEF TypeOK
<1>4. TypeOK'
  BY <1>2, <1>3, ResolveTyped, ArcsTyped, Zenon DEF Enable, TypeOK
<1>5. Seeded'
  BY <1>2 DEF Enable, Seeded, TypeOK
<1>6. ArcsExact'
  BY Zenon DEF Enable, ArcsExact, ArcsFor, TypeOK
<1>. QED BY <1>4, <1>5, <1>6

LEMMA DirectionStep ==
    ASSUME IInv,
           \/ \E p \in Phys : Disable(p)
           \/ \E s \in SwIf, d \in Dirn \cup {"bad"} : SetPortDirection(s, d)
           \/ \E d \in Dirn \ {"unset"} : SetGlobalDirection(d)
    PROVE  IInv'
<1>. USE DEF IInv
<1>1. ASSUME NEW p \in Phys, Disable(p) PROVE IInv'
  <2>1. direction[p] \in Dirn /\ samplingD \in Dirn \ {"unset"}
    BY DEF TypeOK
  <2>2. TypeOK'
    BY <1>1, <2>1, ResolveTyped, ArcsTyped, Zenon DEF Disable, TypeOK
  <2>3. Seeded'
    BY <1>1 DEF Disable, Seeded
  <2>4. ArcsExact'
    BY <1>1, Zenon DEF Disable, ArcsExact, ArcsFor, TypeOK
  <2>. QED BY <2>2, <2>3, <2>4
<1>2. ASSUME NEW s \in SwIf, NEW d \in Dirn \cup {"bad"}, SetPortDirection(s, d)
      PROVE  IInv'
  <2>1. CASE UNCHANGED vars
    BY <2>1 DEF vars, TypeOK, Seeded, ArcsExact
  <2>2. CASE ~UNCHANGED vars
    <3>1. s \in Phys /\ d \in Dirn /\ samplingD \in Dirn \ {"unset"}
      BY <1>2, <2>2 DEF SetPortDirection, TypeOK
    <3>2. TypeOK'
      BY <1>2, <2>2, <3>1, ResolveTyped, ArcsTyped DEF SetPortDirection, TypeOK
    <3>3. Seeded'
      BY <1>2, <2>2 DEF SetPortDirection, Seeded
    <3>4. ArcsExact'
      <4>1. /\ direction' = [direction EXCEPT ![s] = d]
            /\ arc' = [arc EXCEPT ![s] = ArcsFor(Resolve(d, samplingD), s \in enabled)]
            /\ UNCHANGED <<samplingD, enabled>>
        BY <1>2, <2>2 DEF SetPortDirection
      <4>2. /\ direction'[s] = d
            /\ arc'[s] = ArcsFor(Resolve(d, samplingD), s \in enabled)
        BY <3>1, <4>1 DEF TypeOK
      <4>3. \A q \in Phys \ {s} : direction'[q] = direction[q] /\ arc'[q] = arc[q]
        BY <4>1 DEF TypeOK
      <4>. QED BY <4>1, <4>2, <4>3 DEF ArcsExact
    <3>. QED BY <3>2, <3>3, <3>4
  <2>. QED BY <2>1, <2>2
<1>3. ASSUME NEW d \in Dirn \ {"unset"}, SetGlobalDirection(d) PROVE IInv'
  <2>1. \A p \in Phys : direction[p] \in Dirn
    BY DEF TypeOK
  <2>2. TypeOK'
    BY <1>3, <2>1, ResolveTyped, ArcsTyped DEF SetGlobalDirection, TypeOK
  <2>3. Seeded'
    BY <1>3 DEF SetGlobalDirection, Seeded
  <2>4. ArcsExact'
    BY <1>3 DEF SetGlobalDirection, ArcsExact
  <2>. QED BY <2>2, <2>3, <2>4
<1>. QED BY <1>1, <1>2, <1>3

\* A request that only seeds samplers of some ports again.
LEMMA ReseedStep ==
    ASSUME IInv, NEW P \in SUBSET Phys, NEW n \in Rate, Reseed(P, n),
           rate' \in [Phys -> Rate], samplingN' \in Rate,
           UNCHANGED <<enabled, direction, samplingD, threads, arc>>
    PROVE  IInv'
<1>. USE DEF IInv
<1>1. /\ skip' \in [Thread -> [Phys -> Nat]]
      /\ drawn' \in [Thread -> [Phys -> Rate]]
      /\ \A t \in Thread, p \in P :
            skip'[t][p] \in 1..Lim(n) /\ drawn'[t][p] = n
      /\ \A t \in Thread, p \in Phys \ P :
            skip'[t][p] = skip[t][p] /\ drawn'[t][p] = drawn[t][p]
  BY ReseedEffect, Zenon
<1>2. TypeOK'
  BY <1>1 DEF TypeOK
<1>3. Seeded'
  BY <1>1 DEF Seeded, TypeOK
<1>. QED BY <1>2, <1>3 DEF ArcsExact

LEMMA RateStep ==
    ASSUME IInv,
           \/ \E s \in SwIf, n \in Rate : SetPortRate(s, n)
           \/ \E n \in Rate : SetGlobalRate(n)
    PROVE  IInv'
<1>. USE DEF IInv
<1>1. CASE /\ rate' \in [Phys -> Rate] /\ samplingN' \in Rate
           /\ UNCHANGED <<skip, drawn, enabled, direction, samplingD, threads, arc>>
  BY <1>1 DEF TypeOK, Seeded, ArcsExact
<1>2. ASSUME NEW s \in SwIf, NEW n \in Rate, SetPortRate(s, n) PROVE IInv'
  <2>1. CASE UNCHANGED vars
    BY <1>1, <2>1 DEF vars, TypeOK
  <2>2. CASE ~UNCHANGED vars
    <3>1. /\ s \in Phys /\ rate' \in [Phys -> Rate] /\ samplingN' \in Rate
          /\ UNCHANGED <<enabled, direction, samplingD, threads, arc>>
          /\ Reseed({s}, Effective(n, samplingN)) \/ UNCHANGED <<skip, drawn>>
      BY <1>2, <2>2 DEF SetPortRate, TypeOK
    <3>2. PICK e \in Rate : e = Effective(n, samplingN)
      BY EffectiveTyped DEF TypeOK
    <3>3. {s} \in SUBSET Phys
      BY <3>1
    <3>. QED BY <1>1, <3>1, <3>2, <3>3, ReseedStep
  <2>. QED BY <2>1, <2>2
<1>3. ASSUME NEW n \in Rate, SetGlobalRate(n) PROVE IInv'
  <2>1. /\ rate' \in [Phys -> Rate] /\ samplingN' \in Rate
        /\ UNCHANGED <<enabled, direction, samplingD, threads, arc>>
        /\ Reseed(Followers, n) \/ UNCHANGED <<skip, drawn>>
    BY <1>3 DEF SetGlobalRate, TypeOK
  <2>2. Followers \in SUBSET Phys
    BY DEF Followers, TypeOK
  <2>. QED BY <1>1, <2>1, <2>2, ReseedStep
<1>. QED BY <1>2, <1>3

LEMMA FrameStep ==
    ASSUME IInv, NEW t \in Thread, NEW p \in Phys, NEW k \in 1..MaxFrame,
           Frame(t, p, k)
    PROVE  IInv'
<1>. USE DEF IInv
<1>0. k \in Nat \ {0}
  BY SflowAssumption
<1>1. /\ UNCHANGED <<enabled, rate, direction, samplingN, samplingD, threads, arc>>
      /\ p \in enabled
  BY Zenon DEF Frame, ArcsExact, ArcsFor
<1>2. skip[t][p] \in Nat
  BY DEF TypeOK
<1>3. CASE /\ skip[t][p] > k
           /\ skip' = [skip EXCEPT ![t][p] = @ - k]
           /\ UNCHANGED drawn
  <2>1. skip[t][p] - k \in Nat \ {0} /\ skip[t][p] - k < skip[t][p]
    BY <1>0, <1>2, <1>3
  <2>2. skip' \in [Thread -> [Phys -> Nat]] /\ skip'[t][p] = skip[t][p] - k
    BY <1>3, <2>1 DEF TypeOK
  <2>3. \A u \in Thread, q \in Phys : <<u, q>> # <<t, p>> => skip'[u][q] = skip[u][q]
    BY <1>3 DEF TypeOK
  <2>4. skip'[t][p] \in 1..Lim(drawn[t][p])
    <3>1. drawn[t][p] \in Rate /\ Rate \subseteq Nat
      BY SflowAssumption DEF TypeOK
    <3>2. Lim(drawn[t][p]) \in Nat
      BY <3>1, LimPositive
    <3>3. skip[t][p] \in 1..Lim(drawn[t][p])
      BY <1>1 DEF Seeded
    <3>. QED BY <2>1, <2>2, <3>2, <3>3
  <2>5. Seeded'
    BY <1>1, <1>3, <2>3, <2>4 DEF Seeded, TypeOK
  <2>. QED BY <1>1, <1>3, <2>2, <2>5 DEF TypeOK, ArcsExact
<1>4. CASE /\ \E n \in 1..Lim(EffectiveN(p)) : skip' = [skip EXCEPT ![t][p] = n]
           /\ drawn' = [drawn EXCEPT ![t][p] = EffectiveN(p)]
  <2>1. PICK n \in 1..Lim(EffectiveN(p)) : skip' = [skip EXCEPT ![t][p] = n]
    BY <1>4, ZenonT(40)
  <2>2. EffectiveN(p) \in Rate /\ Rate \subseteq Nat
    <3>1. rate[p] \in Rate /\ samplingN \in Rate
      BY DEF TypeOK
    <3>2. EffectiveN(p) \in Rate
      BY <3>1, EffectiveTyped DEF EffectiveN
    <3>3. Rate \subseteq Nat
      BY SflowAssumption
    <3>. QED BY <3>2, <3>3
  <2>3. n \in Nat
    BY <2>2, LimPositive
  <2>4. /\ skip' \in [Thread -> [Phys -> Nat]] /\ skip'[t][p] = n
        /\ drawn' \in [Thread -> [Phys -> Rate]] /\ drawn'[t][p] = EffectiveN(p)
    BY <1>4, <2>1, <2>2, <2>3 DEF TypeOK
  <2>5. \A u \in Thread, q \in Phys :
           <<u, q>> # <<t, p>> => skip'[u][q] = skip[u][q] /\ drawn'[u][q] = drawn[u][q]
    BY <1>4, <2>1 DEF TypeOK
  <2>6. skip'[t][p] \in 1..Lim(drawn'[t][p])
    BY <2>1, <2>4
  <2>7. \A u \in Thread, q \in enabled : skip'[u][q] \in 1..Lim(drawn'[u][q])
    <3>. SUFFICES ASSUME NEW u \in Thread, NEW q \in enabled
                  PROVE  skip'[u][q] \in 1..Lim(drawn'[u][q])
      OBVIOUS
    <3>1. CASE u = t /\ q = p
      BY <2>6, <3>1
    <3>2. CASE ~(u = t /\ q = p)
      <4>1. q \in Phys /\ skip[u][q] \in 1..Lim(drawn[u][q])
        BY SMTT(40) DEF TypeOK, Seeded
      <4>2. skip'[u][q] = skip[u][q] /\ drawn'[u][q] = drawn[u][q]
        BY <2>5, <3>2, <4>1, SMTT(40)
      <4>. QED BY <4>1, <4>2
    <3>. QED BY <3>1, <3>2
  <2>8. Seeded'
    BY <1>1, <2>7 DEF Seeded
  <2>. QED BY <1>1, <2>4, <2>8 DEF TypeOK, ArcsExact
<1>. QED BY <1>3, <1>4 DEF Frame

LEMMA InvInit == Init => IInv
<1>. SUFFICES ASSUME Init PROVE IInv
  OBVIOUS
<1>1. TypeOK
  BY SflowAssumption, Zenon DEF Init, TypeOK, Dirn
<1>2. Seeded /\ ArcsExact
  BY DEF Init, Seeded, ArcsExact, ArcsFor
<1>. QED BY <1>1, <1>2 DEF IInv

LEMMA InvNext == IInv /\ [Next]_vars => IInv'
<1>. SUFFICES ASSUME IInv, [Next]_vars PROVE IInv'
  OBVIOUS
<1>1. CASE UNCHANGED vars
  BY <1>1 DEF vars, IInv, TypeOK, Seeded, ArcsExact
<1>. QED BY <1>1, EnableStep, DirectionStep, RateStep, FrameStep DEF Next

-----------------------------------------------------------------------------

\* In every state ports are seeded for every thread and arcs are those of the
\* direction in force.
THEOREM Inductive == Spec => []IInv
BY InvInit, InvNext, PTL DEF Spec

\* No thread meets a countdown of 0 (SamplersReady), the comment of
\* sflow_node_ingress_egress.
THEOREM NeverZero == Spec => []SamplersReady
<1>1. IInv => SamplersReady
  BY Zenon DEF IInv, Seeded, SamplersReady, ArcsExact, ArcsFor
<1>. QED BY <1>1, Inductive, PTL

\* The arcs are those of the port's own direction or else of the global one
\* (ArcsAsConfigured).
THEOREM ArcsCorrect == Spec => []ArcsAsConfigured
<1>1. IInv => ArcsAsConfigured
  BY ArcsFollow DEF IInv
<1>. QED BY <1>1, Inductive, PTL

LEMMA DrawnEffect ==
    ASSUME TypeOK, NEW P \in SUBSET Phys, NEW n \in Rate, Reseed(P, n)
    PROVE  /\ \A t \in Thread, p \in P : drawn'[t][p] = n
           /\ \A t \in Thread, q \in Phys \ P : drawn'[t][q] = drawn[t][q]
BY DEF Reseed

\* What SamplesHonest allows a step to do.
HonestyKept ==
    \A t \in Thread, p \in enabled' :
       ~Honest(t, p)' =>
          /\ p \in enabled /\ rate'[p] = rate[p]
          /\ \/ ~Honest(t, p)
             \/ rate[p] = 0 /\ (samplingN = 0) # (samplingN' = 0)

LEMMA NextHonest == IInv /\ [Next]_vars => [HonestyKept]_vars
<1>. SUFFICES ASSUME IInv, Next PROVE HonestyKept
  BY SMTT(40)
<1>. USE DEF IInv, Honest, EffectiveN, HonestyKept
<1>1. ASSUME NEW p \in Phys, Enable(p) PROVE HonestyKept
  <2>1. PICK n \in Rate : n = EffectiveN(p)
    BY EffectiveTyped DEF TypeOK
  <2>2. /\ \A t \in Thread : drawn'[t][p] = n
        /\ \A t \in Thread, q \in Phys \ {p} : drawn'[t][q] = drawn[t][q]
    <3>1. TypeOK /\ {p} \in SUBSET Phys /\ Reseed({p}, n)
      BY <1>1, <2>1 DEF Enable
    <3>2. \A t \in Thread, q \in {p} : drawn'[t][q] = n
      BY ONLY <3>1, n \in Rate, DrawnEffect, ZenonT(40)
    <3>3. \A t \in Thread, q \in Phys \ {p} : drawn'[t][q] = drawn[t][q]
      BY ONLY <3>1, n \in Rate, DrawnEffect
    <3>. QED BY <3>2, <3>3, SMTT(40)
  <2>. QED BY <1>1, <2>1, <2>2 DEF Enable, TypeOK
<1>2. ASSUME NEW s \in SwIf, NEW n \in Rate, SetPortRate(s, n) PROVE HonestyKept
  <2>1. CASE UNCHANGED vars
    BY <2>1, SMTT(40) DEF vars
  <2>2. CASE /\ s \in Phys /\ rate' = [rate EXCEPT ![s] = n]
             /\ IF threads THEN Reseed({s}, Effective(n, samplingN))
                           ELSE UNCHANGED <<skip, drawn>>
             /\ UNCHANGED <<enabled, samplingN>>
    <3>1. PICK e \in Rate : e = Effective(n, samplingN)
      BY EffectiveTyped, SMTT(40) DEF TypeOK
    <3>2. CASE ~threads
      BY <2>2, <3>2 DEF Seeded
    <3>3. CASE threads
      <4>1. /\ \A t \in Thread : drawn'[t][s] = e
            /\ \A t \in Thread, q \in Phys \ {s} : drawn'[t][q] = drawn[t][q]
        <5>1. TypeOK /\ {s} \in SUBSET Phys /\ Reseed({s}, e)
          BY <2>2, <3>1, <3>3, SMTT(40)
        <5>2. \A t \in Thread, q \in {s} : drawn'[t][q] = e
          BY ONLY <5>1, e \in Rate, DrawnEffect
        <5>3. \A t \in Thread, q \in Phys \ {s} : drawn'[t][q] = drawn[t][q]
          BY ONLY <5>1, e \in Rate, DrawnEffect
        <5>. QED BY <5>2, <5>3
      <4>2. rate'[s] = n /\ \A q \in Phys \ {s} : rate'[q] = rate[q]
        BY <2>2 DEF TypeOK
      <4>3. /\ UNCHANGED <<enabled, samplingN>> /\ enabled \subseteq Phys
            /\ e = Effective(n, samplingN)
        BY <2>2, <3>1, SMTT(40) DEF TypeOK
      <4>4. ASSUME NEW t \in Thread, NEW q \in enabled
            PROVE  Honest(t, q)' \/ (~Honest(t, q) /\ rate'[q] = rate[q])
        <5>1. CASE q = s
          BY ONLY <4>1, <4>2, <4>3, <5>1, t \in Thread, SMTT(40) DEF Honest, EffectiveN
        <5>2. CASE q # s
          BY ONLY <4>1, <4>2, <4>3, <5>2, t \in Thread, q \in enabled, SMTT(40) DEF Honest, EffectiveN
        <5>. QED BY <5>1, <5>2
      <4>. QED BY <4>3, <4>4
    <3>. QED BY <3>2, <3>3, Zenon
  <2>. QED BY <1>2, <2>1, <2>2, SMTT(40) DEF SetPortRate
<1>3. ASSUME NEW n \in Rate, SetGlobalRate(n) PROVE HonestyKept
  <2>1. UNCHANGED <<enabled, rate>> /\ samplingN' = n
    BY <1>3, SMTT(40) DEF SetGlobalRate
  <2>2. CASE Reseed(Followers, n) /\ n # 0
    <3>1. TypeOK /\ Followers \in SUBSET Phys /\ Reseed(Followers, n)
      BY <2>2 DEF Followers, TypeOK
    <3>2. PICK P \in SUBSET Phys : P = Followers
      BY <3>1, SMTT(40)
    <3>3. /\ \A t \in Thread, p \in Followers : drawn'[t][p] = n
          /\ \A t \in Thread, q \in Phys \ Followers : drawn'[t][q] = drawn[t][q]
      BY ONLY <3>1, <3>2, P \in SUBSET Phys, n \in Rate, DrawnEffect, Zenon
    <3>. QED BY <2>1, <3>3 DEF Followers, Effective, TypeOK
  <2>3. CASE UNCHANGED drawn /\ ~(enabled # {} /\ samplingN # 0 /\ n # 0)
    BY <2>1, <2>3 DEF Effective
  <2>. QED BY <1>3, <2>2, <2>3 DEF SetGlobalRate
<1>4. ASSUME NEW t \in Thread, NEW p \in Phys, NEW k \in 1..MaxFrame, Frame(t, p, k)
      PROVE  HonestyKept
  <2>1. UNCHANGED <<enabled, rate, samplingN>> /\ enabled \subseteq Phys
    BY <1>4 DEF Frame, TypeOK
  <2>2. \/ UNCHANGED drawn
        \/ drawn' = [drawn EXCEPT ![t][p] = EffectiveN(p)]
    BY <1>4 DEF Frame
  <2>3. CASE UNCHANGED drawn
    BY ONLY <2>1, <2>3
  <2>4. CASE drawn' = [drawn EXCEPT ![t][p] = EffectiveN(p)]
    <3>1. \A u \in Thread, q \in Phys :
             drawn'[u][q] = IF u = t /\ q = p THEN EffectiveN(p) ELSE drawn[u][q]
      BY <2>4 DEF TypeOK
    <3>. QED BY ONLY <2>1, <3>1
  <2>. QED BY ONLY <2>2, <2>3, <2>4
<1>5. CASE UNCHANGED <<rate, samplingN, drawn>> /\ enabled' \subseteq enabled
  BY <1>5
<1>. QED BY <1>1, <1>2, <1>3, <1>4, <1>5, ZenonT(40)
         DEF Next, Disable, SetPortDirection, SetGlobalDirection, vars

\* Only switching global sampling on or off lets a countdown fall behind the
\* rate its sample will report, and only on a port that follows the global
\* rate (SamplesHonest).
THEOREM RatesHonest == Spec => SamplesHonest
<1>1. IInv /\ [Next]_vars => [HonestyKept]_vars
  BY NextHonest
<1>. QED BY <1>1, Inductive, PTL DEF Spec, SamplesHonest, HonestyKept

\* No thread samples an enabled port that has a rate of its own at another.
OwnRateHonest ==
    \A t \in Thread, p \in enabled : rate[p] # 0 => Honest(t, p)

\* A port's own rate is in force on every thread from the request that sets it
\* on, whatever becomes of the global rate (OwnRateHonest): the reason for the
\* reseeding in sflow_set_sampling_rate_set.
THEOREM OwnRateInForce == Spec => []OwnRateHonest
<1>1. Init => OwnRateHonest
  BY DEF Init, OwnRateHonest
<1>2. OwnRateHonest /\ [HonestyKept]_vars => OwnRateHonest'
  <2>1. CASE UNCHANGED vars
    BY <2>1 DEF vars, OwnRateHonest, Honest, EffectiveN
  <2>2. CASE HonestyKept
    BY <2>2 DEF HonestyKept, OwnRateHonest
  <2>. QED BY <2>1, <2>2
<1>. QED BY <1>1, <1>2, NextHonest, Inductive, PTL DEF Spec

\* The same for every enabled port.
AllHonest == \A t \in Thread, p \in enabled : Honest(t, p)

\* As long as global sampling is never switched off, every countdown on every
\* enabled port is one of the rate in force (AllHonest).
THEOREM HonestWhileOn == Spec /\ [](samplingN # 0) => []AllHonest
<1>1. Init => AllHonest
  BY DEF Init, AllHonest
<1>2. /\ AllHonest /\ samplingN # 0 /\ (samplingN # 0)' /\ [HonestyKept]_vars
      => AllHonest'
  <2>1. CASE UNCHANGED vars
    BY <2>1 DEF vars, AllHonest, Honest, EffectiveN
  <2>2. CASE HonestyKept
    BY <2>2 DEF HonestyKept, AllHonest
  <2>. QED BY <2>1, <2>2
<1>. QED BY <1>1, <1>2, NextHonest, Inductive, PTL DEF Spec

=============================================================================
