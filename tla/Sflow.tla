-------------------------------- MODULE Sflow --------------------------------
(***************************************************************************)
(* Per-port sampling rate and direction of VPP's sflow plugin:             *)
(* vppbld/patches/0012, 0013 and 0014.                                     *)
(*                                                                         *)
(* Each worker thread keeps a countdown of its own for each port; when it  *)
(* runs out a packet is sampled and the next countdown is drawn at random, *)
(* with a mean of the rate in force.  A rate or direction of 0 on a port   *)
(* means "as set globally".  API handlers run with the workers stopped, so *)
(* each is one action, and so is a frame one worker processes.             *)
(*                                                                         *)
(* The parts of the plugin the patches do not touch are modelled from how  *)
(* the patches use them.  A suffix after an underscore marks a             *)
(* deliberately wrong form; no specification uses it.                      *)
(***************************************************************************)
EXTENDS Integers

CONSTANTS
    SwIf,      \* interfaces a request can name
    Phys,      \* the ones of type HARDWARE (without local0, index 0, which a
               \* record that was never enabled names: it has no packets)
    Thread,    \* threads that process packets
    Rate,      \* values of samplingN
    U32,       \* the number of values of a u32
    MaxFrame   \* bound on the packets of one frame

Dirn == {"unset", "rx", "tx", "both"}

ASSUME SflowAssumption ==
    /\ Phys \subseteq SwIf
    /\ Rate \subseteq 0..(U32 - 1) /\ 0 \in Rate
    /\ U32 \in Nat \ {0} /\ \E h \in 1..U32 : U32 = 2 * h
    /\ MaxFrame \in Nat

VARIABLES
    enabled,    \* ports with sflow_enabled
    rate,       \* samplingN of each port
    direction,  \* direction of each port
    samplingN,  \* the global rate
    samplingD,  \* the global direction
    threads,    \* total_threads has been set
    skip,       \* the countdown of each thread for each port; 0 if never drawn
    drawn,      \* the rate it was drawn for (history)
    arc         \* arcs ("rx" device-input, "tx" interface-output) sflow is on

vars == <<enabled, rate, direction, samplingN, samplingD, threads, skip, drawn, arc>>

TypeOK ==
    /\ enabled \subseteq Phys
    /\ rate \in [Phys -> Rate]
    /\ direction \in [Phys -> Dirn]
    /\ samplingN \in Rate
    /\ samplingD \in Dirn \ {"unset"}
    /\ threads \in BOOLEAN
    /\ skip \in [Thread -> [Phys -> Nat]]
    /\ drawn \in [Thread -> [Phys -> Rate]]
    /\ arc \in [Phys -> SUBSET {"rx", "tx"}]

Init ==
    /\ enabled = {}
    /\ rate = [p \in Phys |-> 0]
    /\ direction = [p \in Phys |-> "unset"]
    /\ samplingN \in Rate
    /\ samplingD \in Dirn \ {"unset"}
    /\ threads = FALSE
    /\ skip = [t \in Thread |-> [p \in Phys |-> 0]]
    /\ drawn = [t \in Thread |-> [p \in Phys |-> 0]]
    /\ arc = [p \in Phys |-> {}]

-----------------------------------------------------------------------------
(* Rates and directions in force *)

Effective(own, global) == IF own # 0 THEN own ELSE global
EffectiveN(p) == Effective(rate[p], samplingN)

\* The modulus of sflow_next_random_skip_if; 2N - 1 wraps for a huge N.
Lim(n) == IF n <= 1 THEN 1 ELSE (2 * n - 1) % U32

\* sflow_direction_resolve
Resolve_GlobalFirst(own, global) == global
Resolve(own, global) == IF own # "unset" THEN own ELSE global

\* The arcs sflow_enable_disable_interface leaves sflow on.  The same function
\* switches the arc of drop monitoring by smp->dropM and sflow_enabled; that
\* arc, which has nothing to do with rates and directions, is left out.
ArcsFor(d, on) ==
    IF ~on THEN {} ELSE IF d = "both" THEN {"rx", "tx"} ELSE {d}

\* sflow_reset_interface_samplers: every thread draws anew for the ports P,
\* all of which have n for their rate in force.
Reseed_FirstThread(P, n) ==
    LET u == CHOOSE t \in Thread : TRUE
    IN  /\ \E f \in [P -> 1..Lim(n)] :
              skip' = [skip EXCEPT ![u] = [p \in Phys |-> IF p \in P THEN f[p] ELSE @[p]]]
        /\ drawn' = [drawn EXCEPT ![u] = [p \in Phys |-> IF p \in P THEN n ELSE @[p]]]
Reseed(P, n) ==
    /\ \E f \in [Thread -> [P -> 1..Lim(n)]] :
          skip' = [t \in Thread |->
                     [p \in Phys |-> IF p \in P THEN f[t][p] ELSE skip[t][p]]]
    /\ drawn' = [t \in Thread |->
                   [p \in Phys |-> IF p \in P THEN n ELSE drawn[t][p]]]

\* The ports sflow_set_interface_sampling_rate seeds again.
Followers_WithOwnRate == {p \in enabled : rate[p] # 0}
Followers == {p \in enabled : rate[p] = 0}

-----------------------------------------------------------------------------
(* Requests *)

\* sflow_enable_disable: the samplers are ready before the arcs deliver.
Enable(p) ==
    /\ p \notin enabled
    /\ enabled' = enabled \cup {p}
    /\ threads' = TRUE
    /\ Reseed({p}, EffectiveN(p))
    /\ arc' = [arc EXCEPT ![p] = ArcsFor(Resolve(direction[p], samplingD), TRUE)]
    /\ UNCHANGED <<rate, direction, samplingN, samplingD>>

\* The port keeps its rate, its direction and its samplers.
Disable(p) ==
    /\ p \in enabled
    /\ enabled' = enabled \ {p}
    /\ arc' = [arc EXCEPT ![p] = ArcsFor(Resolve(direction[p], samplingD), FALSE)]
    /\ UNCHANGED <<rate, direction, samplingN, samplingD, threads, skip, drawn>>

\* sflow_set_sampling_rate_set
SetPortRate(s, n) ==
    \/ s \notin Phys /\ UNCHANGED vars
    \/ /\ s \in Phys
       /\ rate' = [rate EXCEPT ![s] = n]
       /\ IF threads THEN Reseed({s}, Effective(n, samplingN))
                     ELSE UNCHANGED <<skip, drawn>>
       /\ UNCHANGED <<enabled, direction, samplingN, samplingD, threads, arc>>

\* sflow_set_direction_set; "bad" is a direction above SFLOW_DIRN_BOTH.
SetPortDirection(s, d) ==
    \/ (s \notin Phys \/ d = "bad") /\ UNCHANGED vars
    \/ /\ s \in Phys /\ d # "bad"
       /\ direction' = [direction EXCEPT ![s] = d]
       /\ arc' = [arc EXCEPT ![s] = ArcsFor(Resolve(d, samplingD), s \in enabled)]
       /\ UNCHANGED <<enabled, rate, samplingN, samplingD, threads, skip, drawn>>

\* sflow_sampling_rate: only a change while sampling runs seeds again.
SetGlobalRate(n) ==
    /\ samplingN' = n
    /\ IF enabled # {} /\ samplingN # 0 /\ n # 0
         THEN Reseed(Followers, n)
         ELSE UNCHANGED <<skip, drawn>>
    /\ UNCHANGED <<enabled, rate, direction, samplingD, threads, arc>>

SetGlobalDirection(d) ==
    /\ samplingD' = d
    /\ arc' = [p \in Phys |-> ArcsFor(Resolve(direction[p], d), p \in enabled)]
    /\ UNCHANGED <<enabled, rate, direction, samplingN, threads, skip, drawn>>

-----------------------------------------------------------------------------
(* The data path *)

\* sflow_node_ingress_egress on a frame of k packets.  A frame that outlasts
\* the countdown is sampled, perhaps several times; what the last draw leaves
\* can be any countdown there is, because each draw can.
Frame(t, p, k) ==
    /\ arc[p] # {}
    /\ \/ /\ skip[t][p] > k
          /\ skip' = [skip EXCEPT ![t][p] = @ - k]
          /\ UNCHANGED drawn
       \/ /\ skip[t][p] <= k
          /\ \E n \in 1..Lim(EffectiveN(p)) : skip' = [skip EXCEPT ![t][p] = n]
          /\ drawn' = [drawn EXCEPT ![t][p] = EffectiveN(p)]
    /\ UNCHANGED <<enabled, rate, direction, samplingN, samplingD, threads, arc>>

Next ==
    \/ \E p \in Phys : Enable(p) \/ Disable(p)
    \/ \E s \in SwIf, n \in Rate : SetPortRate(s, n)
    \/ \E s \in SwIf, d \in Dirn \cup {"bad"} : SetPortDirection(s, d)
    \/ \E n \in Rate : SetGlobalRate(n)
    \/ \E d \in Dirn \ {"unset"} : SetGlobalDirection(d)
    \/ \E t \in Thread, p \in Phys, k \in 1..MaxFrame : Frame(t, p, k)

Spec == Init /\ [][Next]_vars

-----------------------------------------------------------------------------
(* Properties *)

\* "we never see smpif->skip==0": where packets can arrive every thread has a
\* countdown of at least 1, and none longer than a draw at its rate allows.
\* (With 0 the node would read before the start of the frame's buffer list.)
SamplersReady ==
    \A t \in Thread, p \in Phys :
        arc[p] # {} => skip[t][p] \in 1..Lim(drawn[t][p])

\* sflow is on exactly the arcs of the port's own direction, or of the global
\* one where it has none, however requests for the two alternate with enabling
\* and disabling the port.
ArcsAsConfigured ==
    \A p \in Phys, a \in {"rx", "tx"} :
        a \in arc[p] <=>
            /\ p \in enabled
            /\ \/ direction[p] \in {a, "both"}
               \/ direction[p] = "unset" /\ samplingD \in {a, "both"}

\* The rate a sample will report is the one its countdown was drawn for.
Honest(t, p) == drawn[t][p] = EffectiveN(p)

\* A thread's countdown on an enabled port falls behind the rate in force only
\* when global sampling is switched on or off and the port follows it, never
\* by a change of a rate; and it is not behind after a change of its own.
SamplesHonest ==
    [][\A t \in Thread, p \in enabled' :
          ~Honest(t, p)' =>
             /\ p \in enabled /\ rate'[p] = rate[p]
             /\ \/ ~Honest(t, p)
                \/ rate[p] = 0 /\ (samplingN = 0) # (samplingN' = 0)]_vars
=============================================================================
