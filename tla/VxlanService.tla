---------------------------- MODULE VxlanService ----------------------------
(***************************************************************************)
(* What the VXLAN tunnel API promises its client: a set of configured      *)
(* tunnels, and the local addresses and VNIs that are open to any source.  *)
(* There are no pool slots, no hash entries and no wildcard that belongs   *)
(* to one tunnel and is handed on to another: VxlanDecapAny has those, and *)
(* implements this.                                                        *)
(***************************************************************************)
CONSTANTS
  Tunnel,      \* what a client may configure
  Identity,    \* Identity[t]: what tells t from other tunnels on receive
  Opening,     \* the tunnels that accept packets from any source
  MayRefuse    \* whether an insertion may be refused for want of memory

VARIABLES
  conf,     \* the configured tunnels
  open,     \* the <<local address, context>> that any source may send to
  refused   \* whether the last request was refused

vars == <<conf, open, refused>>

Gate(t) == <<t.local, t.ctx>>

Init ==
  /\ conf = {}
  /\ open = {}
  /\ refused = FALSE

Add(t) ==
  /\ \A u \in conf : Identity[u] # Identity[t]
  /\ conf' = conf \cup {t}
  /\ open' = IF t \in Opening THEN open \cup {Gate(t)} ELSE open
  /\ refused' = FALSE

StaysOpen(t) == \E u \in (conf \cap Opening) \ {t} : Gate(u) = Gate(t)

\* A gate closes with the last tunnel that opens it.  Before that it closes
\* only when memory runs out; the next delete at the gate may open it again.
Del(t) ==
  /\ t \in conf
  /\ conf' = conf \ {t}
  /\ \/ t \notin Opening /\ open' = open
     \/ t \in Opening /\ StaysOpen(t) /\ open' = open \cup {Gate(t)}
     \/ /\ t \in Opening
        /\ StaysOpen(t) => MayRefuse
        /\ open' = open \ {Gate(t)}
  /\ refused' = FALSE

\* An add of what is there, a delete of what is not, or no memory for an add.
Refuse ==
  /\ refused' = TRUE
  /\ UNCHANGED <<conf, open>>

Next ==
  \/ Refuse
  \/ \E t \in Tunnel : Add(t) \/ Del(t)

Spec == Init /\ [][Next]_vars
=============================================================================
