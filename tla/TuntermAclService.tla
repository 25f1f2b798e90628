-------------------------- MODULE TuntermAclService --------------------------
(* The plugin implements the service its API promises: the refinement        *)
(* mapping from TuntermAcl to AclService.                                    *)
EXTENDS TuntermAcl

\* An index of the pool is an ACL when it holds a table of the plugin.
AclOf(cls) == [t \in Table |-> IF cls[t] \in Af THEN cls[t] ELSE "absent"]

Refused == {"INVALID_VALUE", "INVALID_VALUE_2", "RSRC_IN_USE",
            "INVALID_SW_IF_INDEX"}

\* The replies a client can tell apart.  "broken", a request that fails half
\* way through, is one the service never gives.
ReplyOf(r) ==
    CASE r \in Refused -> "refused"
      [] r = "BAD_RULE" -> "partial"
      [] r \in {"none", "ok"} -> r
      [] OTHER -> "broken"

Service == INSTANCE AclService
    WITH acl <- AclOf(classify), rule <- redirect, out <- session,
         bound <- slot, reply <- ReplyOf(rv)

\* With a careful client every step of the plugin is a step of the service:
\* each request is done as one step or refused without a trace, entries and
\* forwarding are written together and for the ACL's own family, an ACL keeps
\* its family and goes only when no interface has it, and a detach takes away
\* the named ACL and no other.
ImplementsService == Service!Spec
=============================================================================
