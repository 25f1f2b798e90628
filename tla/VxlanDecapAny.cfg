SPECIFICATION Spec
CONSTANTS
  l4 = l4
  k4 = k4
  l6 = l6
  k6 = k6
  NONE = NONE
  Slot = {s1, s2, s3}
  V4Local = {l4}
  V6Local = {l6, k6}
  V4Remote = {r1, r2, h}
  V6Remote = {q1, q2, g}
  Group = {g, h}
  Low32 <- NoLow32
  Compat = {}
  Ctx = {c1, c2}
  HashMayFail = TRUE
SYMMETRY Symm
INVARIANTS EntriesLive WildcardKept PromiscExact Decap4AsConfigured  DivertedAsConfigured
PROPERTIES RefusalLeavesNoTrace ImplementsService
