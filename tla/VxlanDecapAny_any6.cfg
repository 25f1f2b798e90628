SPECIFICATION Spec
CONSTANTS
  l4 = l4
  k4 = k4
  l6 = l6
  k6 = k6
  NONE = NONE
  Slot = {s1, s2}
  V4Local = {l4}
  V6Local = {l6, k6}
  V4Remote = {r1}
  V6Remote = {q1, q2}
  Group = {}
  Low32 <- NoLow32
  Compat = {}
  Ctx = {c1}
  HashMayFail = FALSE
INVARIANT AnySource6
