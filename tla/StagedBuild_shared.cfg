SPECIFICATION Spec
CONSTANTS
  p1 = p1
  p2 = p2
  c1 = c1
  c2 = c2
  Procs = {p1, p2}
  Timeout = 2
  Locking = FALSE
  Timely = FALSE
  Mortal = {p1, p2}
  Cases = {c1, c2}
  Zephyr = {c2}
  CaseOf <- OneCase
  Sources = {good, other}
  Broken = {}
INVARIANTS OwnFirmware
