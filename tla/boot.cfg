SPECIFICATION Spec
CONSTANTS
  Procs = {s1, s2, s3}
  Keys = {k1, k2, k3}
  Codes = {c1, c2, c3}
  MaxOps = 2
  Overlap = TRUE
  Faults = {"store", "cut", "silent"}
  Weak = Weak
  Absent = Absent
SYMMETRY Symmetry
INVARIANT TypeOK
INVARIANT KeysAgree
INVARIANT TokensSurvive
 
