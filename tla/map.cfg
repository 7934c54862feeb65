SPECIFICATION FairSpec
CONSTANTS
  Keys = {k1, k2}
  Vals = {v1, v2}
  Absent = Absent
  Err = Err
  i1 = i1
  Threads = {t1, t2}
  Instances = {i1}
  InstanceOf <- OneInstance
  Faults = {"late", "silent"}
INVARIANTS
  TypeOK
  MutexDiscipline
  NoLostUpdate
PROPERTIES
  Atomic
  CallsReturn
