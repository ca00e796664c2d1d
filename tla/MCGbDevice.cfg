SPECIFICATION Spec
CONSTANTS
  Ids = {cam}
  Objs = {o1, o2}
  Threads = {t1, t2}
  Job = Job
  Nil = Nil
  QuickThreads = {t1}
  DropAfter = 1
  OfflineAfter = 0
  RegisterValidity = 0
INVARIANTS
  TypeOK
PROPERTIES
  Playable
  SilentIsDropped
