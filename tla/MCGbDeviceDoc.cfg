SPECIFICATION Spec
CONSTANTS
  Ids = {cam}
  Objs = {o1, o2}
  Threads = {t1}
  Job = Job
  Nil = Nil
  QuickThreads = {}
  DropAfter = 1
  OfflineAfter = 0
  RegisterValidity = 2
PROPERTIES
  DocDroppedAfterValidity
