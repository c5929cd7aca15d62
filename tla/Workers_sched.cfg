SPECIFICATION Spec
CONSTANTS
  NWorkers = 2
  a1 = a1
  a2 = a2
  Apps = {a1, a2}
  c1 = c1
  c2 = c2
  c3 = c3
  c4 = c4
  l1 = l1
  o1 = o1
  o2 = o2
  o3 = o3
  o4 = o4
  Tasks = {c1, c2, c3, c4, l1, o1, o2, o3, o4}
  NoTask = NoTask
  Free = Free
  Scripts <- MCScripts
  Where <- MCWhere
  On <- MCOn
  WorkerOrder <- MCOrder
  Releases <- MCReleases
INVARIANTS  NoStrandedTask ProtocolAsserts OrderedInTurn
 
CHECK_DEADLOCK FALSE
