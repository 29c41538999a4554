SPECIFICATION Spec
CONSTANTS
  n0 = n0
  n1 = n1
  n2 = n2
  a1 = a1
  a2 = a2
  c1 = c1
  c2 = c2
  NoNode = NoNode
  Nodes = {n0, n1, n2}
  Confirmers = {c1, c2}
  Called = {n0}
  Attempts = {a1}
  Top <- MCTop
  MaxHeight = 1
  MaxDistance = 0
  MaxRows <- MCMaxRows
  MaxFaults = 0
INVARIANT
  PassedIsAnswered
CHECK_DEADLOCK FALSE
