SPECIFICATION Spec
CONSTANTS
  n1 = n1
  n2 = n2
  n3 = n3
  e1 = e1
  e2 = e2
  e3 = e3
  l1 = l1
  l2 = l2
  nt1 = nt1
  et1 = et1
  et2 = et2
  None = None
  NodeIds <- MCNodeIds
  EdgeIds <- MCEdgeIds
  Labels <- MCLabels
  NodeTypes <- MCNodeTypes
  EdgeTypes <- MCEdgeTypes
SYMMETRY Interchangeable
INVARIANTS EdgesAnchored SearchSound
PROPERTY ImplementsItems
