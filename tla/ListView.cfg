CONSTANTS
  n1 = n1
  n2 = n2
  n3 = n3
  n4 = n4
  n5 = n5
  n6 = n6
  Nodes <- SixNodes
  list_head = list_head
  Lines <- TwoLines
  Height = 5
  FontHeight = 2
  MaxPane = 3
SPECIFICATION Spec
SYMMETRY Symmetry
CHECK_DEADLOCK FALSE
INVARIANTS TopLinked HeapOwned
PROPERTIES TailShown
