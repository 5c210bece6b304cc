SPECIFICATION Spec
CONSTANTS
  f1 = f1  f2 = f2
  Node <- MCNode
  NoNode <- MCNoNode
  Filter <- MCFilter
  Children <- MCChildren
  Numbers <- MCNumbers
  NextNode <- MCNextNode
  Predicates <- MCPredicates
  Multipaths <- MCMultipaths
INVARIANTS RoutesLead HandedOn TablesAgree
PROPERTY EveryNodeLearns
CHECK_DEADLOCK FALSE
