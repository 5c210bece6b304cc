SPECIFICATION Spec
CONSTANTS
  N = 4
  Infinite = 100
  Lengths = {1, 2}
CHECK_DEADLOCK FALSE
INVARIANTS TreesSpan RoutesShortest AlternativesDisjoint TreeMinimal
