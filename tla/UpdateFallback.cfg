SPECIFICATION Spec
CONSTANTS
  MaxVersion = 2
  Faulty = {2}
  None = None
  Part = Part
INVARIANTS FallbackRestores
