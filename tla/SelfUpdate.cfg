SPECIFICATION FairSpec
CONSTANTS
  MaxVersion = 2
  Faulty = {2}
  None = None
  Part = Part
INVARIANTS TypeOK Recoverable FailureRestores DoneIsAnnounced FallbackServes
PROPERTIES NearerEnd CommandEnds
