CONSTANTS
  r1 = r1
  r2 = r2
  None = None
  Traces = {r1, r2}
  Scale = 2
  Speeds = {1, 2}
  MaxLag = 1
  MaxGap = 1
  MaxDelay = 1
  MaxTime = 2
  MaxEvents = 3
SPECIFICATION FairSpec
INVARIANT PlayedInOrder
INVARIANT LeadBounded
PROPERTY NoDeadWaiting
PROPERTY StepHidesNothing
PROPERTY EventsAreShown
