CONSTANTS
  None = None
  Pending = Pending
SPECIFICATION Spec
INVARIANT TurnIsScoped
INVARIANT GatesHold
INVARIANT AnswerArrives
INVARIANT ArchiveIsRead
INVARIANT PlansAreSafe
INVARIANT PlacementHolds
INVARIANT ReportsAreTrue
CHECK_DEADLOCK FALSE
