SPECIFICATION MCSpec
CONSTANTS
  Retain = 4
  MaxAttempts = 2
  MaxSegments = 6
  Lives <- MCLives
  Tries = 2
  None = None
  s1 = s1  s2 = s2
  Errands <- MCErrands
  Terminals <- MCTerminals
  Sessions <- MCSessions
  Names <- MCNames
  Fold <- MCFold
  Host <- MCHost
  MaxRequests = 3
  Room = 1
INVARIANTS ArchivesInOrder KeepsNewest RunsWhereMeant ActsByRight MigrationRepeats ServesGuarded
PROPERTIES StdioAnswers AcceptedKept StopsWhenAsked
CHECK_DEADLOCK FALSE
