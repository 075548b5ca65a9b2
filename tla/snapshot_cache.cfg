SPECIFICATION FairSpec
CONSTANTS
  Markets = {"near", "far"}
  MaxTrades = 2
  MaxEdits = 1
  MaxPublications = 1
  MaxMoves = 2
  MaxFailures = 1
  MaxRequests = 1
INVARIANT AcceptedIsCurrent
INVARIANT CondemnedIsNotAccepted
INVARIANT ServedTradeWasActive
PROPERTY CompletionIsAccepted
PROPERTY EventuallyReady
