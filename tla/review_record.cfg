SPECIFICATION Spec
CONSTANTS
  MaxReviews = 2
  MaxEdits = 2
INVARIANT ActionableIsRecorded
INVARIANT ClosedReviewsAreReplayed
INVARIANT StartupSettles
PROPERTY HumanBeforeReplay
PROPERTY PublishesAtOnce
