SPECIFICATION Spec
CONSTANTS
  portfolio = portfolio
  Quantities = {1, 2}
  Views = {portfolio}
  MaxEdits = 4
  MaxClicks = 2
  MaxProgress = 1
  Amounts = {1, 2}
  MaxReviews = 3
  MaxSubmits = 2
  MaxOpenings = 2
  Conditions = {1}
  MaxActive = 2
  ListLimit = 2
  MaxAlerts = 3
  MaxVisits = 1
INVARIANT ConfirmPlacesOnce
INVARIANT ViewsFollowOrder
INVARIANT OneTransferPerReview
INVARIANT ReadOnlyIfShown
CHECK_DEADLOCK FALSE
