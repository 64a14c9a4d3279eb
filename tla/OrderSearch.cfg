\* A search that finds orders.
CONSTANTS
  Columns <- MCColumns
  Rows <- MCRows
  Requests <- MCRequests
  Users <- MCUsers
  MaxFilterFields = 2
  MaxConditionsPerField = 1
  MaxInValues = 2
  MaxOffset = 2
  MaxSize = 2
SPECIFICATION Spec
CHECK_DEADLOCK FALSE
INVARIANT OrderSearchAnswers
