CONSTANTS
  N = 2
  AttributeOf <- MCAttributeOf
  Apps <- MCApps
  LabOf <- MCLabOf
  Columns = {"Pool"}
  InputColumns = {"Device Serial"}
  MaxDisplayOptions = 1
  PageSizes = {1, 2}
  DefaultPageSize = 1
  NotesBatch = 2
  MaxRequests = 2
  MaxSteps = 3
SPECIFICATION Spec
INVARIANTS TypeOK TableShowsSelection PagerAgrees GoingBackSkipsNothing
CHECK_DEADLOCK FALSE
