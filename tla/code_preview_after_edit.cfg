SPECIFICATION Spec
CONSTANTS
  Languages = {"zod", "typescript"}
  Default = "zod"
  NoLanguage = "none"
  MaxRevision = 1
  MaxQuestions = 1
INVARIANT PreviewFollowsSource
CHECK_DEADLOCK FALSE
