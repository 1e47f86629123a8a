\* Three applications, two CPUs.
CONSTANTS
  Apps = 3
  NCpu = 2
  Top = {1, 2, 5}
  MaxCount = 4
SPECIFICATION Spec
INVARIANT ListingOnTop
PROPERTIES AnswerIsRecent CountersNeverFall
CHECK_DEADLOCK FALSE
