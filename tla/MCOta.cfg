CONSTANTS
  Images <- MCImages
  Valid <- MCValid
  MaxSize = 2
SPECIFICATION FairSpec
INVARIANTS CanStep TypeOK FlashesWhatWasTested FlagMeansForked
PROPERTIES AnswersAreTrue UpgradesSafely RequestEnds
