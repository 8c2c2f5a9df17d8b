SPECIFICATION FairSpec
CONSTANTS
  Tasks = {t1, t2}
  Ids = {c1}
  NoId = NoId
  Threshold = 2
PROPERTIES
  CleanupAnswers
