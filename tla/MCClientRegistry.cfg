SPECIFICATION FairSpec
CONSTANTS
  Tasks = {t1, t2}
  Ids = {c1, c2}
  NoId = NoId
  Threshold = 2
INVARIANTS
  DeletionSetExact
  OpenPeersOwned
PROPERTIES
  
  
  HandlersServed
