CHECK_DEADLOCK FALSE
CONSTANTS
  h1 = h1
  d1 = d1
  d2 = d2
  w1 = w1
  w2 = w2
  Hashes = {h1}
  Docs = {d1, d2}
  Writers = {w1, w2}
  Hold <- MCHold
  MaxNow = 1
  MaxFailures = 1
SPECIFICATION FairSpec
INVARIANTS LinkedBlobIsStored CommitIsTrue BlobIsFindable
PROPERTY GarbageIsDeleted
