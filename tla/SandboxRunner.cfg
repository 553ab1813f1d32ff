\* One uid for three runs.
CONSTANTS
  Runs = {r1, r2, r3}
  Streams = {stdout, stderr}
  Uids = {u1}
  NoUid = NoUid
  Workers = 1
  Inputs = {1, 2}
  BufferSize = 1
  PipeCapacity = 2
  OutputCap = 1
  MaxOutput = 2
SPECIFICATION FairSpec
INVARIANTS
  UidsExclusive
  NoSleeperMissesAUid
  ResultFaithful
PROPERTY EveryRunEnds
CHECK_DEADLOCK FALSE
