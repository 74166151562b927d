SPECIFICATION FairSpec
CONSTANTS
  Tasks = {t1, t2, t3}
  Systems <- MCSystems
INVARIANTS
  NoUseAfterFree
  JoinMeansReturned
  NoLeak
PROPERTY JoinReturns
