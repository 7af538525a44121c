SPECIFICATION FairSpec
CONSTANTS
  N = 3
  Quorum = 2
  Late = {2}
  Callers <- RivalAux
  Seconds = {1, 2}
  Rounds <- TwoKinds
  Meshed = TRUE
INVARIANT TypeOK
INVARIANT ResultMeansAllRan
INVARIANT ResultsBuildOnOneRun
INVARIANT DropsOnlyWhatItRefused
INVARIANT RestMeansDone
PROPERTY UnrefusedPhaseCompletes
CHECK_DEADLOCK FALSE
