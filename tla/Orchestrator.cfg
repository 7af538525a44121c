SPECIFICATION FairSpec
CONSTANT MaxGen = 2
INVARIANT TypeOK
INVARIANT TaskOwnsState
INVARIANT NoLockCycle
INVARIANT BroadcastNotRefused
INVARIANT OutputsInPlace
PROPERTY WorkerLostOnlyByHandler
PROPERTY ImplementsPhaseMachine
PROPERTY HandlerReturns
PROPERTY AuxResultPublished
PROPERTY KeyShareSoonThere
CHECK_DEADLOCK FALSE
