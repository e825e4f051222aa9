\* Two processes and three calls for one slot or none, one fault.
CONSTANTS
    p1 = p1  p2 = p2  r1 = r1  r2 = r2  r3 = r3  s1 = s1
    NoSlot = NoSlot
    Process <- TwoProcesses
    Run <- ThreeRuns
    Slot <- OneSlot
    MaxFaults = 1
SPECIFICATION FairSpec
INVARIANTS TypeOK SlotKeys ReprobeOnlyAfterFailure OutcomeTold ProbeBudget
PROPERTIES ImplementsLedger EveryRunSettles
\* The run ends when every call is used up.
CHECK_DEADLOCK FALSE
