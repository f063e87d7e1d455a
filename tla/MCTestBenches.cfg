SPECIFICATION Spec
CONSTANTS
    NoFile = NoFile
    TIME_LIMIT <- Limits
    Program <- ThreeInstructions
    Strays <- WrongWrites
    StoredTraces <- Traces
    Operations <- PrintsTwo
    UartDepth = 1
    UartPeriod = 8
INVARIANTS NothingMissed AbortIsDeserved PortsAgree PassedIsPrinted
PROPERTIES ResetIsClean BenchEnds
