SPECIFICATION MCFairSpec
CONSTANTS
    WordCount = 4
    Regs <- ThreeRegs
PROPERTIES ImplementsIsa KeepsCompleting
