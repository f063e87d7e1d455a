SPECIFICATION MCFairSpec
CONSTANTS
    WordCount = 4
    Regs <- ThreeRegs
    Entries = 2
    Hash <- XorBit
INVARIANTS TypeOK AsksOnce PredictsOwnTarget
PROPERTIES ImplementsIsa KeepsCommitting
