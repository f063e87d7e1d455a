SPECIFICATION AxiSpec
CONSTANTS
    WordCount = 4
    Regs <- ThreeRegs
    Entries = 2
    Hash <- XorBit
PROPERTY RetiresReference
