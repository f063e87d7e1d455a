SPECIFICATION MCSpec
CONSTANTS
    ByteBits = 1
    MemWords = 1
    Regs <- ThreeRegs
    Instructions <- MCInstructions
    Imms = {0, 7, 14}
    Offsets = {4, 12}
INVARIANTS ComputesRv32i CoresComputeRv32im
