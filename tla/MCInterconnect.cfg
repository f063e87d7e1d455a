CONSTANT LineLen = 7
SPECIFICATION MCSpec
INVARIANTS ReadBeatsInOrder WriteBeatsInOrder OvertakenOnce
PROPERTY RequestServed
