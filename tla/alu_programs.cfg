\* A program ends, and the machine with it.
SPECIFICATION Spec
CONSTANTS
  Bytes = {0, 1, 15, 16, 127, 128, 255}
  DecimalBytes = {0, 9, 16, 69, 85, 144, 153}
INVARIANTS TypeOK WideArithmetic DecimalArithmetic WideShifts ByteIdentities
CHECK_DEADLOCK FALSE
