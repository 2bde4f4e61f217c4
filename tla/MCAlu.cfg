\* All 65536 pairs of bytes.
SPECIFICATION Spec
INVARIANT AddFlagsCorrect
INVARIANT SubFlagsCorrect
INVARIANT StepFlagsCorrect
CHECK_DEADLOCK FALSE
