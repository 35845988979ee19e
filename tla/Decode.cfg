SPECIFICATION Spec
INVARIANTS DecodesEveryInstruction DecodesNothingElse OneClaimant
CHECK_DEADLOCK FALSE
