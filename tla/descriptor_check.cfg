\* Every input: verdicts agree with the reference, well-formed ones are accepted.
\* The function returns, so its final states have no successor.
CONSTANTS
  MaxLen <- MCMaxLen
  MaxByte <- MCMaxByte
SPECIFICATION Spec
CHECK_DEADLOCK FALSE
INVARIANT VerdictMatchesReference
PROPERTY WellFormedAccepted
