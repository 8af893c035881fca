CONSTANTS
  Width = 11
  Pow <- MCPow
  Operands <- MCOperands
  Forms <- MCForms
  Link = 9
  MaxIrq = 1
  ARR_LENGTH = 5
  Values = {1, 2, 3}
  SIEVE_LENGTH = 50
SPECIFICATION TestSpec
INVARIANTS TestTypeOK LongDivision Permuted BubbleTail Partitioned Sieved TestsPass
PROPERTIES Emulated TestsEnd
