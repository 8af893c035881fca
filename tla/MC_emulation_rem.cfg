CONSTANTS
  Width = 11
  Pow <- MCPow
  Operands <- RemSOperands
  Forms <- RemSForms
  Link = 9
  MaxIrq = 0
  ARR_LENGTH = 1
  Values = {1}
  SIEVE_LENGTH = 50
SPECIFICATION TestSpec
PROPERTY RemSign
