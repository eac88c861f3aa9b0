\* Enough numbers for one that is not a decimal number: a is 10.
CONSTANTS
  Env = {a, b}
  NoEnv = NoEnv
  MaxNum = 10
SPECIFICATION Spec
INVARIANT VlanPrefixes
