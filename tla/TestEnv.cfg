\* Three names, any of which may also be taken by the host, and every command.
CONSTANTS
  Env = {a, b, c}
  NoEnv = NoEnv
  MaxNum = 5
SPECIFICATION Spec
INVARIANTS TypeOK UniquePrefixes NothingLeft SelectedExists
