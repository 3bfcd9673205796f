SPECIFICATION Spec
CONSTANTS
  Buffers = 4
  Wide = TRUE
  MaxPrio = 99
  MaxCommands = 3
  Envs <- NoEnvs
  Args <- NoArgs
  Lists <- GoodLists
PROPERTY OthersKept
CHECK_DEADLOCK FALSE
