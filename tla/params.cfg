SPECIFICATION Spec
CONSTANTS
  Buffers = 3
  Wide = TRUE
  MaxPrio = 99
  MaxCommands = 3
  Envs <- MCEnvs
  Args <- MCArgs
  Lists <- MCLists
INVARIANTS StartsAsTold SetAsGiven
CHECK_DEADLOCK FALSE
