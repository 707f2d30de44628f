SPECIFICATION RestoreSpec
CONSTANTS
  Gens = {1}
  NoBackup = NoBackup
INVARIANT ClearRespectsForeignKeys
CHECK_DEADLOCK FALSE
