SPECIFICATION ServerSpec
CONSTANTS
  old = old
  new = new
  Pods = {old, new}
  Files <- MCFiles
  Envs <- MCEnvs
  KeysFile = 2
  Nobody = Nobody
  MaxFaults = 2
INVARIANTS AppliedAsRecorded UsersStopFirst ServesMigrated
PROPERTY ServesInTheEnd
