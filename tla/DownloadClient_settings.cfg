SPECIFICATION ClientSpec
CONSTANTS
  Downloads <- MCDownloads
  Stages = {"extracting"}
  MaxMissing = 2
  Pages = {"a"}
  Values <- MCValues
  Chosen = {"mine"}
  Tokens <- MCTokens
  Envs <- MCEnvs
  Defaults <- MCDefaults
  MaxBoots = 2
  MaxSaves = 3
CHECK_DEADLOCK FALSE
INVARIANTS AnswersSound SabnzbdPurged SettingsKept
PROPERTY SecretKept
