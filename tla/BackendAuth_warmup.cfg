SPECIFICATION AuthSpec
CONSTANTS
  Password = "secret"
  Passwords = {"secret", "other"}
  Sayings = {}
  MaxTurns = 0
PROPERTIES WarmUpReady
CHECK_DEADLOCK FALSE
