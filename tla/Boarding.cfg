SPECIFICATION Spec
CONSTANTS
  Networks = {32, 33}
  QueueLen = 3
  MaxOps = 7
CHECK_DEADLOCK FALSE
INVARIANTS CredentialsComposed CredentialAnswered
