CONSTANTS
  MAX_STATUS_SETS = 3
  MAX_ERROR_SETS = 3
  StatusCodes <- MCStatusCodes
  ErrorCodes <- MCErrorCodes
SPECIFICATION StatusSpec
INVARIANTS CursorsOK
PROPERTIES ErrorsShown StatusesShown
