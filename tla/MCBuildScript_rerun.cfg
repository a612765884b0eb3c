SPECIFICATION Spec
CONSTANTS
  Configs <- MCPlain
  Files <- MCFiles
  MaxEdits = 3
INVARIANTS
  UpdatesArePickedUp
