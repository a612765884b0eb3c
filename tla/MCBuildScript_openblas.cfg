SPECIFICATION Spec
CONSTANTS
  Configs <- MCOpenblas
  Files <- MCFiles
  MaxEdits = 3
INVARIANTS
  FeaturesAreLinked
