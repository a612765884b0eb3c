SPECIFICATION Spec
CONSTANTS
  Configs <- MCConfigs
  Files <- MCFiles
  MaxEdits = 3
INVARIANTS
  LinksPatchedSource
  LinksCurrentSource
  LinksResolve
