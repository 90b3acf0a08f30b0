SPECIFICATION Spec
CONSTANTS
  None = None
  Failed = Failed
  Inner = Inner
  Settings <- MCSettings
  Values <- MCValues
  Default <- MCDefault
  NamespacePaths <- MCNamespacePaths
  RequestPaths <- MCRequestPaths
  Urls <- MCUrls
  Foreign <- MCForeign
  MaxBuilders = 2
  MaxSets = 1
INVARIANTS TypeOK OverridesAreLocal CodecsAgree
PROPERTY RoutedByPath
CHECK_DEADLOCK FALSE
