\* A menu of lines for each block, up to three more lines than a file begins
\* with; three calls of the handler behind.
SPECIFICATION Spec
CONSTANTS
  Menus <- MCMenus
  Paths <- MCPaths
  NameParts <- MCNameParts
  ParamParts <- MCParamParts
  Files <- MCFiles
  MaxCalls = 3
INVARIANTS ConfigMeansFile SchemaMeansFile CredentialsNeverMix RefusedForReason
           DefinitionFound RoutesExact LoggedIsSent
CHECK_DEADLOCK FALSE
