CONSTANTS
  Identifiers <- MCIdentifiers
  Schemas <- MCSchemas
  NoSchema = NoSchema
  NoAlias = NoAlias
  Candidate <- MCCandidate
  Paths <- MCPaths
  FixtureLists <- MCFixtureLists
  ViewSets <- MCViewSets
  CteLists <- MCCteLists
  Bodies <- MCBodies
SPECIFICATION Spec
INVARIANTS
  AliasesAreFresh
  AliasesAreDistinct
  SourcesKeepTheirMeaning
