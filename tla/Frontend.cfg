SPECIFICATION FrontendSpec
CONSTANTS
  Names = {"Products"}
  Operations <- MCOperations
  Notes = {"n"}
  Namespaces = {"ODataService", "Shop"}
  SchemaVersions = {"", "1"}
  Tops = {0, 5}
  Readers = {r1, r2}
  Formats = {"xml", "json"}
  MaxCalls = 3
  Namespace = "NS"
  Handlers <- MCHandlers
  Overloads <- MCOverloads
  Paths <- MCPaths
  Ids <- MCIds
  Parameters <- MCParameters
  Options <- MCOptions
  Versions <- MCVersions
  Models <- MCModels
  Structs <- MCStructs
  Exposures <- MCExposures
  PropertyPaths <- MCPropertyPaths
  MaxRegistrations = 3
SYMMETRY ReaderSymmetry
INVARIANTS
  ConfigurationIsUniform
  CachedIsCurrent
  SpellingsAgree
  RightOperationAnswers
  DocumentsAgree
  ModelFollowsDeclarations
CHECK_DEADLOCK FALSE
