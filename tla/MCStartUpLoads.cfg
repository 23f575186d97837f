SPECIFICATION Spec
CONSTANTS
  Names = {"g", "p"}
  UrlKind <- MCUrlKind
  Ids = {"a", "b"}
  Frameworks = {"fw"}
  Versions <- MCVersions
  Automated <- MCAuto
  Manual <- MCManual
  Catalogs <- MCCatalogs
  Broken <- MCBroken
  Handlers = {h1}
  None = None
INVARIANT StartUpLoads
