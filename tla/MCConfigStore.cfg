SPECIFICATION Spec
CONSTANTS
  Benches = {"b1", "b2", "__inventory__"}
  Inventory = "__inventory__"
  Boards = {"y"}
  MaxId = 2
  Stores <- MCStores
  Seeds <- MCSeeds
  None = None
  Old = Old
INVARIANTS NoOrphanRows SavedBenchIsKept MigrationCompletes
PROPERTY MetadataKept
CONSTRAINT SecretsOnly
