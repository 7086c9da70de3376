\* One connection, one host, four addresses, two key numbers.
CONSTANTS
  theHost = theHost
  k1 = k1
  k2 = k2
  None = None
  Hosts = {theHost}
  Addresses <- MCAddresses
  Texts <- MCTexts
  Environments <- MCEnvironments
  Versions = {1, 2}
  Keys = {k1, k2}
  ShortKey = ShortKey
  NoKey = NoKey
  NoHost = NoHost
  NoAddress = NoAddress
  NoRow = NoRow
  NoJob = NoJob
  NoEngine = NoEngine
  Schemas <- MCSchemas
  EmptySchema = EmptySchema
  TableNames = {"a", "b", "c"}
  AliasNames = {"s", "b"}
  ColumnNames = {"x", "y"}
  NoIdentifier = NoIdentifier
SPECIFICATION MCSpec
INVARIANTS SavedTypeOK OnlyCheckedAddresses OneScopeExact ResolvableAccepted
PROPERTIES RotationKeepsRows RefusedForItsHost
