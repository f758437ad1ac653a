\* A table and no handler: unions, their reset and what the storage shows.
SPECIFICATION Spec
CONSTANTS
  T <- StorageTables
  Root = "root"
  Top = "nobody"
  Handlers = {}
  Overrides <- Nothing
  Answer <- Nothing
  Declines <- Nothing
  TextBound <- Nothing
  Payloads <- StoragePayloads
  LengthCap = 1
  MaxDepth = 3
  MaxCount = 1
  Words0 <- StorageWords
  Objects0 <- StorageObjects
INVARIANTS StorageShowsMessage
