\* Three handlers and three tables, ids that mean something else in every scope.
SPECIFICATION Spec
CONSTANTS
  T <- RoutingTables
  Root = "root"
  Top = "a"
  Handlers = {"a", "b", "c"}
  Overrides <- RoutingOverrides
  Answer <- RoutingAnswers
  Declines <- RoutingDeclines
  TextBound <- RoutingBounds
  Payloads <- RoutingPayloads
  LengthCap = 2
  MaxDepth = 4
  MaxCount = 1
  Words0 <- RoutingWords
  Objects0 <- Nothing
INVARIANTS TypeOK TablesMirrorScopes HandlersMirrorScopes HeardByItsOwner
