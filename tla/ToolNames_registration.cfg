CONSTANTS
  Char = {"a", "_", "."}
  Legal = {"a", "_"}
  Underscore = "_"
  Registry <- MCRegistry
  Wants <- MCWants
  Offers <- MCOffers
SPECIFICATION Spec
INVARIANTS
  BuiltinsReachable
  PlainNamesDoNotCollide
