SPECIFICATION Spec
CONSTANTS
  Star = "*"
  Symbols <- MCSymbols
  Wild <- MCWild
  Keys <- MCKeys
  Invalid <- MCInvalid
  Globs <- MCGlobs
INVARIANTS EachLayerIsServed GetManyFindsAll
PROPERTIES SparesTheRest
CHECK_DEADLOCK FALSE
