SPECIFICATION Spec
CONSTANTS
  Numerals = {"0", "2", "16777217.5", "16777218"}
  Printed <- MCPrinted
  NumberOf <- MCNumberOf
  Letters = {"x", "y", "vec3"}
  Binding <- MCBinding
  ArgTokens <- MCArgTokens
  Tokens = {"0", "2", "x", "y", "+", "-", "*", "/", "^", "(", ")", ","}
  MaxTokens <- MCMaxTokens
  MaxSize = 2
  Requests <- MCRequests
  Reading <- MCReading
  MaxObjects = 9
INVARIANTS
  TypeOK
  Tier1ReadsItsGrammar
  LispReadsItsGrammar
  TiersAgreeButForPowers
  PrintedTreesReadBack
  GeneratedCodeComputesTheTree
  EqualExpressionsAreOneObject
PROPERTIES
  ParseCacheIsTransparent
CHECK_DEADLOCK FALSE
