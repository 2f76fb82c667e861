SPECIFICATION Spec
CONSTANTS
  MaxHooks = 5
  MaxInt = 31
  Texts = {"", "u", "p"}
  Upstreams = {"", "h"}
  DefaultPageSize = 4
  MaxTotal = 6
  MaxMessage = 2
  MaxBytes = 7
  SSEReads <- SomeSSEReads
  GRPCReads <- SomeGRPCReads
  MaxLines = 3
  ReceivedLines <- SomeLines
  Edits <- SomeEdits
  Codes = {103, 200, 204, 304}
  MaxRules = 3
  MaxPattern = 4
  WrittenRules <- MCWrittenRules
  FlowsMet <- MCFlowsMet
  Letters = {"a", ".", "*"}
  MatchTexts <- MCMatchTexts
  Starts = {"", "u", "v"}
  Sites = {"", "u"}
  Contents = {"text", "binary"}
  HeaderNames = {"k", "l"}
  HeaderValues = {"a", "b"}
  Headers <- SomeHeaders
  UrlPatterns = {1, 2}
INVARIANTS
  ChainsDecide
  PagesSound
  ReadsDoNotMatter
  WireSound
  RulesMean
  AccountKept
  ScriptsEdit
CHECK_DEADLOCK FALSE
