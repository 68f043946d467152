SPECIFICATION Spec
CONSTANTS
  tgf = tgf
  word = word
  bad = bad
  a = a
  b = b
  c = c
  n = n
  Patterns = {tgf, word, bad}
  Compiles = {tgf, word}
  Unsafe = {}
  TgFocus = tgf
  Msgs = {a, b, c, n}
  Hits <- MCHits
  Word = 16
  Loaded <- MCLoaded
  Ids <- MCIds
  EditProps <- MCProps
  MaxFilters = 2
  MaxPatterns = 2
INVARIANTS
  TypeOK
  GroupNeverEmpty
  DocumentedRule
PROPERTIES
  BansMonotone
