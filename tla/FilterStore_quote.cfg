SPECIFICATION Spec
CONSTANTS
  tgf = tgf
  word = word
  quoted = quoted
  bad = bad
  a = a
  b = b
  c = c
  n = n
  Patterns = {tgf, quoted}
  Compiles = {tgf, quoted}
  Unsafe = {quoted}
  TgFocus = tgf
  Msgs = {b}
  Hits <- MCHits
  Word = 16
  Args <- MCArgs
  EditProps <- EditKeywords
  UserTexts <- NoTexts
  MaxFilters = 2
  MaxPatterns = 1
  MayFail = FALSE
PROPERTIES
  SuccessReadsBack
