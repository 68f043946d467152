SPECIFICATION Spec
CONSTANTS
  tgf = tgf
  word = word
  stop = stop
  bad = bad
  Patterns = {tgf, word, stop, bad}
  Compiles = {tgf, word, stop}
  Unsafe = {}
  TgFocus = tgf
  Msgs = {}
  Hits = {}
  Word = 16
  Loaded <- MCLoaded
  Mentions <- MCMentions
  UserTexts <- MCUserTexts
  TheirTexts <- MCTheirTexts
  MaxSaid = 1
  MaxFilters = 3
INVARIANTS
  FirstWordRuns
CHECK_DEADLOCK FALSE
