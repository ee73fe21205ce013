SPECIFICATION UpdateSpec
CONSTANTS
  Entries = {1, 2}
  FileOf <- OneEach
  NameOf <- OwnName
  KeyOf <- OwnKey
  Texts = {a, b}
  NoText = NoText
  Langs = {l1, l2}
  NoLang = NoLang
  Renames = FALSE
  MaxEdits = 2
  MaxRuns = 3
  MaxUploads = 1
  MaxFaults = 1
SYMMETRY Alternatives
INVARIANTS ArchivedForItsText  
CHECK_DEADLOCK FALSE
