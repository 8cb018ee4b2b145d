\* Archives of up to three entries with two paths, one copy of each name, and
\* one change by another program.
CONSTANTS
  a = a
  b = b
  Paths = {a, b}
  Archives <- MCArchives
  Overwrites = {"Overwrite", "Skip", "RenameBoth", "Ask"}
  Symlinks = {"Preserve", "Follow", "Skip"}
  None = None
  MaxCopies = 2
  MaxForeign = 1
SPECIFICATION Spec
CHECK_DEADLOCK FALSE
INVARIANTS
  TypeOK
  LinksComeFromTheArchive
  ReportAddsUp
PROPERTIES
  OnlyAgreedIsReplaced
