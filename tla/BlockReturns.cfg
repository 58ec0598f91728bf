SPECIFICATION LanguageSpec
CONSTANTS
  Programs <- ReturnInBlock
  Compile <- CompileSource
  Meaning <- Reference
  MaxArgs = 8
  FRAMES_MAX = 64
INVARIANT OutputAgrees
CHECK_DEADLOCK FALSE
