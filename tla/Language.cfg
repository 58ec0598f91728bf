SPECIFICATION LanguageSpec
CONSTANTS
  Programs <- Conforming
  Compile <- CompileSource
  Meaning <- Reference
  MaxArgs = 8
  FRAMES_MAX = 64
INVARIANTS OutputAgrees Balanced LandingsAlive OpenUpvaluesOnStack JumpsLand
PROPERTIES CallersKeepTheirStack Terminates
CHECK_DEADLOCK FALSE
