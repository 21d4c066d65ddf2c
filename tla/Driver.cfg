SPECIFICATION Spec
CONSTANTS
  Modules = {main, a}
  Libraries = {l, k}
  MainModule = main
  Start = Start
  Home = Home
  inc = inc
  lib = lib
  IncludePaths <- Includes
  LibraryPaths <- LibraryPath
  Relative = {inc}
  MaxStatements = 2
  MaxDepth = 4
  Emissions <- EmissionsGiven
  Results = {0, 1, 256}
INVARIANTS TypeOK ExitStatus OutputInStartDirectory UsesResolveAlike OnlyRecursionExhausts 
PROPERTIES Terminates
