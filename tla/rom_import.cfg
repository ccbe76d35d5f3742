SPECIFICATION Spec
CONSTANTS
  i1 = i1
  i2 = i2
  dump = dump
  other = other
  Part = Part
  Mixed = Mixed
  NoFile = NoFile
  NoRom = NoRom
  Original = Original
  Rom <- TwoRoms
  Genuine <- TheDump
  Import <- TwoImports
  MaxCrashes = 1
INVARIANT RomFileWhole
PROPERTY AtomicReplace
CHECK_DEADLOCK FALSE
