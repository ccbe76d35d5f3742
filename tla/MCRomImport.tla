----------------------------- MODULE MCRomImport -----------------------------
(* Two images, one of them the known dump, and two imports.                 *)
EXTENDS RomImport

CONSTANTS i1, i2, dump, other

TwoImports == {i1, i2}
TwoRoms    == {dump, other}
TheDump    == {dump}
=============================================================================
