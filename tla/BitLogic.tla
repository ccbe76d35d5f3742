------------------------------ MODULE BitLogic -------------------------------
(***************************************************************************)
(* i86.cpp: OR, AND, XOR and TEST, which work bit by bit.                  *)
(***************************************************************************)
EXTENDS I86, Bitwise

Logic(m, i, v) ==
  [Write(m, i.d, i.h, v) EXCEPT
     !.f = [SZP(m.f, v, i.h) EXCEPT !.cf = FALSE, !.of = FALSE, !.af = FALSE]]
Either(m, i) == Logic(m, i, Read(m, i.d, i.h) | Read(m, i.s, i.h))
Both(m, i) == Logic(m, i, Read(m, i.d, i.h) & Read(m, i.s, i.h))
Differ(m, i) == Logic(m, i, Read(m, i.d, i.h) ^^ Read(m, i.s, i.h))
Test(m, i) == [m EXCEPT !.f = Both(m, i).f]
TestImm(m, i) == [m EXCEPT !.f = [Both(m, i).f EXCEPT !.af = m.f.af]]
=============================================================================
