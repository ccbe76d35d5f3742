-------------------------------- MODULE I86 ----------------------------------
(***************************************************************************)
(* i86.cpp, i86inline.h, i186.cpp: the instructions that compute, each a   *)
(* function from the machine before it to the machine after it.            *)
(*                                                                         *)
(* An instruction is a record, not bytes: `op' what is done, `h' the half  *)
(* of its range (128 for bytes, 32768 for words), `d' and `s' its operands *)
(* as the code calls them, m_dst and m_src.  Timing is left out.           *)
(***************************************************************************)
EXTENDS Machine

S == INSTANCE SequencesExt

-----------------------------------------------------------------------------
(* 0x00 to 0x3d, 0x80 to 0x83: two operands, a result, flags.  The carry   *)
(* of a byte is bit 8 of the sum in 32 bits, so it turns on what m_src has *)
(* above the byte: nothing, unless 0x82 extended a negative one.           *)
CarryOut(i, f, x) == IF i.s.kind = "extended" THEN [f EXCEPT !.cf = Bit(x, 8)] ELSE f

Plus(m, i, c) ==
  LET d == Read(m, i.d, i.h)
      s == Read(m, i.s, i.h)
  IN  [Write(m, i.d, i.h, Sum(d, s, c, i.h)) EXCEPT
         !.f = CarryOut(i, AfterAdd(m.f, d, s, c, i.h), d + Signed(s, i.h) + c)]
Minus(m, i, c) ==
  LET d == Read(m, i.d, i.h)
      s == Read(m, i.s, i.h)
  IN  [Write(m, i.d, i.h, Difference(d, s, c, i.h)) EXCEPT
         !.f = CarryOut(i, AfterSub(m.f, d, s, c, i.h), d - Signed(s, i.h) - c)]

Add(m, i) == Plus(m, i, 0)
AdcWithoutCarry(m, i) == Plus(m, i, 0)
Adc(m, i) == Plus(m, i, Carry(m.f))
Sbb(m, i) == Minus(m, i, Carry(m.f))
Sub(m, i) == Minus(m, i, 0)
Cmp(m, i) == [m EXCEPT !.f = Sub(m, i).f]

(* 0x80 and 0x81: the bits under 0x38 choose one of these, the source is   *)
(* an immediate.  0x82 and 0x83 extend a byte, for a byte and for a word.  *)
Group == <<"add", "or", "adc", "sbb", "and", "sub", "xor", "cmp">>
Extended(n) == IF Negative(n, Byte) THEN n + 2 * Word - 2 * Byte ELSE n
Immediate(k, h, d, n) == [op |-> Group[k], h |-> h, d |-> d, s |-> Imm(n)]
ImmediateByte(k, h, d, n) ==
  [op |-> Group[k], h |-> h, d |-> d,
   s |-> IF h = Word THEN Imm(Extended(n)) ELSE ExtendedImm(n)]

-----------------------------------------------------------------------------
(* 0x40 to 0x4f, 0xfe, 0xff: INC and DEC.                                  *)
Inc(m, i) ==
  LET d == Read(m, i.d, i.h)
  IN  [Write(m, i.d, i.h, Sum(d, 1, 0, i.h)) EXCEPT !.f = AfterInc(m.f, d, i.h)]
Dec(m, i) ==
  LET d == Read(m, i.d, i.h)
  IN  [Write(m, i.d, i.h, Difference(d, 1, 0, i.h)) EXCEPT !.f = AfterDec(m.f, d, i.h)]

(* 0xf6, 0xf7.  Products and quotients are worked out in halves of h's     *)
(* digits, to stay within the integers.                                    *)
Complement(m, i) == Write(m, i.d, i.h, 2 * i.h - 1 - Read(m, i.d, i.h))
Neg(m, i) ==
  LET s == Read(m, i.d, i.h)
  IN  [Write(m, i.d, i.h, Difference(0, s, 0, i.h)) EXCEPT !.f = AfterSub(m.f, 0, s, 0, i.h)]

Low(h)  == IF h = Byte THEN "AL" ELSE "AX"
High(h) == IF h = Byte THEN "AH" ELSE "DX"
Digit(h) == IF h = Byte THEN 16 ELSE 256
Pair(m, h, hi, lo) == SetReg(SetReg(m, Low(h), lo), High(h), hi)

Product(a, b, h) ==
  LET k == Digit(h)
      low == (a % k) * b
      high == (a \div k) * b
  IN  [hi |-> (high + (low \div k)) \div k, lo |-> (low + k * (high % k)) % (2 * h)]

Multiplied(m, h, hi, lo) ==
  [Pair(m, h, hi, lo) EXCEPT !.f.cf = (hi # 0), !.f.of = (hi # 0),
                             !.f.zf = (hi = 0 /\ lo = 0)]
Mul(m, i) ==
  LET p == Product(Reg(m, Low(i.h)), Read(m, i.d, i.h), i.h)
  IN  Multiplied(m, i.h, p.hi, p.lo)
Imul(m, i) ==
  LET a == Reg(m, Low(i.h))
      b == Read(m, i.d, i.h)
      p == Product(a, b, i.h)
      signs == (IF Negative(a, i.h) THEN b ELSE 0) + (IF Negative(b, i.h) THEN a ELSE 0)
  IN  Multiplied(m, i.h, Wrapped(p.hi - signs, i.h), p.lo)

Divided(m, h, q, r) == [Pair(m, h, r, q) EXCEPT !.f.zf = (q = 0)]

DivUnguarded(m, i) ==
  LET n == Read(m, i.d, i.h)
      k == Digit(i.h)
      lo == Reg(m, Low(i.h))
      first == Reg(m, High(i.h)) * k + (lo \div k)
      second == (first % n) * k + (lo % k)
  IN  IF n = 0 THEN Interrupt(m, 0)
      ELSE Divided(m, i.h, Wrapped(k * (first \div n) + (second \div n), i.h), second % n)

(* A quotient that does not fit, or a divisor of zero, raises interrupt 0. *)
Div(m, i) ==
  LET n == Read(m, i.d, i.h)
      k == Digit(i.h)
      lo == Reg(m, Low(i.h))
      first == Reg(m, High(i.h)) * k + (lo \div k)
      second == (first % n) * k + (lo % k)
  IN  IF Reg(m, High(i.h)) >= n THEN Interrupt(m, 0)
      ELSE Divided(m, i.h, k * (first \div n) + (second \div n), second % n)

Min2(a, b) == IF a < b THEN a ELSE b
Abs(x) == IF x < 0 THEN -x ELSE x
Truncated(a, b) == IF (a < 0) = (b < 0) THEN Abs(a) \div Abs(b) ELSE -(Abs(a) \div Abs(b))

(* The lower bound leaves out the most negative quotient, as m_MF is set.  *)
Idiv(m, i) ==
  LET n == Signed(Read(m, i.d, i.h), i.h)
      a == Signed(Reg(m, High(i.h)), i.h) * 2 * i.h + Reg(m, Low(i.h))
      q == Truncated(a, n)
  IN  IF n = 0 THEN Interrupt(m, 0)
      ELSE IF q > i.h - 1 \/ q < -(i.h - 1) THEN Interrupt(m, 0)
      ELSE Divided(m, i.h, Wrapped(q, i.h), Wrapped(a - q * n, i.h))

(* i186: 0x69, 0x6b.                                                       *)
ImulBy(m, i) ==
  LET p == Signed(Read(m, i.s, Word), Word) * Signed(i.n, Word)
      over == p \div Word \notin {0, -1}
  IN  [Write(m, i.d, Word, p) EXCEPT !.f.cf = over, !.f.of = over]

(* 0xd4, 0xd5, 0x98, 0x99, 0xd6.                                           *)
Aam(m, i) ==
  LET al == Reg(m, "AL")
      p == SetReg(SetReg(m, "AH", al \div i.n), "AL", al % i.n)
  IN  IF i.n = 0 THEN Interrupt(m, 0)
      ELSE [p EXCEPT !.f = SZP(m.f, p.w["AX"], Word)]
Aad(m, i) ==
  LET v == Wrapped(Reg(m, "AH") * i.n + Reg(m, "AL"), Byte)
  IN  [m EXCEPT !.w["AX"] = v, !.f = SZP(m.f, v, Byte)]
Cbw(m) == SetReg(m, "AH", IF Negative(Reg(m, "AL"), Byte) THEN 255 ELSE 0)
Cwd(m) == SetReg(m, "DX", IF Negative(Reg(m, "AX"), Word) THEN 65535 ELSE 0)
Salc(m) == SetReg(m, "AL", IF m.f.cf THEN 255 ELSE 0)

(* ADJ4: DAA with n = 6, DAS with n = -6; ADJB: AAA and AAS.               *)
Adjust4(m, n) ==
  LET al  == Reg(m, "AL")
      low == m.f.af \/ al % 16 > 9
      a   == IF low THEN al + n ELSE al
      cf  == m.f.cf \/ a \notin 0..255
      all == cf \/ Wrapped(a, Byte) > 159
      v   == Wrapped(IF all THEN a + 16 * n ELSE a, Byte)
  IN  [SetReg(m, "AL", v) EXCEPT
         !.f = [SZP(m.f, v, Byte) EXCEPT !.af = low, !.cf = all]]

AdjustByte(m, n, carry) ==
  LET al  == Reg(m, "AL")
      low == m.f.af \/ al % 16 > 9
      p   == IF low THEN SetReg(SetReg(m, "AL", al + n), "AH", Reg(m, "AH") + carry) ELSE m
  IN  [SetReg(p, "AL", Reg(p, "AL") % 16) EXCEPT !.f.af = low, !.f.cf = low]

Daa(m) == Adjust4(m, 6)
Das(m) == Adjust4(m, -6)
Aaa(m) == AdjustByte(m, 6, IF Reg(m, "AL") > 249 THEN 2 ELSE 1)
Aas(m) == AdjustByte(m, -6, IF Reg(m, "AL") < 6 THEN -2 ELSE -1)

-----------------------------------------------------------------------------
(* Shifts and rotates: one step, from a value and a carry to the next.     *)
Odd(v) == v % 2 = 1
Shifted(v, cf) == [v |-> v, cf |-> cf]
Unit(b, n) == IF b THEN n ELSE 0

Rol(p, h) == Shifted(Wrapped(2 * p.v, h) + Unit(Negative(p.v, h), 1), Negative(p.v, h))
Ror(p, h) == Shifted(p.v \div 2 + Unit(Odd(p.v), h), Odd(p.v))
Rcl(p, h) == Shifted(Wrapped(2 * p.v, h) + Unit(p.cf, 1), Negative(p.v, h))
Rcr(p, h) == Shifted(p.v \div 2 + Unit(p.cf, h), Odd(p.v))
Shl(p, h) == Shifted(Wrapped(2 * p.v, h), Negative(p.v, h))
Shr(p, h) == Shifted(p.v \div 2, Odd(p.v))
Sar(p, h) == Shifted(p.v \div 2 + Unit(Negative(p.v, h), h), Odd(p.v))

StepOf(op, p, h) ==
  CASE op = "rol" -> Rol(p, h) [] op = "ror" -> Ror(p, h)
    [] op = "rcl" -> Rcl(p, h) [] op = "rcr" -> Rcr(p, h)
    [] op = "shl" -> Shl(p, h) [] op = "shr" -> Shr(p, h) [] op = "sar" -> Sar(p, h)

Repeated(op, p, h, c) == S!FoldLeft(LAMBDA q, n : StepOf(op, q, h), p, [n \in 1..c |-> n])

(* 0xd0 and 0xd1 move by one and set OF; 0xc0, 0xc1, 0xd2 and 0xd3 by the  *)
(* low five bits of a count, and leave OF alone.                           *)
CountOf(m, i) ==
  CASE i.by = "one" -> 1
    [] i.by = "CL"  -> Reg(m, "CL") % 32
    [] i.by = "imm" -> i.n % 32

Rotate(m, i) ==
  LET v == Read(m, i.d, i.h)
      p == Repeated(i.op, Shifted(v, m.f.cf), i.h, CountOf(m, i))
  IN  [Write(m, i.d, i.h, p.v) EXCEPT
         !.f.cf = p.cf,
         !.f.of = IF i.by = "one" THEN Negative(v, i.h) # Negative(p.v, i.h) ELSE @]
Shift(m, i) ==
  LET r == Rotate(m, i)
  IN  IF CountOf(m, i) = 0 THEN m
      ELSE [r EXCEPT !.f = SZP(r.f, Read(r, i.d, i.h), i.h)]

=============================================================================
