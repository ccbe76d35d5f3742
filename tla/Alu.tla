-------------------------------- MODULE Alu ----------------------------------
(***************************************************************************)
(* i86inline.h: addition and subtraction of the 8086 and the flags they    *)
(* leave, and the conditions that are jumped on.  The code has each twice, *)
(* for bytes and for words: here the half of the range, 0x80 or 0x8000, is *)
(* a parameter h.  The code keeps values that the flags are worked out     *)
(* from when they are wanted; here the flags are kept.                     *)
(***************************************************************************)
EXTENDS Integers

Value(h) == 0..(2 * h - 1)
Flags == [cf : BOOLEAN, pf : BOOLEAN, af : BOOLEAN, zf : BOOLEAN, sf : BOOLEAN,
          of : BOOLEAN]

Bit(x, n) == (x \div (2 ^ n)) % 2 = 1
Ones(x) == [n \in 0..7 |-> (x \div (2 ^ n)) % 2]
Even(x) == LET b == Ones(x)
           IN  (b[0] + b[1] + b[2] + b[3] + b[4] + b[5] + b[6] + b[7]) % 2 = 0

Negative(x, h) == x >= h
Signed(x, h) == IF Negative(x, h) THEN x - 2 * h ELSE x

(* set_SZPF and set_AF: AF is the carry into bit 4.                        *)
SZP(f, v, h) == [f EXCEPT !.sf = Negative(v, h), !.zf = (v = 0), !.pf = Even(v)]
Aux(x, y, z) == (Bit(x, 4) # Bit(y, 4)) # Bit(z, 4)

OverAdd(v, s, d, h) == Negative(v, h) # Negative(s, h) /\ Negative(v, h) # Negative(d, h)
OverSubAsAdd(v, s, d, h) == Negative(v, h) # Negative(s, h) /\ Negative(v, h) # Negative(d, h)
OverSub(v, s, d, h) == Negative(d, h) # Negative(s, h) /\ Negative(d, h) # Negative(v, h)

Carry(f) == IF f.cf THEN 1 ELSE 0

(* ADDB, ADDX and SUBB, SUBX with a carry: the flags, and the result.      *)
Sum(d, s, c, h) == IF d + s + c < 2 * h THEN d + s + c ELSE d + s + c - 2 * h
Difference(d, s, c, h) == IF d - s - c < 0 THEN d - s - c + 2 * h ELSE d - s - c

AfterAdd(f, d, s, c, h) ==
  LET v == Sum(d, s, c, h)
  IN  [SZP(f, v, h) EXCEPT !.cf = (d + s + c >= 2 * h), !.of = OverAdd(v, s, d, h),
                           !.af = Aux(v, s, d)]
AfterSub(f, d, s, c, h) ==
  LET v == Difference(d, s, c, h)
  IN  [SZP(f, v, h) EXCEPT !.cf = (d - s - c < 0), !.of = OverSub(v, s, d, h),
                           !.af = Aux(v, s, d)]

(* INC and DEC leave the carry alone.                                      *)
AfterInc(f, d, h) ==
  LET v == Sum(d, 1, 0, h)
  IN  [SZP(f, v, h) EXCEPT !.of = (d = h - 1), !.af = Aux(v, d, 1)]
AfterDec(f, d, h) ==
  LET v == Difference(d, 1, 0, h)
  IN  [SZP(f, v, h) EXCEPT !.of = (d = h), !.af = Aux(v, d, 1)]

(* The conditions of 0x70 to 0x7f.                                         *)
Holds(f) ==
  [o |-> f.of, no |-> ~f.of, c |-> f.cf, nc |-> ~f.cf, z |-> f.zf, nz |-> ~f.zf,
   ce |-> f.cf \/ f.zf, nce |-> ~(f.cf \/ f.zf), s |-> f.sf, ns |-> ~f.sf,
   p |-> f.pf, np |-> ~f.pf, l |-> f.sf # f.of /\ ~f.zf, nl |-> f.sf = f.of,
   le |-> f.zf \/ f.sf # f.of, nle |-> f.sf = f.of /\ ~f.zf]
=============================================================================
