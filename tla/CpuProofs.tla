------------------------------ MODULE CpuProofs -------------------------------
(***************************************************************************)
(* The interrupt controller and the CPU's loop, for any sources, timers,   *)
(* priorities, modes and masks, and any firmware; what the flags of an     *)
(* addition or a comparison mean, for operands of any width; and, for      *)
(* every machine and every operand, what the instructions guarantee that   *)
(* the routines of Routines.tla rest on: interrupts and their return,      *)
(* multiplication, division, and decimal correction.                       *)
(***************************************************************************)
EXTENDS Cpu, I86, TLAPS

LEMMA Numbers ==
  /\ \A x \in Source : x \in Int /\ 0 <= x /\ x <= 6
  /\ \A t \in Clock : t \in Int /\ 0 <= t /\ t <= 2
BY InterruptsAssumption DEF InterruptsAssumption

(* The part of a set of sources with numbers up to k.                     *)
UpTo(Q, k) == {x \in Q : x <= k}

LEMMA AboveIsOrder ==
  ASSUME NEW c \in Intr, NEW x \in Source, NEW y \in Source
  PROVE  /\ ~(Above(c, x, y) /\ Above(c, y, x))
         /\ x # y => Above(c, x, y) \/ Above(c, y, x)
         /\ \A z \in Source : Above(c, x, y) /\ Above(c, y, z) => Above(c, x, z)
<1>1. c.level \in [Source -> 0..7]  BY DEF Intr
<1> QED  BY <1>1, Numbers DEF Above

LEMMA FirstGrows ==
  ASSUME NEW c \in Intr, NEW Q \in SUBSET Source, NEW k \in 0..5,
         UpTo(Q, k) # {} => First(c, UpTo(Q, k)) # {}
  PROVE  UpTo(Q, k + 1) # {} => First(c, UpTo(Q, k + 1)) # {}
<1>1. CASE k + 1 \notin Q
  <2>1. ASSUME NEW x \in Q  PROVE  (x <= k + 1) = (x <= k)
    <3>1. x \in Int /\ x # k + 1 /\ k \in Int  BY <1>1, Numbers
    <3> QED  BY <3>1
  <2>2. UpTo(Q, k + 1) = UpTo(Q, k)  BY <2>1, Zenon DEF UpTo
  <2> QED  BY <2>2
<1>2. CASE k + 1 \in Q /\ UpTo(Q, k) = {}
  BY <1>2, Numbers DEF UpTo, First
<1>3. CASE k + 1 \in Q /\ UpTo(Q, k) # {}
  <2>1. PICK x \in First(c, UpTo(Q, k)) : TRUE  BY <1>3
  <2>2. x \in Source /\ x \in Q /\ x <= k /\ k + 1 \in Source
        /\ \A y \in Q : y <= k /\ y # x => Above(c, x, y)
    BY <1>3, <2>1, Numbers DEF First, UpTo
  <2>3. CASE Above(c, x, k + 1)
    <3>1. x \in First(c, UpTo(Q, k + 1))  BY <1>3, <2>2, <2>3, Numbers DEF First, UpTo
    <3> QED  BY <3>1
  <2>4. CASE ~Above(c, x, k + 1)
    <3>1. Above(c, k + 1, x)  BY <2>2, <2>4, AboveIsOrder
    <3>2. \A y \in Q : y <= k => Above(c, k + 1, y)
      BY <2>2, <3>1, AboveIsOrder
    <3>3. k + 1 \in First(c, UpTo(Q, k + 1))  BY <1>3, <3>2, Numbers DEF First, UpTo
    <3> QED  BY <3>3
  <2> QED  BY <2>3, <2>4
<1> QED  BY <1>1, <1>2, <1>3

(* The scan has exactly one end, if it has any.                            *)
LEMMA OneFirst ==
  ASSUME NEW c \in Intr, NEW Q \in SUBSET Source, Q # {}
  PROVE  \E x \in Q : First(c, Q) = {x} /\ \A y \in Q \ {x} : Above(c, x, y)
<1>1. UpTo(Q, 0) # {} => First(c, UpTo(Q, 0)) # {}
  BY Numbers DEF UpTo, First
<1>2. UpTo(Q, 6) # {} => First(c, UpTo(Q, 6)) # {}
  <2>1. UpTo(Q, 1) # {} => First(c, UpTo(Q, 1)) # {}  BY <1>1, FirstGrows
  <2>2. UpTo(Q, 2) # {} => First(c, UpTo(Q, 2)) # {}  BY <2>1, FirstGrows
  <2>3. UpTo(Q, 3) # {} => First(c, UpTo(Q, 3)) # {}  BY <2>2, FirstGrows
  <2>4. UpTo(Q, 4) # {} => First(c, UpTo(Q, 4)) # {}  BY <2>3, FirstGrows
  <2>5. UpTo(Q, 5) # {} => First(c, UpTo(Q, 5)) # {}  BY <2>4, FirstGrows
  <2> QED  BY <2>5, FirstGrows
<1>3. UpTo(Q, 6) = Q
  <2>1. \A x \in Q : x <= 6  BY Numbers
  <2> QED  BY <2>1, Zenon DEF UpTo
<1>4. PICK x \in First(c, Q) : TRUE  BY <1>2, <1>3
<1>5. x \in Q /\ \A y \in Q \ {x} : Above(c, x, y)  BY <1>4 DEF First
<1>6. First(c, Q) = {x}  BY <1>5, AboveIsOrder DEF First
<1> QED  BY <1>5, <1>6

-----------------------------------------------------------------------------
(* update_interrupt_state.                                                 *)

(* The registers the scan looks at.                                        *)
Alike(c, d) ==
  /\ d.level = c.level /\ d.masked = c.masked /\ d.mode = c.mode
  /\ d.priority_mask = c.priority_mask /\ d.in_service = c.in_service
  /\ d.request = c.request /\ d.status = c.status

(* What the line shows of the record c.                                    *)
Shows(c) == First(c, Ends(c)) \cap Offers(c)

True(c) ==
  /\ c.line = c.pending
  /\ c.pending => \E x \in Shows(c) :
                     c.offered /\ c.ack_mask = {x} /\ c.vector = OfferVector(c, x)

(* What is to be offered is pending, unless it is in service already.      *)
Seen(c) == \A x \in Shows(c) : x \in c.in_service \/ (c.pending /\ x \in c.ack_mask)

Raises(c) == c.pending => c.line

LEMMA ScanAlike ==
  ASSUME NEW c \in Intr, NEW d \in Intr, Alike(c, d)
  PROVE  /\ Ends(d) = Ends(c) /\ Offers(d) = Offers(c) /\ Shows(d) = Shows(c)
         /\ \A x \in Source : OfferVector(d, x) = OfferVector(c, x)
BY DEF Alike, Shows, Ends, Offers, Scanned, Requesting, Nests, First, Above, OfferVector

LEMMA Least ==
  ASSUME NEW T \in SUBSET Clock, T # {}
  PROVE  \E t \in T : \A u \in T : t <= u
<1>1. \A t \in T : t = 0 \/ t = 1 \/ t = 2  BY Numbers
<1>2. CASE 0 \in T  BY <1>1, <1>2
<1>3. CASE 0 \notin T /\ 1 \in T  BY <1>1, <1>3
<1>4. CASE 0 \notin T /\ 1 \notin T  BY <1>1, <1>4
<1> QED  BY <1>2, <1>3, <1>4

LEMMA VectorTyped ==
  ASSUME NEW c \in Intr, NEW x \in Offers(c)
  PROVE  OfferVector(c, x) \in Vectors
<1>1. CASE x # Tmr
  BY <1>1, Numbers DEF Offers, Scanned, OfferVector, Vectors, Tmr
<1>2. CASE x = Tmr
  <2>1. c.status # {} /\ c.status \subseteq Clock
    BY <1>2 DEF Offers, Requesting, Tmr, Intr
  <2>2. \E t \in c.status : \A u \in c.status : t <= u
    BY <2>1, Least
  <2>3. (CHOOSE t \in c.status : \A u \in c.status : t <= u) \in Clock  BY <2>1, <2>2
  <2> QED  BY <1>2, <2>3 DEF OfferVector, Vectors
<1> QED  BY <1>1, <1>2

(* The scan, when there is something in it, ends at one source, which it   *)
(* offers or which is in service.                                          *)
LEMMA UpdateCases ==
  ASSUME NEW c \in Intr
  PROVE  /\ Update(c) \in Intr /\ Alike(c, Update(c))
         /\ \/ Ends(c) = {} /\ Shows(c) = {} /\ ~Update(c).pending /\ ~Update(c).line
            \/ \E x \in Offers(c) :
                  /\ Shows(c) = {x}
                  /\ Update(c).pending /\ Update(c).offered /\ Update(c).ack_mask = {x}
                  /\ Update(c).vector = OfferVector(c, x)
                  /\ (c.pending => c.line) => Update(c).line
            \/ Update(c) = c /\ Shows(c) = {} /\ c.in_service # {}
<1>1. CASE Ends(c) = {}
  BY <1>1 DEF Update, Intr, Alike, Shows, First
<1>2. CASE Ends(c) # {}
  <2>1. PICK x \in Ends(c) : First(c, Ends(c)) = {x}
    <3>1. Ends(c) \in SUBSET Source  BY DEF Ends, Scanned
    <3> QED  BY <1>2, <3>1, OneFirst
  <2>2. CASE x \in Offers(c)
    <3>1. Update(c) = Generate(c, x)
      <4>1. (CHOOSE z \in Ends(c) : z \in First(c, Ends(c))) = x  BY <2>1
      <4> QED  BY <1>2, <2>1, <2>2, <4>1 DEF Update
    <3>2. OfferVector(c, x) \in Vectors /\ x \in Source
      BY <2>2, VectorTyped DEF Offers, Scanned
    <3>3. Generate(c, x) \in Intr /\ Alike(c, Generate(c, x))
      BY <3>2 DEF Generate, Intr, Alike
    <3>4. /\ Generate(c, x).pending /\ Generate(c, x).offered
          /\ Generate(c, x).ack_mask = {x} /\ Generate(c, x).vector = OfferVector(c, x)
      BY <3>2 DEF Generate, Intr
    <3>5. (c.pending => c.line) => Generate(c, x).line
      BY <3>2 DEF Generate, Intr
    <3> QED  BY <2>1, <2>2, <3>1, <3>3, <3>4, <3>5 DEF Shows
  <2>3. CASE x \notin Offers(c)
    <3>1. Update(c) = c  BY <1>2, <2>1, <2>3 DEF Update
    <3>2. x \in c.in_service  BY <2>1, <2>3 DEF Ends, Offers
    <3> QED  BY <2>1, <2>3, <3>1, <3>2 DEF Shows, Alike
  <2> QED  BY <2>2, <2>3
<1> QED  BY <1>1, <1>2

(* After an update nothing is forgotten, and what is offered is true if    *)
(* the line was low or the scan did not return early.                      *)
LEMMA Updated ==
  ASSUME NEW c \in Intr, Raises(c)
  PROVE  /\ Update(c) \in Intr /\ Raises(Update(c)) /\ Seen(Update(c))
         /\ Alike(c, Update(c))
         /\ c.in_service = {} \/ Shows(c) # {} \/ (~c.pending /\ ~c.line) => True(Update(c))
<1> DEFINE d == Update(c)
<1>1. d \in Intr /\ Alike(c, d)  BY UpdateCases
<1>2. Shows(d) = Shows(c) /\ \A x \in Source : OfferVector(d, x) = OfferVector(c, x)
  BY <1>1, ScanAlike
<1>3. CASE Ends(c) = {} /\ Shows(c) = {} /\ ~d.pending /\ ~d.line
  BY <1>1, <1>2, <1>3 DEF Raises, Seen, True, Intr
<1>4. CASE \E x \in Offers(c) :
             /\ Shows(c) = {x} /\ d.pending /\ d.offered /\ d.ack_mask = {x}
             /\ d.vector = OfferVector(c, x) /\ ((c.pending => c.line) => d.line)
  <2>1. PICK x \in Offers(c) :
             /\ Shows(c) = {x} /\ d.pending /\ d.offered /\ d.ack_mask = {x}
             /\ d.vector = OfferVector(c, x) /\ ((c.pending => c.line) => d.line)
    BY <1>4
  <2>2. x \in Source  BY <2>1 DEF Offers, Scanned
  <2>3. d.line \in BOOLEAN /\ d.pending \in BOOLEAN  BY <1>1 DEF Intr
  <2>4. d.line /\ d.pending  BY <2>1, Zenon DEF Raises
  <2>5. Raises(d) /\ Seen(d)  BY <1>2, <2>1, <2>4 DEF Raises, Seen
  <2>6. d.line = d.pending  BY <2>3, <2>4, Zenon
  <2>7. \E z \in Shows(d) :
          d.offered /\ d.ack_mask = {z} /\ d.vector = OfferVector(d, z)
    <3>1. x \in Shows(d) /\ d.vector = OfferVector(d, x)  BY <1>2, <2>1, <2>2
    <3> QED  BY <2>1, <3>1, Zenon
  <2>8. True(d)  BY <2>6, <2>7, Zenon DEF True
  <2> QED  BY <1>1, <2>5, <2>8
<1>5. CASE d = c /\ Shows(c) = {} /\ c.in_service # {}
  <2>1. Raises(d) /\ Seen(d)  BY <1>5 DEF Seen
  <2>2. (~c.pending /\ ~c.line) => True(d)  BY <1>5 DEF True, Intr
  <2> QED  BY <1>1, <1>5, <2>1, <2>2
<1> QED  BY <1>3, <1>4, <1>5, UpdateCases

(* A source that was to be offered and still requests is not overtaken by  *)
(* one in service, if service has only ended meanwhile.                    *)
LEMMA NotOvertaken ==
  ASSUME NEW c \in Intr, NEW d \in Intr, NEW x \in Shows(c), x \in Offers(d),
         d.level = c.level, d.masked = c.masked, d.priority_mask = c.priority_mask,
         d.mode = c.mode, d.in_service \subseteq c.in_service
  PROVE  Shows(d) # {}
<1>1. Ends(d) \in SUBSET Source /\ x \in Ends(d)  BY DEF Ends, Offers, Scanned
<1>2. PICK y \in Ends(d) : First(d, Ends(d)) = {y} /\ \A z \in Ends(d) \ {y} : Above(d, y, z)
  BY <1>1, OneFirst
<1>3. CASE y \in Offers(d)  BY <1>2, <1>3 DEF Shows
<1>4. CASE y \notin Offers(d)
  <2>1. y \in Ends(c)  BY <1>2, <1>4 DEF Ends, Offers, Scanned
  <2>2. y # x => Above(c, x, y) /\ Above(d, y, x)
    BY <1>1, <1>2, <2>1 DEF Shows, First
  <2>3. y # x => Above(c, y, x)  BY <2>2 DEF Above
  <2>4. y = x
    BY <1>1, <1>2, <2>2, <2>3, AboveIsOrder
  <2> QED  BY <1>4, <2>4
<1> QED  BY <1>3, <1>4

-----------------------------------------------------------------------------
(* The controller's invariant.                                             *)
CInv ==
  /\ intr \in Intr
  /\ Raises(intr) /\ Seen(intr)
  /\ tidy => True(intr)

LEMMA WriteKeeps ==
  ASSUME CInv, NEW c \in Intr, c.line = intr.line, c.pending = intr.pending,
         c.in_service = intr.in_service, Writes(c)
  PROVE  CInv'
<1>1. Raises(c)  BY DEF CInv, Raises
<1>2. intr' = Update(c) /\ (tidy' => c.in_service = {} \/ (tidy /\ ~(intr.pending /\ intr.in_service # {})))
  BY Zenon DEF Writes
<1>3. tidy' => c.in_service = {} \/ (~c.pending /\ ~c.line)
  <2>1. tidy => intr.line = intr.pending  BY DEF CInv, True
  <2> QED  BY <1>2, <2>1
<1> QED  BY <1>1, <1>2, <1>3, Updated DEF CInv, Raises, Seen, True

LEMMA EndKeeps ==
  ASSUME CInv, NEW c \in Intr, c = [intr EXCEPT !.in_service = c.in_service],
         c.in_service \subseteq intr.in_service,
         EndsService(Update(c)) \/ EndsService(Update(Update(c)))
  PROVE  CInv'
<1>1. c.line = intr.line /\ c.pending = intr.pending /\ Raises(c)
  BY DEF CInv, Raises, Intr
<1>2. tidy => Shows(c) # {} \/ (~c.pending /\ ~c.line)
  <2>1. CASE tidy /\ ~intr.pending  BY <1>1, <2>1 DEF CInv, True
  <2>2. CASE tidy /\ intr.pending
    <3>1. PICK x \in Shows(intr) : TRUE  BY <2>2 DEF CInv, True
    <3>2. x \in Offers(c)
      BY <3>1 DEF Shows, Offers, Scanned, Requesting, Nests, CInv, Intr
    <3> QED  BY <3>1, <3>2, NotOvertaken DEF CInv, Intr
  <2> QED  BY <2>1, <2>2
<1> DEFINE d == Update(c)
<1>3. /\ d \in Intr /\ Raises(d) /\ Seen(d) /\ Alike(c, d)
      /\ tidy \/ d.in_service = {} => True(d)
  BY <1>1, <1>2, Updated DEF Alike
<1>4. CASE EndsService(d)
  BY <1>3, <1>4 DEF EndsService, CInv, Raises, Seen, True
<1>5. CASE EndsService(Update(d))
  <2>1. Update(d) \in Intr /\ Raises(Update(d)) /\ Seen(Update(d)) /\ Alike(d, Update(d))
    BY <1>3, Updated
  <2>2. tidy => Shows(d) # {} \/ (~d.pending /\ ~d.line)
    BY <1>3, Zenon DEF True
  <2>3. tidy \/ Update(d).in_service = {} => True(Update(d))
    BY <1>3, <2>1, <2>2, Updated DEF Alike
  <2> QED  BY <1>5, <2>1, <2>3 DEF EndsService, CInv, Raises, Seen, True
<1> QED  BY <1>4, <1>5

LEMMA RaiseKeeps ==
  ASSUME CInv, NEW c \in Intr, intr' = Update(c), tidy' = tidy,
         c.line = intr.line, c.pending = intr.pending, c.in_service = intr.in_service,
         c.level = intr.level, c.masked = intr.masked, c.mode = intr.mode,
         c.priority_mask = intr.priority_mask,
         Requesting(intr) \subseteq Requesting(c)
  PROVE  CInv'
<1>1. Raises(c)  BY DEF CInv, Raises
<1>2. tidy => Shows(c) # {} \/ (~c.pending /\ ~c.line)
  <2>1. CASE tidy /\ ~intr.pending  BY <1>1, <2>1 DEF CInv, True
  <2>2. CASE tidy /\ intr.pending
    <3>1. PICK x \in Shows(intr) : TRUE  BY <2>2 DEF CInv, True
    <3>2. x \in Offers(c)  BY <3>1 DEF Shows, Offers, Scanned, Nests
    <3> QED  BY <3>1, <3>2, NotOvertaken DEF CInv
  <2> QED  BY <2>1, <2>2
<1> QED  BY <1>1, <1>2, Updated DEF CInv, Raises, Seen, True

LEMMA LowerKeeps ==
  ASSUME CInv, NEW x \in Source, LowerInt(x)
  PROVE  CInv'
<1> DEFINE c == [intr EXCEPT !.request = @ \ {x}, !.ack_mask = @ \ {x}, !.ext_state = @ \ {x}]
<1>1. c \in Intr /\ Raises(c)  BY DEF CInv, Raises, Intr
<1>2. intr' = Update(c) /\ (tidy' => tidy /\ ~(x \in intr.ack_mask /\ intr.in_service # {}))
  BY Zenon DEF LowerInt
<1>3. tidy' => c.in_service = {} \/ Shows(c) # {} \/ (~c.pending /\ ~c.line)
  <2>1. CASE tidy /\ ~intr.pending  BY <2>1 DEF CInv, True, Intr
  <2>2. CASE tidy' /\ tidy /\ intr.pending /\ intr.in_service # {}
    <3>1. PICK z \in Shows(intr) : intr.ack_mask = {z}  BY <2>2 DEF CInv, True
    <3>2. z # x  BY <1>2, <2>2, <3>1
    <3>3. z \in Offers(c)
      BY <3>1, <3>2 DEF Shows, Offers, Scanned, Requesting, Nests, CInv, Intr
    <3> QED  BY <1>1, <3>1, <3>3, NotOvertaken DEF CInv, Intr
  <2>3. c.in_service = intr.in_service  BY DEF CInv, Intr
  <2> QED  BY <1>2, <2>1, <2>2, <2>3
<1> QED  BY <1>1, <1>2, <1>3, Updated DEF CInv, Raises, Seen, True

LEMMA AcknowledgeKeeps ==
  ASSUME CInv, Acknowledge
  PROVE  CInv'
<1> DEFINE d == Acknowledged(intr)
<1>1. /\ d \in Intr /\ ~d.line /\ ~d.pending
      /\ d.level = intr.level /\ d.masked = intr.masked /\ d.mode = intr.mode
      /\ d.priority_mask = intr.priority_mask
      /\ d.in_service = intr.in_service \cup intr.ack_mask
  BY DEF CInv, Intr, Acknowledged
<1>2. Requesting(d) \subseteq Requesting(intr) /\ Requesting(intr) \ intr.ack_mask \subseteq Requesting(d)
  BY DEF CInv, Intr, Acknowledged, Requesting
<1>3. Seen(d)
  <2> SUFFICES ASSUME NEW x \in Shows(d), x \notin d.in_service  PROVE FALSE
    BY DEF Seen
  <2>1. Ends(intr) \subseteq Ends(d)  BY <1>1, <1>2 DEF Ends, Scanned
  <2>2. x \in Offers(intr) /\ x \in Ends(intr)
    BY <1>1, <1>2 DEF Shows, Offers, Ends, Scanned
  <2>3. x \in Shows(intr)  BY <1>1, <2>1, <2>2 DEF Shows, First, Above
  <2> QED  BY <1>1, <2>3 DEF CInv, Seen
<1>4. True(d) /\ Raises(d)
  <2>1. d.line \in BOOLEAN /\ d.pending \in BOOLEAN  BY <1>1 DEF Intr
  <2>2. d.line = d.pending  BY <1>1, <2>1, Zenon
  <2> QED  BY <1>1, <2>2, Zenon DEF True, Raises
<1>5. intr' = d  BY DEF Acknowledge
<1> QED  BY <1>1, <1>3, <1>4, <1>5 DEF CInv, Raises, Seen, True

LEMMA ResetKeeps ==
  ASSUME CInv, ResetController
  PROVE  CInv'
<1> DEFINE d == AfterReset(intr)
<1>1. d \in Intr /\ ~d.pending /\ d.line = intr.line /\ d.masked = Source
  BY DEF CInv, Intr, AfterReset
<1>2. Seen(d)  BY <1>1 DEF Seen, Shows, Offers, Scanned
<1>3. Raises(d)  BY <1>1 DEF Raises
<1>4. ~intr.line => True(d)
  <2>1. d.line \in BOOLEAN /\ d.pending \in BOOLEAN  BY <1>1 DEF Intr
  <2> QED  BY <1>1, <2>1, Zenon DEF True
<1> QED  BY <1>1, <1>2, <1>3, <1>4 DEF ResetController, CInv, Raises, Seen, True

LEMMA ControllerKeeps ==
  ASSUME CInv, RegisterWrite \/ ReadPoll \/ Acknowledge \/ Raised \/ ResetController
  PROVE  CInv'
<1>1. CASE WriteMask
  <2>1. PICK m \in Masks : Writes([intr EXCEPT !.masked = m])  BY <1>1 DEF WriteMask
  <2> DEFINE c == [intr EXCEPT !.masked = m]
  <2>2. c \in Intr /\ c.line = intr.line /\ c.pending = intr.pending /\ c.in_service = intr.in_service
    BY <2>1, InterruptsAssumption DEF InterruptsAssumption, CInv, Intr
  <2> QED  BY <2>1, <2>2, WriteKeeps
<1>2. CASE WritePriorityMask
  <2>1. PICK p \in {7} \cup UNION {Levels[x] : x \in Source} :
          Writes([intr EXCEPT !.priority_mask = p])
    BY <1>2 DEF WritePriorityMask
  <2> DEFINE c == [intr EXCEPT !.priority_mask = p]
  <2>2. p \in 0..7
    BY <2>1, InterruptsAssumption DEF InterruptsAssumption
  <2>3. c \in Intr /\ c.line = intr.line /\ c.pending = intr.pending /\ c.in_service = intr.in_service
    BY <2>2 DEF CInv, Intr
  <2> QED  BY <2>1, <2>3, WriteKeeps
<1>3. CASE WriteRequest
  <2>1. PICK m \in SUBSET Dma : Writes([intr EXCEPT !.request = (@ \ Dma) \cup m])
    BY <1>3 DEF WriteRequest
  <2> DEFINE c == [intr EXCEPT !.request = (@ \ Dma) \cup m]
  <2>2. c \in Intr /\ c.line = intr.line /\ c.pending = intr.pending /\ c.in_service = intr.in_service
    BY <2>1 DEF Dma, Tmr, CInv, Intr
  <2> QED  BY <2>1, <2>2, WriteKeeps
<1>4. CASE WriteStatus
  <2>1. PICK m \in SUBSET Clock : Writes([intr EXCEPT !.status = m])  BY <1>4 DEF WriteStatus
  <2> DEFINE c == [intr EXCEPT !.status = m]
  <2>2. c \in Intr /\ c.line = intr.line /\ c.pending = intr.pending /\ c.in_service = intr.in_service
    BY <2>1 DEF CInv, Intr
  <2> QED  BY <2>1, <2>2, WriteKeeps
<1>5. CASE WriteControl
  <2>1. PICK x \in Source, off \in BOOLEAN :
          \E l \in Levels[x], m \in IF x \in Ext THEN Modes ELSE {{}} :
            Writes([intr EXCEPT !.level[x] = l, !.mode[x] = m,
                                !.masked = IF off THEN @ \cup {x} ELSE @ \ {x}])
    BY <1>5 DEF WriteControl
  <2>2. PICK l \in Levels[x], m \in IF x \in Ext THEN Modes ELSE {{}} :
            Writes([intr EXCEPT !.level[x] = l, !.mode[x] = m,
                                !.masked = IF off THEN @ \cup {x} ELSE @ \ {x}])
    BY <2>1
  <2> DEFINE c == [intr EXCEPT !.level[x] = l, !.mode[x] = m,
                               !.masked = IF off THEN @ \cup {x} ELSE @ \ {x}]
  <2>3. l \in 0..7 /\ m \in SUBSET Mode
    BY <2>1, <2>2, InterruptsAssumption DEF InterruptsAssumption
  <2>4. (IF off THEN intr.masked \cup {x} ELSE intr.masked \ {x}) \in SUBSET Source
    BY <2>1 DEF CInv, Intr
  <2>5. c \in Intr /\ c.line = intr.line /\ c.pending = intr.pending /\ c.in_service = intr.in_service
    BY <2>1, <2>3, <2>4 DEF CInv, Intr
  <2> QED  BY <2>2, <2>5, WriteKeeps
<1>6. ASSUME NEW m \in SUBSET Source,
             LET c == [intr EXCEPT !.in_service = @ \ m]
             IN  EndsService(Update(c)) \/ EndsService(Update(Update(c)))
      PROVE  CInv'
  <2> DEFINE c == [intr EXCEPT !.in_service = @ \ m]
  <2>1. c \in Intr /\ c.in_service = intr.in_service \ m
    BY DEF CInv, Intr
  <2>2. c = [intr EXCEPT !.in_service = c.in_service]  BY <2>1
  <2> QED  BY <1>6, <2>1, <2>2, EndKeeps
<1>7. CASE WriteInService
  <2>1. PICK m \in SUBSET intr.in_service : EndsService(Update([intr EXCEPT !.in_service = m]))
    BY <1>7 DEF WriteInService
  <2>2. Source \ m \in SUBSET Source /\ intr.in_service \ (Source \ m) = m
    BY <2>1 DEF CInv, Intr
  <2>3. [intr EXCEPT !.in_service = @ \ (Source \ m)] = [intr EXCEPT !.in_service = m]
    BY <2>2
  <2> QED  BY <1>6, <2>1, <2>2, <2>3
<1>8. CASE NonSpecificEoi
  <2>1. MostUrgent(intr) \in SUBSET Source  BY DEF MostUrgent, First, CInv, Intr
  <2>2. EndOfInterrupt(MostUrgent(intr))  BY <1>8 DEF NonSpecificEoi
  <2> QED  BY <1>6, <2>1, <2>2 DEF EndOfInterrupt
<1>9. CASE SpecificEoi
  BY <1>6, <1>9 DEF SpecificEoi, EndOfInterrupt
<1>10. CASE ReadPoll \/ Acknowledge
  BY <1>10, AcknowledgeKeeps DEF ReadPoll
<1>11. CASE Raised
  <2>1. PICK x \in Source : RaiseInt(x) \/ LowerInt(x) \/ \E t \in Clock : Internal(x, t)
    BY <1>11 DEF Raised
  <2>2. CASE RaiseInt(x)
    <3> DEFINE c == [intr EXCEPT !.request = @ \cup {x}, !.ext_state = @ \cup {x}]
    <3>1. x \in Ext /\ x # Tmr  BY <2>2, Numbers DEF RaiseInt, Ext, Tmr
    <3>2. c \in Intr  BY <3>1 DEF CInv, Intr
    <3>3. Requesting(intr) \subseteq Requesting(c)  BY DEF Requesting, CInv, Intr
    <3>4. intr' = Update(c) /\ tidy' = tidy  BY <2>2 DEF RaiseInt
    <3> QED  BY <3>2, <3>3, <3>4, RaiseKeeps DEF CInv, Intr
  <2>3. CASE LowerInt(x)  BY <2>3, LowerKeeps
  <2>4. ASSUME NEW t \in Clock, Internal(x, t)  PROVE CInv'
    <3> DEFINE c == IF x = Tmr THEN [intr EXCEPT !.status = @ \cup {t}]
                    ELSE [intr EXCEPT !.request = @ \cup {x}]
    <3>1. c \in Intr  BY DEF CInv, Intr
    <3>2. Requesting(intr) \subseteq Requesting(c)  BY DEF Requesting, CInv, Intr
    <3>3. intr' = Update(c) /\ tidy' = tidy  BY <2>4 DEF Internal
    <3>4. /\ c.line = intr.line /\ c.pending = intr.pending /\ c.in_service = intr.in_service
          /\ c.level = intr.level /\ c.masked = intr.masked /\ c.mode = intr.mode
          /\ c.priority_mask = intr.priority_mask
      BY DEF CInv, Intr
    <3> QED  BY <3>1, <3>2, <3>3, <3>4, RaiseKeeps
  <2> QED  BY <2>1, <2>2, <2>3, <2>4
<1>12. CASE ResetController  BY <1>12, ResetKeeps
<1> QED
  BY <1>1, <1>2, <1>3, <1>4, <1>5, <1>7, <1>8, <1>9, <1>10, <1>11, <1>12 DEF RegisterWrite

LEMMA CInvHolds == Spec => []CInv
<1>1. Init => CInv
  <2> SUFFICES ASSUME Init  PROVE CInv
    OBVIOUS
  <2> DEFINE d == AfterReset([line |-> FALSE])
  <2>1. d \in Intr /\ d.pending = FALSE /\ d.line = FALSE /\ d.masked = Source
    BY DEF Intr, AfterReset
  <2>2. intr = d  BY DEF Init, InterruptsInit
  <2>3. Seen(d)  BY <2>1 DEF Seen, Shows, Offers, Scanned
  <2> QED  BY <2>1, <2>2, <2>3 DEF CInv, Raises, True
<1>2. CInv /\ [Next]_vars => CInv'
  <2> SUFFICES ASSUME CInv, [Next]_vars  PROVE CInv'
    OBVIOUS
  <2>1. CASE UNCHANGED controller
    BY <2>1 DEF CInv, controller, Raises, Seen, True, Shows, First, Ends, Offers, Scanned,
                Requesting, Nests, Above, OfferVector
  <2>2. CASE Dispatch  BY <2>2, ControllerKeeps DEF Dispatch
  <2>3. CASE Instruction
    <3>1. CASE Port  BY <3>1, ControllerKeeps, <2>1 DEF Port
    <3>2. CASE Instruction /\ ~Port
      BY <2>1, <3>2 DEF Instruction, Plain, ReachString, Sti, Cli, HoldsOff, Hlt,
                        SegmentOverride, Popf, Iret, Repeat
    <3> QED  BY <2>3, <3>1, <3>2
  <2>4. CASE Event  BY <2>4, ControllerKeeps DEF Event
  <2>5. CASE Reset  BY <2>5, ControllerKeeps DEF Reset
  <2>6. CASE UNCHANGED vars  BY <2>1, <2>6 DEF vars
  <2> QED  BY <2>2, <2>3, <2>4, <2>5, <2>6 DEF Next, Turn
<1>3. QED  BY <1>1, <1>2, PTL DEF Spec

(* i186.cpp:1043-1141.  Whatever is raised, masked or ended in whatever    *)
(* order, the line tells the truth about the most urgent request, as long  *)
(* as no offer is taken back while another source is in service.           *)
THEOREM TrueOffer == Spec => []OfferIsTrue
<1>1. CInv => OfferIsTrue
  BY DEF CInv, True, Shows, OfferIsTrue
<1>2. QED  BY <1>1, CInvHolds, PTL

(* i186.cpp:1043-1141.  No request that may be served is forgotten, early  *)
(* returns, stale offers and resets included.                              *)
THEOREM NoneForgotten == Spec => []RequestSeen
<1>1. CInv => RequestSeen
  BY DEF CInv, Seen, Shows, RequestSeen
<1>2. QED  BY <1>1, CInvHolds, PTL

-----------------------------------------------------------------------------
(* Service nests because what is in service is scanned, as long as no      *)
(* register was written meanwhile, and the scan ends at it unless what is  *)
(* offered is more urgent.                                                 *)
Single(c) == \A x, y \in c.ack_mask : x = y

Placed(c) ==
  /\ c.in_service \subseteq Scanned(c)
  /\ c.pending => \A x \in c.ack_mask :
                     x \in Scanned(c) /\ \A y \in c.in_service \ {x} : Above(c, x, y)

Ordered == \A x, y \in intr.in_service : x # y => (<<x, y>> \in nest <=> Above(intr, x, y))

NestInv ==
  /\ nest \subseteq intr.in_service \X intr.in_service
  /\ \A x \in intr.in_service : <<x, x>> \in nest
  /\ Single(intr)
  /\ kept => Placed(intr) /\ Ordered

LEMMA ServedIs == ASSUME NestInv PROVE Served = intr.in_service
<1>1. ASSUME NEW x \in Served  PROVE x \in intr.in_service
  BY <1>1 DEF NestInv, Served
<1>2. ASSUME NEW x \in intr.in_service  PROVE x \in Served
  <2>1. <<x, x>> \in nest /\ <<x, x>>[1] = x  BY <1>2 DEF NestInv
  <2> QED  BY <2>1 DEF Served
<1> QED  BY <1>1, <1>2

LEMMA PlacedAlike ==
  ASSUME NEW c \in Intr, NEW d \in Intr, Alike(c, d)
  PROVE  /\ Scanned(d) = Scanned(c)
         /\ \A x, y \in Source : Above(d, x, y) = Above(c, x, y)
BY DEF Alike, Scanned, Above

(* After an update the source offered is above what is in service.         *)
LEMMA UpdatePlaces ==
  ASSUME NEW c \in Intr, Single(c)
  PROVE  /\ Single(Update(c)) /\ Update(c) \in Intr /\ Alike(c, Update(c))
         /\ Placed(c) \/ c.in_service = {} => Placed(Update(c))
<1> DEFINE d == Update(c)
<1>1. d \in Intr /\ Alike(c, d)  BY UpdateCases
<1>2. d.in_service = c.in_service /\ d.in_service \subseteq Source  BY <1>1 DEF Alike, Intr
<1>3. CASE Ends(c) = {}
  <2>1. d.ack_mask = c.ack_mask /\ ~d.pending  BY <1>3 DEF Update, Intr
  <2> QED  BY <1>1, <1>2, <2>1, PlacedAlike DEF Single, Placed
<1>4. CASE Ends(c) # {} /\ First(c, Ends(c)) \subseteq Offers(c)
  <2>1. Ends(c) \in SUBSET Source  BY DEF Ends, Scanned
  <2>2. PICK x \in Ends(c) :
          First(c, Ends(c)) = {x} /\ \A y \in Ends(c) \ {x} : Above(c, x, y)
    BY <1>4, <2>1, OneFirst
  <2>3. d = Generate(c, x)  BY <1>4, <2>2 DEF Update
  <2>4. d.ack_mask = {x}  BY <2>3 DEF Generate, Intr
  <2>5. x \in Scanned(c)  BY <2>2 DEF Ends
  <2>6. c.in_service \subseteq Scanned(c) => c.in_service \subseteq Ends(c)  BY DEF Ends
  <2>7. Single(d)  BY <2>4 DEF Single
  <2>8. Placed(c) \/ c.in_service = {} => Placed(d)
    BY <1>1, <1>2, <2>1, <2>2, <2>4, <2>5, <2>6, PlacedAlike DEF Placed
  <2> QED  BY <1>1, <2>7, <2>8
<1>5. CASE Ends(c) # {} /\ ~(First(c, Ends(c)) \subseteq Offers(c))
  <2>1. d = c  BY <1>5 DEF Update
  <2>2. c.in_service # {}
    <3>1. Ends(c) \subseteq Offers(c) \cup c.in_service  BY DEF Ends, Offers
    <3> QED  BY <1>5, <3>1 DEF First
  <2> QED  BY <1>1, <2>1, <2>2
<1> QED  BY <1>3, <1>4, <1>5

LEMMA WriteNests ==
  ASSUME CInv, NestInv, NEW c \in Intr, c.ack_mask = intr.ack_mask,
         c.in_service = intr.in_service, Writes(c)
  PROVE  NestInv'
<1>1. intr' = Update(c) /\ nest' = nest  BY DEF Writes
<1>2. Single(c)  BY DEF NestInv, Single
<1>3. Single(intr') /\ intr'.in_service = intr.in_service  BY <1>1, <1>2, UpdatePlaces DEF Alike
<1>4. kept' => c.in_service = {}  BY Zenon DEF Writes
<1>5. kept' => Placed(intr') /\ intr'.in_service = {}
  BY <1>1, <1>2, <1>3, <1>4, UpdatePlaces
<1>6. Single(intr)'  BY <1>3 DEF Single
<1>7. kept' => Placed(intr)' /\ Ordered'
  BY <1>5 DEF Placed, Ordered, Scanned, Above
<1> QED  BY <1>1, <1>3, <1>6, <1>7 DEF NestInv

(* Ending the service of the sources m, or raising and lowering requests.  *)
LEMMA ShrinkPlaces ==
  ASSUME NEW c \in Intr, NEW d \in Intr, Placed(c),
         d.level = c.level, d.masked = c.masked, d.priority_mask = c.priority_mask,
         d.pending = c.pending, d.in_service \subseteq c.in_service,
         d.ack_mask \subseteq c.ack_mask
  PROVE  Placed(d)
BY DEF Placed, Scanned, Above, Intr

LEMMA EndNests ==
  ASSUME CInv, NestInv, NEW m \in SUBSET Source, nest' = Without(m),
         LET c == [intr EXCEPT !.in_service = @ \ m]
         IN  EndsService(Update(c)) \/ EndsService(Update(Update(c)))
  PROVE  NestInv'
<1> DEFINE c == [intr EXCEPT !.in_service = @ \ m]
<1>1. /\ c \in Intr /\ c.in_service = intr.in_service \ m /\ c.ack_mask = intr.ack_mask
      /\ c.level = intr.level /\ c.masked = intr.masked /\ c.pending = intr.pending
      /\ c.priority_mask = intr.priority_mask
  BY DEF CInv, Intr
<1>2. Single(c) /\ (kept => Placed(c))
  BY <1>1, ShrinkPlaces DEF CInv, NestInv, Single
<1> DEFINE d == Update(c)
<1>3. /\ Single(d) /\ d \in Intr /\ Alike(c, d)
      /\ kept \/ c.in_service = {} => Placed(d)
  BY <1>1, <1>2, UpdatePlaces
<1>4. /\ Single(Update(d)) /\ Alike(d, Update(d))
      /\ kept \/ c.in_service = {} => Placed(Update(d))
  BY <1>3, UpdatePlaces DEF Alike
<1>5. /\ Single(intr') /\ intr'.level = intr.level
      /\ intr'.in_service = intr.in_service \ m
      /\ kept \/ c.in_service = {} => Placed(intr')
  BY <1>1, <1>3, <1>4 DEF EndsService, Alike
<1>6. kept' => kept \/ c.in_service = {}
  BY <1>1, <1>3, <1>4, Zenon DEF EndsService, Alike
<1>7. kept' => Ordered'
  BY <1>1, <1>5, <1>6 DEF NestInv, Ordered, Without, Above
<1>8. /\ nest' \subseteq intr'.in_service \X intr'.in_service
      /\ \A x \in intr'.in_service : <<x, x>> \in nest'
  BY <1>5 DEF NestInv, Without
<1>9. Single(intr)' /\ (kept' => Placed(intr)')
  BY <1>5, <1>6 DEF Single, Placed, Scanned, Above
<1> QED  BY <1>7, <1>8, <1>9 DEF NestInv

LEMMA RequestNests ==
  ASSUME CInv, NestInv, NEW c \in Intr, intr' = Update(c), kept' = kept, nest' = nest,
         c.pending = intr.pending, c.in_service = intr.in_service, c.level = intr.level,
         c.masked = intr.masked, c.priority_mask = intr.priority_mask,
         c.ack_mask \subseteq intr.ack_mask
  PROVE  NestInv'
<1>1. Single(c) /\ (kept => Placed(c))
  BY ShrinkPlaces DEF CInv, NestInv, Single
<1>2. /\ Single(intr') /\ intr'.level = intr.level /\ intr'.in_service = intr.in_service
      /\ kept => Placed(intr')
  BY <1>1, UpdatePlaces DEF Alike
<1>3. Single(intr)' /\ (kept' => Placed(intr)' /\ Ordered')
  BY <1>2 DEF NestInv, Single, Placed, Ordered, Scanned, Above
<1> QED  BY <1>2, <1>3 DEF NestInv

(* What is acknowledged becomes the innermost.                             *)
LEMMA AcknowledgeNests ==
  ASSUME CInv, NestInv, Acknowledge
  PROVE  NestInv'
<1>1. /\ intr' \in Intr /\ ~intr'.pending /\ intr'.ack_mask = {}
      /\ intr'.level = intr.level /\ intr'.masked = intr.masked
      /\ intr'.priority_mask = intr.priority_mask
      /\ intr'.in_service = intr.in_service \cup intr.ack_mask
  BY AcknowledgeKeeps DEF CInv, Intr, Acknowledge, Acknowledged
<1>2. nest' = Without(intr.ack_mask) \cup (intr.ack_mask \X (Served \cup intr.ack_mask))
      /\ (kept' => kept /\ intr.pending)
  BY Zenon DEF Acknowledge
<1>3. Served = intr.in_service  BY ServedIs
<1>4. /\ nest' \subseteq intr'.in_service \X intr'.in_service
      /\ \A x \in intr'.in_service : <<x, x>> \in nest'
  BY <1>1, <1>2, <1>3 DEF NestInv, Without
<1>5. Single(intr)'  BY <1>1 DEF Single
<1>6. kept' => Placed(intr)'
  BY <1>1, <1>2 DEF NestInv, Placed, Scanned
<1>7. kept' => Ordered'
  <2> SUFFICES ASSUME kept', NEW x \in intr'.in_service, NEW y \in intr'.in_service, x # y
               PROVE  <<x, y>> \in nest' <=> Above(intr, x, y)
    BY <1>1 DEF Ordered, Above
  <2>1. /\ kept /\ intr.pending /\ x \in Source /\ y \in Source
        /\ ~(x \in intr.ack_mask /\ y \in intr.ack_mask)
    BY <1>1, <1>2 DEF NestInv, Single, Intr
  <2>2. CASE x \in intr.ack_mask
    <3>1. y \in intr.in_service /\ Above(intr, x, y)
      BY <1>1, <2>1, <2>2 DEF NestInv, Placed
    <3> QED  BY <1>2, <1>3, <2>2, <3>1
  <2>3. CASE y \in intr.ack_mask
    <3>1. x \in intr.in_service /\ Above(intr, y, x)
      BY <1>1, <2>1, <2>3 DEF NestInv, Placed
    <3>2. ~Above(intr, x, y)  BY <2>1, <3>1, AboveIsOrder DEF CInv
    <3> QED  BY <1>2, <2>1, <2>3, <3>2 DEF Without
  <2>4. CASE x \notin intr.ack_mask /\ y \notin intr.ack_mask
    BY <1>1, <1>2, <2>1, <2>4 DEF NestInv, Ordered, Without
  <2> QED  BY <2>2, <2>3, <2>4
<1> QED  BY <1>4, <1>5, <1>6, <1>7 DEF NestInv

LEMMA ResetNests == ASSUME CInv, ResetController PROVE NestInv'
<1>1. /\ nest' = {} /\ intr'.in_service = {} /\ intr'.ack_mask = {} /\ ~intr'.pending
  BY DEF ResetController, AfterReset
<1> QED  BY <1>1 DEF NestInv, Single, Placed, Ordered

LEMMA ControllerNests ==
  ASSUME CInv, NestInv, RegisterWrite \/ ReadPoll \/ Acknowledge \/ Raised \/ ResetController
  PROVE  NestInv'
<1>1. CASE WriteMask
  <2>1. PICK m \in Masks : Writes([intr EXCEPT !.masked = m])  BY <1>1 DEF WriteMask
  <2> DEFINE c == [intr EXCEPT !.masked = m]
  <2>2. c \in Intr /\ c.ack_mask = intr.ack_mask /\ c.in_service = intr.in_service
    BY <2>1, InterruptsAssumption DEF InterruptsAssumption, CInv, Intr
  <2> QED  BY <2>1, <2>2, WriteNests
<1>2. CASE WritePriorityMask
  <2>1. PICK p \in {7} \cup UNION {Levels[x] : x \in Source} :
          Writes([intr EXCEPT !.priority_mask = p])
    BY <1>2 DEF WritePriorityMask
  <2> DEFINE c == [intr EXCEPT !.priority_mask = p]
  <2>2. p \in 0..7
    BY <2>1, InterruptsAssumption DEF InterruptsAssumption
  <2>3. c \in Intr /\ c.ack_mask = intr.ack_mask /\ c.in_service = intr.in_service
    BY <2>2 DEF CInv, Intr
  <2> QED  BY <2>1, <2>3, WriteNests
<1>3. CASE WriteRequest
  <2>1. PICK m \in SUBSET Dma : Writes([intr EXCEPT !.request = (@ \ Dma) \cup m])
    BY <1>3 DEF WriteRequest
  <2> DEFINE c == [intr EXCEPT !.request = (@ \ Dma) \cup m]
  <2>2. c \in Intr /\ c.ack_mask = intr.ack_mask /\ c.in_service = intr.in_service
    BY <2>1 DEF Dma, Tmr, CInv, Intr
  <2> QED  BY <2>1, <2>2, WriteNests
<1>4. CASE WriteStatus
  <2>1. PICK m \in SUBSET Clock : Writes([intr EXCEPT !.status = m])  BY <1>4 DEF WriteStatus
  <2> DEFINE c == [intr EXCEPT !.status = m]
  <2>2. c \in Intr /\ c.ack_mask = intr.ack_mask /\ c.in_service = intr.in_service
    BY <2>1 DEF CInv, Intr
  <2> QED  BY <2>1, <2>2, WriteNests
<1>5. CASE WriteControl
  <2>1. PICK x \in Source, off \in BOOLEAN :
          \E l \in Levels[x], m \in IF x \in Ext THEN Modes ELSE {{}} :
            Writes([intr EXCEPT !.level[x] = l, !.mode[x] = m,
                                !.masked = IF off THEN @ \cup {x} ELSE @ \ {x}])
    BY <1>5 DEF WriteControl
  <2>2. PICK l \in Levels[x], m \in IF x \in Ext THEN Modes ELSE {{}} :
            Writes([intr EXCEPT !.level[x] = l, !.mode[x] = m,
                                !.masked = IF off THEN @ \cup {x} ELSE @ \ {x}])
    BY <2>1
  <2> DEFINE c == [intr EXCEPT !.level[x] = l, !.mode[x] = m,
                               !.masked = IF off THEN @ \cup {x} ELSE @ \ {x}]
  <2>3. l \in 0..7 /\ m \in SUBSET Mode
    BY <2>1, <2>2, InterruptsAssumption DEF InterruptsAssumption
  <2>4. (IF off THEN intr.masked \cup {x} ELSE intr.masked \ {x}) \in SUBSET Source
    BY <2>1 DEF CInv, Intr
  <2>5. c \in Intr /\ c.ack_mask = intr.ack_mask /\ c.in_service = intr.in_service
    BY <2>1, <2>3, <2>4 DEF CInv, Intr
  <2> QED  BY <2>2, <2>5, WriteNests
<1>6. CASE WriteInService
  <2>1. PICK m \in SUBSET intr.in_service :
          EndsService(Update([intr EXCEPT !.in_service = m])) /\ nest' = Without(Source \ m)
    BY <1>6 DEF WriteInService
  <2>2. Source \ m \in SUBSET Source /\ intr.in_service \ (Source \ m) = m
    BY <2>1 DEF CInv, Intr
  <2>3. [intr EXCEPT !.in_service = @ \ (Source \ m)] = [intr EXCEPT !.in_service = m]
    BY <2>2
  <2> QED  BY <2>1, <2>2, <2>3, EndNests
<1>7. CASE NonSpecificEoi
  <2>1. MostUrgent(intr) \in SUBSET Source  BY DEF MostUrgent, First, CInv, Intr
  <2>2. kept => Innermost = MostUrgent(intr)
    <3>1. Served = intr.in_service  BY ServedIs
    <3> QED  BY <3>1 DEF Innermost, MostUrgent, First, NestInv, Ordered
  <2>3. nest' = Without(MostUrgent(intr)) /\ EndOfInterrupt(MostUrgent(intr))
    BY <1>7, <2>2 DEF NonSpecificEoi
  <2> QED  BY <2>1, <2>3, EndNests DEF EndOfInterrupt
<1>8. CASE SpecificEoi
  <2>1. PICK x \in Source : EndOfInterrupt({x}) /\ nest' = Without({x})  BY <1>8 DEF SpecificEoi
  <2> QED  BY <2>1, EndNests DEF EndOfInterrupt
<1>9. CASE ReadPoll \/ Acknowledge  BY <1>9, AcknowledgeNests DEF ReadPoll
<1>10. CASE Raised
  <2>1. PICK x \in Source : RaiseInt(x) \/ LowerInt(x) \/ \E t \in Clock : Internal(x, t)
    BY <1>10 DEF Raised
  <2>2. CASE RaiseInt(x)
    <3> DEFINE c == [intr EXCEPT !.request = @ \cup {x}, !.ext_state = @ \cup {x}]
    <3>1. x \in Ext /\ x # Tmr  BY <2>2, Numbers DEF RaiseInt, Ext, Tmr
    <3>2. c \in Intr  BY <3>1 DEF CInv, Intr
    <3>3. intr' = Update(c) /\ kept' = kept /\ nest' = nest  BY <2>2 DEF RaiseInt
    <3> QED  BY <3>2, <3>3, RequestNests DEF CInv, Intr
  <2>3. CASE LowerInt(x)
    <3> DEFINE c == [intr EXCEPT !.request = @ \ {x}, !.ack_mask = @ \ {x},
                                 !.ext_state = @ \ {x}]
    <3>1. c \in Intr  BY DEF CInv, Intr
    <3>2. intr' = Update(c) /\ kept' = kept /\ nest' = nest  BY <2>3 DEF LowerInt
    <3>3. /\ c.pending = intr.pending /\ c.in_service = intr.in_service /\ c.level = intr.level
          /\ c.masked = intr.masked /\ c.priority_mask = intr.priority_mask
          /\ c.ack_mask \subseteq intr.ack_mask
      BY DEF CInv, Intr
    <3> QED  BY <3>1, <3>2, <3>3, RequestNests
  <2>4. ASSUME NEW t \in Clock, Internal(x, t)  PROVE NestInv'
    <3> DEFINE c == IF x = Tmr THEN [intr EXCEPT !.status = @ \cup {t}]
                    ELSE [intr EXCEPT !.request = @ \cup {x}]
    <3>1. c \in Intr  BY DEF CInv, Intr
    <3>2. intr' = Update(c) /\ kept' = kept /\ nest' = nest  BY <2>4 DEF Internal
    <3>3. /\ c.pending = intr.pending /\ c.in_service = intr.in_service /\ c.level = intr.level
          /\ c.masked = intr.masked /\ c.priority_mask = intr.priority_mask
          /\ c.ack_mask = intr.ack_mask
      BY DEF CInv, Intr
    <3> QED  BY <3>1, <3>2, <3>3, RequestNests
  <2> QED  BY <2>1, <2>2, <2>3, <2>4
<1>11. CASE ResetController  BY <1>11, ResetNests
<1> QED
  BY <1>1, <1>2, <1>3, <1>4, <1>5, <1>6, <1>7, <1>8, <1>9, <1>10, <1>11 DEF RegisterWrite

LEMMA NestInvHolds == Spec => []NestInv
<1>1. Init => NestInv
  BY DEF Init, InterruptsInit, AfterReset, NestInv, Single, Placed, Ordered
<1>2. CInv /\ NestInv /\ [Next]_vars => NestInv'
  <2> SUFFICES ASSUME CInv, NestInv, [Next]_vars  PROVE NestInv'
    OBVIOUS
  <2>1. CASE UNCHANGED controller
    BY <2>1 DEF NestInv, controller, Single, Placed, Ordered, Scanned, Above
  <2>2. CASE Dispatch  BY <2>2, ControllerNests DEF Dispatch
  <2>3. CASE Instruction
    <3>1. CASE Port  BY <3>1, ControllerNests DEF Port
    <3>2. CASE Instruction /\ ~Port
      BY <2>1, <3>2 DEF Instruction, Plain, ReachString, Sti, Cli, HoldsOff, Hlt,
                        SegmentOverride, Popf, Iret, Repeat
    <3> QED  BY <2>3, <3>1, <3>2
  <2>4. CASE Event  BY <2>4, ControllerNests DEF Event
  <2>5. CASE Reset  BY <2>5, ControllerNests DEF Reset
  <2>6. CASE UNCHANGED vars  BY <2>1, <2>6 DEF vars
  <2> QED  BY <2>2, <2>3, <2>4, <2>5, <2>6 DEF Next, Turn
<1>3. QED  BY <1>1, <1>2, CInvHolds, PTL DEF Spec

(* i186.cpp:1233-1263.  Whatever is requested, masked, polled or ended in  *)
(* whatever order, a non-specific EOI ends the innermost handler's source, *)
(* as long as no register was written while one was in service.            *)
THEOREM ServiceNests == Spec => []NestedByUrgency
<1>1. NestInv => NestedByUrgency
  <2> SUFFICES ASSUME NestInv, kept  PROVE NestedByUrgency
    BY DEF NestedByUrgency
  <2>1. Served = intr.in_service  BY ServedIs
  <2>2. ASSUME NEW p \in nest, p[1] # p[2]  PROVE Above(intr, p[1], p[2])
    <3>1. p = <<p[1], p[2]>> /\ p[1] \in intr.in_service /\ p[2] \in intr.in_service
      BY <2>2 DEF NestInv
    <3> QED  BY <2>2, <3>1 DEF NestInv, Ordered
  <2> QED  BY <2>1, <2>2 DEF NestedByUrgency
<1>2. QED  BY <1>1, NestInvHolds, PTL

-----------------------------------------------------------------------------
(* The CPU: an instruction that holds interrupts off leaves no_interrupt   *)
(* set, until a prefix of the next one takes over.                         *)
Frame == [ip : Place, IF_ : BOOLEAN]

Stacked ==
  /\ stack \in Seq(Frame) /\ ip \in Place /\ prev_ip \in Place
  /\ IF_ \in BOOLEAN

HeldOff == shadow => no_interrupt = 1 \/ seg_prefix_next

LEMMA StackedHolds == Spec => []Stacked
<1>1. Init => Stacked
  <2> SUFFICES ASSUME Init  PROVE Stacked
    OBVIOUS
  <2>1. stack \in Seq(Frame) /\ ip \in Place /\ prev_ip \in Place
    BY DEF Init, CpuInit, Place
  <2>2. IF_ \in BOOLEAN  BY Zenon DEF Init, CpuInit
  <2> QED  BY <2>1, <2>2 DEF Stacked
<1>2. Stacked /\ [Next]_vars => Stacked'
  <2> SUFFICES ASSUME Stacked, [Next]_vars  PROVE Stacked'
    OBVIOUS
  <2> DEFINE Goes == stack' \in Seq(Frame) /\ ip' \in Place /\ prev_ip' \in Place
  <2>1. CASE Dispatch
    <3>1. [ip |-> ip, IF_ |-> IF_] \in Frame  BY DEF Stacked, Frame
    <3>2. Goes  BY <2>1, <3>1 DEF Dispatch, Stacked, Place
    <3>3. IF_' \in BOOLEAN  BY <2>1, Zenon DEF Dispatch
    <3> QED  BY <3>2, <3>3 DEF Stacked
  <2>2. CASE Plain \/ Sti \/ Cli \/ HoldsOff \/ Hlt \/ Popf \/ Port
    <3>1. stack' = stack /\ ip' = ip /\ prev_ip' = ip
      BY <2>2 DEF Plain, Sti, Cli, HoldsOff, Hlt, Popf, Port, InCode
    <3>2. IF_' \in BOOLEAN
      BY <2>2, Zenon DEF Plain, Sti, Cli, HoldsOff, Hlt, Popf, Port, Stacked
    <3> QED  BY <3>1, <3>2 DEF Stacked
  <2>3. CASE ReachString
    <3>1. Goes  BY <2>3 DEF ReachString, InCode, Stacked, Place
    <3>2. IF_' = IF_  BY <2>3 DEF ReachString
    <3> QED  BY <3>1, <3>2 DEF Stacked
  <2>4. CASE SegmentOverride
    <3>1. Goes  BY <2>4 DEF SegmentOverride, Start, Stacked, Place
    <3>2. IF_' = IF_  BY <2>4 DEF SegmentOverride
    <3> QED  BY <3>1, <3>2 DEF Stacked
  <2>5. CASE Iret
    <3>1. stack[Len(stack)] \in Frame /\ SubSeq(stack, 1, Len(stack) - 1) \in Seq(Frame)
      BY <2>5 DEF Iret, Stacked
    <3>2. stack[Len(stack)].ip \in Place /\ stack[Len(stack)].IF_ \in BOOLEAN
      BY <3>1 DEF Frame
    <3>3. Goes  BY <2>5, <3>1, <3>2 DEF Iret, InCode
    <3>4. IF_' \in BOOLEAN  BY <2>5, <3>2, Zenon DEF Iret
    <3> QED  BY <3>3, <3>4 DEF Stacked
  <2>6. CASE Repeat
    <3>1. ip' \in {"code", Start}  BY <2>6, Zenon DEF Repeat
    <3>2. Start \in Place  BY DEF Start, Stacked
    <3>3. ip' \in Place  BY <3>1, <3>2 DEF Place
    <3>4. Goes  BY <2>6, <3>3 DEF Repeat, Stacked
    <3>5. IF_' = IF_  BY <2>6 DEF Repeat
    <3> QED  BY <3>4, <3>5 DEF Stacked
  <2>7. CASE Reset
    <3>1. Goes  BY <2>7 DEF Reset, Place
    <3>2. IF_' \in BOOLEAN  BY <2>7, Zenon DEF Reset
    <3> QED  BY <3>1, <3>2 DEF Stacked
  <2>8. CASE Event \/ UNCHANGED vars
    BY <2>8 DEF Event, vars, cpu, flow, Stacked
  <2> QED
    BY <2>1, <2>2, <2>3, <2>4, <2>5, <2>6, <2>7, <2>8 DEF Next, Turn, Instruction
<1>3. QED  BY <1>1, <1>2, PTL DEF Spec

LEMMA HeldOffHolds == Spec => []HeldOff
<1>1. Init => HeldOff
  BY Zenon DEF Init, CpuInit, HeldOff
<1>2. HeldOff /\ [Next]_vars => HeldOff'
  <2> SUFFICES ASSUME HeldOff, [Next]_vars  PROVE HeldOff'
    OBVIOUS
  <2>1. CASE Sti \/ HoldsOff
    BY <2>1 DEF Sti, HoldsOff, InCode, Executes, HeldOff
  <2>2. CASE Plain \/ ReachString \/ Cli \/ Hlt \/ Popf \/ Port \/ Iret \/ Repeat \/ Reset
    <3>1. CASE Plain \/ ReachString \/ Cli \/ Hlt \/ Popf \/ Port \/ Iret
      <4>1. shadow' = (0 = 1)
        BY <3>1 DEF Plain, ReachString, Cli, Hlt, Popf, Port, Iret, InCode
      <4>2. (0 = 1) = FALSE  OBVIOUS
      <4>3. shadow' = FALSE  BY <4>1, <4>2, Zenon
      <4> QED  BY <4>3, Zenon DEF HeldOff
    <3>2. CASE Repeat \/ Reset
      <4>1. shadow' = FALSE  BY <3>2 DEF Repeat, Reset
      <4> QED  BY <4>1, Zenon DEF HeldOff
    <3> QED  BY <2>2, <3>1, <3>2
  <2>3. CASE SegmentOverride
    BY <2>3 DEF SegmentOverride, HeldOff
  <2>4. CASE Dispatch \/ Event \/ UNCHANGED vars
    BY <2>4 DEF Dispatch, Event, vars, cpu, flow, HeldOff
  <2> QED  BY <2>1, <2>2, <2>3, <2>4 DEF Next, Turn, Instruction
<1>3. QED  BY <1>1, <1>2, PTL DEF Spec

(* i186.cpp:236-268, i86.cpp:2228.  For any firmware no interrupt comes    *)
(* between STI, MOV SS, POP SS or LOCK and the end of the next instruction. *)
THEOREM Shadowed == Spec => InterruptShadow
<1>1. Stacked /\ HeldOff /\ [Next]_vars => [shadow => Len(stack') <= Len(stack)]_vars
  <2> SUFFICES ASSUME Stacked, HeldOff, Next, shadow  PROVE Len(stack') <= Len(stack)
    OBVIOUS
  <2>1. stack \in Seq(Frame)  BY DEF Stacked
  <2>2. ~Dispatch
    <3>1. CASE no_interrupt = 1  BY <3>1 DEF Dispatch, Takes
    <3>2. CASE seg_prefix_next  BY <3>2 DEF Dispatch, Takes
    <3> QED  BY <3>1, <3>2 DEF HeldOff
  <2>3. CASE Iret  BY <2>1, <2>3 DEF Iret
  <2>4. CASE Reset  BY <2>1, <2>4 DEF Reset
  <2>5. CASE Next /\ ~Iret /\ ~Reset
    <3>1. stack' = stack
      BY <2>2, <2>5 DEF Next, Turn, Instruction, Plain, ReachString, Sti, Cli, HoldsOff, Hlt,
                        SegmentOverride, Popf, Port, Repeat, Event, cpu, flow
    <3> QED  BY <2>1, <3>1
  <2> QED  BY <2>3, <2>4, <2>5
<1>2. QED  BY <1>1, StackedHolds, HeldOffHolds, PTL DEF Spec, InterruptShadow

-----------------------------------------------------------------------------
(* String instructions.  Main is where the main program stands, Begin      *)
(* where its string instruction starts.                                    *)
Main == IF stack = <<>> THEN ip ELSE stack[1].ip
Begin == IF string.form = "outer" THEN "prefix" ELSE "rep"

Strings == [form : Forms, left : Nat, astray : {FALSE}]

StringInv ==
  /\ string \in Strings
  /\ stack # <<>> => ip = "code"
  /\ \A i \in 2..Len(stack) : stack[i].ip = "code"
  /\ string.left > 0 => Main # "code"
  /\ Main = "prefix" => string.form = "outer"
  /\ stack # <<>> => Main \in {"code", Begin}
  /\ stack = <<>> /\ ip = "prefix" => ~seg_prefix_next
  /\ stack = <<>> /\ ip = "rep" =>
       IF seg_prefix_next THEN string.form = "outer" /\ prev_ip = "prefix"
       ELSE string.form # "outer"

LEMMA InCodeKeeps ==
  ASSUME Stacked, StringInv, NEW n \in 0..1, InCode(n, ip), UNCHANGED <<stack, string>>
  PROVE  StringInv'
BY DEF StringInv, InCode, Main, Begin

LEMMA RepeatKeeps ==
  ASSUME Stacked, StringInv, Repeat
  PROVE  StringInv'
<1> DEFINE overridden == seg_prefix_next \/ string.form = "inner"
           astray == overridden # (string.form # "plain")
<1>1. stack = <<>> /\ stack' = <<>> /\ ip = "rep" /\ seg_prefix_next' = FALSE
  BY DEF Repeat, StringInv
<1>2. /\ seg_prefix_next => string.form = "outer" /\ prev_ip = "prefix"
      /\ ~seg_prefix_next => string.form # "outer"
  BY <1>1 DEF StringInv
<1>3. astray = FALSE
  <2>1. CASE seg_prefix_next
    <3>1. string.form = "outer"  BY <1>2, <2>1
    <3>2. string.form # "plain"  BY <3>1
    <3> QED  BY <2>1, <3>2, Zenon
  <2>2. CASE ~seg_prefix_next
    <3>1. string.form \in {"plain", "inner"}  BY <1>2, <2>2 DEF StringInv, Strings, Forms
    <3>2. (string.form = "inner") = (string.form # "plain")  BY <3>1
    <3> QED  BY <2>2, <3>2, Zenon
  <2> QED  BY <2>1, <2>2
<1>4. string.astray = FALSE  BY DEF StringInv, Strings
<1>5. (string.astray \/ astray) = FALSE  BY <1>3, <1>4, Zenon
<1> HIDE DEF astray
<1>6. CASE ip' = Start /\ \E c \in 1..(string.left - 1) :
             string' = [string EXCEPT !.left = c, !.astray = @ \/ astray]
  <2>1. PICK c \in 1..(string.left - 1) :
          string' = [string EXCEPT !.left = c, !.astray = @ \/ astray]
    BY <1>6
  <2>2. string' \in Strings /\ string'.form = string.form
    <3> string.left \in Nat  BY DEF StringInv, Strings
    <3>1. string \in Strings /\ c \in Nat  BY <2>1 DEF StringInv
    <3>2. string' = [string EXCEPT !.left = c, !.astray = FALSE]  BY <1>5, <2>1
    <3> QED  BY <3>1, <3>2 DEF Strings
  <2>3. CASE seg_prefix_next
    <3>1. string.form = "outer" /\ ip' = "prefix"  BY <1>2, <1>6, <2>3 DEF Start
    <3> QED  BY <1>1, <2>2, <3>1 DEF StringInv, Main, Begin
  <2>4. CASE ~seg_prefix_next
    <3>1. string.form # "outer" /\ ip' = "rep"  BY <1>1, <1>2, <1>6, <2>4 DEF Start
    <3> QED  BY <1>1, <2>2, <3>1 DEF StringInv, Main, Begin
  <2> QED  BY <2>3, <2>4
<1>7. CASE ip' = "code" /\ string' = [NoString EXCEPT !.astray = string.astray \/ astray]
  <2>1. string' \in Strings /\ string'.left = 0
    BY <1>5, <1>7 DEF NoString, Strings, Forms
  <2> QED  BY <1>1, <1>7, <2>1 DEF StringInv, Main, Begin
<1> QED  BY <1>6, <1>7 DEF Repeat, astray

LEMMA StringInvHolds == Spec => []StringInv
<1>1. Init => StringInv
  BY DEF Init, CpuInit, StringInv, Main, Begin, NoString, Strings, Forms
<1>2. Stacked /\ StringInv /\ [Next]_vars => StringInv'
  <2> SUFFICES ASSUME Stacked, StringInv, [Next]_vars  PROVE StringInv'
    OBVIOUS
  <2>1. CASE Dispatch
    <3>1. stack' = Append(stack, [ip |-> ip, IF_ |-> IF_]) /\ ip' = "code" /\ string' = string
          /\ ~seg_prefix_next
      BY <2>1 DEF Dispatch, Takes
    <3>2. stack' # <<>> /\ Main' = Main
      BY <3>1 DEF Main, Stacked
    <3>3. \A i \in 2..Len(stack') : stack'[i].ip = "code"
      BY <3>1 DEF Stacked, StringInv
    <3>4. Main \in {"code", Begin}
      BY <3>1 DEF Stacked, StringInv, Main, Begin, Place
    <3> QED  BY <3>1, <3>2, <3>3, <3>4 DEF StringInv, Begin
  <2>2. CASE Plain \/ Sti \/ Cli \/ HoldsOff \/ Hlt \/ Popf \/ Port
    <3>1. PICK n \in 0..1 : InCode(n, ip) /\ UNCHANGED <<stack, string>>
      BY <2>2 DEF Plain, Sti, Cli, HoldsOff, Hlt, Popf, Port
    <3> QED  BY <3>1, InCodeKeeps
  <2>3. CASE ReachString
    <3>1. PICK f \in Forms :
            /\ InCode(0, IF f = "outer" THEN "prefix" ELSE "rep")
            /\ string' = [form |-> f, left |-> Count, astray |-> FALSE]
      BY <2>3 DEF ReachString
    <3>2. stack = <<>> /\ stack' = <<>> /\ seg_prefix_next' = FALSE
      BY <2>3, <3>1 DEF ReachString, InCode
    <3> QED  BY <3>1, <3>2, CpuAssumption DEF CpuAssumption, InCode, StringInv, Main, Begin, Strings
  <2>4. CASE SegmentOverride
    BY <2>4 DEF SegmentOverride, Start, Stacked, Place, StringInv, Main, Begin
  <2>5. CASE Iret
    <3>1. /\ stack # <<>> /\ ip = "code" /\ ip' = stack[Len(stack)].ip /\ string' = string
          /\ stack' = SubSeq(stack, 1, Len(stack) - 1) /\ seg_prefix_next' = FALSE
      BY <2>5 DEF Iret, InCode
    <3>2. CASE Len(stack) = 1
      <4>1. stack' = <<>> /\ ip' = Main /\ Main' = Main  BY <3>1, <3>2 DEF Stacked, Main
      <4> QED  BY <3>1, <4>1 DEF StringInv, Begin
    <3>3. CASE Len(stack) > 1
      <4>1. stack' # <<>> /\ stack'[1] = stack[1]
        <5>1. Len(stack) \in Nat /\ stack \in Seq(Frame) /\ Len(stack) >= 2  BY <3>3 DEF Stacked
        <5>2. Len(stack') = Len(stack) - 1 /\ \A i \in 1..(Len(stack) - 1) : stack'[i] = stack[i]
          BY <3>1, <5>1
        <5>3. 1 \in 1..(Len(stack) - 1) /\ Len(stack') # 0  BY <5>1, <5>2
        <5> QED  BY <5>2, <5>3
      <4>2. Main' = Main  BY <3>1, <4>1 DEF Main
      <4>3. ip' = "code"
        <5>1. Len(stack) \in 2..Len(stack)  BY <3>3 DEF Stacked
        <5> QED  BY <3>1, <5>1 DEF StringInv
      <4>4. \A i \in 2..Len(stack') : stack'[i].ip = "code"
        BY <3>1, <3>3 DEF Stacked, StringInv
      <4>5. string.left > 0 => Main' # "code"  BY <4>2 DEF StringInv
      <4>6. Main' = "prefix" => string.form = "outer"  BY <4>2 DEF StringInv
      <4>7. Main' \in {"code", Begin}  BY <3>1, <4>2 DEF StringInv
      <4>8. Begin' = Begin  BY <3>1 DEF Begin
      <4>9. stack' # <<>> /\ ip' = "code" /\ string' = string  BY <3>1, <4>1, <4>3
      <4>10. string \in Strings  BY DEF StringInv
      <4> QED  BY <4>4, <4>5, <4>6, <4>7, <4>8, <4>9, <4>10 DEF StringInv
    <3>4. Len(stack) = 1 \/ Len(stack) > 1
      <4>1. stack \in Seq(Frame) /\ stack # <<>>  BY <3>1 DEF Stacked
      <4> QED  BY <4>1
    <3> QED  BY <3>2, <3>3, <3>4
  <2>6. CASE Repeat  BY <2>6, RepeatKeeps
  <2>7. CASE Reset
    BY <2>7 DEF Reset, StringInv, Main, Begin, NoString, Strings, Forms
  <2>8. CASE Event \/ UNCHANGED vars
    BY <2>8 DEF Event, vars, cpu, flow, StringInv, Main, Begin
  <2> QED
    BY <2>1, <2>2, <2>3, <2>4, <2>5, <2>6, <2>7, <2>8 DEF Next, Turn, Instruction
<1>3. QED  BY <1>1, <1>2, StackedHolds, PTL DEF Spec

(* i86.cpp:2264, i186.cpp:571-668.  Wherever an interrupt cuts a repeated  *)
(* string instruction, and whatever the handlers do, it resumes at its     *)
(* first byte and moves every element through the right segment.           *)
THEOREM WholeString == Spec => []StringWhole
<1>1. Stacked /\ StringInv => StringWhole
  BY DEF Stacked, StringInv, StringWhole, Main, Begin, Place, Strings
<1>2. QED  BY <1>1, StackedHolds, StringInvHolds, PTL

-----------------------------------------------------------------------------
(* The flags: half the range of the operands, h, is any positive number.   *)
Half == Nat \ {0}

LEMMA FlagsOfSub ==
  ASSUME NEW h \in Half, NEW d \in Value(h), NEW s \in Value(h), NEW c \in 0..1,
         NEW f \in Flags
  PROVE  /\ AfterSub(f, d, s, c, h).cf = (d - s - c < 0)
         /\ AfterSub(f, d, s, c, h).zf = (Difference(d, s, c, h) = 0)
         /\ AfterSub(f, d, s, c, h).sf = Negative(Difference(d, s, c, h), h)
         /\ AfterSub(f, d, s, c, h).of = OverSub(Difference(d, s, c, h), s, d, h)
BY DEF AfterSub, SZP, Flags

LEMMA FlagsOfAdd ==
  ASSUME NEW h \in Half, NEW d \in Value(h), NEW s \in Value(h), NEW c \in 0..1,
         NEW f \in Flags
  PROVE  /\ AfterAdd(f, d, s, c, h).cf = (d + s + c >= 2 * h)
         /\ AfterAdd(f, d, s, c, h).sf = Negative(Sum(d, s, c, h), h)
         /\ AfterAdd(f, d, s, c, h).of = OverAdd(Sum(d, s, c, h), s, d, h)
BY DEF AfterAdd, SZP, Flags

-----------------------------------------------------------------------------
(* i86inline.h: ADDB, ADDX, SUBB, SUBX.  The carry is just what the result *)
(* lacks of the true sum or difference, so that ADC and SBB, going on from *)
(* it, add and subtract numbers of any length exactly.                     *)
THEOREM CarryMakesWhole ==
  ASSUME NEW h \in Half, NEW d \in Value(h), NEW s \in Value(h), NEW c \in 0..1,
         NEW f \in Flags
  PROVE  /\ Sum(d, s, c, h) \in Value(h) /\ Difference(d, s, c, h) \in Value(h)
         /\ Sum(d, s, c, h) + 2 * h * Carry(AfterAdd(f, d, s, c, h)) = d + s + c
         /\ Difference(d, s, c, h) - 2 * h * Carry(AfterSub(f, d, s, c, h)) = d - s - c
<1>1. /\ Sum(d, s, c, h) \in Value(h) /\ Difference(d, s, c, h) \in Value(h)
  BY DEF Half, Value, Sum, Difference
<1>2. Sum(d, s, c, h) + 2 * h * Carry(AfterAdd(f, d, s, c, h)) = d + s + c
  <2>1. CASE d + s + c >= 2 * h
    <3>1. Carry(AfterAdd(f, d, s, c, h)) = 1  BY <2>1, FlagsOfAdd DEF Carry
    <3> QED  BY <2>1, <3>1 DEF Half, Value, Sum
  <2>2. CASE ~(d + s + c >= 2 * h)
    <3>1. Carry(AfterAdd(f, d, s, c, h)) = 0  BY <2>2, FlagsOfAdd DEF Carry
    <3> QED  BY <2>2, <3>1 DEF Half, Value, Sum
  <2> QED  BY <2>1, <2>2
<1>3. Difference(d, s, c, h) - 2 * h * Carry(AfterSub(f, d, s, c, h)) = d - s - c
  <2>1. CASE d - s - c < 0
    <3>1. Carry(AfterSub(f, d, s, c, h)) = 1  BY <2>1, FlagsOfSub DEF Carry
    <3> QED  BY <2>1, <3>1 DEF Half, Value, Difference
  <2>2. CASE ~(d - s - c < 0)
    <3>1. Carry(AfterSub(f, d, s, c, h)) = 0  BY <2>2, FlagsOfSub DEF Carry
    <3> QED  BY <2>2, <3>1 DEF Half, Value, Difference
  <2> QED  BY <2>1, <2>2
<1> QED  BY <1>1, <1>2, <1>3

LEMMA Weighted ==
  ASSUME NEW w \in Int, NEW x \in Int, NEW d \in Int, NEW s \in Int, NEW c \in Int,
         NEW k \in Int, NEW i \in Int, x = d + s + c + k * i
  PROVE  w * x = w * d + w * s + w * c + (w * k) * i
<1>1. PICK r \in Int : r = k * i /\ w * r = (w * k) * i
  OBVIOUS
<1>2. w * (d + s + c + r) = w * d + w * s + w * c + w * r
  OBVIOUS
<1> QED BY <1>1, <1>2

LEMMA Negated == \A w, s \in Int : w * (-s) = -(w * s)
OBVIOUS

(* i86.cpp:821-925, 1148-1228.  One more digit of numbers of any length: if *)
(* the digits so far, l, lack just the carry at weight w of the sum or the *)
(* difference of a and b, then they still do with the next one before      *)
(* them.  INC and DEC in between, of pointers or counters, keep the carry. *)
THEOREM CarryGoesOn ==
  ASSUME NEW h \in Half, NEW d \in Value(h), NEW s \in Value(h), NEW g \in Flags,
         NEW w \in Nat, NEW l \in Int, NEW a \in Int, NEW b \in Int
  PROVE  LET c == Carry(g)
             p == AfterAdd(g, d, s, c, h)
             m == AfterSub(g, d, s, c, h)
         IN  /\ l + w * c = a + b =>
                  l + w * Sum(d, s, c, h) + (w * (2 * h)) * Carry(p) = (a + w * d) + (b + w * s)
             /\ l - w * c = a - b =>
                  l + w * Difference(d, s, c, h) - (w * (2 * h)) * Carry(m)
                    = (a + w * d) - (b + w * s)
             /\ \A v, k : Carry(AfterInc(g, v, k)) = c /\ Carry(AfterDec(g, v, k)) = c
<1> DEFINE c == Carry(g)
           p == AfterAdd(g, d, s, c, h)
           m == AfterSub(g, d, s, c, h)
<1>1. c \in 0..1  BY DEF Carry
<1>2. \A v, k : Carry(AfterInc(g, v, k)) = c /\ Carry(AfterDec(g, v, k)) = c
  BY DEF Carry, AfterInc, AfterDec, SZP, Flags
<1> HIDE DEF c
<1>3. /\ Sum(d, s, c, h) \in Value(h) /\ Difference(d, s, c, h) \in Value(h)
      /\ Sum(d, s, c, h) + 2 * h * Carry(p) = d + s + c
      /\ Difference(d, s, c, h) - 2 * h * Carry(m) = d - s - c
  BY <1>1, CarryMakesWhole
<1>4. PICK x \in Int, y \in Int, i \in Int, j \in Int :
        /\ x = Sum(d, s, c, h) /\ y = Difference(d, s, c, h)
        /\ i = Carry(p) /\ j = Carry(m)
  BY <1>3 DEF Value, Carry
<1>5. PICK k \in Int : k = 2 * h /\ h \in Int  BY DEF Half
<1>6. d \in Int /\ s \in Int /\ c \in Int /\ w \in Int  BY <1>1 DEF Value
<1>7. x = d + s + c - k * i /\ y = d - s - c + k * j
  BY <1>3, <1>4, <1>5, <1>6
<1>8. w * x = w * d + w * s + w * c - (w * k) * i
  <2>1. -i \in Int /\ x = d + s + c + k * (-i)
    BY <1>4, <1>5, <1>6, <1>7, Negated
  <2>2. w * x = w * d + w * s + w * c + (w * k) * (-i)
    BY <1>4, <1>5, <1>6, <2>1, Weighted
  <2>3. w * k \in Int /\ (w * k) * (-i) = -((w * k) * i)
    BY <1>4, <1>5, <1>6, Negated
  <2> QED BY <2>2, <2>3, <1>4, <1>5, <1>6
<1>9. w * y = w * d - w * s - w * c + (w * k) * j
  <2>1. -s \in Int /\ -c \in Int /\ y = d + (-s) + (-c) + k * j
    BY <1>4, <1>5, <1>6, <1>7
  <2>2. w * y = w * d + w * (-s) + w * (-c) + (w * k) * j
    BY <1>4, <1>5, <1>6, <2>1, Weighted
  <2>3. w * (-s) = -(w * s) /\ w * (-c) = -(w * c)
    BY <1>6, Negated
  <2> QED BY <2>2, <2>3, <1>4, <1>5, <1>6
<1>10. l + w * c = a + b => l + w * x + (w * k) * i = (a + w * d) + (b + w * s)
  <2>1. w * x \in Int /\ w * d \in Int /\ w * s \in Int /\ w * c \in Int /\ (w * k) * i \in Int
    BY <1>4, <1>5, <1>6
  <2> QED BY <1>8, <2>1
<1>11. l - w * c = a - b => l + w * y - (w * k) * j = (a + w * d) - (b + w * s)
  <2>1. w * y \in Int /\ w * d \in Int /\ w * s \in Int /\ w * c \in Int /\ (w * k) * j \in Int
    BY <1>4, <1>5, <1>6
  <2> QED BY <1>9, <2>1
<1> HIDE DEF p, m
<1>12. /\ l + w * c = a + b =>
            l + w * Sum(d, s, c, h) + (w * (2 * h)) * Carry(p) = (a + w * d) + (b + w * s)
       /\ l - w * c = a - b =>
            l + w * Difference(d, s, c, h) - (w * (2 * h)) * Carry(m)
              = (a + w * d) - (b + w * s)
  BY <1>4, <1>5, <1>10, <1>11, Zenon
<1> QED  BY <1>2, <1>12, Zenon DEF c, p, m

(* i86inline.h: set_OF_Add and set_OF_Sub.  OF is set exactly when the     *)
(* signed result is out of range; SF is then the wrong sign.               *)
THEOREM OverflowIsSigned ==
  ASSUME NEW h \in Half, NEW d \in Value(h), NEW s \in Value(h), NEW f \in Flags
  PROVE  /\ AfterAdd(f, d, s, 0, h).of <=> Signed(d, h) + Signed(s, h) \notin (-h)..(h - 1)
         /\ AfterSub(f, d, s, 0, h).of <=> Signed(d, h) - Signed(s, h) \notin (-h)..(h - 1)
<1>1. OverAdd(Sum(d, s, 0, h), s, d, h)
        <=> Signed(d, h) + Signed(s, h) \notin (-h)..(h - 1)
  BY DEF Half, Value, OverAdd, Sum, Signed, Negative
<1>2. OverSub(Difference(d, s, 0, h), s, d, h)
        <=> Signed(d, h) - Signed(s, h) \notin (-h)..(h - 1)
  BY DEF Half, Value, OverSub, Difference, Signed, Negative
<1>3. 0 \in 0..1  OBVIOUS
<1>4. /\ AfterAdd(f, d, s, 0, h).of = OverAdd(Sum(d, s, 0, h), s, d, h)
      /\ AfterSub(f, d, s, 0, h).of = OverSub(Difference(d, s, 0, h), s, d, h)
  BY <1>3, FlagsOfAdd, FlagsOfSub
<1> QED  BY <1>1, <1>2, <1>4

(* i86.cpp: CMP, then 0x72 to 0x7f.  Every condition of numbers decides    *)
(* what its name says: c, ce of unsigned, l, le of signed ones.            *)
THEOREM ComparisonDecides ==
  ASSUME NEW h \in Half, NEW d \in Value(h), NEW s \in Value(h), NEW f \in Flags,
         NEW g, g = AfterSub(f, d, s, 0, h)
  PROVE  /\ Holds(g).z <=> d = s
         /\ Holds(g).c <=> d < s
         /\ Holds(g).ce <=> d <= s
         /\ Holds(g).l <=> Signed(d, h) < Signed(s, h)
         /\ Holds(g).le <=> Signed(d, h) <= Signed(s, h)
         /\ Holds(g).nl <=> ~Holds(g).l
         /\ Holds(g).nle <=> ~Holds(g).le
<1> DEFINE v == Difference(d, s, 0, h)
<1>1. /\ g.cf = (d - s - 0 < 0) /\ g.zf = (v = 0)
      /\ g.sf = Negative(v, h) /\ g.of = OverSub(v, s, d, h)
  <2>1. 0 \in 0..1  OBVIOUS
  <2> QED  BY <2>1, FlagsOfSub
<1>2. g.cf <=> d < s
  <2>1. d - s - 0 < 0 <=> d < s  BY DEF Value, Half
  <2> QED  BY <1>1, <2>1
<1>3. g.zf <=> d = s
  <2>1. v = 0 <=> d = s  BY DEF Value, Half, Difference
  <2> QED  BY <1>1, <2>1
<1>4. g.sf # g.of <=> Signed(d, h) < Signed(s, h)
  <2>1. (Negative(v, h) # OverSub(v, s, d, h)) <=> Signed(d, h) < Signed(s, h)
    BY DEF Value, Half, Difference, Negative, OverSub, Signed
  <2> QED  BY <1>1, <2>1
<1>5. /\ d \in Int /\ s \in Int /\ Signed(d, h) \in Int /\ Signed(s, h) \in Int
      /\ Signed(d, h) = Signed(s, h) <=> d = s
  BY DEF Value, Half, Signed, Negative
<1>6. /\ d <= s <=> d < s \/ d = s
      /\ Signed(d, h) <= Signed(s, h) <=> Signed(d, h) < Signed(s, h) \/ d = s
      /\ Signed(d, h) < Signed(s, h) => d # s
  BY <1>5
<1>7. /\ Holds(g).z = g.zf /\ Holds(g).c = g.cf /\ Holds(g).ce = (g.cf \/ g.zf)
      /\ Holds(g).l = (g.sf # g.of /\ ~g.zf) /\ Holds(g).nl = (g.sf = g.of)
      /\ Holds(g).le = (g.zf \/ g.sf # g.of) /\ Holds(g).nle = (g.sf = g.of /\ ~g.zf)
  BY DEF Holds
<1>8. /\ Holds(g).z <=> d = s
      /\ Holds(g).c <=> d < s
      /\ Holds(g).ce <=> d <= s
      /\ Holds(g).l <=> Signed(d, h) < Signed(s, h)
      /\ Holds(g).le <=> Signed(d, h) <= Signed(s, h)
  BY <1>2, <1>3, <1>4, <1>6, <1>7, Zenon
<1>9. /\ Holds(g).nl <=> ~Holds(g).l
      /\ Holds(g).nle <=> ~Holds(g).le
  BY <1>3, <1>4, <1>6, <1>7, Zenon
<1> QED  BY <1>8, <1>9

-----------------------------------------------------------------------------
(* Interrupts and their return.  Space holds every address that a segment  *)
(* and an offset make; Machines are all the states of Machine.tla over it. *)
Space == 0..(34 * Word - 1)
Segments == {"CS", "DS", "ES", "SS"}
Machines ==
  [w : [Words -> Value(Word)], sr : [Segments -> Value(Word)], f : Flags, df : BOOLEAN,
   ie : BOOLEAN, ip : Value(Word), mem : [Space -> Value(Byte)],
   prefix : Segments \cup {"none"}, ports : Seq(Value(Word)), halt : BOOLEAN, shadow : BOOLEAN]

LEMMA Ranges ==
  \A x : /\ x \in Value(Byte) <=> x \in Int /\ 0 <= x /\ x < 256
         /\ x \in Value(Word) <=> x \in Int /\ 0 <= x /\ x < 65536
         /\ x \in Space <=> x \in Int /\ 0 <= x /\ x < 1114112
<1>1. ASSUME NEW h \in Nat, NEW k \in Nat
      PROVE  \A x : x \in 0..(k * h - 1) <=> x \in Int /\ 0 <= x /\ x < k * h
  <2>1. k * h \in Nat  OBVIOUS
  <2> QED BY <2>1
<1>2. Byte \in Nat /\ Word \in Nat /\ 2 * Byte = 256 /\ 2 * Word = 65536 /\ 34 * Word = 1114112
  BY SMT DEF Byte, Word
<1>3. \A x : x \in Value(Byte) <=> x \in Int /\ 0 <= x /\ x < 2 * Byte
  BY <1>1, <1>2 DEF Value
<1>4. \A x : x \in Value(Word) <=> x \in Int /\ 0 <= x /\ x < 2 * Word
  BY <1>1, <1>2 DEF Value
<1>5. \A x : x \in Space <=> x \in Int /\ 0 <= x /\ x < 34 * Word
  BY <1>1, <1>2 DEF Space
<1> QED BY SMT, <1>2, <1>3, <1>4, <1>5

(* The bits of the flags' image.                                           *)
LEMMA Digits8 ==
  ASSUME NEW c \in 0..1, NEW p \in 0..1, NEW a \in 0..1, NEW z \in 0..1, NEW s \in 0..1,
         NEW i \in 0..1, NEW d \in 0..1, NEW o \in 0..1,
         NEW x, x = c + 2 + 4 * p + 16 * a + 64 * z + 128 * s + 512 * i + 1024 * d + 2048 * o + 61440
  PROVE  /\ x \in Value(Word)
         /\ x % 2 = c /\ (x \div 4) % 2 = p /\ (x \div 16) % 2 = a /\ (x \div 64) % 2 = z
         /\ (x \div 128) % 2 = s /\ (x \div 512) % 2 = i /\ (x \div 1024) % 2 = d
         /\ (x \div 2048) % 2 = o
<1>1. x \in Value(Word)
  <2>1. x \in Int /\ 0 <= x /\ x < 65536  OBVIOUS
  <2> QED BY <2>1, Ranges
<1>2. x % 2 = c  OBVIOUS
<1>3. (x \div 4) % 2 = p  OBVIOUS
<1>4. (x \div 16) % 2 = a  OBVIOUS
<1>5. (x \div 64) % 2 = z  OBVIOUS
<1>6. (x \div 128) % 2 = s OBVIOUS
<1>7. (x \div 512) % 2 = i OBVIOUS
<1>8. (x \div 1024) % 2 = d OBVIOUS
<1>9. (x \div 2048) % 2 = o OBVIOUS
<1> QED BY <1>1, <1>2, <1>3, <1>4, <1>5, <1>6, <1>7, <1>8, <1>9

LEMMA FlagsPacked ==
  ASSUME NEW m \in Machines, NEW x, x = CompressFlags(m)
  PROVE  /\ x \in Value(Word)
         /\ Bit(x, 0) <=> m.f.cf
         /\ Bit(x, 2) <=> m.f.pf
         /\ Bit(x, 4) <=> m.f.af
         /\ Bit(x, 6) <=> m.f.zf
         /\ Bit(x, 7) <=> m.f.sf
         /\ Bit(x, 9) <=> m.ie
         /\ Bit(x, 10) <=> m.df
         /\ Bit(x, 11) <=> m.f.of
<1> DEFINE D(b) == IF b THEN 1 ELSE 0
<1>1. x = D(m.f.cf) + 2 + 4 * D(m.f.pf) + 16 * D(m.f.af) + 64 * D(m.f.zf) + 128 * D(m.f.sf)
           + 512 * D(m.ie) + 1024 * D(m.df) + 2048 * D(m.f.of) + 61440
  <2>1. \A b : /\ Flag(b, 0) = D(b) /\ Flag(b, 2) = 4 * D(b) /\ Flag(b, 4) = 16 * D(b)
               /\ Flag(b, 6) = 64 * D(b) /\ Flag(b, 7) = 128 * D(b) /\ Flag(b, 9) = 512 * D(b)
               /\ Flag(b, 10) = 1024 * D(b) /\ Flag(b, 11) = 2048 * D(b)
    BY DEF Flag
  <2> QED BY <2>1 DEF CompressFlags
<1>2. \A b : D(b) \in 0..1 /\ (D(b) = 1 <=> b)
  OBVIOUS
<1>3. /\ x \in Value(Word)
      /\ x % 2 = D(m.f.cf) /\ (x \div 4) % 2 = D(m.f.pf) /\ (x \div 16) % 2 = D(m.f.af)
      /\ (x \div 64) % 2 = D(m.f.zf) /\ (x \div 128) % 2 = D(m.f.sf) /\ (x \div 512) % 2 = D(m.ie)
      /\ (x \div 1024) % 2 = D(m.df) /\ (x \div 2048) % 2 = D(m.f.of)
  <2> HIDE DEF D
  <2>1. PICK c \in 0..1, p \in 0..1, a \in 0..1, z \in 0..1 :
          c = D(m.f.cf) /\ p = D(m.f.pf) /\ a = D(m.f.af) /\ z = D(m.f.zf)
    BY <1>2
  <2>2. PICK s \in 0..1, i \in 0..1, d \in 0..1, o \in 0..1 :
          s = D(m.f.sf) /\ i = D(m.ie) /\ d = D(m.df) /\ o = D(m.f.of)
    BY <1>2
  <2>3. x = c + 2 + 4 * p + 16 * a + 64 * z + 128 * s + 512 * i + 1024 * d + 2048 * o + 61440
    BY <1>1, <2>1, <2>2
  <2>4. /\ x \in Value(Word)
        /\ x % 2 = c /\ (x \div 4) % 2 = p /\ (x \div 16) % 2 = a /\ (x \div 64) % 2 = z
        /\ (x \div 128) % 2 = s /\ (x \div 512) % 2 = i /\ (x \div 1024) % 2 = d
        /\ (x \div 2048) % 2 = o
    BY <2>3, Digits8
  <2> QED BY <2>1, <2>2, <2>4
<1> HIDE DEF D
<1>4. /\ Bit(x, 0) <=> x % 2 = 1
      /\ Bit(x, 2) <=> (x \div 4) % 2 = 1
      /\ Bit(x, 4) <=> (x \div 16) % 2 = 1
      /\ Bit(x, 6) <=> (x \div 64) % 2 = 1
      /\ Bit(x, 7) <=> (x \div 128) % 2 = 1
      /\ Bit(x, 9) <=> (x \div 512) % 2 = 1
      /\ Bit(x, 10) <=> (x \div 1024) % 2 = 1
      /\ Bit(x, 11) <=> (x \div 2048) % 2 = 1
  BY <1>3 DEF Bit, Value
<1> QED BY <1>2, <1>3, <1>4

-----------------------------------------------------------------------------
(* The stack: a word at a time, below what is on it.                       *)
Slot(m, k) == Address(m, "SS", m.w["SP"] - k)
Slots(m, k) == {Slot(m, k), Slot(m, k) + 1}

LEMMA Wraps ==
  ASSUME NEW x \in Int
  PROVE  /\ Wrapped(x, Word) = x % 65536 /\ Wrapped(x, Byte) = x % 256
         /\ Wrapped(x, Word) \in Value(Word) /\ Wrapped(x, Byte) \in Value(Byte)
         /\ x \in Value(Word) => Wrapped(x, Word) = x
         /\ x \in Value(Byte) => Wrapped(x, Byte) = x
<1>1. Wrapped(x, Word) = x % 65536 /\ Wrapped(x, Byte) = x % 256
  BY SMT DEF Wrapped, Word, Byte
<1> QED BY SMT, <1>1, Ranges

LEMMA AddressIn ==
  ASSUME NEW m \in Machines, NEW seg \in Segments, NEW off \in Int
  PROVE  Address(m, seg, off) \in Space /\ Address(m, seg, off) + 1 \in Space
<1>1. m.sr[seg] \in Value(Word) /\ Wrapped(off, Word) \in Value(Word)
  BY SMT, Wraps DEF Machines
<1> QED BY SMT, <1>1, Ranges DEF Address

LEMMA WordPut ==
  ASSUME NEW v \in Value(Word)
  PROVE  /\ v % 256 \in Value(Byte) /\ (v \div 256) % 256 \in Value(Byte)
         /\ (v % 256) + 256 * ((v \div 256) % 256) = v
BY SMT, Ranges

With(m, w, mem) == [m EXCEPT !.w = w, !.mem = mem]

LEMMA Changed ==
  ASSUME NEW m \in Machines, NEW w \in [Words -> Value(Word)], NEW mem \in [Space -> Value(Byte)]
  PROVE  LET r == With(m, w, mem)
         IN  /\ r \in Machines
             /\ r.w = w /\ r.mem = mem /\ r.sr = m.sr /\ r.f = m.f /\ r.df = m.df /\ r.ie = m.ie
             /\ r.ip = m.ip /\ r.prefix = m.prefix /\ r.ports = m.ports /\ r.halt = m.halt
             /\ r.shadow = m.shadow
<1> DEFINE r == With(m, w, mem)
<1>1. r \in Machines  BY Zenon DEF Machines, With
<1>2. r.w = w /\ r.mem = mem /\ r.sr = m.sr /\ r.f = m.f  BY SMT DEF Machines, With
<1>3. r.df = m.df /\ r.ie = m.ie /\ r.ip = m.ip  BY SMT DEF Machines, With
<1>4. r.prefix = m.prefix /\ r.ports = m.ports  BY SMT DEF Machines, With
<1>5. r.halt = m.halt /\ r.shadow = m.shadow  BY SMT DEF Machines, With
<1> HIDE DEF r
<1> QED BY <1>1, <1>2, <1>3, <1>4, <1>5 DEF r

LEMMA Pushed ==
  ASSUME NEW m \in Machines, NEW v \in Value(Word)
  PROVE  LET p == Push(m, v)
         IN  /\ p \in Machines
             /\ p = With(m, p.w, p.mem)
             /\ p.w = [m.w EXCEPT !["SP"] = Wrapped(m.w["SP"] - 2, Word)]
             /\ Get(p, Slot(m, 2), Word) = v
             /\ \A b \in Space : b \notin Slots(m, 2) => p.mem[b] = m.mem[b]
<1> DEFINE a == Slot(m, 2)
           mem == [m.mem EXCEPT ![a] = v % 256, ![a + 1] = (v \div 256) % 256]
           sp == Wrapped(m.w["SP"] - 2, Word)
           w == [m.w EXCEPT !["SP"] = sp]
           p == Push(m, v)
<1>1. m.w["SP"] \in Value(Word) /\ m.w["SP"] - 2 \in Int /\ sp \in Value(Word)
  <2>1. m.w["SP"] \in Value(Word)  BY SMT DEF Machines, Words
  <2>2. m.w["SP"] - 2 \in Int  BY <2>1, Ranges
  <2> QED BY <2>1, <2>2, Wraps
<1>2. a \in Space /\ a + 1 \in Space /\ a # a + 1
  <2>1. "SS" \in Segments  BY DEF Segments
  <2>2. a \in Space /\ a + 1 \in Space  BY <1>1, <2>1, AddressIn DEF Slot
  <2> QED BY SMT, <2>2, Ranges
<1>3. Word # Byte
  BY SMT DEF Word, Byte
<1>4. v % 256 \in Value(Byte) /\ (v \div 256) % 256 \in Value(Byte)
      /\ (v % 256) + 256 * ((v \div 256) % 256) = v
  BY WordPut
<1>5. m.mem \in [Space -> Value(Byte)] /\ m.w \in [Words -> Value(Word)] /\ "SP" \in Words
  BY SMT DEF Machines, Words
<1>6. p = With(m, w, mem)
  <2>1. Put(m, a, Word, v) = [m EXCEPT !.mem = mem]
    BY <1>3 DEF Put
  <2>2. p = [[m EXCEPT !.mem = mem] EXCEPT !.w["SP"] = sp]
    BY <1>5, <2>1 DEF Push, SetReg, Slot
  <2> HIDE DEF mem, sp
  <2> QED BY <2>2 DEF Machines, With
<1> HIDE DEF a, sp, p
<1>7. /\ mem \in [Space -> Value(Byte)] /\ mem[a] = v % 256 /\ mem[a + 1] = (v \div 256) % 256
      /\ \A b \in Space : b # a /\ b # a + 1 => mem[b] = m.mem[b]
  BY <1>2, <1>4, <1>5
<1>8. w \in [Words -> Value(Word)]
  BY <1>1, <1>5
<1> HIDE DEF mem, w
<1>9. p \in Machines /\ p.w = w /\ p.mem = mem
  <2>1. mem \in [Space -> Value(Byte)]  BY <1>7
  <2> QED BY <1>6, <1>8, <2>1, Changed
<1>10. Get(p, a, Word) = v
  BY <1>3, <1>4, <1>7, <1>9 DEF Get
<1> QED BY <1>6, <1>7, <1>9, <1>10 DEF Slots, a, w, sp, p

LEMMA SlotsOfThree ==
  ASSUME NEW m \in Machines
  PROVE  /\ \A i \in {2, 4, 6} : Slot(m, i) \in Space /\ Slot(m, i) + 1 \in Space
         /\ \A i, j \in {2, 4, 6} : i # j => Slots(m, i) \cap Slots(m, j) = {}
         /\ Slot(m, 2) = 16 * m.sr["SS"] + ((m.w["SP"] - 2) % 65536)
         /\ Slot(m, 4) = 16 * m.sr["SS"] + ((m.w["SP"] - 4) % 65536)
         /\ Slot(m, 6) = 16 * m.sr["SS"] + ((m.w["SP"] - 6) % 65536)
<1>1. m.w["SP"] \in Value(Word) /\ m.sr["SS"] \in Value(Word) /\ "SS" \in Segments
  BY SMT DEF Machines, Words, Segments
<1>2. PICK sp \in Int, ss \in Int : /\ sp = m.w["SP"] /\ ss = m.sr["SS"]
                                  /\ 0 <= sp /\ sp < 65536
  BY <1>1, Ranges
<1>3. \A i \in {2, 4, 6} : sp - i \in Int
  BY <1>2
<1>4. \A i \in {2, 4, 6} : Slot(m, i) = 16 * ss + ((sp - i) % 65536)
  <2>1. ASSUME NEW i \in {2, 4, 6}  PROVE  Slot(m, i) = 16 * ss + ((sp - i) % 65536)
    <3>1. Wrapped(sp - i, Word) = (sp - i) % 65536  BY <1>3, Wraps
    <3>2. Slot(m, i) = 16 * ss + Wrapped(sp - i, Word)  BY <1>2 DEF Slot, Address
    <3> QED BY <3>1, <3>2
  <2> QED BY <2>1
<1>5. \A i \in {2, 4, 6} : Slot(m, i) \in Space /\ Slot(m, i) + 1 \in Space
  BY <1>1, <1>2, <1>3, AddressIn DEF Slot
<1>6. /\ (sp - 2) % 65536 \in Int /\ (sp - 4) % 65536 \in Int /\ (sp - 6) % 65536 \in Int
      /\ (sp - 2) % 65536 # (sp - 4) % 65536 /\ (sp - 2) % 65536 # (sp - 6) % 65536
      /\ (sp - 4) % 65536 # (sp - 6) % 65536
      /\ ((sp - 2) % 65536) + 1 # (sp - 4) % 65536 /\ ((sp - 4) % 65536) + 1 # (sp - 2) % 65536
      /\ ((sp - 2) % 65536) + 1 # (sp - 6) % 65536 /\ ((sp - 6) % 65536) + 1 # (sp - 2) % 65536
      /\ ((sp - 4) % 65536) + 1 # (sp - 6) % 65536 /\ ((sp - 6) % 65536) + 1 # (sp - 4) % 65536
  BY SMT, <1>2
<1>7. \A i, j \in {2, 4, 6} : i # j => Slots(m, i) \cap Slots(m, j) = {}
  <2>1. PICK a \in Int, b \in Int, c \in Int :
          a = Slot(m, 2) /\ b = Slot(m, 4) /\ c = Slot(m, 6)
    BY <1>5, Ranges
  <2>2. /\ a # b /\ a # c /\ b # c /\ a + 1 # b /\ b + 1 # a /\ a + 1 # c /\ c + 1 # a
        /\ b + 1 # c /\ c + 1 # b
    BY SMT, <1>2, <1>4, <1>6, <2>1
  <2>3. Slots(m, 2) = {a, a + 1} /\ Slots(m, 4) = {b, b + 1} /\ Slots(m, 6) = {c, c + 1}
    BY <2>1 DEF Slots
  <2>4. /\ Slots(m, 2) \cap Slots(m, 4) = {} /\ Slots(m, 2) \cap Slots(m, 6) = {}
        /\ Slots(m, 4) \cap Slots(m, 6) = {}
    BY <2>2, <2>3
  <2> QED BY <2>4
<1> QED BY <1>2, <1>4, <1>5, <1>7

(* The first fields an interrupt changes after its pushes.                 *)
Masked(m) == [m EXCEPT !.ie = FALSE]
LEMMA MaskedIs ==
  ASSUME NEW m \in Machines
  PROVE  /\ Masked(m) \in Machines
         /\ Masked(m).w = m.w /\ Masked(m).mem = m.mem /\ Masked(m).sr = m.sr
         /\ Masked(m).f = m.f /\ Masked(m).df = m.df /\ Masked(m).ie = FALSE
         /\ Masked(m).ip = m.ip
<1>1. Masked(m) \in Machines  BY Zenon DEF Machines, Masked
<1>2. Masked(m).w = m.w /\ Masked(m).mem = m.mem /\ Masked(m).sr = m.sr  BY SMT DEF Machines, Masked
<1>3. Masked(m).f = m.f /\ Masked(m).df = m.df /\ Masked(m).ip = m.ip  BY SMT DEF Machines, Masked
<1>4. Masked(m).ie = FALSE  BY SMT DEF Machines, Masked
<1> QED BY <1>1, <1>2, <1>3, <1>4

(* SP after k pushes.                                                      *)
LEMMA SlotDown ==
  ASSUME NEW m \in Machines, NEW p \in Machines, NEW k \in {2, 4},
         p.w["SP"] = Wrapped(m.w["SP"] - k, Word), p.sr["SS"] = m.sr["SS"]
  PROVE  /\ Slot(p, 2) = Slot(m, k + 2) /\ Slots(p, 2) = Slots(m, k + 2)
         /\ Wrapped(p.w["SP"] - 2, Word) = Wrapped(m.w["SP"] - (k + 2), Word)
<1>1. m.w["SP"] \in Value(Word)
  BY SMT DEF Machines, Words
<1>2. PICK sp \in Int : sp = m.w["SP"]
  BY <1>1, Ranges
<1>3. /\ Wrapped(sp - k, Word) = (sp - k) % 65536
      /\ Wrapped(sp - (k + 2), Word) = (sp - (k + 2)) % 65536
  <2>1. sp - k \in Int /\ sp - (k + 2) \in Int  BY <1>2
  <2> QED BY <2>1, Wraps
<1>4. Wrapped(((sp - k) % 65536) - 2, Word) = (((sp - k) % 65536) - 2) % 65536
  <2>1. ((sp - k) % 65536) - 2 \in Int  BY SMT, <1>2
  <2> QED BY <2>1, Wraps
<1>5. (((sp - k) % 65536) - 2) % 65536 = (sp - (k + 2)) % 65536
  BY SMT, <1>2
<1>6. Wrapped(p.w["SP"] - 2, Word) = Wrapped(m.w["SP"] - (k + 2), Word)
  BY <1>2, <1>3, <1>4, <1>5
<1>7. Slot(p, 2) = Slot(m, k + 2)
  BY <1>6 DEF Slot, Address
<1> QED BY <1>6, <1>7 DEF Slots

(* What an interrupt leaves behind.                                        *)
LEMMA Interrupted ==
  ASSUME NEW m \in Machines, NEW n
  PROVE  LET p == Interrupt(m, n)
         IN  /\ p.w = [m.w EXCEPT !["SP"] = Wrapped(m.w["SP"] - 6, Word)]
             /\ \A seg \in Segments \ {"CS"} : p.sr[seg] = m.sr[seg]
             /\ Get(p, Slot(m, 2), Word) = CompressFlags(m)
             /\ Get(p, Slot(m, 4), Word) = m.sr["CS"]
             /\ Get(p, Slot(m, 6), Word) = m.ip
             /\ \A b \in Space \ (Slots(m, 2) \cup Slots(m, 4) \cup Slots(m, 6)) : p.mem[b] = m.mem[b]
             /\ p.f = m.f /\ p.df = m.df /\ p.ie = FALSE
             /\ p.sr["CS"] = Handlers[n][1] /\ p.ip = Handlers[n][2]
<1> DEFINE p == Interrupt(m, n)
           a == Push(m, CompressFlags(m))
           b == [a EXCEPT !.ie = FALSE]
           c == Push(b, m.sr["CS"])
           d == Push(c, m.ip)
<1>1. CompressFlags(m) \in Value(Word) /\ m.sr["CS"] \in Value(Word) /\ m.ip \in Value(Word)
  <2>1. m.sr["CS"] \in Value(Word) /\ m.ip \in Value(Word)
    BY SMT DEF Machines, Segments
  <2> QED BY <2>1, FlagsPacked
<1>2. m.sr \in [Segments -> Value(Word)] /\ m.w \in [Words -> Value(Word)] /\ "SP" \in Words
  BY SMT DEF Machines, Words
<1>3. /\ a \in Machines /\ a = With(m, a.w, a.mem)
      /\ a.w = [m.w EXCEPT !["SP"] = Wrapped(m.w["SP"] - 2, Word)]
      /\ Get(a, Slot(m, 2), Word) = CompressFlags(m)
      /\ \A x \in Space : x \notin Slots(m, 2) => a.mem[x] = m.mem[x]
  BY <1>1, Pushed
<1>4. a.sr = m.sr /\ a.f = m.f /\ a.df = m.df /\ a.ip = m.ip
  <2>1. a.w \in [Words -> Value(Word)] /\ a.mem \in [Space -> Value(Byte)]
    BY <1>3 DEF Machines
  <2> HIDE DEF a
  <2> QED BY <1>3, <2>1, Changed
<1>5. /\ b \in Machines /\ b.w = a.w /\ b.mem = a.mem /\ b.sr = a.sr
      /\ b.f = a.f /\ b.df = a.df /\ b.ie = FALSE /\ b.ip = a.ip
  <2>1. b = Masked(a)  BY DEF Masked
  <2> HIDE DEF a, b
  <2> QED BY <1>3, <2>1, MaskedIs
<1>6. b.w["SP"] = Wrapped(m.w["SP"] - 2, Word) /\ b.sr["SS"] = m.sr["SS"]
  BY <1>2, <1>3, <1>4, <1>5
<1>7. /\ Slot(b, 2) = Slot(m, 4) /\ Slots(b, 2) = Slots(m, 4)
      /\ Wrapped(b.w["SP"] - 2, Word) = Wrapped(m.w["SP"] - 4, Word)
  <2> HIDE DEF a, b
  <2>1. 2 + 2 = 4  OBVIOUS
  <2> QED BY <1>5, <1>6, <2>1, SlotDown
<1>8. /\ c \in Machines /\ c = With(b, c.w, c.mem)
      /\ c.w = [b.w EXCEPT !["SP"] = Wrapped(m.w["SP"] - 4, Word)]
      /\ Get(c, Slot(m, 4), Word) = m.sr["CS"]
      /\ \A x \in Space : x \notin Slots(m, 4) => c.mem[x] = b.mem[x]
  <2> HIDE DEF a, b
  <2> QED BY <1>1, <1>5, <1>7, Pushed
<1>9. c.sr = b.sr /\ c.f = b.f /\ c.df = b.df /\ c.ie = b.ie /\ c.ip = b.ip
  <2>1. c.w \in [Words -> Value(Word)] /\ c.mem \in [Space -> Value(Byte)]
    BY <1>8 DEF Machines
  <2> HIDE DEF b, c
  <2> QED BY <1>5, <1>8, <2>1, Changed
<1>10. c.w["SP"] = Wrapped(m.w["SP"] - 4, Word) /\ c.sr["SS"] = m.sr["SS"]
  <2>1. b.w \in [Words -> Value(Word)]  BY <1>5 DEF Machines
  <2> HIDE DEF b, c
  <2> QED BY <1>2, <1>8, <1>9, <1>4, <1>5, <2>1
<1>11. /\ Slot(c, 2) = Slot(m, 6) /\ Slots(c, 2) = Slots(m, 6)
       /\ Wrapped(c.w["SP"] - 2, Word) = Wrapped(m.w["SP"] - 6, Word)
  <2> HIDE DEF c
  <2>1. 4 + 2 = 6  OBVIOUS
  <2> QED BY <1>8, <1>10, <2>1, SlotDown
<1>12. /\ d \in Machines /\ d = With(c, d.w, d.mem)
       /\ d.w = [c.w EXCEPT !["SP"] = Wrapped(m.w["SP"] - 6, Word)]
       /\ Get(d, Slot(m, 6), Word) = m.ip
       /\ \A x \in Space : x \notin Slots(m, 6) => d.mem[x] = c.mem[x]
  <2> HIDE DEF c
  <2> QED BY <1>1, <1>8, <1>11, Pushed
<1>13. d.sr = c.sr /\ d.f = c.f /\ d.df = c.df /\ d.ie = c.ie
  <2>1. d.w \in [Words -> Value(Word)] /\ d.mem \in [Space -> Value(Byte)]
    BY <1>12 DEF Machines
  <2> HIDE DEF c, d
  <2> QED BY <1>8, <1>12, <2>1, Changed
<1>14. d.w = [m.w EXCEPT !["SP"] = Wrapped(m.w["SP"] - 6, Word)]
  <2>1. b.w = a.w  BY <1>5
  <2> HIDE DEF a, b, c, d
  <2> QED BY <1>2, <1>3, <1>8, <1>12, <2>1
<1>15. d.sr = m.sr /\ d.f = m.f /\ d.df = m.df /\ d.ie = FALSE
  <2> HIDE DEF a, b, c, d
  <2> QED BY <1>4, <1>5, <1>9, <1>13
<1>16. /\ \A i \in {2, 4, 6} : Slot(m, i) \in Space /\ Slot(m, i) + 1 \in Space
       /\ \A i, j \in {2, 4, 6} : i # j => Slots(m, i) \cap Slots(m, j) = {}
  BY SlotsOfThree
<1>17. \A x \in Space \ (Slots(m, 2) \cup Slots(m, 4) \cup Slots(m, 6)) : d.mem[x] = m.mem[x]
  <2> HIDE DEF a, b, c, d
  <2> QED BY <1>3, <1>5, <1>8, <1>12
<1>18. Get(d, Slot(m, 2), Word) = CompressFlags(m) /\ Get(d, Slot(m, 4), Word) = m.sr["CS"]
  <2>1. \A i \in {2, 4, 6} : Slot(m, i) \in Slots(m, i) /\ Slot(m, i) + 1 \in Slots(m, i)
    BY DEF Slots
  <2> HIDE DEF a, b, c, d
  <2>2. \A x \in Slots(m, 2) : d.mem[x] = a.mem[x]
    <3>1. Slots(m, 2) \cap Slots(m, 4) = {} /\ Slots(m, 2) \cap Slots(m, 6) = {}
      BY <1>16
    <3>2. \A x \in Slots(m, 2) : x \in Space  BY <1>16 DEF Slots
    <3> QED BY <1>5, <1>8, <1>12, <3>1, <3>2
  <2>3. \A x \in Slots(m, 4) : d.mem[x] = c.mem[x]
    <3>1. Slots(m, 4) \cap Slots(m, 6) = {}  BY <1>16
    <3>2. \A x \in Slots(m, 4) : x \in Space  BY <1>16 DEF Slots
    <3> QED BY <1>12, <3>1, <3>2
  <2>4. Word # Byte  BY SMT DEF Word, Byte
  <2> QED BY <1>3, <1>8, <2>1, <2>2, <2>3, <2>4 DEF Get
<1>19. p = [d EXCEPT !.sr["CS"] = Handlers[n][1], !.ip = Handlers[n][2]]
  BY DEF Interrupt
<1>20. /\ p.w = d.w /\ p.mem = d.mem /\ p.f = d.f /\ p.df = d.df /\ p.ie = d.ie
       /\ p.sr = [d.sr EXCEPT !["CS"] = Handlers[n][1]] /\ p.ip = Handlers[n][2]
  <2> HIDE DEF a, b, c, d, p
  <2>1. p.w = d.w /\ p.mem = d.mem  BY SMT, <1>12, <1>19 DEF Machines
  <2>2. p.f = d.f /\ p.df = d.df /\ p.ie = d.ie  BY SMT, <1>12, <1>19 DEF Machines
  <2>3. p.sr = [d.sr EXCEPT !["CS"] = Handlers[n][1]] /\ p.ip = Handlers[n][2]
    BY SMT, <1>12, <1>19 DEF Machines
  <2> QED BY <2>1, <2>2, <2>3
<1>21. \A x : Get(p, x, Word) = Get(d, x, Word)
  <2> HIDE DEF a, b, c, d, p
  <2> QED BY <1>20 DEF Get
<1>22. /\ \A seg \in Segments \ {"CS"} : p.sr[seg] = m.sr[seg]
       /\ p.sr["CS"] = Handlers[n][1]
  <2> HIDE DEF a, b, c, d, p
  <2> QED BY <1>2, <1>15, <1>20 DEF Segments
<1> HIDE DEF a, b, c, d
<1> QED BY <1>12, <1>14, <1>15, <1>17, <1>18, <1>20, <1>21, <1>22

LEMMA SlotUp ==
  ASSUME NEW m \in Machines, NEW h \in Machines, NEW k \in {2, 4, 6},
         h.w["SP"] = Wrapped(m.w["SP"] - k, Word), h.sr["SS"] = m.sr["SS"]
  PROVE  /\ Address(h, "SS", h.w["SP"]) = Slot(m, k)
         /\ Wrapped(h.w["SP"] + 2, Word) = Wrapped(m.w["SP"] - (k - 2), Word)
<1>1. m.w["SP"] \in Value(Word)
  BY SMT DEF Machines, Words
<1>2. PICK sp \in Int : sp = m.w["SP"] /\ 0 <= sp /\ sp < 65536
  BY <1>1, Ranges
<1>3. /\ Wrapped(sp - k, Word) = (sp - k) % 65536
      /\ Wrapped(sp - (k - 2), Word) = (sp - (k - 2)) % 65536
  <2>1. sp - k \in Int /\ sp - (k - 2) \in Int  BY <1>2
  <2> QED BY <2>1, Wraps
<1>4. PICK v \in Int : v = (sp - k) % 65536
  BY <1>2
<1>5. Wrapped(v, Word) = v % 65536 /\ Wrapped(v + 2, Word) = (v + 2) % 65536
  <2>1. v + 2 \in Int  BY <1>4
  <2> QED BY <1>4, <2>1, Wraps
<1>6. v % 65536 = v /\ (v + 2) % 65536 = (sp - (k - 2)) % 65536
  BY SMT, <1>2, <1>4
<1>7. Wrapped(h.w["SP"], Word) = Wrapped(m.w["SP"] - k, Word)
  BY <1>2, <1>3, <1>4, <1>5, <1>6
<1>8. Wrapped(h.w["SP"] + 2, Word) = Wrapped(m.w["SP"] - (k - 2), Word)
  BY <1>2, <1>3, <1>4, <1>5, <1>6
<1>9. Address(h, "SS", h.w["SP"]) = Slot(m, k)
  BY <1>7 DEF Slot, Address
<1> QED BY <1>8, <1>9

(* What is left when a word is taken off the stack.                        *)
LEMMA Dropped ==
  ASSUME NEW m \in Machines
  PROVE  LET d == Drop(m)
         IN  /\ d \in Machines
             /\ d.w = [m.w EXCEPT !["SP"] = Wrapped(m.w["SP"] + 2, Word)]
             /\ d.mem = m.mem /\ d.sr = m.sr /\ d.f = m.f /\ d.df = m.df /\ d.ie = m.ie /\ d.ip = m.ip
<1> DEFINE w == [m.w EXCEPT !["SP"] = Wrapped(m.w["SP"] + 2, Word)]
<1>1. m.mem \in [Space -> Value(Byte)] /\ m.w \in [Words -> Value(Word)] /\ "SP" \in Words
  BY SMT DEF Machines, Words
<1>2. Wrapped(m.w["SP"] + 2, Word) \in Value(Word)
  <2>1. m.w["SP"] \in Value(Word)  BY <1>1
  <2>2. m.w["SP"] + 2 \in Int  BY <2>1, Ranges
  <2> QED BY <2>2, Wraps
<1>3. w \in [Words -> Value(Word)]
  BY <1>1, <1>2
<1>4. Drop(m) = With(m, w, m.mem)
  <2>1. Drop(m) = [m EXCEPT !.w = w]
    BY <1>1, Zenon DEF Drop, SetReg
  <2> HIDE DEF w
  <2>2. [m EXCEPT !.w = w] = With(m, w, m.mem)
    BY DEF Machines, With
  <2> QED BY <2>1, <2>2
<1> HIDE DEF w
<1>5. /\ With(m, w, m.mem) \in Machines /\ With(m, w, m.mem).w = w
      /\ With(m, w, m.mem).mem = m.mem /\ With(m, w, m.mem).sr = m.sr /\ With(m, w, m.mem).f = m.f
      /\ With(m, w, m.mem).df = m.df /\ With(m, w, m.mem).ie = m.ie /\ With(m, w, m.mem).ip = m.ip
  BY <1>1, <1>3, Changed
<1> QED BY <1>4, <1>5 DEF w

LEMMA IpSet ==
  ASSUME NEW m \in Machines, NEW x \in Value(Word)
  PROVE  LET r == [m EXCEPT !.ip = x]
         IN  /\ r \in Machines /\ r.w = m.w /\ r.mem = m.mem /\ r.sr = m.sr /\ r.f = m.f
             /\ r.df = m.df /\ r.ie = m.ie /\ r.ip = x
<1>1. [m EXCEPT !.ip = x] \in Machines  BY Zenon DEF Machines
<1> DEFINE r == [m EXCEPT !.ip = x]
<1>2. r.w = m.w /\ r.mem = m.mem /\ r.sr = m.sr  BY SMT DEF Machines
<1>3. r.f = m.f /\ r.df = m.df /\ r.ie = m.ie  BY SMT DEF Machines
<1>4. r.ip = x  BY SMT DEF Machines
<1> QED BY <1>1, <1>2, <1>3, <1>4

LEMMA CsSet ==
  ASSUME NEW m \in Machines, NEW x \in Value(Word)
  PROVE  LET r == [m EXCEPT !.sr["CS"] = x]
         IN  /\ r \in Machines /\ r.w = m.w /\ r.mem = m.mem /\ r.sr = [m.sr EXCEPT !["CS"] = x]
             /\ r.f = m.f /\ r.df = m.df /\ r.ie = m.ie /\ r.ip = m.ip
<1> DEFINE r == [m EXCEPT !.sr["CS"] = x]
           sr == [m.sr EXCEPT !["CS"] = x]
<1>1. sr \in [Segments -> Value(Word)]
  <2>1. m.sr \in [Segments -> Value(Word)]  BY SMT DEF Machines
  <2> QED BY <2>1
<1>2. r = [m EXCEPT !.sr = sr]
  BY Zenon
<1> HIDE DEF sr, r
<1>3. r \in Machines  BY <1>1, <1>2, Zenon DEF Machines
<1>4. r.w = m.w /\ r.mem = m.mem /\ r.sr = sr  BY SMT, <1>2 DEF Machines
<1>5. r.f = m.f /\ r.df = m.df /\ r.ie = m.ie /\ r.ip = m.ip  BY SMT, <1>2 DEF Machines
<1> QED BY <1>3, <1>4, <1>5 DEF r, sr

LEMMA FlagsSet ==
  ASSUME NEW m \in Machines, NEW h \in Machines
  PROVE  LET r == ExpandFlags(h, CompressFlags(m))
         IN  /\ r.f = m.f /\ r.df = m.df /\ r.ie = m.ie
             /\ r.w = h.w /\ r.mem = h.mem /\ r.sr = h.sr /\ r.ip = h.ip
<1> DEFINE x == CompressFlags(m)
           f == [cf |-> Bit(x, 0), pf |-> Bit(x, 2), af |-> Bit(x, 4), zf |-> Bit(x, 6),
                 sf |-> Bit(x, 7), of |-> Bit(x, 11)]
           r == ExpandFlags(h, x)
<1>1. /\ Bit(x, 0) <=> m.f.cf
      /\ Bit(x, 2) <=> m.f.pf
      /\ Bit(x, 4) <=> m.f.af
      /\ Bit(x, 6) <=> m.f.zf
      /\ Bit(x, 7) <=> m.f.sf
      /\ Bit(x, 9) <=> m.ie
      /\ Bit(x, 10) <=> m.df
      /\ Bit(x, 11) <=> m.f.of
  BY FlagsPacked
<1>2. \A n \in Nat : Bit(x, n) \in BOOLEAN
  BY Zenon DEF Bit
<1>3. m.f \in Flags /\ m.ie \in BOOLEAN /\ m.df \in BOOLEAN
  BY SMT DEF Machines
<1>4. r = [h EXCEPT !.f = f, !.ie = Bit(x, 9), !.df = Bit(x, 10)]
  BY Zenon DEF ExpandFlags
<1> HIDE DEF x
<1>5. Bit(x, 9) = m.ie /\ Bit(x, 10) = m.df
  BY <1>1, <1>2, <1>3
<1>6. f = m.f
  <2>1. /\ m.f = [cf |-> m.f.cf, pf |-> m.f.pf, af |-> m.f.af, zf |-> m.f.zf, sf |-> m.f.sf,
                  of |-> m.f.of]
        /\ m.f.cf \in BOOLEAN /\ m.f.pf \in BOOLEAN /\ m.f.af \in BOOLEAN /\ m.f.zf \in BOOLEAN
        /\ m.f.sf \in BOOLEAN /\ m.f.of \in BOOLEAN
    BY SMT, <1>3 DEF Flags
  <2>2. /\ Bit(x, 0) = m.f.cf /\ Bit(x, 2) = m.f.pf /\ Bit(x, 4) = m.f.af /\ Bit(x, 6) = m.f.zf
        /\ Bit(x, 7) = m.f.sf /\ Bit(x, 11) = m.f.of
    BY <1>1, <1>2, <2>1
  <2> QED BY <2>1, <2>2
<1> HIDE DEF f, r
<1>7. r.f = f /\ r.ie = Bit(x, 9) /\ r.df = Bit(x, 10)
  BY SMT, <1>4 DEF Machines
<1>8. r.w = h.w /\ r.mem = h.mem /\ r.sr = h.sr /\ r.ip = h.ip
  BY SMT, <1>4 DEF Machines
<1> QED BY <1>5, <1>6, <1>7, <1>8 DEF r, x

(* An interrupt and IRET are transparent: whatever a handler does, if it   *)
(* gives back SP, SS and the six bytes that the interrupt stored, IRET     *)
(* goes on where the program was, with its flags and its stack, and        *)
(* everything else as the handler left it.                                 *)
THEOREM ReturnsToInterrupted ==
  ASSUME NEW m \in Machines, NEW n, NEW h \in Machines,
         h.w["SP"] = Interrupt(m, n).w["SP"], h.sr["SS"] = m.sr["SS"],
         \A a \in Slots(m, 2) \cup Slots(m, 4) \cup Slots(m, 6) :
           h.mem[a] = Interrupt(m, n).mem[a]
  PROVE  LET r == InterruptReturn(h)
         IN  /\ r.ip = m.ip /\ r.sr = [h.sr EXCEPT !["CS"] = m.sr["CS"]]
             /\ r.f = m.f /\ r.df = m.df /\ r.ie = m.ie
             /\ r.w = [h.w EXCEPT !["SP"] = m.w["SP"]]
             /\ r.mem = h.mem
<1> DEFINE p == Interrupt(m, n)
           a == PopIp(h)
           b == PopSeg(a, "CS")
           r == PopFlags(b)
<1>1. CompressFlags(m) \in Value(Word) /\ m.sr["CS"] \in Value(Word) /\ m.ip \in Value(Word)
  <2>1. m.sr["CS"] \in Value(Word) /\ m.ip \in Value(Word)
    BY SMT DEF Machines, Segments
  <2> QED BY <2>1, FlagsPacked
<1>2. /\ h.sr \in [Segments -> Value(Word)] /\ h.w \in [Words -> Value(Word)] /\ "SP" \in Words
      /\ m.w \in [Words -> Value(Word)] /\ "SS" \in Segments /\ "SS" # "CS"
  BY SMT DEF Machines, Words, Segments
<1>3. /\ p.w["SP"] = Wrapped(m.w["SP"] - 6, Word)
      /\ Get(p, Slot(m, 2), Word) = CompressFlags(m)
      /\ Get(p, Slot(m, 4), Word) = m.sr["CS"]
      /\ Get(p, Slot(m, 6), Word) = m.ip
  <2>1. /\ p.w = [m.w EXCEPT !["SP"] = Wrapped(m.w["SP"] - 6, Word)]
        /\ Get(p, Slot(m, 2), Word) = CompressFlags(m)
        /\ Get(p, Slot(m, 4), Word) = m.sr["CS"]
        /\ Get(p, Slot(m, 6), Word) = m.ip
    BY Interrupted
  <2> HIDE DEF p
  <2> QED BY <1>2, <2>1
<1>4. /\ Get(h, Slot(m, 2), Word) = CompressFlags(m)
      /\ Get(h, Slot(m, 4), Word) = m.sr["CS"]
      /\ Get(h, Slot(m, 6), Word) = m.ip
  <2>1. \A k \in {2, 4, 6} : h.mem[Slot(m, k)] = p.mem[Slot(m, k)]
                             /\ h.mem[Slot(m, k) + 1] = p.mem[Slot(m, k) + 1]
    BY DEF Slots
  <2>2. Word # Byte  BY SMT DEF Word, Byte
  <2> HIDE DEF p
  <2> QED BY <1>3, <2>1, <2>2 DEF Get
<1>5. Top(h) = m.ip /\ Wrapped(h.w["SP"] + 2, Word) = Wrapped(m.w["SP"] - 4, Word)
  <2>1. h.w["SP"] = Wrapped(m.w["SP"] - 6, Word)
    <3> HIDE DEF p
    <3> QED BY <1>3 DEF p
  <2>2. 6 - 2 = 4  OBVIOUS
  <2>3. Address(h, "SS", h.w["SP"]) = Slot(m, 6)
        /\ Wrapped(h.w["SP"] + 2, Word) = Wrapped(m.w["SP"] - 4, Word)
    BY <2>1, <2>2, SlotUp
  <2> QED BY <1>4, <2>3 DEF Top
<1>6. /\ a \in Machines /\ a.mem = h.mem /\ a.sr = h.sr /\ a.ip = m.ip
      /\ a.w = [h.w EXCEPT !["SP"] = Wrapped(m.w["SP"] - 4, Word)]
  <2>1. a = [Drop(h) EXCEPT !.ip = m.ip]
    BY <1>5 DEF PopIp
  <2>2. /\ Drop(h) \in Machines /\ Drop(h).mem = h.mem /\ Drop(h).sr = h.sr
        /\ Drop(h).w = [h.w EXCEPT !["SP"] = Wrapped(m.w["SP"] - 4, Word)]
    BY <1>5, Dropped
  <2> HIDE DEF a
  <2> QED BY <1>1, <2>1, <2>2, IpSet
<1>7. a.w["SP"] = Wrapped(m.w["SP"] - 4, Word) /\ a.sr["SS"] = m.sr["SS"]
  <2> HIDE DEF a
  <2> QED BY <1>2, <1>6
<1>8. \A x : Get(a, x, Word) = Get(h, x, Word)
  <2> HIDE DEF a
  <2> QED BY <1>6 DEF Get
<1>9. Top(a) = m.sr["CS"] /\ Wrapped(a.w["SP"] + 2, Word) = Wrapped(m.w["SP"] - 2, Word)
  <2> HIDE DEF a
  <2>1. 4 - 2 = 2  OBVIOUS
  <2>2. Address(a, "SS", a.w["SP"]) = Slot(m, 4)
        /\ Wrapped(a.w["SP"] + 2, Word) = Wrapped(m.w["SP"] - 2, Word)
    BY <1>6, <1>7, <2>1, SlotUp
  <2> QED BY <1>4, <1>8, <2>2 DEF Top
<1>10. /\ b \in Machines /\ b.mem = h.mem /\ b.sr = [h.sr EXCEPT !["CS"] = m.sr["CS"]] /\ b.ip = m.ip
       /\ b.w = [a.w EXCEPT !["SP"] = Wrapped(m.w["SP"] - 2, Word)]
  <2>1. b = [Drop(a) EXCEPT !.sr["CS"] = m.sr["CS"]]
    BY <1>9 DEF PopSeg
  <2> HIDE DEF a, b
  <2>2. /\ Drop(a) \in Machines /\ Drop(a).mem = a.mem /\ Drop(a).sr = a.sr /\ Drop(a).ip = a.ip
        /\ Drop(a).w = [a.w EXCEPT !["SP"] = Wrapped(m.w["SP"] - 2, Word)]
    BY <1>6, <1>9, Dropped
  <2> QED BY <1>1, <1>6, <2>1, <2>2, CsSet
<1>11. b.w["SP"] = Wrapped(m.w["SP"] - 2, Word) /\ b.sr["SS"] = m.sr["SS"]
  <2>1. a.w \in [Words -> Value(Word)]  BY <1>6 DEF Machines
  <2> HIDE DEF a, b
  <2> QED BY <1>2, <1>10, <2>1
<1>12. \A x : Get(b, x, Word) = Get(h, x, Word)
  <2> HIDE DEF a, b
  <2> QED BY <1>10 DEF Get
<1>13. Wrapped(m.w["SP"] - (2 - 2), Word) = m.w["SP"]
  <2>1. m.w["SP"] \in Value(Word)  BY <1>2
  <2>2. m.w["SP"] \in Int /\ m.w["SP"] - (2 - 2) = m.w["SP"]  BY <2>1, Ranges
  <2> QED BY <2>1, <2>2, Wraps
<1>14. Top(b) = CompressFlags(m) /\ Wrapped(b.w["SP"] + 2, Word) = m.w["SP"]
  <2> HIDE DEF a, b
  <2>1. 2 \in {2, 4, 6}  OBVIOUS
  <2>2. Address(b, "SS", b.w["SP"]) = Slot(m, 2)
        /\ Wrapped(b.w["SP"] + 2, Word) = Wrapped(m.w["SP"] - (2 - 2), Word)
    BY <1>10, <1>11, <2>1, SlotUp, Zenon
  <2> QED BY <1>4, <1>12, <1>13, <2>2 DEF Top
<1>15. r = ExpandFlags(Drop(b), CompressFlags(m))
  BY <1>14 DEF PopFlags
<1>16. /\ Drop(b) \in Machines /\ Drop(b).mem = b.mem /\ Drop(b).sr = b.sr /\ Drop(b).ip = b.ip
       /\ Drop(b).w = [b.w EXCEPT !["SP"] = m.w["SP"]]
  <2> HIDE DEF a, b
  <2> QED BY <1>10, <1>14, Dropped
<1>17. /\ r.f = m.f /\ r.df = m.df /\ r.ie = m.ie
       /\ r.w = Drop(b).w /\ r.mem = Drop(b).mem /\ r.sr = Drop(b).sr /\ r.ip = Drop(b).ip
  <2> HIDE DEF a, b, r
  <2> QED BY <1>15, <1>16, FlagsSet
<1>18. Drop(b).w = [h.w EXCEPT !["SP"] = m.w["SP"]]
  <2> HIDE DEF a, b
  <2> QED BY <1>2, <1>6, <1>10, <1>16
<1>19. InterruptReturn(h) = r
  BY Zenon DEF InterruptReturn
<1> HIDE DEF a, b, r
<1> QED BY <1>10, <1>16, <1>17, <1>18, <1>19

-----------------------------------------------------------------------------
(* Multiplication and division, of bytes and of words.                     *)
Halves == {Byte, Word}

LEMMA HalfRanges ==
  \A h \in Halves : /\ h = 128 \/ h = 32768
                    /\ Digit(h) = (IF h = 128 THEN 16 ELSE 256)
                    /\ Value(h) = Value(IF h = 128 THEN Byte ELSE Word)
                    /\ \A x : x \in Value(h) <=> x \in Int /\ 0 <= x /\ x < 2 * h
<1>1. Byte = 128 /\ Word = 32768
  BY SMT DEF Byte, Word
<1>2. \A h \in Halves : h = 128 \/ h = 32768
  BY <1>1 DEF Halves
<1>3. \A h \in Halves : Digit(h) = (IF h = 128 THEN 16 ELSE 256)
  BY SMT, <1>1, <1>2 DEF Digit
<1>4. \A h \in Halves : h = (IF h = 128 THEN Byte ELSE Word)
  BY SMT, <1>1, <1>2
<1>5. ASSUME NEW h \in Halves  PROVE  \A x : x \in Value(h) <=> x \in Int /\ 0 <= x /\ x < 2 * h
  <2>1. h = Byte \/ h = Word  BY DEF Halves
  <2>2. \A x : /\ x \in Value(Byte) <=> x \in Int /\ 0 <= x /\ x < 2 * 128
               /\ x \in Value(Word) <=> x \in Int /\ 0 <= x /\ x < 2 * 32768
    BY SMT, Ranges
  <2> HIDE DEF Byte, Word
  <2> QED BY <1>1, <2>1, <2>2
<1> QED BY <1>2, <1>3, <1>4, <1>5

(* Euclid: the quotient and the remainder of a division by n.              *)
LEMMA Quotients ==
  ASSUME NEW x \in Nat, NEW n \in Nat \ {0}
  PROVE  /\ x \div n \in Nat /\ x % n \in Nat /\ x % n < n
         /\ x = n * (x \div n) + (x % n)
BY SMT

LEMMA Unique ==
  ASSUME NEW n \in Nat \ {0}, NEW q \in Nat, NEW r \in Nat, r < n, NEW x, x = n * q + r
  PROVE  x \div n = q
<1>1. x \in Nat  BY SMT
<1>2. PICK p \in Nat, s \in Nat : s < n /\ x = n * p + s /\ p = x \div n
  BY <1>1, Quotients
<1>3. ~(p >= q + 1)
  <2>1. ASSUME p >= q + 1  PROVE  n * p >= n * q + n
    <3>1. PICK d \in Nat : p = q + 1 + d  BY SMT, <2>1
    <3>2. n * p = n * q + n + n * d  BY SMT, <3>1
    <3>3. n * d \in Nat  BY SMT
    <3> QED BY SMT, <3>2, <3>3
  <2>2. n * p \in Nat /\ n * q \in Nat  BY SMT
  <2> QED BY SMT, <1>2, <2>1, <2>2
<1>4. ~(q >= p + 1)
  <2>1. ASSUME q >= p + 1  PROVE  n * q >= n * p + n
    <3>1. PICK d \in Nat : q = p + 1 + d  BY SMT, <2>1
    <3>2. n * q = n * p + n + n * d  BY SMT, <3>1
    <3>3. n * d \in Nat  BY SMT
    <3> QED BY SMT, <3>2, <3>3
  <2>2. n * p \in Nat /\ n * q \in Nat  BY SMT
  <2> QED BY SMT, <1>2, <2>1, <2>2
<1> QED BY SMT, <1>2, <1>3, <1>4

(* Long division in two digits of base k.                                  *)
LEMMA LongDivision ==
  ASSUME NEW k \in Nat, NEW n \in Nat, NEW hi \in Nat, NEW u \in Nat, NEW v \in Nat,
         NEW a \in Nat, NEW b \in Nat, NEW c \in Nat, NEW d \in Nat,
         hi * k + u = n * a + b, b * k + v = n * c + d
  PROVE  hi * (k * k) + (k * u + v) = n * (k * a + c) + d
<1>1. k * (hi * k + u) = k * (n * a + b)
  OBVIOUS
<1>2. hi * (k * k) + k * u = k * (n * a) + k * b
  BY SMT, <1>1
<1>3. n * (k * a + c) = k * (n * a) + n * c
  BY SMT
<1>4. k * b = b * k
  BY SMT
<1> DEFINE p == hi * (k * k)
           x == k * u
           y == k * (n * a)
           z == b * k
           w == n * c
           t == n * (k * a + c)
<1>5. p \in Nat /\ x \in Nat /\ y \in Nat /\ z \in Nat /\ w \in Nat /\ t \in Nat
  BY SMT
<1>6. p + x = y + z /\ t = y + w /\ z + v = w + d
  BY <1>2, <1>3, <1>4
<1> HIDE DEF p, x, y, z, w, t
<1>7. p + (x + v) = t + d
  BY SMT, <1>5, <1>6
<1> QED BY <1>7 DEF p, x, t

LEMMA Bounded ==
  ASSUME NEW w \in Nat, NEW n \in Nat, NEW hi \in Nat, NEW lo \in Nat, NEW q \in Nat,
         NEW r \in Nat, r < n, lo < w, hi * w + lo = n * q + r
  PROVE  q < w <=> hi < n
<1> DEFINE t == n * q
           e == n * w
           g == hi * w
<1>1. t \in Nat /\ e \in Nat /\ g \in Nat /\ g + lo = t + r
  BY SMT
<1>2. ASSUME hi < n, ~(q < w)  PROVE  FALSE
  <2>1. PICK x \in Nat : q = w + x  BY SMT, <1>2
  <2>2. PICK y \in Nat : n = hi + 1 + y  BY SMT, <1>2
  <2>3. n * x \in Nat /\ y * w \in Nat  BY SMT
  <2>4. t = e + n * x /\ e = g + w + y * w  BY SMT, <2>1, <2>2
  <2> HIDE DEF t, e, g
  <2> QED BY SMT, <1>1, <2>3, <2>4
<1>3. ASSUME q < w, ~(hi < n)  PROVE  FALSE
  <2>1. PICK x \in Nat : w = q + 1 + x  BY SMT, <1>3
  <2>2. PICK y \in Nat : hi = n + y  BY SMT, <1>3
  <2>3. n * x \in Nat /\ y * w \in Nat  BY SMT
  <2>4. e = t + n + n * x /\ g = e + y * w  BY SMT, <2>1, <2>2
  <2> HIDE DEF t, e, g
  <2> QED BY SMT, <1>1, <2>3, <2>4
<1> QED BY <1>2, <1>3

LEMMA DigitsOf ==
  ASSUME NEW k \in {16, 256}, NEW lo \in Nat, lo < k * k
  PROVE  /\ lo \div k \in Nat /\ lo % k \in Nat /\ lo = k * (lo \div k) + (lo % k)
BY SMT

LEMMA TwoDigits ==
  ASSUME NEW k \in {16, 256}, NEW n \in Nat \ {0}, NEW hi \in Nat, NEW lo \in Nat, lo < k * k
  PROVE  LET f == hi * k + (lo \div k)
             s == (f % n) * k + (lo % k)
             q == k * (f \div n) + (s \div n)
         IN  /\ q \in Nat /\ s % n \in Nat /\ s % n < n
             /\ hi * (k * k) + lo = n * q + (s % n)
             /\ q = (hi * (k * k) + lo) \div n
             /\ q < k * k <=> hi < n
<1> DEFINE f == hi * k + (lo \div k)
           s == (f % n) * k + (lo % k)
           q == k * (f \div n) + (s \div n)
<1>1. PICK u \in Nat, v \in Nat : u = lo \div k /\ v = lo % k /\ lo = k * u + v
  BY DigitsOf
<1>2. f \in Nat /\ f = hi * k + u
  BY <1>1
<1> HIDE DEF f
<1>3. PICK a \in Nat, b \in Nat : f \div n = a /\ f % n = b /\ b < n /\ f = n * a + b
  BY <1>2, Quotients
<1>4. s \in Nat /\ s = b * k + v
  BY <1>1, <1>3
<1> HIDE DEF s
<1>5. PICK c \in Nat, d \in Nat : s \div n = c /\ s % n = d /\ d < n /\ s = n * c + d
  BY <1>4, Quotients
<1>6. q = k * a + c /\ q \in Nat
  BY <1>3, <1>5
<1> HIDE DEF q
<1>7. k \in Nat /\ k * k \in Nat
  OBVIOUS
<1>8. hi * k + u = n * a + b /\ b * k + v = n * c + d
  BY <1>2, <1>3, <1>4, <1>5, Zenon
<1>9. hi * (k * k) + lo = n * q + d
  <2>1. hi * (k * k) + (k * u + v) = n * (k * a + c) + d
    BY <1>7, <1>8, LongDivision
  <2> QED BY <1>1, <1>6, <2>1, Zenon
<1>10. q = (hi * (k * k) + lo) \div n
  BY <1>5, <1>6, <1>9, Unique
<1>11. q < k * k <=> hi < n
  BY <1>5, <1>6, <1>7, <1>9, Bounded
<1> QED BY <1>5, <1>6, <1>9, <1>10, <1>11 DEF q, s, f

-----------------------------------------------------------------------------
(* The accumulator and its other half: AL and AH, or AX and DX.            *)
LEMMA SetWord ==
  ASSUME NEW m \in Machines, NEW r \in Words, NEW v \in Value(Word)
  PROVE  SetReg(m, r, v) \in Machines /\ SetReg(m, r, v).w = [m.w EXCEPT ![r] = v]
<1>1. m.w \in [Words -> Value(Word)] /\ m.mem \in [Space -> Value(Byte)]
  BY SMT DEF Machines
<1>2. v \in Int  BY Ranges
<1>3. Wrapped(v, Word) = v
  BY <1>2, Wraps
<1> DEFINE w == [m.w EXCEPT ![r] = v]
<1>4. w \in [Words -> Value(Word)]
  BY <1>1
<1>5. SetReg(m, r, v) = With(m, w, m.mem)
  <2>1. SetReg(m, r, v) = [m EXCEPT !.w = w]
    BY <1>3, Zenon DEF SetReg
  <2> HIDE DEF w
  <2>2. [m EXCEPT !.w = w] = With(m, w, m.mem)
    BY DEF Machines, With
  <2> QED BY <2>1, <2>2
<1> HIDE DEF w
<1> QED BY <1>1, <1>4, <1>5, Changed DEF w

LEMMA SetHalves ==
  ASSUME NEW m \in Machines, NEW v \in Value(Byte)
  PROVE  LET a == m.w["AX"]
         IN  /\ a \in Value(Word)
             /\ a % 256 \in Value(Byte) /\ a \div 256 \in Value(Byte)
             /\ 256 * (a \div 256) + v \in Value(Word) /\ 256 * v + (a % 256) \in Value(Word)
             /\ SetReg(m, "AL", v) = SetReg(m, "AX", 256 * (a \div 256) + v)
             /\ SetReg(m, "AH", v) = SetReg(m, "AX", 256 * v + (a % 256))
<1> DEFINE a == m.w["AX"]
           lo == 256 * (a \div 256) + v
           hi == 256 * v + (a % 256)
<1>1. a \in Value(Word) /\ m.w \in [Words -> Value(Word)] /\ "AX" \in Words
  BY SMT DEF Machines, Words
<1>2. a \in Int /\ 0 <= a /\ a < 65536 /\ v \in Int /\ 0 <= v /\ v < 256
  BY <1>1, Ranges
<1>3. a % 256 \in Value(Byte) /\ a \div 256 \in Value(Byte) /\ lo \in Value(Word) /\ hi \in Value(Word)
      /\ lo \in Int /\ hi \in Int
  <2>1. PICK b \in Int : b = a /\ 0 <= b /\ b < 65536  BY <1>2
  <2>2. PICK x \in Int, y \in Int : /\ x = b \div 256 /\ y = b % 256
                                  /\ 0 <= x /\ x < 256 /\ 0 <= y /\ y < 256
    BY SMT, <2>1
  <2>3. x \in Value(Byte) /\ y \in Value(Byte)  BY <2>2, Ranges
  <2>4. 256 * x + v \in Value(Word) /\ 256 * v + y \in Value(Word)
        /\ 256 * x + v \in Int /\ 256 * v + y \in Int
    BY <1>2, <2>2, Ranges
  <2> QED BY <2>1, <2>2, <2>3, <2>4
<1>4. Wrapped(v, Byte) = v /\ Wrapped(lo, Word) = lo /\ Wrapped(hi, Word) = hi
  BY <1>2, <1>3, Wraps
<1>5. /\ "AL" \notin Words /\ "AH" \notin Words /\ "AL" \in DOMAIN Lows /\ "AH" \notin DOMAIN Lows
      /\ Lows["AL"] = "AX" /\ Highs["AH"] = "AX"
  BY SMT DEF Words, Lows, Highs
<1>6. SetReg(m, "AL", v) = [m EXCEPT !.w["AX"] = 256 * (@ \div 256) + Wrapped(v, Byte)]
  BY <1>5, Zenon DEF SetReg
<1>7. SetReg(m, "AH", v) = [m EXCEPT !.w["AX"] = 256 * Wrapped(v, Byte) + (@ % 256)]
  BY <1>5, Zenon DEF SetReg
<1>8. [m EXCEPT !.w["AX"] = 256 * (@ \div 256) + Wrapped(v, Byte)] = [m EXCEPT !.w["AX"] = lo]
  BY <1>4, Zenon
<1>9. [m EXCEPT !.w["AX"] = 256 * Wrapped(v, Byte) + (@ % 256)] = [m EXCEPT !.w["AX"] = hi]
  BY <1>4, Zenon
<1> HIDE DEF lo, hi
<1>10. SetReg(m, "AX", lo) = [m EXCEPT !.w["AX"] = lo] /\ SetReg(m, "AX", hi) = [m EXCEPT !.w["AX"] = hi]
  BY <1>1, <1>4, Zenon DEF SetReg
<1> QED BY <1>1, <1>3, <1>6, <1>7, <1>8, <1>9, <1>10 DEF lo, hi

LEMMA RegOf ==
  ASSUME NEW m
  PROVE  /\ \A r \in Words : Reg(m, r) = m.w[r]
         /\ Reg(m, "AL") = m.w["AX"] % 256 /\ Reg(m, "AH") = m.w["AX"] \div 256
<1>1. /\ "AL" \notin Words /\ "AH" \notin Words /\ "AL" \in DOMAIN Lows /\ "AH" \notin DOMAIN Lows
      /\ Lows["AL"] = "AX" /\ Highs["AH"] = "AX"
  BY SMT DEF Words, Lows, Highs
<1> QED BY <1>1, Zenon DEF Reg

LEMMA HalfCases ==
  ASSUME NEW h \in Halves
  PROVE  \/ h = Byte /\ Low(h) = "AL" /\ High(h) = "AH" /\ Digit(h) = 16 /\ 2 * h = 16 * 16
         \/ h = Word /\ Low(h) = "AX" /\ High(h) = "DX" /\ Digit(h) = 256 /\ 2 * h = 256 * 256
<1>1. Word # Byte /\ 2 * Byte = 16 * 16 /\ 2 * Word = 256 * 256
  BY SMT DEF Word, Byte
<1> QED BY <1>1 DEF Halves, Low, High, Digit

LEMMA RegIn ==
  ASSUME NEW m \in Machines, NEW h \in Halves
  PROVE  Reg(m, Low(h)) \in Value(h) /\ Reg(m, High(h)) \in Value(h)
<1>1. m.w \in [Words -> Value(Word)] /\ "AX" \in Words /\ "DX" \in Words
  BY SMT DEF Machines, Words
<1>2. CASE h = Byte
  <2>1. Low(h) = "AL" /\ High(h) = "AH"  BY SMT, <1>2 DEF Low, High
  <2>2. 0 \in Value(Byte)  BY Ranges
  <2>3. m.w["AX"] % 256 \in Value(Byte) /\ m.w["AX"] \div 256 \in Value(Byte)
    BY <2>2, SetHalves
  <2> QED BY <1>2, <2>1, <2>3, RegOf
<1>3. CASE h = Word
  <2>1. Low(h) = "AX" /\ High(h) = "DX"  BY SMT, <1>3 DEF Low, High, Word, Byte
  <2> QED BY <1>1, <1>3, <2>1, RegOf
<1> QED BY <1>2, <1>3 DEF Halves

LEMMA PairIs ==
  ASSUME NEW m \in Machines, NEW h \in Halves, NEW hi \in Value(h), NEW lo \in Value(h)
  PROVE  LET p == Pair(m, h, hi, lo)
         IN  p \in Machines /\ Reg(p, Low(h)) = lo /\ Reg(p, High(h)) = hi
<1> DEFINE p == Pair(m, h, hi, lo)
           a == m.w["AX"]
<1>1. "AX" \in Words /\ "DX" \in Words /\ "AX" # "DX" /\ m.w \in [Words -> Value(Word)]
  BY SMT DEF Machines, Words
<1>2. CASE h = Byte
  <2>1. Low(h) = "AL" /\ High(h) = "AH"  BY SMT, <1>2 DEF Low, High
  <2> DEFINE v == 256 * (a \div 256) + lo
             q == SetReg(m, "AL", lo)
             x == 256 * hi + (q.w["AX"] % 256)
  <2>2. q = SetReg(m, "AX", v) /\ v \in Value(Word) /\ a \in Value(Word)
    BY <1>2, SetHalves
  <2>3. q \in Machines /\ q.w = [m.w EXCEPT !["AX"] = v]
    <3> HIDE DEF v, q
    <3> QED BY <1>1, <2>2, SetWord
  <2>4. q.w["AX"] = v
    <3> HIDE DEF v, q
    <3> QED BY <1>1, <2>3
  <2>5. p = SetReg(q, "AX", x) /\ x \in Value(Word)
    <3>1. p = SetReg(q, "AH", hi)  BY <2>1 DEF Pair
    <3> HIDE DEF p, q
    <3> QED BY <1>2, <2>3, <3>1, SetHalves
  <2>6. p \in Machines /\ p.w = [q.w EXCEPT !["AX"] = x]
    <3> HIDE DEF p, q, x
    <3> QED BY <1>1, <2>3, <2>5, SetWord
  <2>7. p.w["AX"] = x
    <3>1. q.w \in [Words -> Value(Word)]  BY <2>3, SMT DEF Machines
    <3> HIDE DEF p, q, x
    <3> QED BY <1>1, <2>6, <3>1
  <2>8. PICK b \in Int, c \in Int, d \in Int :
          b = lo /\ c = hi /\ d = a /\ 0 <= b /\ b < 256 /\ 0 <= c /\ c < 256
    BY <1>2, <2>2, Ranges
  <2>9. v % 256 = lo
    <3>1. (256 * (d \div 256) + b) % 256 = b  BY SMT, <2>8
    <3> QED BY <2>8, <3>1
  <2>10. x % 256 = lo /\ x \div 256 = hi
    <3>1. x = 256 * c + b  BY <2>4, <2>8, <2>9
    <3>2. (256 * c + b) % 256 = b /\ (256 * c + b) \div 256 = c  BY SMT, <2>8
    <3> QED BY <2>8, <3>1, <3>2
  <2>11. Reg(p, "AL") = x % 256 /\ Reg(p, "AH") = x \div 256
    <3> HIDE DEF p, x
    <3> QED BY <2>7, RegOf
  <2> QED BY <2>1, <2>6, <2>10, <2>11
<1>3. CASE h = Word
  <2>1. Low(h) = "AX" /\ High(h) = "DX"  BY SMT, <1>3 DEF Low, High, Word, Byte
  <2> DEFINE q == SetReg(m, "AX", lo)
  <2>2. q \in Machines /\ q.w = [m.w EXCEPT !["AX"] = lo]
    BY <1>1, <1>3, SetWord
  <2>3. p = SetReg(q, "DX", hi)  BY <2>1 DEF Pair
  <2>4. p \in Machines /\ p.w = [q.w EXCEPT !["DX"] = hi]
    <3>1. hi \in Value(Word) /\ "DX" \in Words  BY <1>1, <1>3
    <3> HIDE DEF p, q
    <3> QED BY <2>2, <2>3, <3>1, SetWord
  <2>5. p.w["AX"] = lo /\ p.w["DX"] = hi
    <3> HIDE DEF p, q
    <3> QED BY <1>1, <2>2, <2>4
  <2>6. Reg(p, "AX") = p.w["AX"] /\ Reg(p, "DX") = p.w["DX"]
    <3> HIDE DEF p
    <3> QED BY <1>1, RegOf
  <2> QED BY <2>1, <2>4, <2>5, <2>6
<1> QED BY <1>2, <1>3 DEF Halves

(* A register does not depend on the flags.                                *)
LEMMA RegAlike ==
  ASSUME NEW p \in Machines, NEW q, q.w = p.w
  PROVE  \A r : Reg(q, r) = Reg(p, r)
BY Zenon DEF Reg

(* q and r are what the division of x by n gives, rounded towards zero.    *)
Divides(q, r, x, n) == q * n + r = x /\ Abs(r) < Abs(n) /\ (r = 0 \/ (r < 0) = (x < 0))

LEMMA HalfNumbers ==
  ASSUME NEW h \in Halves
  PROVE  /\ h \in Nat /\ h >= 128 /\ Digit(h) \in {16, 256} /\ 2 * h = Digit(h) * Digit(h)
         /\ \A x : x \in Value(h) <=> x \in Nat /\ x < 2 * h
<1>1. /\ h = 128 \/ h = 32768
      /\ Digit(h) = (IF h = 128 THEN 16 ELSE 256)
      /\ \A x : x \in Value(h) <=> x \in Int /\ 0 <= x /\ x < 2 * h
  BY HalfRanges
<1>2. CASE h = 128
  <2>1. Digit(h) = 16  BY <1>1, <1>2
  <2>2. h \in Nat /\ h >= 128 /\ 2 * h = 16 * 16  BY SMT, <1>2
  <2> QED BY <1>1, <2>1, <2>2
<1>3. CASE h = 32768
  <2>1. Digit(h) = 256  BY SMT, <1>1, <1>3
  <2>2. h \in Nat /\ h >= 128 /\ 2 * h = 256 * 256  BY SMT, <1>3
  <2> QED BY <1>1, <2>1, <2>2
<1> QED BY <1>1, <1>2, <1>3

LEMMA DividedIs ==
  ASSUME NEW m \in Machines, NEW h \in Halves, NEW q \in Value(h), NEW s \in Value(h)
  PROVE  Reg(Divided(m, h, q, s), Low(h)) = q /\ Reg(Divided(m, h, q, s), High(h)) = s
<1> DEFINE p == Pair(m, h, s, q)
<1>1. p \in Machines /\ Reg(p, Low(h)) = q /\ Reg(p, High(h)) = s
  BY PairIs
<1>2. Divided(m, h, q, s) = [p EXCEPT !.f.zf = (q = 0)]
  BY DEF Divided
<1> HIDE DEF p
<1>3. Divided(m, h, q, s).w = p.w
  BY SMT, <1>1, <1>2 DEF Machines
<1> QED BY <1>1, <1>3, RegAlike

LEMMA OneQuotient ==
  ASSUME NEW n \in Nat, NEW x \in Nat, NEW q \in Nat, NEW s \in Int, Divides(q, s, x, n)
  PROVE  n # 0 /\ x \div n = q
<1>1. q * n + s = x /\ Abs(s) < Abs(n) /\ (s = 0 \/ (s < 0) = (x < 0))
  BY DEF Divides
<1>2. s \in Nat /\ s < n
  BY SMT, <1>1 DEF Abs
<1>3. x = n * q + s
  BY SMT, <1>1
<1> QED BY <1>2, <1>3, Unique

(* DIV, of any machine: AX by a byte, or DX and AX by a word.  What is left *)
(* in AL and AH, or in AX and DX, divides; if nothing that fits would, it  *)
(* is interrupt 0, with the operands as they were.                         *)
THEOREM UnsignedDivision ==
  ASSUME NEW m \in Machines, NEW i, i.h \in Halves, Read(m, i.d, i.h) \in Value(i.h)
  PROVE  LET n == Read(m, i.d, i.h)
             x == Reg(m, High(i.h)) * (2 * i.h) + Reg(m, Low(i.h))
             r == Div(m, i)
         IN  IF \E q \in Value(i.h), s \in Nat : Divides(q, s, x, n)
               THEN Divides(Reg(r, Low(i.h)), Reg(r, High(i.h)), x, n)
               ELSE r = Interrupt(m, 0)
<1> DEFINE h == i.h
           n == Read(m, i.d, i.h)
           hi == Reg(m, High(i.h))
           lo == Reg(m, Low(i.h))
           x == hi * (2 * i.h) + lo
           k == Digit(i.h)
           f == hi * k + (lo \div k)
           t == (f % n) * k + (lo % k)
           q == k * (f \div n) + (t \div n)
           r == Div(m, i)
<1>1. /\ h \in Nat /\ k \in {16, 256} /\ 2 * h = k * k
      /\ \A y : y \in Value(h) <=> y \in Nat /\ y < 2 * h
  BY HalfNumbers
<1>2. n \in Nat /\ hi \in Nat /\ lo \in Nat /\ n < 2 * h /\ hi < 2 * h /\ lo < 2 * h
  BY <1>1, RegIn
<1>3. x \in Nat /\ x = hi * (k * k) + lo
  <2> HIDE DEF hi, lo, k
  <2> QED BY <1>1, <1>2
<1>4. CASE hi >= n
  <2>1. r = Interrupt(m, 0)
    BY <1>4 DEF Div
  <2>2. ASSUME NEW a \in Value(h), NEW s \in Nat, Divides(a, s, x, n)  PROVE FALSE
    <3> HIDE DEF h, n, hi, lo, x, k
    <3>1. a \in Nat /\ a < k * k /\ lo < k * k /\ k * k \in Nat  BY <1>1, <1>2
    <3>2. n # 0 /\ x \div n = a  BY <1>2, <1>3, <2>2, <3>1, OneQuotient
    <3>3. a * n + s = x /\ Abs(s) < Abs(n)  BY <2>2 DEF Divides
    <3>4. hi * (k * k) + lo = n * a + s /\ s < n
      <4>1. s < n  BY SMT, <1>2, <3>3 DEF Abs
      <4>2. a * n = n * a  BY SMT, <1>2, <3>1
      <4> QED BY <1>3, <3>3, <4>1, <4>2
    <3>5. hi < n  BY <1>2, <3>1, <3>4, Bounded
    <3> QED BY <1>2, <1>4, <3>5
  <2> QED BY <2>1, <2>2
<1>5. CASE hi < n
  <2>1. r = Divided(m, h, q, t % n)
    <3>1. ~(hi >= n)  BY <1>2, <1>5
    <3> QED BY <3>1 DEF Div
  <2>2. n \in Nat \ {0} /\ lo < k * k
    BY <1>1, <1>2, <1>5
  <2>3. /\ q \in Nat /\ t % n \in Nat /\ t % n < n
        /\ hi * (k * k) + lo = n * q + (t % n)
        /\ q < k * k <=> hi < n
    <3>1. k \in {16, 256} /\ n \in Nat \ {0} /\ hi \in Nat /\ lo \in Nat /\ lo < k * k
      BY <1>1, <1>2, <2>2
    <3> HIDE DEF k, n, hi, lo, h, x, r
    <3> QED BY ONLY <3>1, TwoDigits
  <2> HIDE DEF h, n, hi, lo, x, k, f, t, q, r
  <2>4. q \in Value(h) /\ t % n \in Value(h)
    BY <1>1, <1>2, <1>5, <2>3
  <2>5. Reg(r, Low(h)) = q /\ Reg(r, High(h)) = t % n
    <3>1. h \in Halves  BY DEF h
    <3> QED BY <2>1, <2>4, <3>1, DividedIs
  <2>6. Divides(q, t % n, x, n)
    <3>1. q * n + (t % n) = x  BY SMT, <1>2, <1>3, <2>3
    <3>2. Abs(t % n) < Abs(n)  BY SMT, <1>2, <2>3 DEF Abs
    <3>3. (t % n < 0) = (x < 0)  BY SMT, <1>3, <2>3
    <3> QED BY <3>1, <3>2, <3>3 DEF Divides
  <2> QED BY <2>3, <2>4, <2>5, <2>6 DEF h, n, hi, lo, x, r
<1> QED BY <1>2, <1>4, <1>5

-----------------------------------------------------------------------------
(* Products in two halves.                                                 *)
Upper(k, high, low) == (high + (low \div k)) \div k
Lower(k, high, low) == (low + k * (high % k)) % (k * k)

LEMMA Carried ==
  ASSUME NEW k \in {16, 256}, NEW high \in Nat, NEW low \in Nat
  PROVE  LET hi == Upper(k, high, low)
             lo == Lower(k, high, low)
         IN  hi \in Nat /\ lo \in Nat /\ lo < k * k /\ hi * (k * k) + lo = k * high + low
<1>1. CASE k = 16
  BY SMT, <1>1 DEF Upper, Lower
<1>2. CASE k = 256
  BY SMT, <1>2 DEF Upper, Lower
<1> QED BY <1>1, <1>2

LEMMA ProductFits ==
  ASSUME NEW w \in Nat, NEW a \in Nat, NEW b \in Nat, NEW hi \in Nat, NEW lo \in Nat,
         a < w, b < w, hi * w + lo = a * b
  PROVE  hi < w
<1> DEFINE s == w * w
           t == a * w
           p == a * b
           g == hi * w
<1>1. s \in Nat /\ t \in Nat /\ p \in Nat /\ g \in Nat /\ g + lo = p
  BY SMT
<1>2. PICK y \in Nat : w = b + 1 + y  BY SMT
<1>3. PICK z \in Nat : w = a + 1 + z  BY SMT
<1>4. t = p + a + a * y /\ a * y \in Nat  BY SMT, <1>2
<1>5. s = t + w + z * w /\ z * w \in Nat  BY SMT, <1>3
<1>6. ASSUME ~(hi < w)  PROVE  FALSE
  <2>1. PICK x \in Nat : hi = w + x  BY SMT, <1>6
  <2>2. g = s + x * w /\ x * w \in Nat  BY SMT, <2>1
  <2>3. w >= 1  BY SMT
  <2> HIDE DEF s, t, p, g
  <2> QED BY SMT, <1>1, <1>4, <1>5, <2>2, <2>3
<1> QED BY <1>6

LEMMA ProductIs ==
  ASSUME NEW h \in Halves, NEW a \in Value(h), NEW b \in Value(h)
  PROVE  LET p == Product(a, b, h)
         IN  p.hi \in Value(h) /\ p.lo \in Value(h) /\ p.hi * (2 * h) + p.lo = a * b
<1>1. PICK k \in {16, 256} : k = Digit(h) /\ 2 * h = k * k
  BY HalfNumbers
<1>2. a \in Nat /\ b \in Nat /\ a < k * k /\ b < k * k /\ k * k \in Nat
      /\ \A x \in Nat : x < k * k => x \in Value(h)
  BY <1>1, HalfNumbers
<1> DEFINE low == (a % k) * b
           high == (a \div k) * b
           hi == Upper(k, high, low)
           lo == Lower(k, high, low)
<1>3. Product(a, b, h) = [hi |-> hi, lo |-> lo]
  BY <1>1, Zenon DEF Product, Upper, Lower
<1>4. a % k \in Nat /\ a \div k \in Nat /\ a = k * (a \div k) + (a % k)
  BY <1>2, DigitsOf
<1>5. PICK u \in Nat, v \in Nat : u = a \div k /\ v = a % k /\ a = k * u + v
  BY <1>4
<1>6. low \in Nat /\ high \in Nat /\ k * high + low = a * b
  <2>1. low = v * b /\ high = u * b  BY <1>5
  <2>2. v * b \in Nat /\ u * b \in Nat /\ k * (u * b) + v * b = (k * u + v) * b
    BY SMT, <1>2, <1>5
  <2> QED BY <1>5, <2>1, <2>2
<1> HIDE DEF low, high
<1>7. hi \in Nat /\ lo \in Nat /\ lo < k * k /\ hi * (k * k) + lo = k * high + low
  <2>1. \A x, y \in Nat : LET p == Upper(k, x, y)
                             q == Lower(k, x, y)
                         IN  p \in Nat /\ q \in Nat /\ q < k * k /\ p * (k * k) + q = k * x + y
    BY Carried
  <2> QED BY <1>6, <2>1, Zenon
<1> HIDE DEF hi, lo
<1>8. hi * (k * k) + lo = a * b
  BY <1>6, <1>7
<1>9. hi < k * k
  <2>1. k * k \in Nat /\ a \in Nat /\ b \in Nat /\ hi \in Nat /\ lo \in Nat /\ a < k * k /\ b < k * k
    BY <1>2, <1>7
  <2> QED BY ONLY <1>8, <2>1, ProductFits
<1>10. hi \in Value(h) /\ lo \in Value(h) /\ hi * (2 * h) + lo = a * b
  <2>1. hi * (2 * h) = hi * (k * k)  BY <1>1, Zenon
  <2> QED BY <1>2, <1>7, <1>8, <1>9, <2>1
<1> QED BY <1>3, <1>10

LEMMA MultipliedIs ==
  ASSUME NEW m \in Machines, NEW h \in Halves, NEW hi \in Value(h), NEW lo \in Value(h)
  PROVE  LET r == Multiplied(m, h, hi, lo)
         IN  /\ Reg(r, Low(h)) = lo /\ Reg(r, High(h)) = hi
             /\ r.f.cf = (hi # 0) /\ r.f.of = (hi # 0)
<1> DEFINE p == Pair(m, h, hi, lo)
           r == Multiplied(m, h, hi, lo)
<1>1. p \in Machines /\ Reg(p, Low(h)) = lo /\ Reg(p, High(h)) = hi
  BY PairIs
<1>2. r = [p EXCEPT !.f.cf = (hi # 0), !.f.of = (hi # 0), !.f.zf = (hi = 0 /\ lo = 0)]
  BY DEF Multiplied
<1> HIDE DEF p, r
<1>3. r.w = p.w
  BY SMT, <1>1, <1>2 DEF Machines
<1>4. r.f = [p.f EXCEPT !.cf = (hi # 0), !.of = (hi # 0), !.zf = (hi = 0 /\ lo = 0)]
  BY <1>1, <1>2, Zenon DEF Machines
<1>5. p.f \in Flags
  BY <1>1, SMT DEF Machines
<1>6. r.f.cf = (hi # 0) /\ r.f.of = (hi # 0)
  <2> DEFINE c == (hi # 0)
             z == (hi = 0 /\ lo = 0)
  <2>1. r.f = [p.f EXCEPT !.cf = c, !.of = c, !.zf = z]  BY <1>4
  <2> HIDE DEF c, z
  <2>2. r.f.cf = c /\ r.f.of = c  BY SMT, <1>5, <2>1 DEF Flags
  <2> QED BY <2>2 DEF c
<1>7. Reg(r, Low(h)) = Reg(p, Low(h)) /\ Reg(r, High(h)) = Reg(p, High(h))
  BY <1>1, <1>3, RegAlike
<1> QED BY <1>1, <1>6, <1>7 DEF r

(* MUL, of any machine: AH and AL, or DX and AX, are the whole product,    *)
(* and carry and overflow tell that its lower half does not hold it.       *)
THEOREM UnsignedProduct ==
  ASSUME NEW m \in Machines, NEW i, i.h \in Halves, Read(m, i.d, i.h) \in Value(i.h)
  PROVE  LET p == Reg(m, Low(i.h)) * Read(m, i.d, i.h)
             r == Mul(m, i)
         IN  /\ Reg(r, High(i.h)) * (2 * i.h) + Reg(r, Low(i.h)) = p
             /\ r.f.cf <=> p \notin Value(i.h)
             /\ r.f.of <=> p \notin Value(i.h)
<1> DEFINE h == i.h
           a == Reg(m, Low(h))
           b == Read(m, i.d, h)
           p == Product(a, b, h)
           r == Mul(m, i)
<1>1. h \in Halves /\ a \in Value(h) /\ b \in Value(h)
  BY RegIn
<1>2. r = Multiplied(m, h, p.hi, p.lo)
  BY DEF Mul
<1> HIDE DEF h, a, b, p, r
<1>3. p.hi \in Value(h) /\ p.lo \in Value(h) /\ p.hi * (2 * h) + p.lo = a * b
  BY <1>1, ProductIs DEF p
<1>4. PICK hi \in Value(h), lo \in Value(h) :
        hi = p.hi /\ lo = p.lo /\ hi * (2 * h) + lo = a * b /\ r = Multiplied(m, h, hi, lo)
  BY <1>2, <1>3
<1>5. /\ Reg(r, Low(h)) = lo /\ Reg(r, High(h)) = hi
      /\ r.f.cf = (hi # 0) /\ r.f.of = (hi # 0)
  BY <1>1, <1>4, MultipliedIs
<1>6. PICK w \in Nat : w = 2 * h /\ \A x : x \in Value(h) <=> x \in Nat /\ x < w
  BY <1>1, HalfNumbers
<1>7. hi \in Nat /\ lo \in Nat /\ lo < w /\ w > 0
  BY <1>4, <1>6
<1>8. hi # 0 <=> ~(hi * w + lo < w)
  <2>1. CASE hi = 0  BY <1>7, <2>1
  <2>2. CASE hi # 0
    <3>1. PICK z \in Nat : hi = 1 + z  BY SMT, <1>7, <2>2
    <3>2. hi * w = w + z * w /\ z * w \in Nat  BY SMT, <3>1
    <3> QED BY SMT, <1>7, <2>2, <3>2
  <2> QED BY <2>1, <2>2
<1>9. a * b \in Nat
  <2>1. a \in Nat /\ b \in Nat  BY <1>1, <1>6
  <2> QED BY SMT, <2>1
<1>10. hi # 0 <=> a * b \notin Value(h)
  <2>1. hi * w + lo = a * b  BY <1>4, <1>6
  <2> QED BY <1>6, <1>8, <1>9, <2>1
<1> QED BY <1>4, <1>5, <1>10 DEF r, a, b, h

-----------------------------------------------------------------------------
(* The same with sign.                                                     *)
LEMMA SignOf ==
  ASSUME NEW h \in Halves, NEW x \in Value(h)
  PROVE  /\ Signed(x, h) \in Int /\ -h <= Signed(x, h) /\ Signed(x, h) < h
         /\ \E t \in {0, 1} : x = Signed(x, h) + 2 * h * t /\ (t = 1 <=> Negative(x, h))
<1>1. h \in Nat /\ x \in Nat /\ x < 2 * h
  BY HalfNumbers
<1>2. CASE x >= h
  <2>1. Signed(x, h) = x - 2 * h /\ Negative(x, h)  BY <1>2 DEF Signed, Negative
  <2>2. 2 * h * 1 = 2 * h  BY <1>1
  <2> QED BY <1>1, <1>2, <2>1, <2>2
<1>3. CASE x < h
  <2>1. ~Negative(x, h)  BY <1>1, <1>3 DEF Negative
  <2>2. Signed(x, h) = x  BY <2>1 DEF Signed
  <2>3. 2 * h * 0 = 0  BY <1>1
  <2> QED BY <1>1, <1>3, <2>1, <2>2, <2>3
<1> QED BY <1>1, <1>2, <1>3

LEMMA SignBack ==
  ASSUME NEW h \in Halves, NEW y \in Int, -h <= y, y < h, NEW t \in {0, 1}, NEW x \in Int,
         x = y - 2 * h * t
  PROVE  Wrapped(x, h) \in Value(h) /\ Signed(Wrapped(x, h), h) = y
<1>1. h = 128 \/ h = 32768
  BY HalfRanges
<1>2. Wrapped(x, h) = x % (2 * h)
  BY DEF Wrapped
<1>3. x % (2 * h) = IF y < 0 THEN y + 2 * h ELSE y
  <2>1. CASE h = 128  BY SMT, <2>1
  <2>2. CASE h = 32768  BY SMT, <2>2
  <2> QED BY <1>1, <2>1, <2>2
<1>4. h \in Nat /\ h >= 128 /\ \A v : v \in Value(h) <=> v \in Nat /\ v < 2 * h
  BY HalfNumbers
<1>5. CASE y < 0
  <2>1. Wrapped(x, h) = y + 2 * h  BY <1>2, <1>3, <1>5
  <2>2. y + 2 * h \in Value(h) /\ Negative(y + 2 * h, h)  BY <1>4, <1>5 DEF Negative
  <2> QED BY <1>4, <2>1, <2>2 DEF Signed
<1>6. CASE y >= 0
  <2>1. Wrapped(x, h) = y  BY <1>2, <1>3, <1>6
  <2>2. y \in Value(h) /\ ~Negative(y, h)  BY <1>4, <1>6 DEF Negative
  <2> QED BY <2>1, <2>2 DEF Signed
<1> QED BY <1>5, <1>6

LEMMA SignedBound ==
  ASSUME NEW h \in Nat, NEW a \in Int, NEW b \in Int, -h <= a, a <= h, -h <= b, b <= h
  PROVE  -(h * h) <= a * b /\ a * b <= h * h
<1>1. PICK x \in Nat, y \in Nat : h = a + x /\ h = y - a
  <2>1. h - a \in Nat /\ h + a \in Nat /\ h = a + (h - a) /\ h = (h + a) - a  OBVIOUS
  <2> QED BY <2>1
<1>2. PICK u \in Nat, v \in Nat : h = b + u /\ h = v - b
  <2>1. h - b \in Nat /\ h + b \in Nat /\ h = b + (h - b) /\ h = (h + b) - b  OBVIOUS
  <2> QED BY <2>1
<1>3. x * u \in Nat /\ y * v \in Nat /\ x * v \in Nat /\ y * u \in Nat
  BY SMT
<1>4. x = h - a /\ y = h + a /\ u = h - b /\ v = h + b
  BY <1>1, <1>2
<1>5. x * u = h * h - h * b - a * h + a * b /\ y * v = h * h + h * b + a * h + a * b
  BY SMT, <1>4
<1>6. x * v = h * h + h * b - a * h - a * b /\ y * u = h * h - h * b + a * h - a * b
  BY SMT, <1>4
<1> DEFINE s == h * h
           p == a * b
           e == h * b
           f == a * h
<1>7. s \in Int /\ p \in Int /\ e \in Int /\ f \in Int
  BY SMT
<1>8. 0 <= s - e - f + p /\ 0 <= s + e + f + p /\ 0 <= s + e - f - p /\ 0 <= s - e + f - p
  BY <1>3, <1>5, <1>6
<1> HIDE DEF s, p, e, f
<1>9. -s <= p /\ p <= s
  BY SMT, <1>7, <1>8
<1> QED BY <1>9 DEF s, p

LEMMA Expanded ==
  ASSUME NEW a \in Int, NEW b \in Int, NEW w \in Int, NEW s \in Int, NEW t \in Int
  PROVE  (a - w * s) * (b - w * t) = a * b - w * (s * b) - w * (t * a) + w * (w * (s * t))
BY SMT

(* What the signs take away from the upper half of the product.            *)
LEMMA SignedProductIs ==
  ASSUME NEW h \in Halves, NEW a \in Value(h), NEW b \in Value(h),
         NEW hi \in Value(h), NEW lo \in Value(h), hi * (2 * h) + lo = a * b
  PROVE  LET signs == (IF Negative(a, h) THEN b ELSE 0) + (IF Negative(b, h) THEN a ELSE 0)
             v == Wrapped(hi - signs, h)
         IN  v \in Value(h) /\ Signed(v, h) * (2 * h) + lo = Signed(a, h) * Signed(b, h)
<1> DEFINE signs == (IF Negative(a, h) THEN b ELSE 0) + (IF Negative(b, h) THEN a ELSE 0)
           v == Wrapped(hi - signs, h)
<1>1. /\ h \in Nat /\ h >= 128 /\ a \in Nat /\ b \in Nat /\ hi \in Nat /\ lo \in Nat /\ lo < 2 * h
      /\ h = 128 \/ h = 32768
  BY HalfNumbers, HalfRanges
<1>2. PICK w \in Nat : w = 2 * h
  BY <1>1
<1>3. PICK A \in Int, s \in {0, 1} : A = Signed(a, h) /\ -h <= A /\ A < h
                                     /\ a = A + 2 * h * s /\ (s = 1 <=> Negative(a, h))
  BY SignOf
<1>4. PICK B \in Int, t \in {0, 1} : B = Signed(b, h) /\ -h <= B /\ B < h
                                     /\ b = B + 2 * h * t /\ (t = 1 <=> Negative(b, h))
  BY SignOf
<1>5. signs = s * b + t * a /\ signs \in Int
  <2>1. (IF Negative(a, h) THEN b ELSE 0) = s * b
    BY <1>1, <1>3
  <2>2. (IF Negative(b, h) THEN a ELSE 0) = t * a
    BY <1>1, <1>4
  <2>3. s * b \in Int /\ t * a \in Int  BY SMT, <1>1
  <2> QED BY <2>1, <2>2, <2>3
<1>6. PICK z \in {0, 1} : z = s * t
  BY SMT
<1> HIDE DEF signs
<1>7. PICK T \in Int : T = hi - signs + w * z
  BY SMT, <1>1, <1>5
<1>8. T * w + lo = A * B
  <2>1. a = A + w * s /\ b = B + w * t  BY <1>2, <1>3, <1>4
  <2>2. A * B = a * b - w * (s * b) - w * (t * a) + w * (w * (s * t))
    <3>1. A = a - w * s /\ B = b - w * t  BY SMT, <1>1, <2>1
    <3>2. a \in Int /\ b \in Int /\ w \in Int /\ s \in Int /\ t \in Int  BY <1>1
    <3> QED BY ONLY <3>1, <3>2, Expanded
  <2>3. T * w = hi * w - w * (s * b) - w * (t * a) + w * (w * (s * t))
    <3>1. T = hi - (s * b + t * a) + w * (s * t)  BY <1>5, <1>6, <1>7
    <3> QED BY SMT, <1>1, <3>1
  <2>4. hi * w + lo = a * b  BY <1>2
  <2> DEFINE p == a * b
             d == w * (s * b)
             e == w * (t * a)
             f == w * (w * (s * t))
             g == hi * w
             k == T * w
             n == A * B
  <2>5. p \in Int /\ d \in Int /\ e \in Int /\ f \in Int /\ g \in Int /\ k \in Int /\ n \in Int
    BY SMT, <1>1
  <2>6. n = p - d - e + f /\ k = g - d - e + f /\ g + lo = p
    BY <2>2, <2>3, <2>4
  <2> HIDE DEF p, d, e, f, g, k, n
  <2>7. k + lo = n  BY SMT, <1>1, <2>5, <2>6
  <2> QED BY <2>7 DEF k, n
<1>9. -h <= T /\ T < h
  <2>1. -(h * h) <= A * B /\ A * B <= h * h
    <3>1. A <= h /\ B <= h  BY <1>1, <1>3, <1>4
    <3> QED BY <1>1, <1>3, <1>4, <3>1, SignedBound
  <2>2. CASE h = 128
    <3>1. -16384 <= T * 256 + lo /\ T * 256 + lo <= 16384  BY <1>2, <1>8, <2>1, <2>2
    <3> QED BY SMT, <1>1, <2>2, <3>1
  <2>3. CASE h = 32768
    <3>1. -1073741824 <= T * 65536 + lo /\ T * 65536 + lo <= 1073741824
      BY SMT, <1>2, <1>8, <2>1, <2>3
    <3> QED BY SMT, <1>1, <2>3, <3>1
  <2> QED BY <1>1, <2>2, <2>3
<1>10. v \in Value(h) /\ Signed(v, h) = T
  <2>1. hi - signs \in Int /\ hi - signs = T - 2 * h * z
    BY SMT, <1>1, <1>2, <1>5, <1>7
  <2> QED BY <1>9, <2>1, SignBack
<1> QED BY <1>2, <1>3, <1>4, <1>8, <1>10 DEF signs

(* IMUL, of any machine: what it leaves there, as a signed number, is the  *)
(* product of the signed operands.  Carry and overflow are set unless the  *)
(* lower half, unsigned, holds it: for every negative product.             *)
THEOREM SignedProduct ==
  ASSUME NEW m \in Machines, NEW i, i.h \in Halves, Read(m, i.d, i.h) \in Value(i.h)
  PROVE  LET p == Signed(Reg(m, Low(i.h)), i.h) * Signed(Read(m, i.d, i.h), i.h)
             r == Imul(m, i)
         IN  /\ Signed(Reg(r, High(i.h)), i.h) * (2 * i.h) + Reg(r, Low(i.h)) = p
             /\ r.f.cf <=> p \notin Value(i.h)
             /\ r.f.of <=> p \notin Value(i.h)
<1> DEFINE h == i.h
           a == Reg(m, Low(h))
           b == Read(m, i.d, h)
           p == Product(a, b, h)
           signs == (IF Negative(a, h) THEN b ELSE 0) + (IF Negative(b, h) THEN a ELSE 0)
           v == Wrapped(p.hi - signs, h)
           r == Imul(m, i)
<1>1. h \in Halves /\ a \in Value(h) /\ b \in Value(h)
  BY RegIn
<1>2. r = Multiplied(m, h, v, p.lo)
  BY DEF Imul
<1> HIDE DEF h, a, b, p, r
<1>3. p.hi \in Value(h) /\ p.lo \in Value(h) /\ p.hi * (2 * h) + p.lo = a * b
  BY <1>1, ProductIs DEF p
<1>4. v \in Value(h) /\ Signed(v, h) * (2 * h) + p.lo = Signed(a, h) * Signed(b, h)
  BY ONLY <1>1, <1>3, SignedProductIs
<1> HIDE DEF v
<1>5. /\ Reg(r, Low(h)) = p.lo /\ Reg(r, High(h)) = v
      /\ r.f.cf = (v # 0) /\ r.f.of = (v # 0)
  BY <1>1, <1>2, <1>3, <1>4, MultipliedIs
<1>6. v # 0 <=> Signed(a, h) * Signed(b, h) \notin Value(h)
  <2>1. PICK V \in Int, s \in {0, 1} : /\ V = Signed(v, h) /\ -h <= V /\ V < h
                                         /\ v = V + 2 * h * s /\ (s = 1 <=> Negative(v, h))
    BY <1>1, <1>4, SignOf
  <2>2. h = 128 \/ h = 32768  BY <1>1, HalfRanges
  <2>3. V = 0 <=> v = 0
    <3>1. v \in Int /\ 0 <= v /\ v < 2 * h  BY <1>4, <1>1, HalfRanges
    <3> QED BY <2>1, <2>2, <3>1 DEF Negative
  <2>4. PICK q \in Int : q = V * (2 * h) + p.lo /\ q = Signed(a, h) * Signed(b, h)
    <3>1. p.lo \in Int  BY <1>1, <1>3, HalfRanges
    <3>2. V * (2 * h) + p.lo \in Int  BY <2>1, <2>2, <3>1
    <3> QED BY <1>4, <2>1, <3>2
  <2>5. q \in Value(h) <=> 0 <= q /\ q < 2 * h
    BY <1>1, <2>4, HalfRanges
  <2>6. PICK l \in Int : l = p.lo /\ 0 <= l /\ l < 2 * h
    BY <1>1, <1>3, HalfRanges
  <2>7. V = 0 <=> 0 <= q /\ q < 2 * h
    <3>1. q = V * (2 * h) + l  BY <2>4, <2>6
    <3>2. CASE h = 128  BY ONLY <3>1, <3>2, <2>6
    <3>3. CASE h = 32768  BY ONLY <3>1, <3>3, <2>6
    <3> QED BY <2>2, <3>2, <3>3
  <2> QED BY <2>3, <2>4, <2>5, <2>7
<1> QED BY <1>4, <1>5, <1>6 DEF r, a, b, h

LEMMA UniqueInt ==
  ASSUME NEW n \in Nat, NEW q \in Int, NEW p \in Int, NEW r \in Nat, NEW s \in Nat, r < n, s < n,
         n * q + r = n * p + s
  PROVE  q = p
<1>1. ASSUME NEW a \in Int, NEW b \in Int, NEW c \in Nat, NEW d \in Nat, c < n, d < n,
             n * a + c = n * b + d, b < a
      PROVE  FALSE
  <2>1. PICK e \in Nat : a = b + 1 + e  BY <1>1
  <2>2. n * a = n * b + n + n * e /\ n * e \in Nat /\ n * b \in Int  BY SMT, <2>1
  <2> QED BY <1>1, <2>2
<1>2. ~(p < q) /\ ~(q < p)
  BY <1>1
<1> QED BY <1>2

(* Division rounds towards zero, and nothing else divides.                 *)
LEMMA TruncatedDivides ==
  ASSUME NEW x \in Int, NEW n \in Int, n # 0
  PROVE  LET q == Truncated(x, n)
         IN  q \in Int /\ x - q * n \in Int /\ Divides(q, x - q * n, x, n)
<1> DEFINE q == Truncated(x, n)
           N == Abs(n)
           X == Abs(x)
<1>1. N \in Nat \ {0} /\ X \in Nat
  BY DEF Abs
<1>2. PICK P \in Nat, V \in Nat : P = X \div N /\ V < N /\ X = N * P + V
  <2> HIDE DEF N, X
  <2> QED BY <1>1, Quotients
<1>3. PICK y \in Int : y = N * P
  BY SMT, <1>1
<1>4. q \in Int /\ q * n = (IF x < 0 THEN -y ELSE y)
  <2>1. q = IF (x < 0) = (n < 0) THEN P ELSE -P
    BY <1>2, Zenon DEF Truncated
  <2> HIDE DEF q
  <2>2. CASE n < 0
    <3>1. N = -n  BY <2>2 DEF Abs
    <3>2. P * n = -y /\ (-P) * n = y  BY SMT, <1>3, <3>1
    <3> QED BY <2>1, <2>2, <3>2
  <2>3. CASE ~(n < 0)
    <3>1. N = n  BY <2>3 DEF Abs
    <3>2. P * n = y /\ (-P) * n = -y  BY SMT, <1>3, <3>1
    <3> QED BY <2>1, <2>3, <3>2
  <2> QED BY <2>2, <2>3
<1>5. X = y + V
  BY <1>2, <1>3
<1>6. x - q * n = (IF x < 0 THEN -V ELSE V)
  BY <1>3, <1>4, <1>5 DEF Abs
<1>7. q * n + (x - q * n) = x
  BY <1>3, <1>4
<1> DEFINE s == x - q * n
<1>8. s \in Int /\ Abs(s) = V /\ (s = 0 \/ (s < 0) = (x < 0))
  <2> HIDE DEF q
  <2> QED BY <1>6 DEF Abs
<1> QED BY <1>2, <1>4, <1>7, <1>8 DEF Divides

LEMMA OneTruncated ==
  ASSUME NEW x \in Int, NEW n \in Int, NEW q \in Int, NEW s \in Int, Divides(q, s, x, n)
  PROVE  n # 0 /\ q = Truncated(x, n) /\ s = x - q * n
<1> DEFINE N == Abs(n)
           X == Abs(x)
<1>1. q * n + s = x /\ Abs(s) < N /\ (s = 0 \/ (s < 0) = (x < 0)) /\ q * n \in Int
  BY SMT DEF Divides
<1>2. N \in Nat \ {0} /\ X \in Nat /\ n # 0
  BY <1>1 DEF Abs
<1>3. PICK P \in Nat, V \in Nat : P = X \div N /\ V < N /\ X = N * P + V
  <2> HIDE DEF N, X
  <2> QED BY <1>2, Quotients
<1>4. PICK U \in Nat : U = Abs(s) /\ U < N /\ s = IF x < 0 THEN -U ELSE U
  BY <1>1 DEF Abs
<1>5. PICK d \in Int : d = (IF (x < 0) = (n < 0) THEN q ELSE -q)
  OBVIOUS
<1>6. N * d + U = X
  <2>1. N * q \in Int /\ N * (-q) = -(N * q)  BY SMT, <1>2
  <2>2. CASE n < 0
    <3>1. N * q = -(q * n)  BY SMT, <2>2 DEF Abs
    <3> QED BY <1>1, <1>4, <1>5, <2>1, <2>2, <3>1 DEF Abs
  <2>3. CASE ~(n < 0)
    <3>1. N * q = q * n  BY SMT, <2>3 DEF Abs
    <3> QED BY <1>1, <1>4, <1>5, <2>1, <2>3, <3>1 DEF Abs
  <2> QED BY <2>2, <2>3
<1>7. d = P
  <2> HIDE DEF N, X
  <2>1. N \in Nat /\ N * d + U = N * P + V  BY <1>2, <1>3, <1>6
  <2> QED BY <1>3, <1>4, <2>1, UniqueInt
<1>8. q = IF (x < 0) = (n < 0) THEN P ELSE -P
  BY <1>5, <1>7
<1>9. q = Truncated(x, n)
  BY <1>3, <1>8, Zenon DEF Truncated
<1> QED BY <1>1, <1>2, <1>9

(* IDIV, of any machine, likewise; the most negative quotient is refused.  *)
(* 80000000h by -1 is left out: there the code's division is undefined.    *)
THEOREM SignedDivision ==
  ASSUME NEW m \in Machines, NEW i, i.h \in Halves, Read(m, i.d, i.h) \in Value(i.h),
         ~(/\ i.h = Word /\ m.w["DX"] = Word /\ m.w["AX"] = 0
           /\ Signed(Read(m, i.d, i.h), i.h) = -1)
  PROVE  LET n == Signed(Read(m, i.d, i.h), i.h)
             x == Signed(Reg(m, High(i.h)), i.h) * 2 * i.h + Reg(m, Low(i.h))
             r == Idiv(m, i)
         IN  IF \E q \in (-(i.h - 1))..(i.h - 1), s \in Int : Divides(q, s, x, n)
               THEN Divides(Signed(Reg(r, Low(i.h)), i.h), Signed(Reg(r, High(i.h)), i.h), x, n)
               ELSE r = Interrupt(m, 0)
<1> DEFINE h == i.h
           n == Signed(Read(m, i.d, i.h), i.h)
           x == Signed(Reg(m, High(i.h)), i.h) * 2 * i.h + Reg(m, Low(i.h))
           q == Truncated(x, n)
           s == x - q * n
           r == Idiv(m, i)
<1>1. h \in Halves /\ h \in Nat /\ h >= 128
  BY HalfNumbers
<1>2. n \in Int /\ -h <= n /\ n < h
  BY <1>1, SignOf
<1>3. x \in Int
  <2>1. Signed(Reg(m, High(i.h)), i.h) \in Int /\ Reg(m, Low(i.h)) \in Nat
    BY <1>1, RegIn, SignOf, HalfNumbers
  <2> QED BY SMT, <1>1, <2>1
<1>4. r = IF n = 0 THEN Interrupt(m, 0)
          ELSE IF q > h - 1 \/ q < -(h - 1) THEN Interrupt(m, 0)
          ELSE Divided(m, h, Wrapped(q, h), Wrapped(s, h))
  BY Zenon DEF Idiv
<1> HIDE DEF h, n, x, r, q
<1>5. ASSUME NEW a \in (-(h - 1))..(h - 1), NEW b \in Int, Divides(a, b, x, n)
      PROVE  n # 0 /\ a = q
  BY <1>1, <1>2, <1>3, <1>5, OneTruncated DEF q
<1>6. CASE n = 0 \/ q > h - 1 \/ q < -(h - 1)
  <2>1. r = Interrupt(m, 0)
    BY <1>4, <1>6
  <2>2. ~\E a \in (-(h - 1))..(h - 1), b \in Int : Divides(a, b, x, n)
    BY <1>1, <1>5, <1>6
  <2> QED BY <2>1, <2>2 DEF h, n, x, r
<1>7. CASE n # 0 /\ ~(q > h - 1) /\ ~(q < -(h - 1))
  <2>1. q \in Int /\ s \in Int /\ Divides(q, s, x, n)
    BY <1>2, <1>3, <1>7, TruncatedDivides DEF q
  <2> HIDE DEF s
  <2>2. -h <= q /\ q < h
    BY <1>1, <1>7, <2>1
  <2>3. -h <= s /\ s < h
    <3>1. Abs(s) < Abs(n)  BY <2>1 DEF Divides
    <3> QED BY <1>1, <1>2, <2>1, <3>1 DEF Abs
  <2>4. q = q - 2 * h * 0 /\ s = s - 2 * h * 0
    BY <1>1, <2>1
  <2>5. /\ Wrapped(q, h) \in Value(h) /\ Signed(Wrapped(q, h), h) = q
        /\ Wrapped(s, h) \in Value(h) /\ Signed(Wrapped(s, h), h) = s
    BY <1>1, <2>1, <2>2, <2>3, <2>4, SignBack
  <2>6. r = Divided(m, h, Wrapped(q, h), Wrapped(s, h))
    BY <1>4, <1>7 DEF s
  <2>7. Reg(r, Low(h)) = Wrapped(q, h) /\ Reg(r, High(h)) = Wrapped(s, h)
    BY <1>1, <2>5, <2>6, DividedIs
  <2>8. Divides(Signed(Reg(r, Low(h)), h), Signed(Reg(r, High(h)), h), x, n)
    BY <2>1, <2>5, <2>7
  <2>9. q \in (-(h - 1))..(h - 1)
    BY <1>1, <1>7, <2>1
  <2> QED BY <2>1, <2>8, <2>9 DEF h, n, x, r
<1> QED BY <1>6, <1>7

-----------------------------------------------------------------------------
(* Decimal digits, two to a byte.                                          *)
Packed(x, y) == 16 * x + y
Tens(v) == 10 * (v \div 16) + (v % 16)

LEMMA DigitCarry ==
  ASSUME NEW x \in Nat, NEW y \in Nat, NEW u \in Nat, NEW v \in Nat, NEW c \in {0, 1},
         x <= 9, y <= 9, u <= 9, v <= 9
  PROVE  LET d == Packed(x, y)
             s == Packed(u, v)
         IN  /\ Aux(Sum(d, s, c, 128), s, d) = (y + v + c >= 16)
             /\ Aux(Difference(d, s, c, 128), s, d) = (y - v - c < 0)
<1> DEFINE d == Packed(x, y)
           s == Packed(u, v)
<1>2. d = 16 * x + y /\ s = 16 * u + v
  BY DEF Packed
<1> HIDE DEF d, s
<1>1. d \div 16 = x /\ s \div 16 = u /\ d \in Nat /\ s \in Nat
  BY <1>2
<1>4. PICK a \in Int : a = (IF y + v + c >= 16 THEN 1 ELSE 0)
  OBVIOUS
<1>6. PICK b \in Int : b = (IF y - v - c < 0 THEN 1 ELSE 0)
  OBVIOUS
<1>8. Aux(Sum(d, s, c, 128), s, d) <=> a = 1
  <2>1. (((x + u + a) % 2 = 1) # (u % 2 = 1)) # (x % 2 = 1) <=> a = 1
    BY <1>4
  <2>2. Aux(Sum(d, s, c, 128), s, d)
          <=> (((Sum(d, s, c, 128) \div 16) % 2 = 1) # ((s \div 16) % 2 = 1)) # ((d \div 16) % 2 = 1)
    BY SMT DEF Aux, Bit
  <2>3. (Sum(d, s, c, 128) \div 16) % 2 = (x + u + a) % 2
    BY <1>2, <1>4 DEF Sum
  <2> QED BY <1>1, <2>1, <2>2, <2>3, Zenon
<1>9. Aux(Difference(d, s, c, 128), s, d) <=> b = 1
  <2>1. (((x - u - b) % 2 = 1) # (u % 2 = 1)) # (x % 2 = 1) <=> b = 1
    BY <1>6
  <2>2. Aux(Difference(d, s, c, 128), s, d)
          <=> (((Difference(d, s, c, 128) \div 16) % 2 = 1) # ((s \div 16) % 2 = 1))
                # ((d \div 16) % 2 = 1)
    BY SMT DEF Aux, Bit
  <2>3. (Difference(d, s, c, 128) \div 16) % 2 = (x - u - b) % 2
    BY <1>2, <1>6 DEF Difference
  <2> QED BY <1>1, <2>1, <2>2, <2>3, Zenon
<1>10. \A z1, z2, z3 : Aux(z1, z2, z3) \in BOOLEAN
  BY DEF Aux
<1> QED BY <1>4, <1>6, <1>8, <1>9, <1>10 DEF d, s

(* ADJ4, of AL and the flags before it.                                    *)
Adjusted(al, af, cf, n) ==
  LET low == af \/ al % 16 > 9
      a   == IF low THEN al + n ELSE al
      all == (cf \/ a \notin 0..255) \/ a % 256 > 159
  IN  [v |-> (IF all THEN a + 16 * n ELSE a) % 256, cf |-> all]
Decimal(w) == w \in Value(Byte) /\ w \div 16 <= 9 /\ w % 16 <= 9
Hundred(b) == IF b THEN 100 ELSE 0

Added(x, y, u, v, c) ==
  LET t == 16 * x + y + (16 * u + v) + c
  IN  Adjusted(IF t < 256 THEN t ELSE t - 256, y + v + c >= 16, t >= 256, 6)
Taken(x, y, u, v, c) ==
  LET t == 16 * x + y - (16 * u + v) - c
  IN  Adjusted(IF t < 0 THEN t + 256 ELSE t, y - v - c < 0, t < 0, -6)

(* What the correction owes: decimal digits, and none of the value lost.   *)
SumKept(x, y, u, v, c) ==
  LET r == Added(x, y, u, v, c)
  IN  Decimal(r.v) /\ Tens(r.v) + Hundred(r.cf) = 10 * x + y + (10 * u + v) + c
DifferenceKept(x, y, u, v, c) ==
  LET r == Taken(x, y, u, v, c)
  IN  Decimal(r.v) /\ Tens(r.v) - Hundred(r.cf) = 10 * x + y - (10 * u + v) - c

LEMMA AdjustedSum ==
  ASSUME NEW x \in Nat, NEW y \in Nat, NEW u \in Nat, NEW v \in Nat, NEW c \in {0, 1},
         x <= 9, y <= 9, u <= 9, v <= 9
  PROVE  SumKept(x, y, u, v, c)
<1> DEFINE t   == 16 * x + y + (16 * u + v) + c
           al  == IF t < 256 THEN t ELSE t - 256
           low == y + v + c >= 16 \/ al % 16 > 9
           a   == IF low THEN al + 6 ELSE al
           all == (t >= 256 \/ a \notin 0..255) \/ a % 256 > 159
           w   == (IF all THEN a + 96 ELSE a) % 256
           r   == Adjusted(al, y + v + c >= 16, t >= 256, 6)
<1>9. r = [v |-> w, cf |-> all]
  <2>1. 16 * 6 = 96  OBVIOUS
  <2> HIDE DEF al
  <2> QED BY <2>1 DEF Adjusted
<1>0. PICK p \in Int, e \in Int : /\ p = (IF y + v + c > 9 THEN x + u + 1 ELSE x + u)
                                  /\ e = (IF y + v + c > 9 THEN y + v + c - 10 ELSE y + v + c)
  <2>1. x + u + 1 \in Int /\ y + v + c - 10 \in Int /\ x + u \in Int /\ y + v + c \in Int
    OBVIOUS
  <2> QED BY <2>1
<1>1. /\ 0 <= e /\ e <= 9 /\ 0 <= p /\ p <= 19
      /\ 10 * p + e = 10 * x + y + (10 * u + v) + c
      /\ t = 16 * p + e - (IF y + v + c > 9 THEN 6 ELSE 0)
      /\ t \in Int /\ t >= 0
      /\ t >= 256 => p >= 16
      /\ t < 256 => 16 * p + e < 262
  <2>1. CASE y + v + c > 9
    BY <1>0, <2>1
  <2>2. CASE ~(y + v + c > 9)
    BY <1>0, <2>2
  <2> QED BY <2>1, <2>2
<1>2. PICK z \in Int : z = (IF t >= 256 THEN 256 ELSE 0)
  OBVIOUS
<1> HIDE DEF t
<1>3. al = 16 * p + e - (IF y + v + c > 9 THEN 6 ELSE 0) - z /\ al \in Int
  BY <1>1, <1>2
<1>4. a = 16 * p + e - z
  <2>1. PICK k \in Int : z = 16 * k  BY <1>2
  <2> HIDE DEF al
  <2>2. CASE y + v + c > 9
    <3>1. al = 16 * p + e - 6 - z  BY <1>3, <2>2
    <3>2. low
      <4>1. CASE e < 6
        <5>1. al = 16 * (p - 1 - k) + (e + 10)  BY <1>1, <2>1, <3>1
        <5>2. al % 16 = e + 10  BY <1>1, <4>1, <5>1
        <5> QED BY <1>1, <5>2
      <4>2. CASE e >= 6
        BY <1>0, <2>2, <4>2
      <4> QED BY <4>1, <4>2
    <3> HIDE DEF low
    <3> QED BY <3>1, <3>2
  <2>3. CASE ~(y + v + c > 9)
    <3>1. al = 16 * (p - k) + e  BY <1>3, <2>1, <2>3
    <3>2. al % 16 = e  BY <1>1, <3>1
    <3>3. ~low  BY <1>1, <2>3, <3>2
    <3> HIDE DEF low
    <3> QED BY <1>3, <2>3, <3>3
  <2> QED BY <2>2, <2>3
<1> HIDE DEF al, low, a
<1>5. all <=> p >= 10
  <2>1. CASE t >= 256
    BY <1>1, <2>1
  <2>2. CASE t < 256
    <3>1. a = 16 * p + e  BY <1>1, <1>2, <1>4, <2>2
    <3>2. CASE p >= 16  BY <1>1, <3>1, <3>2
    <3>3. CASE p < 16
      <4>1. a \in 0..255 /\ a % 256 = a  BY <1>1, <3>1, <3>3
      <4> QED BY <1>1, <2>2, <3>1, <4>1
    <3> QED BY <3>2, <3>3
  <2> QED BY <1>1, <2>1, <2>2
<1> HIDE DEF all
<1>6. w = 16 * (IF all THEN p - 10 ELSE p) + e
  <2>1. CASE t >= 256
    <3>1. z = 256 /\ all  BY <1>1, <1>2, <1>5, <2>1
    <3>2. (a + 96) % 256 = 16 * (p - 10) + e  BY <1>1, <1>4, <2>1, <3>1
    <3> QED BY <3>1, <3>2
  <2>2. CASE t < 256
    <3>1. a = 16 * p + e  BY <1>1, <1>2, <1>4, <2>2
    <3>2. CASE all
      <4>1. (a + 96) % 256 = 16 * (p - 10) + e  BY <1>1, <1>5, <3>1, <3>2
      <4> QED BY <3>2, <4>1
    <3>3. CASE ~all
      <4>1. a % 256 = 16 * p + e  BY <1>1, <1>5, <3>1, <3>3
      <4> QED BY <3>3, <4>1
    <3> QED BY <3>2, <3>3
  <2> QED BY <1>1, <2>1, <2>2
<1> HIDE DEF w
<1>7. w \in Nat /\ w < 256 /\ w \div 16 = (IF all THEN p - 10 ELSE p) /\ w % 16 = e
  BY <1>1, <1>5, <1>6
<1>8. /\ w \in Nat /\ w < 256 /\ w \div 16 <= 9 /\ w % 16 <= 9
      /\ 10 * (w \div 16) + (w % 16) + (IF all THEN 100 ELSE 0) = 10 * x + y + (10 * u + v) + c
  BY <1>1, <1>5, <1>7
<1> HIDE DEF r
<1>10. r.v = w /\ r.cf = all
  BY <1>9
<1>11. Decimal(w)
  BY <1>8, Ranges DEF Decimal
<1>12. Decimal(r.v) /\ Tens(r.v) + Hundred(r.cf) = 10 * x + y + (10 * u + v) + c
  BY <1>8, <1>10, <1>11 DEF Tens, Hundred
<1> QED BY <1>12 DEF r, al, t, Added, SumKept

LEMMA AdjustedDifference ==
  ASSUME NEW x \in Nat, NEW y \in Nat, NEW u \in Nat, NEW v \in Nat, NEW c \in {0, 1},
         x <= 9, y <= 9, u <= 9, v <= 9
  PROVE  DifferenceKept(x, y, u, v, c)
<1> DEFINE t   == 16 * x + y - (16 * u + v) - c
           al  == IF t < 0 THEN t + 256 ELSE t
           low == y - v - c < 0 \/ al % 16 > 9
           a   == IF low THEN al - 6 ELSE al
           all == (t < 0 \/ a \notin 0..255) \/ a % 256 > 159
           w   == (IF all THEN a - 96 ELSE a) % 256
           r   == Adjusted(al, y - v - c < 0, t < 0, -6)
<1>9. r = [v |-> w, cf |-> all]
  <2>1. t \in Int /\ al \in Int  OBVIOUS
  <2> HIDE DEF al
  <2>2. al + (-6) = al - 6 /\ a \in Int /\ a + 16 * (-6) = a - 96  BY <2>1
  <2> QED BY <2>2 DEF Adjusted
<1>0. PICK p \in Int, e \in Int : /\ p = (IF y - v - c < 0 THEN x - u - 1 ELSE x - u)
                                  /\ e = (IF y - v - c < 0 THEN y - v - c + 10 ELSE y - v - c)
  <2>1. x - u - 1 \in Int /\ y - v - c + 10 \in Int /\ x - u \in Int /\ y - v - c \in Int
    OBVIOUS
  <2> QED BY <2>1
<1>1. /\ 0 <= e /\ e <= 9 /\ -10 <= p /\ p <= 9
      /\ 10 * p + e = 10 * x + y - (10 * u + v) - c
      /\ t = 16 * p + e + (IF y - v - c < 0 THEN 6 ELSE 0)
      /\ t < 0 <=> p < 0
  <2>1. CASE y - v - c < 0
    BY <1>0, <2>1
  <2>2. CASE ~(y - v - c < 0)
    BY <1>0, <2>2
  <2> QED BY <2>1, <2>2
<1>2. PICK z \in Int : z = (IF p < 0 THEN 256 ELSE 0)
  OBVIOUS
<1>3. al = 16 * p + e + (IF y - v - c < 0 THEN 6 ELSE 0) + z /\ t \in Int
  BY <1>1, <1>2
<1>4. a = 16 * p + e + z
  <2>1. CASE y - v - c < 0
    BY <1>3, <2>1
  <2>2. CASE ~(y - v - c < 0)
    <3>1. al = 16 * p + e + z  BY <1>3, <2>2
    <3> HIDE DEF al
    <3>2. al % 16 = e  BY <1>1, <1>2, <3>1
    <3> QED BY <1>1, <2>2, <3>1, <3>2
  <2> QED BY <2>1, <2>2
<1> HIDE DEF al, low, a
<1>5. all <=> p < 0
  <2>1. ~(p < 0) => a \in 0..255 /\ a % 256 <= 159
    BY <1>1, <1>2, <1>4
  <2> QED BY <1>1, <1>2, <1>4, <2>1
<1> HIDE DEF all
<1>6. w = 16 * (IF all THEN p + 10 ELSE p) + e
  BY <1>1, <1>2, <1>4, <1>5
<1> HIDE DEF w
<1>7. w \in Nat /\ w < 256 /\ w \div 16 = (IF all THEN p + 10 ELSE p) /\ w % 16 = e
  BY <1>1, <1>5, <1>6
<1>8. /\ w \in Nat /\ w < 256 /\ w \div 16 <= 9 /\ w % 16 <= 9
      /\ 10 * (w \div 16) + (w % 16) - (IF all THEN 100 ELSE 0) = 10 * x + y - (10 * u + v) - c
  BY <1>1, <1>5, <1>7
<1> HIDE DEF r
<1>10. r.v = w /\ r.cf = all
  BY <1>9
<1>11. Decimal(w)
  BY <1>8, Ranges DEF Decimal
<1>12. Decimal(r.v) /\ Tens(r.v) - Hundred(r.cf) = 10 * x + y - (10 * u + v) - c
  BY <1>8, <1>10, <1>11 DEF Tens, Hundred
<1> QED BY <1>12 DEF r, al, Taken, DifferenceKept

LEMMA AdjustIs ==
  ASSUME NEW m \in Machines, NEW n \in {6, -6}
  PROVE  LET r == Adjusted(Reg(m, "AL"), m.f.af, m.f.cf, n)
         IN  r.v \in Value(Byte) => Reg(Adjust4(m, n), "AL") = r.v /\ Adjust4(m, n).f.cf = r.cf
<1> DEFINE al  == Reg(m, "AL")
           low == m.f.af \/ al % 16 > 9
           a   == IF low THEN al + n ELSE al
           all == (m.f.cf \/ a \notin 0..255) \/ a % 256 > 159
           w   == (IF all THEN a + 16 * n ELSE a) % 256
           p   == SetReg(m, "AL", w)
           f   == [SZP(m.f, w, Byte) EXCEPT !.af = low, !.cf = all]
           r   == Adjust4(m, n)
<1>1. Adjusted(al, m.f.af, m.f.cf, n) = [v |-> w, cf |-> all]
  BY Zenon DEF Adjusted
<1>2. al \in Int
  <2>1. Reg(m, "AL") = m.w["AX"] % 256 /\ m.w["AX"] \in Value(Word)
    BY SetHalves, RegOf, Ranges
  <2> QED BY <2>1, Ranges
<1>3. a \in Int /\ (IF all THEN a + 16 * n ELSE a) \in Int
  <2> HIDE DEF al
  <2>1. a \in Int  BY <1>2
  <2> HIDE DEF a, all
  <2> QED BY <2>1
<1>4. Wrapped(a, Byte) = a % 256 /\ Wrapped(IF all THEN a + 16 * n ELSE a, Byte) = w
  <2> HIDE DEF a, all
  <2> QED BY <1>3, Wraps
<1>5. r = [p EXCEPT !.f = f]
  <2> DEFINE All == (m.f.cf \/ a \notin 0..255) \/ Wrapped(a, Byte) > 159
             W   == Wrapped(IF All THEN a + 16 * n ELSE a, Byte)
  <2>1. r = [SetReg(m, "AL", W) EXCEPT !.f = [SZP(m.f, W, Byte) EXCEPT !.af = low, !.cf = All]]
    BY Zenon DEF Adjust4
  <2>2. All = all
    <3> HIDE DEF a
    <3> QED BY <1>4, Zenon
  <2> HIDE DEF All, all
  <2>3. W = w
    <3> HIDE DEF a, w
    <3> QED BY <1>4, <2>2, Zenon
  <2> HIDE DEF W, w, low, r
  <2> QED BY <2>1, <2>2, <2>3, Zenon
<1> SUFFICES ASSUME w \in Value(Byte)
             PROVE  Reg(r, "AL") = w /\ r.f.cf = all
  <2> HIDE DEF w, all, r
  <2> QED BY <1>1 DEF r, al
<1> HIDE DEF al, low, a, all, w
<1>6. PICK b \in Int : /\ p \in Machines /\ p.w = [m.w EXCEPT !["AX"] = 256 * b + w]
                       /\ m.w \in [Words -> Value(Word)] /\ "AX" \in Words
  <2>1. "AX" \in Words /\ m.w \in [Words -> Value(Word)]
    BY SMT DEF Words, Machines
  <2>2. m.w["AX"] \div 256 \in Int
    BY <2>1, Ranges
  <2>3. 256 * (m.w["AX"] \div 256) + w \in Value(Word)
        /\ p = SetReg(m, "AX", 256 * (m.w["AX"] \div 256) + w)
    BY SetHalves
  <2>4. PICK v \in Value(Word) : v = 256 * (m.w["AX"] \div 256) + w /\ p = SetReg(m, "AX", v)
    BY <2>3
  <2> HIDE DEF p
  <2>5. p \in Machines /\ p.w = [m.w EXCEPT !["AX"] = v]
    BY <2>1, <2>4, SetWord
  <2> QED BY <2>1, <2>2, <2>4, <2>5
<1> HIDE DEF p, r
<1>7. r.w = p.w /\ r.f = f
  <2> HIDE DEF f
  <2> QED BY SMT, <1>5, <1>6 DEF Machines
<1>8. f.cf = all
  <2>1. m.f \in Flags  BY SMT DEF Machines
  <2> QED BY <2>1 DEF SZP, Flags
<1>9. Reg(r, "AL") = w
  <2>1. r.w["AX"] = 256 * b + w
    BY <1>6, <1>7
  <2>2. Reg(r, "AL") = r.w["AX"] % 256  BY RegOf
  <2>3. w \in Int /\ 0 <= w /\ w < 256  BY Ranges
  <2>4. (256 * b + w) % 256 = w  BY SMT, <2>3
  <2> QED BY <2>1, <2>2, <2>4
<1> HIDE DEF f
<1> QED BY <1>7, <1>8, <1>9

LEMMA TensOf ==
  ASSUME NEW x \in Nat, NEW y \in Nat, x <= 9, y <= 9
  PROVE  /\ Packed(x, y) \in Nat /\ Packed(x, y) = 16 * x + y
         /\ Tens(Packed(x, y)) = 10 * x + y
<1>1. 16 * x + y \in Nat
      /\ 10 * ((16 * x + y) \div 16) + ((16 * x + y) % 16) = 10 * x + y
  OBVIOUS
<1>2. Packed(x, y) = 16 * x + y
  BY DEF Packed
<1> QED BY <1>1, <1>2 DEF Tens

(* ADD or ADC of packed digits and then DAA, and SUB or SBB and then DAS,  *)
(* give the digits of the sum and of the difference, and the carry what    *)
(* they lack of it, so that decimal numbers of any length go on from it.   *)
THEOREM DecimalExact ==
  ASSUME NEW x \in Nat, NEW y \in Nat, NEW u \in Nat, NEW v \in Nat, NEW c \in {0, 1},
         x <= 9, y <= 9, u <= 9, v <= 9, NEW f \in Flags, NEW m \in Machines
  PROVE  LET d == Packed(x, y)
             s == Packed(u, v)
             a == Daa(m)
             b == Das(m)
         IN  /\ Reg(m, "AL") = Sum(d, s, c, Byte) /\ m.f = AfterAdd(f, d, s, c, Byte) =>
                  /\ Decimal(Reg(a, "AL"))
                  /\ Tens(Reg(a, "AL")) + 100 * Carry(a.f) = Tens(d) + Tens(s) + c
             /\ Reg(m, "AL") = Difference(d, s, c, Byte) /\ m.f = AfterSub(f, d, s, c, Byte) =>
                  /\ Decimal(Reg(b, "AL"))
                  /\ Tens(Reg(b, "AL")) - 100 * Carry(b.f) = Tens(d) - Tens(s) - c
<1>1. PICK d \in Nat, s \in Nat : /\ d = Packed(x, y) /\ d = 16 * x + y /\ Tens(d) = 10 * x + y
                                  /\ s = Packed(u, v) /\ s = 16 * u + v /\ Tens(s) = 10 * u + v
  <2>1. /\ Packed(x, y) \in Nat /\ Packed(x, y) = 16 * x + y
        /\ Tens(Packed(x, y)) = 10 * x + y
    BY TensOf
  <2>2. /\ Packed(u, v) \in Nat /\ Packed(u, v) = 16 * u + v
        /\ Tens(Packed(u, v)) = 10 * u + v
    BY TensOf
  <2> QED BY <2>1, <2>2
<1>2. /\ Aux(Sum(Packed(x, y), Packed(u, v), c, 128), Packed(u, v), Packed(x, y))
           = (y + v + c >= 16)
      /\ Aux(Difference(Packed(x, y), Packed(u, v), c, 128), Packed(u, v), Packed(x, y))
           = (y - v - c < 0)
  <2>1. LET p == Packed(x, y)
            q == Packed(u, v)
        IN  /\ Aux(Sum(p, q, c, 128), q, p) = (y + v + c >= 16)
            /\ Aux(Difference(p, q, c, 128), q, p) = (y - v - c < 0)
    BY DigitCarry
  <2> QED BY <2>1, Zenon
<1>3. /\ Decimal(Added(x, y, u, v, c).v)
      /\ Tens(Added(x, y, u, v, c).v) + Hundred(Added(x, y, u, v, c).cf)
           = 10 * x + y + (10 * u + v) + c
  <2>1. SumKept(x, y, u, v, c)
    BY AdjustedSum
  <2> QED BY <2>1, Zenon DEF SumKept
<1>4. /\ Decimal(Taken(x, y, u, v, c).v)
      /\ Tens(Taken(x, y, u, v, c).v) - Hundred(Taken(x, y, u, v, c).cf)
           = 10 * x + y - (10 * u + v) - c
  <2>1. DifferenceKept(x, y, u, v, c)
    BY AdjustedDifference
  <2> QED BY <2>1, Zenon DEF DifferenceKept
<1>5. Byte = 128  BY SMT DEF Byte
<1>6. \A g : Hundred(g.cf) = 100 * Carry(g)
  BY DEF Hundred, Carry
<1>7. ASSUME Reg(m, "AL") = Sum(d, s, c, Byte), m.f = AfterAdd(f, d, s, c, Byte)
      PROVE  /\ Decimal(Reg(Daa(m), "AL"))
             /\ Tens(Reg(Daa(m), "AL")) + 100 * Carry(Daa(m).f) = Tens(d) + Tens(s) + c
  <2>1. PICK t \in Int : t = d + s + c /\ t = 16 * x + y + (16 * u + v) + c
    BY <1>1
  <2>2. Reg(m, "AL") = IF t < 256 THEN t ELSE t - 256
    BY <1>5, <1>7, <2>1 DEF Sum
  <2>3. m.f.af = Aux(Sum(d, s, c, 128), s, d) /\ m.f.cf = (t >= 256)
    <3>1. m.f.af = Aux(Sum(d, s, c, Byte), s, d) /\ m.f.cf = (d + s + c >= 2 * Byte)
      BY <1>7 DEF AfterAdd, SZP, Flags
    <3>2. 2 * Byte = 256  BY <1>5
    <3> QED BY <1>5, <2>1, <3>1, <3>2, Zenon
  <2>4. m.f.af = (y + v + c >= 16)
    <3>1. Aux(Sum(d, s, c, 128), s, d) = (y + v + c >= 16)
      BY <1>1, <1>2, Zenon
    <3> QED BY <2>3, <3>1, Zenon
  <2> DEFINE r == Adjusted(Reg(m, "AL"), m.f.af, m.f.cf, 6)
  <2>5. Decimal(r.v) /\ Tens(r.v) + Hundred(r.cf) = 10 * x + y + (10 * u + v) + c
    <3>1. r = Adjusted(IF t < 256 THEN t ELSE t - 256, y + v + c >= 16, t >= 256, 6)
      BY <2>2, <2>3, <2>4, Zenon
    <3> HIDE DEF r
    <3>2. r = Added(x, y, u, v, c)
      BY <2>1, <3>1, Zenon DEF Added
    <3> QED BY <1>3, <3>2, Zenon
  <2>6. Reg(Daa(m), "AL") = r.v /\ Daa(m).f.cf = r.cf
    <3>1. r.v \in Value(Byte)  BY <2>5 DEF Decimal
    <3> QED BY <3>1, AdjustIs DEF Daa
  <2> HIDE DEF r
  <2>7. Hundred(r.cf) = 100 * Carry(Daa(m).f)
    BY <1>6, <2>6, Zenon
  <2> QED BY <1>1, <2>5, <2>6, <2>7
<1>8. ASSUME Reg(m, "AL") = Difference(d, s, c, Byte), m.f = AfterSub(f, d, s, c, Byte)
      PROVE  /\ Decimal(Reg(Das(m), "AL"))
             /\ Tens(Reg(Das(m), "AL")) - 100 * Carry(Das(m).f) = Tens(d) - Tens(s) - c
  <2>1. PICK t \in Int : t = d - s - c /\ t = 16 * x + y - (16 * u + v) - c
    BY <1>1
  <2>2. Reg(m, "AL") = IF t < 0 THEN t + 256 ELSE t
    BY <1>5, <1>8, <2>1 DEF Difference
  <2>3. m.f.af = Aux(Difference(d, s, c, 128), s, d) /\ m.f.cf = (t < 0)
    <3>1. m.f.af = Aux(Difference(d, s, c, Byte), s, d) /\ m.f.cf = (d - s - c < 0)
      BY <1>8 DEF AfterSub, SZP, Flags
    <3> QED BY <1>5, <2>1, <3>1, Zenon
  <2>4. m.f.af = (y - v - c < 0)
    <3>1. Aux(Difference(d, s, c, 128), s, d) = (y - v - c < 0)
      BY <1>1, <1>2, Zenon
    <3> QED BY <2>3, <3>1, Zenon
  <2> DEFINE r == Adjusted(Reg(m, "AL"), m.f.af, m.f.cf, -6)
  <2>5. Decimal(r.v) /\ Tens(r.v) - Hundred(r.cf) = 10 * x + y - (10 * u + v) - c
    <3>1. r = Adjusted(IF t < 0 THEN t + 256 ELSE t, y - v - c < 0, t < 0, -6)
      BY <2>2, <2>3, <2>4, Zenon
    <3> HIDE DEF r
    <3>2. r = Taken(x, y, u, v, c)
      BY <2>1, <3>1, Zenon DEF Taken
    <3> QED BY <1>4, <3>2, Zenon
  <2>6. Reg(Das(m), "AL") = r.v /\ Das(m).f.cf = r.cf
    <3>1. r.v \in Value(Byte)  BY <2>5 DEF Decimal
    <3> QED BY <3>1, AdjustIs DEF Das
  <2> HIDE DEF r
  <2>7. Hundred(r.cf) = 100 * Carry(Das(m).f)
    BY <1>6, <2>6, Zenon
  <2> QED BY <1>1, <2>5, <2>6, <2>7
<1> QED BY <1>1, <1>7, <1>8
-----------------------------------------------------------------------------
(* Bit 8 of a sum or a difference of bytes, where set_CFB takes the carry  *)
(* from: set beyond the byte on either side, and turned by 256 either way. *)
LEMMA BitEight ==
  ASSUME NEW x \in -256..511
  PROVE  /\ Bit(x, 8) = (x \notin 0..255)
         /\ x >= 0 => Bit(x - 256, 8) = (x < 256)
         /\ x < 256 => Bit(x + 256, 8) = (x >= 0)
<1>1. 2 ^ 8 = 256  OBVIOUS
<1>2. \A y \in Int : Bit(y, 8) = ((y \div 256) % 2 = 1)  BY <1>1 DEF Bit
<1>3. CASE x < 0
  <2>1. x \div 256 = -1 /\ (x + 256) \div 256 = 0  BY <1>3
  <2> QED BY <1>2, <1>3, <2>1
<1>4. CASE x \in 0..255
  <2>1. x \div 256 = 0 /\ (x - 256) \div 256 = -1 /\ (x + 256) \div 256 = 1  BY <1>4
  <2> QED BY <1>2, <1>4, <2>1
<1>5. CASE x \in 256..511
  <2>1. x \div 256 = 1 /\ (x - 256) \div 256 = 0  BY <1>5
  <2> QED BY <1>2, <1>5, <2>1
<1> QED BY <1>3, <1>4, <1>5

(* A flag that differs from a truth value is turned or kept.               *)
LEMMA Turned ==
  ASSUME NEW b \in BOOLEAN
  PROVE  (b # TRUE) = ~b /\ (b # FALSE) = b
<1>1. CASE b = TRUE  BY <1>1, Zenon
<1>2. CASE b = FALSE  BY <1>2, Zenon
<1> QED BY <1>1, <1>2, Zenon

(* Opcode 0x82 (i86.cpp): ADD, ADC, SUB, SBB and CMP of a byte with an     *)
(* immediate that the code extends to 32 bits before the carry is taken    *)
(* from bit 8.  The flags are those of 0x80 but for the carry, which comes *)
(* out inverted exactly when the immediate is 80h or more.                 *)
THEOREM ExtendedCarry ==
  ASSUME NEW f \in Flags, NEW d \in Value(Byte), NEW s \in Value(Byte), NEW c \in {0, 1},
         NEW i, i.s.kind = "extended"
  PROVE  LET p == AfterAdd(f, d, s, c, Byte)
             m == AfterSub(f, d, s, c, Byte)
         IN  /\ CarryOut(i, p, d + Signed(s, Byte) + c)
                  = [p EXCEPT !.cf = p.cf # Negative(s, Byte)]
             /\ CarryOut(i, m, d - Signed(s, Byte) - c)
                  = [m EXCEPT !.cf = m.cf # Negative(s, Byte)]
<1> DEFINE p == AfterAdd(f, d, s, c, Byte)
           m == AfterSub(f, d, s, c, Byte)
<1>1. Byte = 128 /\ d \in 0..255 /\ s \in 0..255  BY DEF Byte, Value
<1>2. p.cf = (d + s + c >= 256) /\ m.cf = (d - s - c < 0)
  <2>1. 2 * Byte = 256  BY <1>1
  <2> QED BY <2>1 DEF AfterAdd, AfterSub, SZP, Flags
<1>3. CarryOut(i, p, d + Signed(s, Byte) + c) = [p EXCEPT !.cf = Bit(d + Signed(s, Byte) + c, 8)]
  BY DEF CarryOut
<1>4. CarryOut(i, m, d - Signed(s, Byte) - c) = [m EXCEPT !.cf = Bit(d - Signed(s, Byte) - c, 8)]
  BY DEF CarryOut
<1> HIDE DEF p, m
<1>5. PICK x \in -256..511 : x = d + s + c /\ x >= 0  BY <1>1
<1>6. PICK y \in -256..511 : y = d - s - c /\ y < 256  BY <1>1
<1>7. p.cf = (x >= 256) /\ m.cf = (y < 0)
  BY <1>2, <1>5, <1>6
<1>8. p.cf \in BOOLEAN /\ m.cf \in BOOLEAN
  <2>1. (x >= 256) \in BOOLEAN /\ (y < 0) \in BOOLEAN  OBVIOUS
  <2> QED BY <1>7, <2>1
<1>9. Bit(d + Signed(s, Byte) + c, 8) = (p.cf # Negative(s, Byte))
  <2>1. CASE s >= 128
    <3>1. Negative(s, Byte) = TRUE /\ d + Signed(s, Byte) + c = x - 256
      BY <1>1, <1>5, <2>1 DEF Negative, Signed
    <3>2. Bit(x - 256, 8) = (x < 256)  BY <1>5, BitEight
    <3>3. (x < 256) = ~(x >= 256)  OBVIOUS
    <3> QED BY <3>1, <3>2, <3>3, <1>7, <1>8, Turned, Zenon
  <2>2. CASE ~(s >= 128)
    <3>1. Negative(s, Byte) = FALSE /\ d + Signed(s, Byte) + c = x
      BY <1>1, <1>5, <2>2 DEF Negative, Signed
    <3>2. Bit(x, 8) = (x >= 256)  BY <1>5, BitEight
    <3> QED BY <3>1, <3>2, <1>7, <1>8, Turned, Zenon
  <2> QED BY <2>1, <2>2
<1>10. Bit(d - Signed(s, Byte) - c, 8) = (m.cf # Negative(s, Byte))
  <2>1. CASE s >= 128
    <3>1. Negative(s, Byte) = TRUE /\ d - Signed(s, Byte) - c = y + 256
      BY <1>1, <1>6, <2>1 DEF Negative, Signed
    <3>2. Bit(y + 256, 8) = (y >= 0)  BY <1>6, BitEight
    <3>3. (y >= 0) = ~(y < 0)  OBVIOUS
    <3> QED BY <3>1, <3>2, <3>3, <1>7, <1>8, Turned, Zenon
  <2>2. CASE ~(s >= 128)
    <3>1. Negative(s, Byte) = FALSE /\ d - Signed(s, Byte) - c = y
      BY <1>1, <1>6, <2>2 DEF Negative, Signed
    <3>2. Bit(y, 8) = (y < 0)  BY <1>6, BitEight
    <3> QED BY <3>1, <3>2, <1>7, <1>8, Turned, Zenon
  <2> QED BY <2>1, <2>2
<1> QED BY <1>3, <1>4, <1>9, <1>10 DEF p, m
=============================================================================
