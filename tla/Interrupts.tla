----------------------------- MODULE Interrupts ------------------------------
(***************************************************************************)
(* i186.cpp: the 80186 interrupt controller in master mode (RELREG bit 14  *)
(* clear), between its sources and the INT line of the CPU.                *)
(*                                                                         *)
(* A source is numbered by its place in the scan of                        *)
(* update_interrupt_state: 0 the three timers, which share one bit and are *)
(* told apart by `status'; 1 and 2 the DMA channels; 3 to 6 INT0 to INT3.  *)
(* The registers are one record, and what the code does to them functions  *)
(* on it.  Cascaded controllers (the CASCADE mode of INT0 and INT1) are    *)
(* left out: the board has none.                                           *)
(***************************************************************************)
EXTENDS Integers, Sequences

CONSTANTS Source,  \* the sources that are used
          Clock,   \* the timers that are
          Levels,  \* the priorities the firmware gives each source
          Modes,   \* the modes of an INT pin it sets: subsets of Mode
          Masks    \* what it writes to the mask register

Tmr == 0
Dma == Source \cap {1, 2}
Ext == Source \cap 3..6
Mode == {"ltm", "sfnm"}              \* level triggered, special fully nested

ASSUME InterruptsAssumption ==
  /\ Source \subseteq 0..6
  /\ Clock \subseteq 0..2
  /\ Levels \in [Source -> SUBSET (0..7)]
  /\ Modes \subseteq SUBSET Mode
  /\ Masks \subseteq SUBSET Source

VARIABLES
  intr,      \* m_intr, with `line' for INT_IRQ in m_pending_irq
  nest,      \* history: <<x, y>> of two acknowledged and not ended, x no earlier
  kept,      \* history: since none was in service, no priority was changed
  tidy       \* history: since none was in service, what was being offered was
             \*          neither reprogrammed nor withdrawn (nor forgotten by a reset)

controller == <<intr, nest, kept, tidy>>

TimerVector(t) == IF t = 0 THEN 8 ELSE 17 + t
Vector(x) == 9 + x
Vectors == {TimerVector(t) : t \in Clock} \cup {Vector(x) : x \in 1..6}

Intr == [level : [Source -> 0..7], masked : SUBSET Source, mode : [Source -> SUBSET Mode],
         priority_mask : 0..7,
         in_service : SUBSET Source, request : SUBSET (Source \ {Tmr}), status : SUBSET Clock,
         pending : BOOLEAN, ack_mask : SUBSET Source,
         offered : BOOLEAN, vector : {0} \cup Vectors,  \* poll_status
         ext_state : SUBSET Ext, line : BOOLEAN]

(* What device_reset makes of the record c: it leaves the line as it was.  *)
AfterReset(c) ==
  [level |-> [x \in Source |-> 7], masked |-> Source, mode |-> [x \in Source |-> {}],
   priority_mask |-> 7,
   in_service |-> {}, request |-> {}, status |-> {},
   pending |-> FALSE, ack_mask |-> {}, offered |-> FALSE, vector |-> 0,
   ext_state |-> {}, line |-> c.line]

InterruptsInit ==
  /\ intr = AfterReset([line |-> FALSE])
  /\ nest = {} /\ kept = TRUE /\ tidy = TRUE

-----------------------------------------------------------------------------
(* update_interrupt_state                                                  *)
Above(c, x, y) == c.level[x] < c.level[y] \/ (c.level[x] = c.level[y] /\ x < y)

Scanned(c) == {x \in Source \ c.masked : c.level[x] <= c.priority_mask}
Requesting(c) == c.request \cup (IF c.status = {} THEN {} ELSE {Tmr})
Nests(c, x) == "sfnm" \in c.mode[x]

(* Where the scan ends: at a source to offer, or at one being served.      *)
Offers(c) == {x \in Scanned(c) \cap Requesting(c) : x \in c.in_service => Nests(c, x)}
Ends(c) == Scanned(c) \cap (Requesting(c) \cup c.in_service)

First(c, S) == {x \in S : \A y \in S \ {x} : Above(c, x, y)}

OfferVector(c, x) ==
  IF x # Tmr THEN Vector(x)
  ELSE TimerVector(CHOOSE t \in c.status : \A u \in c.status : t <= u)

GenerateKeepsVector(c, x) ==
  [c EXCEPT !.offered = TRUE, !.ack_mask = {x}, !.line = @ \/ ~c.pending, !.pending = TRUE,
            !.vector = IF c.pending THEN @ ELSE OfferVector(c, x)]

Generate(c, x) ==
  [c EXCEPT !.offered = TRUE, !.vector = OfferVector(c, x), !.ack_mask = {x},
            !.line = @ \/ ~c.pending, !.pending = TRUE]

Update(c) ==
  IF Ends(c) = {} THEN [c EXCEPT !.pending = FALSE, !.line = FALSE]
  ELSE IF First(c, Ends(c)) \subseteq Offers(c)
    THEN Generate(c, CHOOSE x \in Ends(c) : x \in First(c, Ends(c)))
    ELSE c   \* the early return

(* int_callback: the CPU, or a read of the poll register, takes the        *)
(* interrupt offered.                                                      *)
Acknowledged(c) ==
  [c EXCEPT !.line = FALSE, !.pending = FALSE, !.offered = FALSE, !.ack_mask = {},
            !.request = @ \ {x \in c.ack_mask : "ltm" \notin c.mode[x]},
            !.in_service = @ \cup c.ack_mask,
            !.status = IF c.ack_mask = {Tmr} THEN {t \in @ : TimerVector(t) # c.vector} ELSE @]

(* handle_eoi: what a non-specific EOI ends                                *)
LeastUrgent(c) == {x \in c.in_service : \A y \in c.in_service \ {x} : Above(c, y, x)}

MostUrgent(c) == First(c, c.in_service)

(* What is left of the nest when the sources m are ended, and the source   *)
(* whose handler runs.                                                     *)
Without(m) == {p \in nest : p[1] \notin m /\ p[2] \notin m}
Served == {p[1] : p \in nest}
Innermost == {x \in Served : \A y \in Served : <<x, y>> \in nest}

-----------------------------------------------------------------------------
(* A register write that makes c of the registers, then                    *)
(* update_interrupt_state.                                                 *)
Writes(c) ==
  LET idle == c.in_service = {}
  IN  /\ intr' = Update(c)
      /\ kept' = (idle \/ (kept /\ intr.in_service = {}))
      /\ tidy' = (idle \/ (tidy /\ ~(intr.pending /\ intr.in_service # {})))
      /\ UNCHANGED nest

WriteMask == \E m \in Masks : Writes([intr EXCEPT !.masked = m])
WritePriorityMask ==
  \E p \in {7} \cup UNION {Levels[x] : x \in Source} : Writes([intr EXCEPT !.priority_mask = p])
WriteRequest == \E m \in SUBSET Dma : Writes([intr EXCEPT !.request = (@ \ Dma) \cup m])
WriteStatus == Tmr \in Source /\ \E m \in SUBSET Clock : Writes([intr EXCEPT !.status = m])
WriteControl ==
  \E x \in Source, off \in BOOLEAN :
    \E l \in Levels[x], m \in IF x \in Ext THEN Modes ELSE {{}} :
      Writes([intr EXCEPT !.level[x] = l, !.mode[x] = m,
                          !.masked = IF off THEN @ \cup {x} ELSE @ \ {x}])

(* An EOI updates twice.  A write to the in-service register ends service  *)
(* likewise, if it sets no bit.                                            *)
EndsService(d) ==
  /\ intr' = d
  /\ kept' = (kept \/ d.in_service = {})
  /\ tidy' = (tidy \/ d.in_service = {})
EoiWithoutUpdate(m) == EndsService([intr EXCEPT !.in_service = @ \ m])

EndOfInterrupt(m) == EndsService(Update(Update([intr EXCEPT !.in_service = @ \ m])))

(* (The handler that writes it is the innermost, while service nests.)     *)
NonSpecificEoi ==
  /\ EndOfInterrupt(MostUrgent(intr))
  /\ nest' = Without(IF kept THEN Innermost ELSE MostUrgent(intr))

SpecificEoi == \E x \in Source : EndOfInterrupt({x}) /\ nest' = Without({x})

WriteInService ==
  \E m \in SUBSET intr.in_service :
    /\ EndsService(Update([intr EXCEPT !.in_service = m]))
    /\ nest' = Without(Source \ m)

(* (The poll register still offers what has since been masked or withdrawn: *)
(* whoever takes that serves out of order.)                                *)
Acknowledge ==
  /\ intr' = Acknowledged(intr)
  /\ nest' = Without(intr.ack_mask) \cup (intr.ack_mask \X (Served \cup intr.ack_mask))
  /\ kept' = (kept /\ intr.pending)
  /\ UNCHANGED tidy

ReadPoll == intr.offered /\ Acknowledge

(* external_int                                                            *)
RaiseInt(x) ==
  /\ x \in Ext \ intr.ext_state
  /\ intr' = Update([intr EXCEPT !.request = @ \cup {x}, !.ext_state = @ \cup {x}])
  /\ UNCHANGED <<nest, kept, tidy>>

LowerInt(x) ==
  /\ x \in intr.ext_state
  /\ intr' = Update([intr EXCEPT !.request = @ \ {x}, !.ack_mask = @ \ {x},
                                 !.ext_state = @ \ {x}])
  /\ tidy' = (tidy /\ ~(x \in intr.ack_mask /\ intr.in_service # {}))
  /\ UNCHANGED <<nest, kept>>

(* timer_elapsed of timer t and drq_callback, where they request an interrupt *)
Internal(x, t) ==
  /\ x \in Source \ Ext
  /\ intr' = Update(IF x = Tmr THEN [intr EXCEPT !.status = @ \cup {t}]
                    ELSE [intr EXCEPT !.request = @ \cup {x}])
  /\ UNCHANGED <<nest, kept, tidy>>

(* device_reset                                                            *)
ResetController ==
  /\ intr' = AfterReset(intr)
  /\ nest' = {} /\ kept' = TRUE /\ tidy' = ~intr.line

-----------------------------------------------------------------------------
RegisterWrite ==
  \/ WriteMask \/ WritePriorityMask \/ WriteRequest \/ WriteStatus
  \/ WriteControl \/ WriteInService \/ NonSpecificEoi \/ SpecificEoi

Raised ==
  \E x \in Source : RaiseInt(x) \/ LowerInt(x) \/ \E t \in Clock : Internal(x, t)

-----------------------------------------------------------------------------
(* What update_interrupt_state is for: the INT line is up exactly while an *)
(* interrupt is offered, and what is offered is then the most urgent       *)
(* request that nothing in service holds back, with its vector.  Not after *)
(* the offered one was masked, reprogrammed or withdrawn while another was *)
(* in service: the scan then returns before it takes the offer back.       *)
OfferIsTrue ==
  tidy =>
    /\ intr.line = intr.pending
    /\ intr.pending =>
         \E x \in First(intr, Ends(intr)) \cap Offers(intr) :
            intr.offered /\ intr.ack_mask = {x} /\ intr.vector = OfferVector(intr, x)

(* No request is forgotten: one that nothing in service holds back raises  *)
(* the line in the step it becomes so (a level-triggered, fully nested pin *)
(* still up when it is acknowledged waits for the next update).            *)
RequestSeen ==
  First(intr, Ends(intr)) \cap Offers(intr) \subseteq intr.in_service \/ intr.pending

(* Service nests: the controller has in service what was acknowledged and  *)
(* not ended, each more urgent than the one it interrupted, so that an EOI *)
(* of the innermost handler ends its own source.  Not after a change of    *)
(* the priorities while one was in service.                                *)
NestedByUrgency ==
  kept =>
    /\ intr.in_service = Served
    /\ \A p \in nest : p[1] # p[2] => Above(intr, p[1], p[2])
=============================================================================
