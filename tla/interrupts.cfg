SPECIFICATION Spec
CONSTANT Source <- TimerAndInt1
CONSTANT Clock <- Timer0
CONSTANT Levels <- Int1First
CONSTANT Modes <- EdgeOrNested
CONSTANT Masks <- NoneMasked
CONSTANT Count = 2
CONSTANT MaxDepth = 2
INVARIANT OfferIsTrue
INVARIANT RequestSeen
INVARIANT NestedByUrgency
INVARIANT StringWhole
PROPERTY InterruptShadow
PROPERTY HaltWakes
