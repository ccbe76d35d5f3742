SPECIFICATION Spec
CONSTANT Code <- MCCode
CONSTANT Handlers <- MCHandlers
CONSTANT Cases <- MCCases
CONSTANT Inputs <- In2
CONSTANT MaxIrqs = 1
INVARIANT CarriesExact
INVARIANT OrderDecided
INVARIANT QuotientOrFault
INVARIANT StringsWhole
INVARIANT FramesBalanced
CHECK_DEADLOCK FALSE
