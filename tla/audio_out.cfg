SPECIFICATION Spec
CONSTANT N = 2
CONSTANT Den = 4
CONSTANT Steps <- Rates
CONSTANT Rounds = 64
CONSTANT Wants <- Calls
CONSTANT Lengths <- Utterances
CONSTANT MaxSpeech = 15
INVARIANT FullUnlessIdle
INVARIANT TailExact
INVARIANT WindowHeld
INVARIANT HistoryBounded
