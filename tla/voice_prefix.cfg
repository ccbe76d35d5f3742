SPECIFICATION Spec
CONSTANTS
  Voice <- ThreeVoices
  Rate <- Rates
  Pitch <- Pitches
  Slider <- Sliders
INVARIANT SpeaksAsAsked
PROPERTY QualityAsSet
