SPECIFICATION TimersSpec
CONSTANT Clock <- Timers02
CONSTANT Wrap = 2
CONSTANT PerCount = 4
CONSTANT Maxima <- Small
CONSTANT Controls <- Programs
PROPERTY CountsAsHardware
