------------------------------ MODULE MCBoard --------------------------------
(* One periodic timer; five cycles take as long as three samples.           *)
EXTENDS Board

OneTimer  == {1}
EachCycle == {1}
ThreeCycles == {3}
OneLevel  == {1}
=============================================================================
