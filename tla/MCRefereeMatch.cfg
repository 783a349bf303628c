\* Lobby and ready check with the queue's match id, duels and solo matches with
\* two rounds and two sends, one reset; GO by hand.
SPECIFICATION Spec
CONSTANTS
  Players = {p1, p2}
  Mirror = MIRROR
  None = none
  MatchIds = {m1}
  HqStart = 2
  AutoGo = FALSE
  MaxRound = 2
  MaxSends = 4
  MaxRematches = 1
SYMMETRY Symmetry
INVARIANTS
  RoundsCarrySends
  MatchIsDecided
PROPERTIES
  ResultIsFinal
  ExchangesWaves
