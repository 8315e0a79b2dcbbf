SPECIFICATION ArbFairSpec
CONSTANT N = 3
INVARIANTS
  GrantSound
  NoSecondTurn
PROPERTY EveryoneServed
