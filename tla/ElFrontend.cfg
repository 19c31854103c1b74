SPECIFICATION FrontendSpec
CONSTANTS
  Documents <- MCDocuments
  FlagSets <- MCFlagSets
  a = a
  b = b
  t1 = t1
  t2 = t2
  Junk = Junk
  Handles <- TwoHandles
  Tokens <- TwoTokens
  DefaultCap = 2
  MaxCap = 4
  Idents <- MCIdents
  Ints <- MCInts
  HugeInts <- MCHugeInts
  Literals <- MCLiterals
  Sources <- MCSources
  Trees <- MCTrees
  Keys = {"a", "b", "c", "d"}
  Values = {"v", "w"}
  Hash <- MCHash
  Capacities <- MCCapacities
  InitialCapacity = 4
  MinCapacity = 4
  MaxCapacity = 8
CONSTRAINT FewSlots
SYMMETRY Names
INVARIANTS
  LocationsTrue LongestOperator Respelled
  RingShape
   NothingDropped EveryPassConsumes
  SearchesEnd SearchesFind
PROPERTIES EveryCallAdvances IsDeque IsMap
CHECK_DEADLOCK FALSE
