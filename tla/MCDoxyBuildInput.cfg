CONSTANTS
  u1 = u1
  u2 = u2
  d1 = d1
  d2 = d2
  t1 = t1
  NoProducer = NoProducer
  NoKey = NoKey
  Ups <- MCUps
  Doxys <- MCDoxys
  Tars <- MCTars
  TarFor <- MCTarFor
  RunAfter <- MCRunAfter
  Producer <- MCProducer
  DocChoices <- MCDocChoices
  GenChoices <- MCGenChoices
SPECIFICATION FairSpec
INVARIANT GeneratorSeesScannedInputs
