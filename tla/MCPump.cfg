SPECIFICATION FairSpec
CONSTANTS
  Opts <- MCOpts
  FirstByte = 3
  Poll = 1
  Lag = 1
INVARIANTS
  TypeOK
  OutcomeEvidence
  BacklogCannotHold
  TailIsCapped
  StallIsTheStreams
PROPERTIES
  Returns
  ImplementsContract
