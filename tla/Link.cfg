CONSTANTS
  Sessions = {1, 2}
  Kinds = {"dump", "dfu", "read", "erase"}
  Parts = 3
  RxRoom = 2
  EventRoom = 3
  BusRoom = 1
  BusEvents = 2
  HoldPasses = 1
  PromptPasses = 2
  MaxArrivals = 2
  MaxCommands = 2
SPECIFICATION FairLinkSpec
INVARIANTS AuthorityHeld AnswersWhole UploadsHaveAHolder KindWasRead
PROPERTIES LinkComesToRest
CHECK_DEADLOCK FALSE
