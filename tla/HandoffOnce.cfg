SPECIFICATION FairSpec
CONSTANTS
  Kinds = {"client", "pstn", "invalid"}
INVARIANTS TypeOK MovesCallerOnce NoMoveWithoutOwner TimeoutNeverUndoesMove
PROPERTIES TerminalStays ImplementsPromise ClientHandoffDecided
CHECK_DEADLOCK FALSE
