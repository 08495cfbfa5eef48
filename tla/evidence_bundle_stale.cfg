\* One call after the other, exports one after the other.
SPECIFICATION Spec
CONSTANTS
  fixture = fixture
  command = command
  cli = cli
  Calls = {fixture, command}
  Forwarded = {}
  EntryOf <- MCEntryOf
  TextsOf <- MCPlainTexts
  Contents = {x}
  MaxAttempts = 2
  Exports = {e1, e2}
  MaxFaults = 0
INVARIANTS
  NoStaleInstructions
CHECK_DEADLOCK FALSE
