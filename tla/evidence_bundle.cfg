\* Two exports, of a bundle or the report alone, that may overlap, two calls, one fault.
SPECIFICATION Spec
CONSTANTS
  fixture = fixture
  command = command
  cli = cli
  Calls = {fixture, command}
  Forwarded = {cli}
  EntryOf <- MCEntryOf
  TextsOf <- MCTextsOf
  Contents = {x, y}
  MaxAttempts = 2
  Exports = {e1, e2}
  MaxFaults = 1
SYMMETRY Interchangeable
INVARIANTS
  QuietExportValid
  SafeCoversLedger
  CopiesMatchEvents
CHECK_DEADLOCK FALSE
