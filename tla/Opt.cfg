CONSTANTS
  None = None
  Text = Text
  Program = Program
  Numbers = {3, 7}
  Tables <- MCTables
  Entries <- MCEntries
  CommandLines <- MCCommandLines
  FirstOptinds = {0, 1, 9}
  MaxCalls = 2
SPECIFICATION Spec
INVARIANTS ParsesAsMeant EntriesAccounted HelpColumns
PROPERTIES ProcessReturns
CHECK_DEADLOCK FALSE
