SPECIFICATION PartsSpec
CONSTANTS
  Width = 8
  Align = 2
  CharBits = 2
  ShortBits = 3
  IntBits = 4
  MaxBits = 5
  Values <- MCValues
  Widths <- MCWidths
  Radixes <- MCRadixes
  StrLen = {0, 2, 5}
  Thread = {t1, t2}
  Code = {100}
  Tag = {1, 2}
  Returning = {"svc", "pabt", "dabt"}
SYMMETRY Symmetry
INVARIANTS
  BlocksApart
  RefusedForGood
  PrintsAsPrintf
  ArgsInStep
  ExceptionsSound
