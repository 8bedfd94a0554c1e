\* Every part by itself; a part ends when its job is done.
SPECIFICATION Spec
CONSTANTS
  DateStarts <- MCDateStarts
  DatePart = 1001
  DimensionJobs <- MCDimensionJobs
  OrderJobs <- MCOrderJobs
  DaysBuilt = 12
  PickedDates <- MCPickedDates
  StockItems = 3
  Warehouses = 2
  UpdateScale = 1
  Layouts <- MCLayouts
  DistNames = {"colors", "Colors", "sizes", "sizes_of_all"}
  Folded <- MCFolded
  Truncated <- MCTruncated
  LengthOf <- MCLengthOf
  TypeRows <- MCTypeRows
  ValueRows <- MCValueRows
  WeightRows <- MCWeightRows
  MaxWidth = 2
  MaxRows = 2
  MaxDists = 2
  CommandLines <- MCCommandLines
  ParameterFiles <- MCParameterFiles
  Abbreviations <- MCAbbreviations
  Numbers <- MCNumbers
  Tables <- MCTables
  StreamArray <- MCStreamArray
  Serial <- MCSerial
  Validations <- MCValidations
  RandomRows <- MCRandomRows
  ItemKeys <- MCItemKeys
  VCOUNT = 2
  Tried <- MCTried
INVARIANTS
  CalendarRows
  HistoryIsSound
  RetainedFromOwnItem
  ChunkDatesAreSerial
  UpdateDatesInZones
  UpdateRowsOnTheirDates
  RowsFillTheTables
  CompiledIsRead
  CommandIsObeyed
  ValidatedRowIsSerial
  AmountsAddUp
CHECK_DEADLOCK FALSE
