\* One thing wrong with file, environment, host or server at a time, or several.
CONSTANTS
  Numeral <- Numerals
  Fraction <- Fractions
  RuleEntries <- FilterRules
  ExtraKey <- ExtraKeys
  Decimal <- Decimals
  Times <- NoTexts
  NumberText <- NumberTexts
  StatusClass <- Classes
  Domain <- NoTexts
  Extension <- NoTexts
  Agents <- Robots
  Underscored <- Underscores
  ExtraSource <- Extras
  RateScale = 4
  Exprs <- Expressions
  Files <- SomeFiles
  Environs <- SomeEnvirons
  Hosts <- SomeHosts
  Servers <- SomeServers
  Batches <- SomeBatches
  HostName = "host"
  MaxSeconds = 100
  Wrapped <- Wraps
  MaxFlushes = 2
  MaxChanges = 1
SPECIFICATION Spec
INVARIANTS
  TypeOK
  DecidedByEntry
  CheckExact
  CheckedStartSaves
  RulesAsAsked
  AssumptionsMet
  StoredRowsPassRules
  ExtraReachesRows
  RecoveryIsLast
