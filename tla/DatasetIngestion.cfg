SPECIFICATION DataFairSpec
CONSTANTS
  table = table
  series = series
  entry = entry
  broken = broken
  service = service
  file = file
  old = old
  new = new
  bad = bad
  DataRuns = {r1, r2}
  Tables = {table}
  Series = {series}
  Packages = {entry}
  Portal = {entry}
  FilesOf <- EntryFiles
  Tabular <- NoService
  Path <- BrokenFirst
  Visits <- InOrder
  MaxFiles = 2
  Data = {old, new, bad}
  Refused = {bad}
  Unreadable = Unreadable
  Raises = Raises
  Unparsable = Unparsable
  NoData = NoData
  Texts <- SomeTexts
  FirstBodies <- BrokenOrOld
  FirstLicences <- NoneOrNC
  FirstTerms <- RespeltTerms
  NextBodies <- OldNewOrBad
  MaxChanges = 1
  MaxFaults = 1
INVARIANTS
  NoEcho
  LicenceGate
PROPERTIES
  RevisionArrives
