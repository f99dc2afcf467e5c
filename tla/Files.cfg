SPECIFICATION MCSpec
CONSTANTS
  Parts = {"memfs", "dirwatcher", "maildir", "smtplocal", "http"}
  MfPaths <- MfPathsDef
  MfDirs <- MfDirsDef
  MfExcluded <- MfExcludedDef
  MfTyped <- MfTypedDef
  MfMaxGen = 2
  MfMaxVersion = 3
  DwPaths <- DwPathsDef
  DwDirs <- DwDirsDef
  DwExcluded = {}
  DwFirst <- DwFirstDef
  DwMaxChange = 5
  MdPids = {1, 2}
  MdMaxMail = 3
  MdMaxClock = 1
  SlMails = {"m1", "m2"}
  SlAccounts <- SlAccountsDef
  SlPrimary = "p"
  SlVirtual <- SlVirtualDef
  SlMaxRuns = 2
  SlMaxLoads = 2
  HtPaths <- HtPathsDef
  HtReqPaths <- HtReqPathsDef
  HtFiles <- HtFilesDef
  HtKinds <- HtKindsDef
  HtMaxRoutes = 2
INVARIANTS FilesTypeOK MfSound DwSound MdSound SlSound HtSound
CHECK_DEADLOCK FALSE
