SPECIFICATION MCSpec
CONSTANTS
  Parts = {"dnsmessage"}
  MzLines <- MzLinesDef
  MzMaxLines = 4
  HsMaxWords = 5
  IniKeys = {"k", "K"}
  IniLowerOf <- IniLowerDef
  IniSubs = {"", "x"}
  IniValues = {"", "2"}
  IniFiles <- IniFilesDef
  IniStructs <- IniStructsDef
  IniMaxOps = 3
  IrMaxChars = 6
  IrMaxLines = 4
  DmQuestions <- DmQuestionsDef
  DmRecords <- DmRecordsDef
  DmMaxRecords = 3
  DmMaxEdits = 2
  DfTexts = {"", " ", "a", "a2", "b"}
  DfSimilar <- DfSimilarDef
  DfMaxLines = 3
  DfBytes = {"x", "y"}
  DfMaxBytes = 5
  DfMatchLen = 2
  TaRows <- TaRowsDef
  TaTypes <- TaTypesDef
  TaNames <- TaNamesDef
  TaMaxRows = 3
  TaMaxOps = 5
  DvMetas <- DvMetasDef
  DvValues <- DvValuesDef
  DvFiles <- DvFilesDef
  DvMaxWritten = 2
  DvMaxRows = 1
  SoValues = {0, 1, 2}
  SoThreshold = 3
  SoMaxLen = 8
  EcBodyChars = {"a", "_", "r", "n"}
  EcFieldChars = {"a", "A", "_", ":", "r", "n"}
  EcMaxChars = 6
  HuLines <- HuLinesDef
  HuWords <- HuWordsDef
  HuMaxLines = 5
  HuMaxWords = 2
  HuMaxDepth = 4
  DkMsgs = {1, 2}
  DkSignatures <- DkSignaturesDef
  DkZones <- DkZonesDef
  DkTTL = 1
  DkMaxClock = 3
  DkMaxSteps = 2
INVARIANT DmOffIsLen
CHECK_DEADLOCK FALSE
