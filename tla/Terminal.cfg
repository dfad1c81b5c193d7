SPECIFICATION Spec
CONSTANTS
  COLS = 4
  ROWS = 4
  WORD = 64
  Newline = "n"
  Blank = " "
  ColourCode <- Colours
  BUFFER_MAX = 4
  Letter <- Letters
  Tab = "q"
  NTasks = 2
  Clear <- ClearLine
  Matrix <- MatrixLine
  Info <- InfoLine
  Prompt <- PromptText
  Banner <- BannerText
  Report <- ReportText
  Complaint <- ComplainText
  Starting <- StartText
  Halted <- HaltText
  Digit = "1"
INVARIANTS
  TypeOK
  LineInSync
