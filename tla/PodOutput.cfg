\* A viewer and an observer, a ring of two and replays of one, password prompts.
SPECIFICATION Spec
CONSTANTS
  Viewer = viewer
  Observers = {observer}
  None = None
  Kinds = {"line", "text", "enter", "leave", "open", "close", "clear"}
  RingCap = 2
  TailCap = 1
  AlignScan = 1
  SwitchInPrompt = FALSE
  MaxOut = 3
  MaxUnread = 1
  MaxFlips = 2
INVARIANTS
  TypeOK
  ViewerSeesAll
  ScreenAgrees
  NoTornString
  PromptsStayHidden
  LastWordsPassedOn
CHECK_DEADLOCK FALSE
