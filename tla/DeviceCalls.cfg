SPECIFICATION AllSpec
CONSTANTS
  RBLEN_SIZE = 24
  CAPR_DATA_OFF = 16
  AddressSpace = 48
  FrameLength = {1}
  MaxFrames = 4
  packets = 4
  MaxExtras = 2
  App = {a1}
  LinkWhileStopped = FALSE
  Drivers = {1, 2, 3, 4}
  Kind <- DriverKind
  Units = {0, 1}
  FD_MAX = 2
  MaxDevices = 3
  Vectors = {20, 33, 50, 99}
  MAX_VECTOR = 96
  Takers = {o1, o2}
  MaxNest = 3
  UintMax = 15
  NEXITS = 2
  PanicAt = {"libs", "drivers", "kernel", "running"}
  PanicBy = {1, 2}
  Freq = 23
  MsPerSec = 10
  MinCounter = 2
  MaxCounter = 12
  DefaultMs = 4
  Clients = {c1, c2}
  PeriodsMs = {1, 3, 30}
  Infinite = 99
  InCallbacks = FALSE
  Slack = 1
  MaxTime = 14
  IfNames = {1, 2, 3, 4}
  MaxInterfaces = 5
  LoWords = 9
  LoSizes = {1, 5}
  RxSizes = {5}
  MaxPackets = 3
  X_MAX = 3
  Y_MAX = 3
  VRAM_FRAME_NUM = 4
  BackAnywhere = FALSE
  MaxChars = 5
  ModifierKeys = {"LSHIFT", "RSHIFT", "CAPSLOCK"}
  MaxKeys = 6
  MAX_PCI_BUSSES = 2
  MAX_PCI_DEVS = 1
  MAX_PCI_FUNCS = 3
  Ids = {1}
  ConfigBytes = 8
  MaxWrites = 3
  TIMER_STAGE3 = 3
  LineSize = 5
  LongLines = FALSE
  Prompt = TRUE
  SlowFarewell = FALSE
  MayLackMemory = FALSE
  MaxNow = 6
  MaxPressed = 4
  Segment = 2
  PerTrack = 3
  Cylinders = 5
  ImageSizes = {1, 4, 18}
  Partitions <- Tables
  Edits <- TableEdits
  SectorBits = 64
  KnowsDF = TRUE
  BASE_VALUE = 4
  LongBits = 7
  Millis = {3, 5, 8, 13, 31, 33, 64, 70}
  Overhead = 1
  Rates = {1, 3}
  PerSecond = 5
  REF_FREQ = 100
  MicroPerMilli = 4
  PageBits = 3
  MaskBits = 5
  PhysBits = {3, 5}
  MtrrCount = 2
  AnyRange = FALSE
  RowBytes = 3
  Rows = 4
  FontHeight = 2
  Glyph <- Font
  Xs = {0, 7, 8, 13, 22}
  Ys = {0, 3}
  Pitch = 10
  XResolution = 10
  Lines = 5
  Texts <- Strings
  Modes <- BiosModes
  TextBoxes <- ScreenBoxes
  FillChars = {65}
  MaxDrawn <- DrawnBound
  MaxShown = 5
CHECK_DEADLOCK FALSE
INVARIANTS NetworkSound DevicesSound ClockSound MachineSound ConsoleSound
PROPERTIES QueuesDrain HoldersKeep
