\* Four list nodes; trees of up to eleven keys; four hashes in two rows; pools of three chunks that grow by two; a storage of four cache lines; a heap of 28 bytes; three I/O locations; words of four bits, four years of days, texts of four characters and arrays of six elements for the C library; buffers of two characters and four calls for the streams; paths of five characters.
CONSTANTS
  Nodes = {n1, n2, n3, n4}
  NullNode = NullNode
  Keys = {1, 2, 3, 4, 5, 6, 7, 8, 9, 10, 11}
  Loads <- TreeLoads
  MaxTreeOps = 3
  Data = {d1, d2}
  NoData = NoData
  Hashes = {0, 1, 2, 4}
  HashSize = 2
  MaxHashed = 4
  Binl = 2
  ChunkSize = 4
  NumItems = 3
  Delta = 2
  Bases = {0, 16, 32}
  CacheAln = 4
  Bytes = 14
  PacketsNum = 3
  StorageAt = {0, 4}
  LenSets = {{1, 4}, {5, 8}}
  Wide = 64
  KByte = 1
  MByte = 2
  BssEnd = 2
  IOMEMORY_SIZE = 32
  Answers <- MemAnswers
  Header = 4
  Word = 2
  UlongMax = 256
  MAX_IO_ALLOCS = 3
  HeapSizes = {1, 6, 9}
  IoSizes = {2, 11}
  Alignments = {0, 4}
  MaxOwned = 4
  HalfBits = 2
  Years <- CalendarYears
  MaxText = 4
  MaxArray = 6
  BUFSIZ = 2
  Inputs <- DeviceInputs
  Misreads = FALSE
  Updates = FALSE
  MaxCalls = 4
  DIR_NAMELEN = 2
  MaxPath = 5
  OnlyBesides = TRUE
SPECIFICATION Spec
CHECK_DEADLOCK FALSE
INVARIANTS ContainersSound StorageSound LibcExact StreamsSound PathsExact
PROPERTIES PromptShown
