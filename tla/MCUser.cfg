\* Slots for one pipeline, or for a background job and a shorter command; one
\* file more than a pipe needs.  Lines of up to five characters for the parser.
CONSTANTS
  MAXARGS = 3
  NPROC = 5
  NOFILE = 5
  NFILE = 4
  Lines <- MCLines
  Commands <- MCCommands
  Programs <- MCPrograms
  MaxLine = 5
  Letters = {"a", " "}
  HEAPSTART = 2
  HEAPEND = 13
  MINCORE = 3
  HDR = 2
  UINT = 64
  Requests = {2, 3}
  Gaps = {1}
  Editor = {e1, e2}
  Old <- MCOld
  BUFSIZE = 2
  MAXSIZE = 6
  WORD = 16
  Sizes <- MCSizes
  Messages <- MCMessages
SPECIFICATION MCSpec
INVARIANTS
  FilesCounted
  DescriptorsAtExec
  HeapPartition
  EditResult
PROPERTIES
  ParsesGrammar
  PromptReturns
