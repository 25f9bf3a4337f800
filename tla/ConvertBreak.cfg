SPECIFICATION PipelineSpec
CONSTANTS
  Nodes <- MCNodes
  Marks <- MCMarks
  Atoi <- MCAtoi
  Titles <- MCTitles
  MaxCutNodes = 2
  Addresses <- MCAddresses
  Bare = {"aead", "secret"}
  MaxNodes = 2
  Short = {"", "80"}
INVARIANT LeavesLoopAtSequenceEnd
