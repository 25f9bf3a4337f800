SPECIFICATION PipelineSpec
CONSTANTS
  Nodes <- MCNodes
  Marks <- MCMarks
  Atoi <- MCAtoi
  Titles <- MCTitles
  MaxCutNodes = 2
  Addresses <- MCAddresses
  Bare = {"aead", "secret"}
  MaxNodes = 3
  Short = {"", "80"}
INVARIANTS
  EmittedAsListed
  NothingLost
  GroupsFitNodes
  LookupFindsNode
PROPERTIES
  ConvertEnds
  LookupEnds
