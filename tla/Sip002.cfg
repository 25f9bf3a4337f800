SPECIFICATION SSpec
CONSTANTS
  Nodes = {"n1", "n2", "n3"}
  Groups = {"A", "B"}
  Others = {"DIRECT"}
  Members <- MCMembers
  MaxSwitches = 2
  MaxPieces = 2
  Menu <- MCMenu
  Listed = {"n1", "n2"}
  Lengths <- MCLengths
  Version <- MCVersion
  MaxLines = 3
INVARIANTS
  ReturnsNode
  AnswersSeparate
  QuietItemIsRight
  OneLineOneItem
PROPERTY PromptAnswered
