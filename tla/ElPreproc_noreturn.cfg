SPECIFICATION NoReturnSpec
CONSTANTS
  Lines <- NoReturnLines
  MaxLines = 5
  MaxItems = 2
  OpLimit = 60
  CallLimit = 2
  IncludeLimit = 2
PROPERTIES ReturnsFromBody
