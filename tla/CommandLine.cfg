CONSTANTS
  TextSize = 4
  FontWidth = 2
  Widths <- TwoWidths
  Keys <- AllKeys
SPECIFICATION Spec
INVARIANTS Terminated
PROPERTIES HelpTellsTruth ImplementsPrompt
