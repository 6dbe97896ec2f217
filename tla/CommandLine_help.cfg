CONSTANTS
  TextSize = 4
  FontWidth = 2
  Widths <- TwoWidths
  Keys <- HelpKeys
SPECIFICATION Spec
PROPERTIES HForHelp
