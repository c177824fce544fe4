SPECIFICATION Spec
CONSTANTS
  Size = 4
  Regs = 3
  Values = 2
  Programs <- AllPrograms
  Careful = FALSE
PROPERTY StallsLoseNothing
