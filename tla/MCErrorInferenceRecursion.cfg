SPECIFICATION FairSpec
CONSTANTS
  Functions <- MCFunctions
  Programs <- RecursivePrograms
  AnswerSigns <- MCAnswerSigns
  MaxAnswers = 1
PROPERTIES Terminates
CHECK_DEADLOCK FALSE
