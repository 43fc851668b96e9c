SPECIFICATION Spec
CONSTANTS
  Functions <- MCFunctions
  Programs <- DelegatingPrograms
  AnswerSigns <- MCAnswerSigns
  MaxAnswers = 1
PROPERTY OnlyErrorsPropagate
CHECK_DEADLOCK FALSE
