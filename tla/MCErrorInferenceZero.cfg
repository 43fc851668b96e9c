SPECIFICATION Spec
CONSTANTS
  Functions <- MCFunctions
  Programs <- StaticPrograms
  AnswerSigns = {}
  MaxAnswers = 0
INVARIANT ZeroIsSuccess
CHECK_DEADLOCK FALSE
