SPECIFICATION FairSpec
CONSTANTS
  Functions <- MCFunctions
  Programs <- MCPrograms
  AnswerSigns <- MCAnswerSigns
  MaxAnswers = 1
INVARIANTS TypeOK InitialSpecsKept WithinRange EmptysetExclusive
PROPERTIES CertainKept ChangesAreProgress OnlyErrorsPropagateWithoutLlm TerminatesWithoutLlm
CHECK_DEADLOCK FALSE
