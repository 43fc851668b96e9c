SPECIFICATION FairSpec
CONSTANTS
  Values <- MCValues
  Literals <- MCLiterals
  Programs <- MCPrograms
  Half = 4
  Inputs <- MCInputs
  Address = 2
INVARIANTS TypeOK PropagationSoundBeforePhi ReturnedValuesSound ConstraintsSound ReturnRangeSound
PROPERTIES AnalysisEnds
