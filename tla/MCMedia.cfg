SPECIFICATION Spec
CONSTANTS
  Ahead = 2
  Costs = {0, 4}
  SampleRates = {16000, 8000}
  IrSignals = {17}
  IrRepeats = {1}
  Stalls = {60}
INVARIANTS TypeOK MicSurvives KeySync
PROPERTIES OverflowMeansHeldUp RecoveryShortens
