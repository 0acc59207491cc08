SPECIFICATION Spec
CONSTANTS
  Ahead = 0
  Costs = {4}
  SampleRates = {16000, 8000}
  IrSignals = {17}
  IrRepeats = {1}
  Stalls = {60}
PROPERTIES CatchesUp
