\* Two runs and two edits, with values the operator tells apart.
SPECIFICATION Spec
CONSTANTS
  CapturedVars <- MCCapturedVars
  KeyVar = "MESHTASTIC_AGENT_KEY"
  Template <- MCTemplate
  Values = {v1, v2}
  v1 = v1
  v2 = v2
  MaxRuns = 2
  MaxEdits = 2
SYMMETRY Symmetry
INVARIANTS
  KeptOrExported
  ExportedHasOneLine
\* The operator may leave it at that.
CHECK_DEADLOCK FALSE
