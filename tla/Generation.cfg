SPECIFICATION Spec
CONSTANTS
  Calls = {1, 2}
  MaxRetries = 3
  Scenarios <- MCScenarios
  Pools = {{}, {"short", "brief", "long"}}
  Short = {"short", "brief"}
  ExampleSample = 1
  MaxReloads = 1
CHECK_DEADLOCK FALSE
INVARIANTS TokenIsShared PromptTellsTheHistory
