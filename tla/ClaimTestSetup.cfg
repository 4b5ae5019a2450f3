SPECIFICATION Spec
CONSTANTS
  Shell <- OnlyTestSetup
  File <- DevelopmentFile
INVARIANTS
  TestSetupAccepted
