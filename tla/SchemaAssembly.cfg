CONSTANTS
  MaxFiles = 2
  BlankInputs = TRUE
SPECIFICATION Spec
INVARIANT NoEscapeResolved
INVARIANT DemoNoEscapeResolved
INVARIANT DemoJoinedInInputOrder
INVARIANT DemoUnusableManifestFails
