\* Does the internal Reload join the parts in the configured order (spec 4.2)?
CONSTANTS
  MaxFiles = 2
  BlankInputs = FALSE
SPECIFICATION Spec
INVARIANT JoinedInInputOrder
