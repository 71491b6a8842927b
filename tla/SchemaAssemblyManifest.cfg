\* Does the internal Reload fail when a manifest yields nothing usable (spec 4.2)?
CONSTANTS
  MaxFiles = 2
  BlankInputs = FALSE
SPECIFICATION Spec
INVARIANT UnusableManifestFails
