SPECIFICATION Spec
CONSTANTS
  ReleaseFiles <- MCReleaseFiles
  MaxVersion = 2
INVARIANTS
  FailureStops
  UpgradeConverges
