SPECIFICATION ReloadSpec
CONSTANTS
  Contents <- MCContents
  Reloaders = {r1, r2}
  MaxEdits = 2
  Nobody = Nobody
  MaxRenewals = 4
  MaxTime = 4
CHECK_DEADLOCK FALSE
INVARIANTS InUseIsComplete HandshakeServesFiles
PROPERTIES ReloadsInOrder ReportedIsLoaded StopSettles
