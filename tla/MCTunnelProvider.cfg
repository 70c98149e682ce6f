CONSTANTS
  Conns = {c1, c2}
  Networks = {wifi, cellular}
  MaxChanges = 4
  SettingsMayFail = TRUE
SPECIFICATION Spec
SYMMETRY ConnSymmetry
INVARIANT TypeOK
INVARIANT ServerUpOnceStarted
INVARIANT NoTunnelOutlivesRestart
INVARIANT CrashesInRacesOnly
