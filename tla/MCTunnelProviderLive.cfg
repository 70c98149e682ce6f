CONSTANTS
  Conns = {c1}
  Networks = {wifi, cellular}
  MaxChanges = 3
  SettingsMayFail = FALSE
SPECIFICATION FairSpec
PROPERTY OutageReconnects
