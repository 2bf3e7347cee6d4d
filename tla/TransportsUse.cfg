SPECIFICATION Spec
CONSTANTS
  Configs <- MCConfigs
  Scans <- MCScans
  MaxConns = 2
  MaxLinks = 3
  MaxDrops = 1
  MaxCancels = 1
INVARIANTS TypeOK UpIsUp NoStray LinkReleased RelaysCollapse
PROPERTIES OpsEnd
