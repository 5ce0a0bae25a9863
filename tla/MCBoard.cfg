SPECIFICATION MCSpec
CONSTANTS
  Causes = {"perst", "watchdog", "request"}
  FlPages = 4
  FlSector = 2
  FlCalls = 4
PROPERTIES
  BusRecovers HungRecovered FlDone
