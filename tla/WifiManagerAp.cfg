SPECIFICATION Spec
CONSTANTS
  Clients = {c1}
  WIFI_DISC_SCAN_INTERVAL = 1
  WIFI_CONN_SCAN_INTERVAL = 2
  TIMER_PERIOD = 1
  MaxEvents = 2
  MaxJoins = 1
  ScanStartMayFail = FALSE
INVARIANT ApOffWhenConnected
