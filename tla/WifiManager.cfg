SPECIFICATION FairSpec
CONSTANTS
  Clients = {c1}
  WIFI_DISC_SCAN_INTERVAL = 1
  WIFI_CONN_SCAN_INTERVAL = 2
  TIMER_PERIOD = 1
  MaxEvents = 2
  MaxJoins = 2
  ScanStartMayFail = TRUE
INVARIANTS LinkTracked ScanTracked ListingNotTorn ApModeHasAp
PROPERTIES ScanNotDuringConnect HandlersExclude Reconnects ApOffered StableLinkIsSafe ScansRecur
