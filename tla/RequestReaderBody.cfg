SPECIFICATION FairRequests
CONSTANTS
  Tokens = {"/", "wifi", "gpio", "file", "join"}
  Priorities = {2}
  Paths = {}
  Urls = {}
  MaxRecords = 2
  Requests <- LineRequests
  Announces <- MCAnnounces
  BUFF_SIZE = 18
PROPERTY RequestReturned
CHECK_DEADLOCK FALSE
