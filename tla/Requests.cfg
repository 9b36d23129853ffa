SPECIFICATION FairRequests
CONSTANTS
  Tokens = {"/", "wifi", "gpio", "file", "join"}
  Priorities = {1, 2, 3}
  Paths <- MCPaths
  Urls <- MCUrls
  MaxRecords = 4
  Requests <- PlainRequests
  Announces <- MCAnnounces
  BUFF_SIZE = 16
INVARIANTS BestIsCreated ContentFound FullOnlyWhenTooLong AnsweredAsAsked
PROPERTY RequestReturned
CHECK_DEADLOCK FALSE
