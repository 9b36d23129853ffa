SPECIFICATION FairWebSpec
CONSTANTS
  Tasks = {t1, t2}
  Requests = {"file", "missing", "join", "read", "exchange", "serial_bad", "gpio_val"}
  UART_QUEUE_SIZE = 2
  MaxFds = 2
  FileLength = 2
  Expected = {1, 2}
  CHUNK = 1
  MaxBacklog = 1
  MaxResponses = 1
INVARIANT LengthDelivered
PROPERTIES ServiceStarts BacklogDrains
