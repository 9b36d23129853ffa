SPECIFICATION Spec
CONSTANTS
  Tasks = {t1, t2}
  Requests = {"file", "missing", "post_file", "bad_url", "join", "join_bad", "list", "read",
              "write", "exchange", "serial_bad", "gpio_val", "gpio_dir", "gpio_bad"}
  UART_QUEUE_SIZE = 2
  BUFF_SIZE = 1
  MaxFds = 2
  FileLength = 1
  Expected = {1, 2}
  CHUNK = 1
  MaxBacklog = 1
  MaxResponses = 1
SYMMETRY Symmetry
INVARIANTS PortAccounted FdsAccounted FilesServed
PROPERTY JoinAfterAnswer
