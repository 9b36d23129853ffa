SPECIFICATION Spec
CONSTANTS
  Tasks = {t1, t2}
  Requests = {"read", "exchange", "serial_bad"}
  UART_QUEUE_SIZE = 2
  BUFF_SIZE = 1
  MaxFds = 2
  FileLength = 1
  Expected = {1, 2}
  CHUNK = 1
  MaxBacklog = 1
  MaxResponses = 1
SYMMETRY Symmetry
INVARIANTS LengthDelivered
