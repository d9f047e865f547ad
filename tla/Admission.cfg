SPECIFICATION AdmissionSpec
CONSTANTS
  alice = alice
  a1 = a1
  a2 = a2
  t1 = t1
  t2 = t2
  None = None
  Account <- MCAccount
  Conn <- MCConn
  Owner <- MCOwner
  Ticket <- MCTicket
  SendBuf = 2
  MaxBan = 1
INVARIANTS
  OneConnectionPerAccount
  CrowdIsOpen
  TicketOpensOnce
  BanTakesHold
PROPERTIES
  NeverSendOnClosed
  NewestStays
  EvictedGoesAway
CHECK_DEADLOCK FALSE
