SPECIFICATION PortsSpec
CONSTANTS
  keyboard = keyboard
  debug = debug
  tty = tty
  Thread = {debug, tty}
  Sender = {keyboard}
  AllThreads = AllThreads
  NoOwner = NoOwner
  NoPort = NoPort
  Uses <- MCUses
  Listens <- MCListens
INVARIANTS UnlockableUnlessRaced SearchIsRight OneQueueEach
PROPERTIES AllListen
CONSTRAINT UntilRaced
