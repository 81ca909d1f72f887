SPECIFICATION FairSpec
CONSTANTS
  led = led
  poll = poll
  Threads <- MCThreads
  Addrs <- MCAddrs
  Vals = {0, 64}
  NoCall = NoCall
  Free = Free
PROPERTIES
  AccessIsAtomic
  CallsReturn
