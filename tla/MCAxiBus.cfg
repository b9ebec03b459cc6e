CONSTANTS
  CodeLines = {l1}
  DataLines = {l1, l2, l3}
  event = event
  payload = payload
  serial = event
  Devs = {event, payload}
  LastBeat = 3
  None = None
  Script <- MCScript
SPECIFICATION GolFairSpec
INVARIANTS BusInv CommitsOnce MarkersInOrder
PROPERTIES ArStable FetchServed AccessServed
