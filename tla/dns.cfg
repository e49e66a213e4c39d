SPECIFICATION Spec
CONSTANTS
  NEntry = 2
  NTrack = 2
  MaxPolls = 1
  QidSpace = 8
  FirstQid = 2
  a = a
  b = b
  c = c
  bad = bad
  i1 = i1
  i2 = i2
  i3 = i3
  Name = {a, b, c, bad}
  BadName = {bad}
  NoName = NoName
  Ip = {i1, i2, i3}
  NoIp = NoIp
  Auth <- MCAuth
  MaxRecs = 2
  MaxCalls = 4
INVARIANTS DnsTypeOK AddressCorrect TracksOutstanding WaitingIsTracked
PROPERTY StableBinding
CHECK_DEADLOCK FALSE
