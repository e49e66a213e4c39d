SPECIFICATION FairSpec
CONSTANTS
  NCache = 2
  NPending = 3
  gw = gw
  a = a
  r = r
  p1 = p1
  p2 = p2
  p3 = p3
  p4 = p4
  OnLink = {gw, a}
  OffLink = {r}
  Gateway = gw
  NoAddr = NoAddr
  Mac = {m1, m2}
  NoMac = NoMac
  Pkt = {p1, p2, p3, p4}
  NoPkt = NoPkt
  DstOf <- MCDstOf
INVARIANTS TypeOK NoDuplicateIP CacheFresh OneCopy OnLinkWaitsUnresolved AskedWhileWaiting
PROPERTIES SentToLatestMac LossNeedsFullQueue ImplementsLinkLayer OnLinkDelivered
