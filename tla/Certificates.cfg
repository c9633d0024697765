\* Two generations of CAs, with a crash or refused call, a deleted Secret or a changed address.
SPECIFICATION FairSpec
CONSTANTS
  CAValidity = 7
  CARefresh = 4
  CertValidity = 5
  CertRefresh = 2
  MaxTime = 7
  MaxGap = 1
  Deletable = {"ca", "cert"}
  MaxEvents = 1
INVARIANTS
  IssuerTrusted
  ChainValid
PROPERTIES
  CAStays
  EventuallySettled
CHECK_DEADLOCK FALSE
