SPECIFICATION FairSpec
CONSTANTS
  LeaseId = {l1}
  FirstLease = l1
  Sha <- Two
  NoSha = 0
  Pr = {staging, final}
  Staging = staging
  Final = final
  NoPr = NoPr
  Source = {s1}
  NoSource = NoSource
  NoLease = NoLease
  NoReservation = NoReservation
  NoRelease = NoRelease
  p1 = p1
  p2 = p2
  Proc = {p1, p2}
  Nobody = Nobody
  Commands <- Division
  Kinds = {"feature"}
  ExternalFaults = FALSE
  MaxVersion <- Versions
  MaxCrashes = 1
  MaxEdits <- Edits
PROPERTY ReservationResolved
CHECK_DEADLOCK FALSE
