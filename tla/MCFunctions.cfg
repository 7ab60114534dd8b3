SPECIFICATION Spec
CONSTANTS
  MaxLoad = 5
  MaxFleet = 6
  Second = 4
  RampUps = {0, 3, 8}
  MaxElapsed = 13
  Codes = {200, 404, 503, 700}
  MaxResults = 5
INVARIANTS
  LoadConserved
  SearchFindsFirst
  FleetFollowsCurve
  HonestSnapshotAccepted
CHECK_DEADLOCK FALSE
