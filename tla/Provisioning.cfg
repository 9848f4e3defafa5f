SPECIFICATION FairSpec
CONSTANTS
  ana = ana
  bia = bia
  casa = casa
  Emails = {ana, bia}
  Names = {casa}
  Commands = {c1, c2}
  Requests = {r1}
  Options <- MCOptions
  MaxHouses = 2
  MaxFaults = 2
INVARIANT TypeOK
INVARIANT UserHasHouse
INVARIANT SuccessMeansAccess
PROPERTY CommandsConverge
CHECK_DEADLOCK FALSE
