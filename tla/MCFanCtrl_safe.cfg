SPECIFICATION FanSpec
CONSTANTS
  MsgCount = 4
  SeqNumMod = 2
  Data = {60}
  NoData = none
  FanSpeedUpdate = 2
  ForcedFanSpeedUpdate = 3
  Unforce = unforce
  OtherSpeeds = {60}
  MaxTrips = 1
INVARIANTS ActedOnce FullDutyAfterTrip
