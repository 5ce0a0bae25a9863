SPECIFICATION FanSpec
CONSTANTS
  MsgCount = 4
  SeqNumMod = 2
  Data = {60}
  NoData = none
  FanSpeedUpdate = 2
  ForcedFanSpeedUpdate = 3
  Unforce = unforce
  OtherSpeeds = {}
  MaxTrips = 0
INVARIANT ForcedSpeedHolds
