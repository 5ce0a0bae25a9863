SPECIFICATION MCSpec
CONSTANTS
  VuCap = 2
  VuWrap = 4
  VuBytes = {"a","b"}
  VuIrqs = {"rx","tx"}
  ThWrap = 2
  ThCtrWrap = 4
  ThT2 = 2
  ThT3 = 1
  ThSat = 2
  ThLate = 1
  ThWindow = 0
  ThPowers = {0,2,3,4}
  ThStops = {0,2,9}
PROPERTIES
  VuServed 
