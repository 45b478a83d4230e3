CONSTANTS
  Scenarios = {{"mouse"}, {"button", "pointer"}, {"keyboard", "side"}, {"ime"}}
  MaxQueue = 2
  MaxClicks = 2
SPECIFICATION FairSpec
INVARIANTS
  
  PointerAgrees
  KeysAgree
PROPERTIES
  LeaveReported
