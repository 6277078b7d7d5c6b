SPECIFICATION FloorSpec
CONSTANTS
  None = None
  Policy = "learning"
  Topics = {"menus"}
  Rooms = {"shop", "camp", "fight", "mark"}
  Hps = {2, 3}
  MaxHp = 4
  MaxLost = 1
  Stride = 4
  FocusLimit = 2
  Deals <- MCDeals
  MaxTurn = 2
  Queueable = {"strike", "armaments"}
  MaxMissed = 1
  Maps <- AllMaps
  Viewports <- MCViewports
  Purses <- MCPurses
  Policies <- MCPolicies
  Belongings = {"few"}
  Offered <- MCOffered
  MaxMoment = 1
  Bosses = {"hexaghost", "guardian"}
  MaxViews = 2
  MAX_CONTINUATIONS = 3
  Unseen = Unseen
CHECK_DEADLOCK FALSE
PROPERTY NoOpIsNoSuccess
