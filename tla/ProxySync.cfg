CONSTANTS
  Syncs = {s1, s2}
  Urls = {u1, u2}
  Plans <- MCPlans
  Subtype <- MCSubtype
  NoPlan = NoPlan
  Listed <- MCListed
  PageSize = 1
  NoPool = NoPool
  SyncPool = SyncPool
  ImportPool = ImportPool
  AdminPool = AdminPool
  AdminTypes = {"isp"}
  MaxMishaps = 2
SPECIFICATION SyncSpec
INVARIANT EventTellsState
PROPERTIES
  SyncsAreFaithful
  TableConverges
