SPECIFICATION Spec
CONSTANTS
  flow = flow
  geoip = geoip
  geosite = geosite
  old = old
  new = new
  other = other
  None = None
  File <- MCFile
  Content <- MCContent
  Raw <- MCRaw
  UserList <- MCUserList
  Tag <- MCTag
  Key <- MCKey
  Extra = {flow}
  EmailKeyed <- MCEmailKeyed
  InjectAPI = TRUE
  MaxTime = 3
INVARIANTS
  TypeOK
  CoreServesActiveUsers
  OneAccountPerEmail
  HotLikeRestart
  ApiReachable
  OfflineCanStart
  OnlyListedGeodata
PROPERTIES
  OnlyAccountsDiffer
  VersionHasItsGeodata
