SPECIFICATION Spec
CONSTANTS
  proxy = proxy
  client = client
  other = other
  junk = junk
  key = key
  metrics = metrics
  None = None
  DefaultKey = DefaultKey
  Malformed = Malformed
  Keys <- MCKeys
  Texts <- MCTexts
  Parse <- MCParse
  LocalProxies <- MCLocal
  Envs <- MCEnvs
  Requests <- MCRequests
  Records <- MCRecords
  APODMaxAge = 1
  PictureMaxAge = 2
INVARIANTS StaleAtMostMaxAge FarHopsDoNotMatter ProductionKeepsApart
