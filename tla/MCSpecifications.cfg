SPECIFICATION FairSpec
CONSTANTS
  Clients = {"c1", "c2"}
  Callers = {"c1", "c2"}
  Requesters = {"c1", "c2"}
  Uris = {"u1", "u2"}
  Contents <- MCContents
  Nothing = ""
  Length <- MCLength
  Parses <- MCParses
  Annotated <- MCAnnotated
  Files <- MCFiles
  Missing = Missing
  kChunkSize = 2
  MaxCrashes = 1
  TagFiles <- MCTagFiles
  Replies <- MCReplies
  Attempts = 2
  Scenarios <- MCScenarios
  Functions <- MCFunctions
INVARIANTS TypeOK StoredAreOfFile DownloadsWhole ServerSurvives HandlesResolve UriRecordedOnce DoneMeansStored DefinitionFound CacheComplete FirstReplyKept
PROPERTIES CommandsEnd
CHECK_DEADLOCK FALSE
