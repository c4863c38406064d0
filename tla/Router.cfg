SPECIFICATION FairSpec
CONSTANTS
  Methods = {"PUB", "MSG"}
  Characters <- MCCharacters
  Routes <- MCRoutes
  Topics <- MCTopics
  MaxRoutes = 3
INVARIANTS RouterTypeOK LinksAgree NoPanic FoundFitsTopic FindIsResolve
PROPERTIES FindReturns
