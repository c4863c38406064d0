SPECIFICATION FairSpec
CONSTANTS
  Methods = {"PUB", "MSG"}
  Characters <- MCCharacters
  Routes <- MCRoutes
  Topics <- MCTopics
  MaxRoutes = 2
INVARIANTS HandlerIsCallable
