SPECIFICATION Spec
CONSTANTS
  Pages = {"m/p"}
  Nonpages = {"m/s/n", "shared/l"}
  Assets = {"app.js"}
  Dir <- MCDir
  Uses <- MCUses
  History <- MCHistory
  Walk <- MCWalk
  Data = {1, 2}
  Clients = {c1}
  Modes = {"lazy", "preloaded"}
INVARIANTS RendererTypeOK NotModifiedIsTrue EtagNeverNewer
