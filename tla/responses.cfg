\* Two clients behind one cache, two replicas that roll.
SPECIFICATION FairSpec
CONSTANTS
  Clients = {c1, c2}
  Replicas = {r1, r2}
  Snapshots = 2
  Sources = {1, 2}
  Features <- MCFeatures
  Datasets <- MCDatasets
  Urls <- MCUrls
  Headers <- MCHeaders
  None = None
  Malformed = Malformed
INVARIANTS
  AnswersAreOwn
  AnswersAreReadable
PROPERTIES
  ErrorsAreLive
  AnswersCatchUp
