SPECIFICATION Spec
CONSTANTS
  Tags = {1, 2, 3}
  Digests = {"old", "new", "multi"}
  Details <- MCDetails
  NoDigest = "nothing"
  Platforms = {"linux/amd64", "linux/arm64"}
  Keys = {"tier"}
  Queries <- MCQueries
  MaxChanges = 2
INVARIANTS Sound Complete LatestDated FailuresTrue
