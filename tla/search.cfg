SPECIFICATION SearchSpec
CONSTANTS
  Modes <- MCModes
  IndexOf <- MCIndexOf
  Startup <- MCStartup
  Files <- MCFiles
  Starts <- MCStarts
  Texts = {"", "a"}
  Empty = ""
  MaxEvents = 2
INVARIANTS ResultsAreCurrent DetailsFollowSelection
PROPERTIES HitsFitTheScreen LastQueryAnswered
