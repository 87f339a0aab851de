SPECIFICATION Spec
CONSTANTS
  Base = 2
  Thousand = 10
  NoFile = NoFile
  Logs <- MCLogs
  Snapshots <- MCSnapshots
  Chunks = {1, 7, 50}
  Units <- MCUnits
  MaxAppends = 2
  MaxKills = 1
INVARIANTS StartsIffSound ReplaysTheLog LoadsTheSnapshot
PROPERTIES ManifestIsFinal
