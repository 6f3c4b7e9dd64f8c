\* The index of a map is made, and made again, while it is searched and while the
\* map is replaced.
CONSTANTS
  Versions <- MCVersions
  Keys <- MCKeys
  Pad = 6
  Page = 16
  Wide = 39
  MaxTime = 1
SPECIFICATION Spec
PROPERTIES FoundIsRight MissOnlyWhileWritten AgeWindow
