\* A record is longer than the sixteen bytes of the script.
CONSTANTS
  Versions <- MCLongVersions
  Keys <- MCLongKeys
  Pad = 6
  Page = 16
  Wide = 99
  MaxTime = 0
SPECIFICATION Spec
PROPERTIES IndexedKeyFound
