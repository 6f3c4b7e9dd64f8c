\* The compat readers on small files, from every position, with every size of
\* the buffer up to one that is larger than any line needs.
CONSTANTS
  Files <- MCFiles
  Sizes = {2, 5, 9, 10, 11, 14, 15, 16, 17, 24}
  Bases = {0, 1}
  Pointer = 2
  UintBits = 4
  None = None
SPECIFICATION Spec
PROPERTIES ReadConforms EntryIsLine 
