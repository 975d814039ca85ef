\* Three sources, two labels, two saves.
CONSTANTS
  Sources = {s1,s2,s3}
  Slugs = {a, b}
  NoLabel = NoLabel
  NoKey = NoKey
  MaxSaves = 2
  MaxEdits = 6
SYMMETRY Symmetry
SPECIFICATION PageSpec
INVARIANT TableInvariant
PROPERTY UndisturbedKeysStay
