SPECIFICATION Spec
CONSTANTS
  Tabs = {a, b}
  MaxSaid = 2
  MaxSeals = 2
  MaxQueue <- One
  MaxLost = 1
SYMMETRY Alike
INVARIANT IndexNamesBlob
PROPERTIES ImplementsRegister DeletedStays
