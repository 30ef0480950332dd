SPECIFICATION Spec
CONSTANTS
  Size = 4
  Key = {k1, k2, k3}
  NoKey = NoKey
PROPERTIES ImplementsFifo
