SPECIFICATION Spec
CONSTANTS
  Pins = {h1}
  MinAge = 2
  Ttl = 2
  Period = 1
  Margin = 1
  MaxVersion = 3
  MaxPending = 1
  MaxLive = 1
  Casts = {{"reader","copy"}}
  None = None
INVARIANT RootCheckSuffices
