SPECIFICATION Spec
CONSTANTS
  w1 = w1
  w2 = w2
  Workers = {w1}
  Foreground = Foreground
  Retries = 3
  MaxTokens = 3
  MaxFlaps = 2
  MaxHandshakes = 2
  MaxPeers = 2
CHECK_DEADLOCK FALSE
PROPERTIES
  RenewalInTime
  FailureEndsTunnel
