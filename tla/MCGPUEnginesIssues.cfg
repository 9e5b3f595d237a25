SPECIFICATION Spec
CONSTANTS
  Cards = {g1, g2}
  Intel = {g1, g2}
  Unlinked = unlinked
  Events = {render, copy}
  Clients = {c}
  MaxEmptyWalks = 1
  RetryEvery = 2
  OpenRetry = 1
SYMMETRY Symmetry
PROPERTY
  OnlyOpenFailuresAreDropped
