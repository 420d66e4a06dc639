SPECIFICATION Spec
CONSTANTS
  c1 = c1
  c2 = c2
  NULL = NULL
  Clients <- TwoClients
  Keymaps <- Keyboards
  Chords <- Held
INVARIANT
  OwnClicks
PROPERTY
  PressIsMeant
