SPECIFICATION Spec
CHECK_DEADLOCK FALSE
CONSTANTS
  ann = ann
  ben = ben
  film = film
  show = show
  None = None
  Account = {ann, ben}
  Title = {film, show}
  Own <- TwoOwn
  Patient = TRUE
  MaxSent = 6
INVARIANTS
  Converged
