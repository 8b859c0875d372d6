SPECIFICATION Spec
CHECK_DEADLOCK FALSE
CONSTANTS
  ann = ann
  ben = ben
  film = film
  show = show
  None = None
  Account = {ann}
  Title = {film, show}
  Own <- OneOwn
  Patient = FALSE
  MaxSent = 4
INVARIANTS
  Converged
