SPECIFICATION Spec
CHECK_DEADLOCK FALSE
CONSTANTS
  ann = ann
  ben = ben
  film = film
  show = show
  None = None
  Account = {ann, ben}
  Title = {film, show}
  Own <- TwoOwn
  Patient = FALSE
  MaxSent = 4
INVARIANTS
  TypeOK
