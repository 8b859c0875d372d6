SPECIFICATION FairSpec
CONSTANTS
  film = film
  episode = episode
  NoTitle = NoTitle
  Title = {film, episode}
  MaxRetries = 1
  MaxSaves = 2
  MaxGeneration = 1
INVARIANTS
  TypeOK
  NothingForgotten
PROPERTIES
  OnlyOwnerSends
  SavedInTheEnd
