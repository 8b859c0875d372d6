SPECIFICATION Spec
CONSTANTS
  web = web
  web2 = web2
  phone = phone
  film = film
  tv1 = tv1
  lib1 = lib1
  lib2 = lib2
  tmdb = tmdb
  tmdbSeries = tmdbSeries
  library = library
  p20 = p20
  p40 = p40
  None = None
  Series = {tmdbSeries, library}
  Tmdb = {tmdb}
  SeriesInIdentity <- MCSeriesInIdentity
  TmdbInIdentity <- MCTmdbInIdentity
  TmdbOfSeries <- MCTmdbOfSeries
  Device = {web}
  Item = {film}
  Pos = {p20}
  Entry <- FilmEntry
  Removal <- FilmRemoval
  Versioned = {web}
  Skew <- FarAheadSkew
  FutureCap = 1
  Retention = 4
  Lifetime = 3
  MaxTime = 4
  MaxMade = 2
INVARIANTS
  DeletesStay
