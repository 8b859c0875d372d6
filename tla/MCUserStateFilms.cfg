SPECIFICATION Spec
CONSTANTS
  web = web
  web2 = web2
  phone = phone
  film = film
  tv1 = tv1
  lib1 = lib1
  lib2 = lib2
  tmdb = tmdb
  tmdbSeries = tmdbSeries
  library = library
  p20 = p20
  p40 = p40
  None = None
  Series = {tmdbSeries, library}
  Tmdb = {tmdb}
  SeriesInIdentity <- MCSeriesInIdentity
  TmdbInIdentity <- MCTmdbInIdentity
  TmdbOfSeries <- MCTmdbOfSeries
  Device = {web, web2}
  Item = {film}
  Pos = {p20, p40}
  Entry <- FilmEntry
  Removal <- FilmRemoval
  Versioned = {web, web2}
  Skew <- DriftingSkew
  FutureCap = 4
  Retention = 2
  Lifetime = 1
  MaxTime = 3
  MaxMade = 3
SYMMETRY PositionSymmetry
INVARIANTS
  TypeOK
  ProgressHoldsNewest
  TablesAgree
  DeletesStay
PROPERTIES
  ProgressImplementsRegister
