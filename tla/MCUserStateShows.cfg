SPECIFICATION Spec
CONSTANTS
  web = web
  web2 = web2
  phone = phone
  film = film
  tv1 = tv1
  lib1 = lib1
  lib2 = lib2
  tmdb = tmdb
  tmdbSeries = tmdbSeries
  library = library
  p20 = p20
  p40 = p40
  None = None
  Series = {tmdbSeries, library}
  Tmdb = {tmdb}
  SeriesInIdentity <- MCSeriesInIdentity
  TmdbInIdentity <- MCTmdbInIdentity
  TmdbOfSeries <- MCTmdbOfSeries
  Device = {web, phone}
  Item = {lib1, lib2, tv1}
  Pos = {p20}
  Entry <- ShowEntry
  Removal <- ShowRemoval
  Versioned = {web}
  Skew <- ExactSkew
  FutureCap = 3
  Retention = 2
  Lifetime = 1
  MaxTime = 2
  MaxMade = 3
INVARIANTS
  OneEntryPerShow
  SavesAreKept
PROPERTIES
  ContinueImplementsRegister
