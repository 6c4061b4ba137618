SPECIFICATION RunSpec
CONSTANTS
    s1 = s1
    s2 = s2
    movies = movies
    shows = shows
    filmsName = filmsName
    moviesName = moviesName
    showsName = showsName
    drift = drift
    Scrapers = {s1, s2}
    LibIds = {movies, shows}
    Names = {filmsName, moviesName, showsName}
    Blank = Blank
    ZeroTotals = ZeroTotals
    t1 = t1
    Totals = {ZeroTotals, t1}
    UnknownKeys = {drift}
    MaxChanges = 2
    LibLists <- MCAllLibLists
    UnknownIn <- MCUnknownIn
SYMMETRY Symmetry
INVARIANTS
    TypeOK
    CacheComplete
    UpMeansComplete
    FreshView
    DriftExposed
PROPERTIES
    ReuseWhenSettled
    CacheAdvances
    ImplementsView
