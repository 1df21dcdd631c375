CONSTANTS
    GeoThreads = {t1}
    Places = {1, 3}
    FarPlaces = {}
    ShortPlaces = {}
    CacheSize = 2
    MaxRequests = 3
    MaxLives = 1
SPECIFICATION GeoSpec
INVARIANT MapsAreAlive
CHECK_DEADLOCK FALSE
