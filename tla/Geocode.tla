------------------------------ MODULE Geocode -------------------------------
(***************************************************************************)
(* Addresses and maps for positions (src/src/geoloc_cache.c, geoloc.c).    *)
(* Tracker and command threads look a position up in a cache, ask Google   *)
(* when it is not there, and put the answer into the cache.  There are two *)
(* caches, of addresses and of maps, which have nothing in common but the  *)
(* threads: a behaviour here uses one of them.  A cache is an array that   *)
(* is filled in turn, saved when the daemon stops and read back when it    *)
(* starts.  No mutex protects it, so an update is several steps.           *)
(*                                                                         *)
(* A position is a number; gpsdist_m is the distance of two numbers.  An   *)
(* address or a map is known by the position it is for.  How often and     *)
(* when Google is asked is in RateLimit.  The counters of lookups and hits *)
(* are left out.                                                           *)
(***************************************************************************)
EXTENDS Integers, Sequences, FiniteSets

CONSTANTS GeoThreads,   \* threads that look positions up
          Places,       \* positions
          FarPlaces,    \* those with |lat| or |lon| below 1 or above 89
          ShortPlaces,  \* those with an address of less than 5 characters
          CacheSize,    \* geocache_address_size, geocache_minimap_size
          MaxRequests,  \* bound: requests of all threads, see RequestCost
          MaxLives      \* bound: starts of the daemon

ASSUME GeocodeAssumption ==
    /\ Places \subseteq Nat \ {0}
    /\ FarPlaces \subseteq Places
    /\ ShortPlaces \subseteq Places
    /\ CacheSize \in Nat \ {0}
    /\ MaxRequests \in Nat \ {0}
    /\ MaxLives \in Nat

None    == 0
Zooms   == {"overview", "detailed"}
Indexes == 0..(CacheSize - 1)

VARIABLES
    kind,       \* the cache of this behaviour: "addr" or "map"
    proximity,  \* address_lookup_proximity
    cache,      \* address_cache or minimap_cache
    cidx,       \* address_cache_idx, minimap_cache_idx: next position to fill
    cnum,       \* address_cache_num, minimap_cache_num
    cmax,       \* cache_max_idx of cache_stats
    cfile,      \* the saved cache, a line for each entry
    url,        \* the static buffer of get_geocode_url, get_staticmap_url
    gpc,        \* where each thread is
    want,       \* the position it asks for, the map of the two, the number of its request
    asked,      \* the position in the request it sends
    hit,        \* index of the entry it found
    given,      \* the last address a thread was given
    images,     \* the maps a thread holds
    freed,      \* maps that were freed
    requests,   \* requests so far
    lives,      \* starts so far
    saved,      \* this daemon has saved its cache
    calm,       \* history: no two threads ever met in the cache
    wrapped,    \* history: the cache was full once
    torn,       \* history: a file was not completely written or read
    wild        \* an index past the end of the cache was used: anything may follow

configVars == <<kind, proximity, lives>>
cacheVars  == <<cache, cidx, cnum, cmax, wrapped, freed>>
geoFileVars   == <<cfile, saved, torn>>
threadVars == <<gpc, want, asked, hit, given, images>>
geoVars == <<configVars, cacheVars, geoFileVars, url, threadVars, requests, calm, wild>>

\* lat/lon as text, whether the texts lost their last character, lat/lon as numbers,
\* zoom, the position the address or map is for, number of the map.
NoEntry  == [key |-> None, cut |-> FALSE, pos |-> None, zoom |-> "none", of |-> None, id |-> None]
NoWant   == [place |-> None, zoom |-> "overview", n |-> 0]
NoAddress == [place |-> None, of |-> None, cut |-> FALSE]
NoImages == [z \in Zooms |-> [of |-> None, id |-> None]]

GeoInit ==
    /\ kind = "addr" /\ proximity = 0 /\ lives = 0
    /\ cache = [i \in Indexes |-> NoEntry]
    /\ cidx = 0 /\ cnum = 0 /\ cmax = 0
    /\ cfile = <<>>
    /\ url = None
    /\ gpc = [t \in GeoThreads |-> "off"]
    /\ want = [t \in GeoThreads |-> NoWant]
    /\ asked = [t \in GeoThreads |-> None]
    /\ hit = [t \in GeoThreads |-> 0]
    /\ given = [t \in GeoThreads |-> NoAddress]
    /\ images = [t \in GeoThreads |-> NoImages]
    /\ freed = {}
    /\ requests = 0
    /\ saved = FALSE /\ calm = TRUE /\ wrapped = FALSE /\ torn = FALSE /\ wild = FALSE

-----------------------------------------------------------------------------
(* Distances and matches                                                   *)

gpsdist_m(p, q) == IF p >= q THEN p - q ELSE q - p

\* One map serves a wider area in the overview: 15 times the quotient of the zooms in
\* the code.
OverviewFactor == 2
\* Mutant: the wider area for maps of both zooms.
proximity_dist_wide(z) == IF kind = "map" THEN proximity * OverviewFactor ELSE proximity
proximity_dist(z) == IF kind = "map" /\ z = "overview" THEN proximity * OverviewFactor ELSE proximity

Matches(e, p, z) ==
    /\ kind = "map" => e.zoom = z
    /\ IF proximity_dist(z) > 0
       THEN e.pos # None /\ gpsdist_m(p, e.pos) <= proximity_dist(z)
       ELSE e.key = p /\ ~e.cut

\* The search stops at the first entry without lat.
Reached(i)   == \A j \in 0..i : cache[j].key # None
FoundIn(p, z) == {i \in Indexes : Reached(i) /\ Matches(cache[i], p, z)}
\* Mutant: the index is raised once more after the match.
FirstAfter(S) == 1 + (CHOOSE i \in S : \A j \in S : i <= j)
FirstOf(S)   == CHOOSE i \in S : \A j \in S : i <= j
Larger(a, b) == IF a > b THEN a ELSE b

\* Threads between the choice of an entry and the end of its use.
ActiveThreads == {t \in GeoThreads : gpc[t] \in {"found", "setopt", "put1", "put2", "put3", "put4"}}
Meet(t) == calm' = (calm /\ ActiveThreads \subseteq {t})

Goto(t, pc) == gpc' = [gpc EXCEPT ![t] = pc]
At(t, pc)   == gpc[t] = pc /\ ~wild

-----------------------------------------------------------------------------
(* A request                                                               *)

\* Part of the bound: only the first two requests may meet, and only in the cache of
\* addresses.
Met == \E t \in GeoThreads : gpc[t] # "idle"
RequestCost == IF Met THEN (IF kind = "addr" THEN MaxRequests - 1 ELSE MaxRequests + 1) ELSE 1

\* get_address_from_latlon and get_minimap_from_latlon, called for mails and for commands.
\* staticmap_rate_24h_exceeded is never set: maps are never refused.
Request(t, p) ==
    /\ At(t, "idle")
    /\ requests + RequestCost <= MaxRequests
    /\ requests' = requests + RequestCost
    /\ want' = [want EXCEPT ![t] = [place |-> p, zoom |-> "overview", n |-> requests]]
    /\ Goto(t, "search")
    /\ UNCHANGED <<configVars, cacheVars, geoFileVars, url, asked, hit, given, images, calm, wild>>

\* in_address_cache and in_minimap_cache; update_cache_stat raises cache_max_idx for hits.
in_cache(t) ==
    LET S == FoundIn(want[t].place, want[t].zoom) IN
    /\ At(t, "search")
    /\ Meet(t)
    /\ \/ /\ S = {}
          /\ Goto(t, "url")
          /\ UNCHANGED <<hit, cmax>>
       \/ /\ S # {}
          /\ Goto(t, "found")
          /\ hit' = [hit EXCEPT ![t] = FirstOf(S)]
          /\ cmax' = Larger(cmax, FirstOf(S))
    /\ UNCHANGED <<configVars, cache, cidx, cnum, wrapped, freed, geoFileVars, url, want, asked, given,
                   images, requests, wild>>

\* What a call kept on its stack is gone when it returns.
ForgetLocals(t) == asked' = [asked EXCEPT ![t] = None] /\ hit' = [hit EXCEPT ![t] = 0]
Return(t) == Goto(t, "idle") /\ want' = [want EXCEPT ![t] = NoWant]

\* The thread has its address; or a map, and goes on with the detailed map or with the mail.
Deliver(t, of, cut, id) ==
    /\ ForgetLocals(t)
    /\ \/ /\ kind = "addr"
          /\ given' = [given EXCEPT ![t] = [place |-> want[t].place, of |-> of, cut |-> cut]]
          /\ Return(t)
          /\ UNCHANGED images
       \/ /\ kind = "map"
          /\ images' = [images EXCEPT ![t][want[t].zoom] = [of |-> of, id |-> id]]
          /\ Goto(t, IF want[t].zoom = "overview" THEN "search" ELSE "maps")
          /\ want' = [want EXCEPT ![t].zoom = "detailed"]
          /\ UNCHANGED given

\* An address is copied, of a map only the pointer is taken.
take_entry(t) ==
    /\ At(t, "found")
    /\ Meet(t)
    /\ Deliver(t, cache[hit[t]].of, cache[hit[t]].cut, cache[hit[t]].id)
    /\ UNCHANGED <<configVars, cacheVars, geoFileVars, url, requests, wild>>

\* get_geocode_url and get_staticmap_url write a static buffer, which curl copies.
get_url(t) ==
    /\ At(t, "url")
    /\ Meet(t)
    /\ url' = want[t].place
    /\ Goto(t, "setopt")
    /\ UNCHANGED <<configVars, cacheVars, geoFileVars, want, asked, hit, given, images, requests, wild>>

curl_easy_setopt(t) ==
    /\ At(t, "setopt")
    /\ Meet(t)
    /\ asked' = [asked EXCEPT ![t] = url]
    /\ Goto(t, "call")
    /\ UNCHANGED <<configVars, cacheVars, geoFileVars, url, want, hit, given, images, requests, wild>>

\* The reply holds an address or a PNG image.  The cache refuses far places.
parse_reply(t) ==
    /\ At(t, "call")
    /\ \/ /\ want[t].place \notin FarPlaces
          /\ Goto(t, "put1")
          /\ UNCHANGED <<want, given, images, asked, hit>>
       \/ /\ want[t].place \in FarPlaces
          /\ Deliver(t, asked[t], FALSE, None)
    /\ UNCHANGED <<configVars, cacheVars, geoFileVars, url, requests, calm, wild>>

\* No usable reply: no address ("?"), or a mail without maps.
lookup_fails(t) ==
    /\ At(t, "call")
    /\ Return(t)
    /\ given' = [given EXCEPT ![t] = NoAddress]
    /\ images' = [images EXCEPT ![t] = NoImages]
    /\ ForgetLocals(t)
    /\ UNCHANGED <<configVars, cacheVars, geoFileVars, url, requests, calm, wild>>

-----------------------------------------------------------------------------
(* update_address_cache and update_minimap_cache: the index is read again  *)
(* for every field that is written                                         *)

\* The number of the map a thread is about to put into the cache.
MapId(t) == 2 * want[t].n + (IF want[t].zoom = "overview" THEN 1 ELSE 2)

Reuse == cache[cidx].key # None

\* A write through an index past the end.
Stray(t) ==
    /\ cidx \notin Indexes
    /\ wild' = TRUE
    /\ UNCHANGED <<cache, freed, gpc>>

\* lat and lon as text and, for addresses, the address; a map that is replaced is freed.
\* When an entry is reused xstrlcpy leaves out the last character of the texts.
put_text(t) ==
    /\ At(t, "put1")
    /\ Meet(t)
    /\ \/ Stray(t)
       \/ /\ cidx \in Indexes
          /\ cache' = [cache EXCEPT ![cidx] =
                         [@ EXCEPT !.key = want[t].place, !.cut = Reuse,
                                   !.of = IF kind = "addr" THEN asked[t] ELSE cache[cidx].of]]
          /\ freed' = IF kind = "map" /\ Reuse THEN freed \cup {cache[cidx].id} ELSE freed
          /\ Goto(t, "put2")
          /\ UNCHANGED wild
    /\ UNCHANGED <<configVars, cidx, cnum, cmax, wrapped, geoFileVars, url, want, asked, hit, given,
                   images, requests>>

\* lat and lon as numbers; the map, its zoom and size.
put_numbers(t) ==
    /\ At(t, "put2")
    /\ Meet(t)
    /\ \/ Stray(t)
       \/ /\ cidx \in Indexes
          /\ cache' = [cache EXCEPT ![cidx] =
                         IF kind = "addr" THEN [@ EXCEPT !.pos = want[t].place]
                         ELSE [@ EXCEPT !.pos = want[t].place, !.zoom = want[t].zoom,
                                        !.of = asked[t], !.id = MapId(t)]]
          /\ Goto(t, "put3")
          /\ UNCHANGED <<freed, wild>>
    /\ UNCHANGED <<configVars, cidx, cnum, cmax, wrapped, geoFileVars, url, want, asked, hit, given,
                   images, requests>>

put_idx(t) ==
    /\ At(t, "put3")
    /\ Meet(t)
    /\ cidx' = cidx + 1
    /\ Goto(t, "put4")
    /\ UNCHANGED <<configVars, cache, cnum, cmax, wrapped, freed, geoFileVars, url, want, asked, hit,
                   given, images, requests, wild>>

\* The step to the wrap does not count the entry.
put_end(t) ==
    /\ At(t, "put4")
    /\ Meet(t)
    /\ \/ /\ cidx >= CacheSize
          /\ cidx' = 0
          /\ wrapped' = TRUE
          /\ UNCHANGED cnum
       \/ /\ cidx < CacheSize
          /\ cnum' = IF cnum < CacheSize THEN cnum + 1 ELSE cnum
          /\ UNCHANGED <<cidx, wrapped>>
    /\ Deliver(t, asked[t], FALSE, MapId(t))
    /\ UNCHANGED <<configVars, cache, cmax, freed, geoFileVars, url, requests, wild>>

\* Both maps go into the mail.
send_maps(t) ==
    /\ At(t, "maps")
    /\ Return(t)
    /\ images' = [images EXCEPT ![t] = NoImages]
    /\ UNCHANGED <<configVars, cacheVars, geoFileVars, url, asked, hit, given, requests, calm, wild>>

-----------------------------------------------------------------------------
(* Saving and reading                                                      *)

\* Entries beyond cache_max_idx are not saved: it is raised by hits only.
Saved == {i \in Indexes : i <= cmax /\ Reached(i)}

\* write_address_geocache and write_minimap_geocache, called by main while the other threads
\* run.  A save that fails leaves its last line unfinished.
write_geocache ==
    /\ ~wild /\ calm
    /\ lives \in 1..(MaxLives - 1)
    /\ ~saved
    /\ saved' = TRUE
    /\ \E k \in {Cardinality(Saved), Cardinality(Saved) - 1} :
          /\ k >= 0
          /\ cfile' = [i \in 1..Cardinality(Saved) |->
                         [cache[i - 1] EXCEPT !.zoom = IF i <= k THEN @ ELSE "torn"]]
          /\ torn' = (torn \/ k < Cardinality(Saved))
    /\ calm' = (calm /\ ActiveThreads = {})
    /\ UNCHANGED <<configVars, cacheVars, url, threadVars, requests, wild>>

Whole(line) == line.zoom # "torn"

\* The lines that are looked at: at most size - 1.  An unfinished line of addresses takes an
\* entry all the same, one of maps does not.
ReadableTo(size) == {i \in 1..(size - 1) :
                       i \in DOMAIN cfile /\ (kind = "map" => Whole(cfile[i]))}
\* Mutant: as many lines as there are entries.
ReadableFull == ReadableTo(CacheSize + 1)
Readable == ReadableTo(CacheSize)

\* A short address stops the reading: the entries before it stay, the index is 0 again and
\* nothing is counted.
Bad       == {i \in Readable : kind = "addr" /\ Whole(cfile[i]) /\ cfile[i].of \in ShortPlaces}
CacheLines     == {i \in Readable : \A b \in Bad : i < b}
LineCount == IF Bad = {} THEN Cardinality(CacheLines) ELSE 0

\* lat and lon are converted again from the text, and a map gets new memory.
read_geocache ==
    [i \in Indexes |->
        IF i + 1 \in CacheLines /\ Whole(cfile[i + 1])
        THEN [cfile[i + 1] EXCEPT !.pos = cfile[i + 1].key,
                                  !.id = IF kind = "map" THEN -(i + 1) ELSE None]
        ELSE NoEntry]

\* main: a new daemon, with a configuration k, p and the saved cache.  Bound: a cache in which
\* threads met is neither saved nor read again.
StartDaemon(k, p) ==
    /\ lives < MaxLives /\ calm
    /\ lives = 0 \/ (saved /\ k = kind)
    /\ lives' = lives + 1
    /\ kind' = k /\ proximity' = p
    /\ cache' = read_geocache
    /\ cidx' = LineCount /\ cnum' = LineCount /\ cmax' = LineCount
    /\ torn' = (torn \/ Bad # {})
    /\ url' = None
    /\ gpc' = [t \in GeoThreads |-> "idle"]
    /\ want' = [t \in GeoThreads |-> NoWant]
    /\ asked' = [t \in GeoThreads |-> None]
    /\ hit' = [t \in GeoThreads |-> 0]
    /\ given' = [t \in GeoThreads |-> NoAddress]
    /\ images' = [t \in GeoThreads |-> NoImages]
    /\ freed' = {}
    /\ wild' = FALSE /\ saved' = FALSE
    /\ UNCHANGED <<cfile, requests, calm, wrapped>>

GeoStep(t) ==
    \/ \E p \in Places : Request(t, p)
    \/ in_cache(t) \/ take_entry(t)
    \/ get_url(t) \/ curl_easy_setopt(t)
    \/ parse_reply(t) \/ lookup_fails(t)
    \/ put_text(t) \/ put_numbers(t) \/ put_idx(t) \/ put_end(t)
    \/ send_maps(t)

GeoNext ==
    \/ \E t \in GeoThreads : GeoStep(t)
    \/ write_geocache
    \/ \E k \in {"addr", "map"}, p \in {0, 1} : StartDaemon(k, p)

GeoSpec == GeoInit /\ [][GeoNext]_geoVars

-----------------------------------------------------------------------------
(* Properties                                                              *)

Positions == Places \cup {None}
Entries   == [key : Positions, cut : BOOLEAN, pos : Positions, zoom : Zooms \cup {"none", "torn"},
              of : Positions, id : Int]

GeoTypeOK ==
    /\ kind \in {"addr", "map"} /\ proximity \in {0, 1} /\ lives \in 0..MaxLives
    /\ cache \in [Indexes -> Entries]
    /\ cidx \in Nat /\ cnum \in Nat /\ cmax \in Nat
    /\ url \in Positions
    /\ gpc \in [GeoThreads -> {"off", "idle", "search", "found", "url", "setopt", "call", "put1",
                               "put2", "put3", "put4", "maps"}]
    /\ want \in [GeoThreads -> [place : Positions, zoom : Zooms, n : Nat]]
    /\ asked \in [GeoThreads -> Positions]
    /\ hit \in [GeoThreads -> Indexes]
    /\ given \in [GeoThreads -> [place : Positions, of : Positions, cut : BOOLEAN]]
    /\ images \in [GeoThreads -> [Zooms -> [of : Positions, id : Int]]]
    /\ requests \in 0..MaxRequests
    /\ {calm, torn, wild, wrapped, saved} \subseteq BOOLEAN

\* As long as threads do not meet in the cache, an address or map that is given out
\* (in_address_cache, in_minimap_cache, parse_reply) is for a position within the configured
\* distance, through reuse of entries, saving and restart; and an address has lost its last
\* character only if the cache has been full, or a saved one was not read to its end and is
\* filled from the start again (update_address_cache, read_address_geocache).
CalmAnswerIsNear ==
    calm => \A t \in GeoThreads :
        /\ given[t].of # None => gpsdist_m(given[t].place, given[t].of) <= proximity
        /\ given[t].cut => wrapped \/ torn
        /\ \A z \in Zooms : images[t][z].of # None =>
              gpsdist_m(want[t].place, images[t][z].of)
                  <= (IF z = "overview" THEN OverviewFactor ELSE 1) * proximity

InUse == {i \in Indexes : cache[i].key # None}

\* write_address_geocache never looks past the end of the array, whatever the threads did; and
\* between updates, when threads never met and files were complete, the entries have no
\* gap, the next index is at their end (or anywhere in a full cache), and their number is
\* counted with an error of at most one.
BooksAgree ==
    /\ cmax \in Indexes
    /\ calm /\ ~torn /\ ActiveThreads = {} =>
          /\ cidx \in Indexes
          /\ InUse = Indexes \/ InUse = 0..(cidx - 1)
          /\ cnum - Cardinality(InUse) \in {-1, 0}
          /\ cmax <= Cardinality(InUse)

\* The maps a thread puts into a mail are still allocated.  (The comments of
\* in_minimap_cache and _get_minimap_from_latlon promise memory that is the caller's.)
MapsAreAlive ==
    \A t \in GeoThreads : gpc[t] = "maps" =>
        \A z \in Zooms : images[t][z].id = None \/ images[t][z].id \notin freed

Stages == {"off", "idle", "search", "found", "url", "setopt", "call", "put1", "put2", "put3", "put4",
           "maps"}
Wants    == [place : Positions, zoom : Zooms, n : Int]
Givens   == [place : Positions, of : Positions, cut : BOOLEAN]
MapPairs == [Zooms -> [of : Positions, id : Int]]

\* The inductive invariant behind CalmAnswerIsNear.  As long as threads do not meet, what a
\* thread put into the shared buffer of the request is still there when it asks, an entry is
\* for the position it is filed under except while it is being filled, and what was found
\* matches until it is taken.
StoreShape ==
    /\ kind \in {"addr", "map"} /\ proximity \in {0, 1} /\ requests \in Int
    /\ cache \in [Indexes -> Entries] /\ cidx \in Nat /\ cfile \in Seq(Entries)
    /\ \A i \in Indexes : cache[i].zoom # "torn"
    /\ url \in Positions

ThreadShape ==
    /\ gpc \in [GeoThreads -> Stages] /\ want \in [GeoThreads -> Wants]
    /\ asked \in [GeoThreads -> Positions] /\ hit \in [GeoThreads -> Indexes]
    /\ given \in [GeoThreads -> Givens] /\ images \in [GeoThreads -> MapPairs]
    /\ \A t \in GeoThreads : gpc[t] \in {"off", "idle"} \/ kind = "addr" => images[t] = NoImages

GeoShape == StoreShape /\ ThreadShape

RightPlace(e) == e.key # None => e.of = e.key /\ e.pos = e.key
Filling(pcs) == \E t \in GeoThreads : gpc[t] \in pcs

NearInv ==
    calm =>
    /\ \A t \in GeoThreads :
          /\ gpc[t] = "setopt" => url = want[t].place
          /\ gpc[t] \in {"call", "put1", "put2", "put3", "put4"} => asked[t] = want[t].place
          /\ gpc[t] = "put2" => /\ cidx \in Indexes /\ cache[cidx].key = want[t].place
                                /\ kind = "addr" => cache[cidx].of = want[t].place
          /\ gpc[t] = "found" => /\ cache[hit[t]].key # None
                                 /\ Matches(cache[hit[t]], want[t].place, want[t].zoom)
    /\ \A i \in Indexes : RightPlace(cache[i]) \/ (i = cidx /\ Filling({"put2"}))
    /\ \A i \in DOMAIN cfile : RightPlace(cfile[i])

\* Until the cache is full, or a file is not complete, no entry is used twice.
FreshInv ==
    calm /\ ~wrapped /\ ~torn =>
    /\ \A i \in Indexes : /\ ~cache[i].cut
                          /\ cache[i].key # None => i < cidx \/ (i = cidx /\ Filling({"put2", "put3"}))
    /\ \A i \in DOMAIN cfile : ~cfile[i].cut /\ Whole(cfile[i])
    /\ \A t \in GeoThreads : ~given[t].cut

\* The inductive invariant behind BooksAgree, in the three stages of an update: no thread is
\* in one, an entry is being filled, the index has moved past it.
FindsPlaces == \A t \in GeoThreads : gpc[t] \notin {"off", "idle"} => want[t].place \in Places

Books(x, n) ==
    \/ InUse = Indexes /\ cnum \in {CacheSize - 1, CacheSize}
    \/ InUse = 0..(x - 1) /\ x <= CacheSize /\ cnum = n /\ cmax <= x

BooksInv ==
    calm /\ ~torn =>
    /\ \/ ~Filling({"put2", "put3", "put4"}) /\ cidx \in Indexes /\ Books(cidx, cidx)
       \/ /\ Filling({"put2", "put3"}) /\ ~Filling({"put4"})
          /\ cidx \in Indexes /\ Books(cidx + 1, cidx)
       \/ /\ Filling({"put4"}) /\ ~Filling({"put2", "put3"})
          /\ cidx \in 1..CacheSize /\ Books(cidx, cidx - 1)
    /\ \A i \in DOMAIN cfile : cfile[i].key # None /\ Whole(cfile[i])

=============================================================================
