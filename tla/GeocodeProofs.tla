--------------------------- MODULE GeocodeProofs ---------------------------
(***************************************************************************)
(* What the proofs show of the geocoder: the answers of its caches, for    *)
(* every size of a cache, every set of positions and every number of       *)
(* threads and restarts; and what one thread at a time can rely on in its  *)
(* rate limit, for every spacing, block time and number of threads.        *)
(***************************************************************************)
EXTENDS Geocode, RateLimit, FiniteSetTheorems, SequenceTheorems, WellFoundedInduction, TLAPS

-----------------------------------------------------------------------------
(* The rate limit                                                          *)

UnderWay(t) == rpc[t] # "idle"

\* At most one thread is on its way.
OneBusy == \A t, u \in LimitThreads : UnderWay(t) /\ UnderWay(u) => t = u

\* A sleeping thread wakes when the spacing is over.
WakesInTime == \A t \in LimitThreads : rpc[t] = "sleep" => wake[t] - last >= RLimit

\* A thread that may still call, or count a failure, found no block.
CallsUnblocked == \A t \in LimitThreads : rpc[t] \in {"limit", "sleep", "call", "over"} => ~exceeded

\* The counter and the block follow the failures that were counted.
Counted ==
    /\ try <= FailedCallsBeforeBlocking
    /\ exceeded => overs = FailedCallsBeforeBlocking + 1
    /\ ~exceeded => overs = try

Calm == OneBusy /\ WakesInTime /\ CallsUnblocked /\ Counted /\ spaced

\* The inductive invariant: without Calm's parts about sleeping and counting threads a step of
\* such a thread could break the spacing or the count.
RateInv == RateTypeOK /\ (alone => Calm)

\* Every step keeps every variable in its type.
LEMMA RateTypesKept == RateTypeOK /\ [RateNext]_rateVars => RateTypeOK'
<1> SUFFICES ASSUME RateTypeOK, [RateNext]_rateVars PROVE RateTypeOK'
  OBVIOUS
<1> USE RateLimitAssumption DEF RateTypeOK, blockVars, RGoto
<1>1. CASE Tick
  BY <1>1 DEF Tick
<1>2. CASE geocode_rate_limit_reset
  <2>1. alone' \in BOOLEAN
    BY <1>2, Zenon DEF geocode_rate_limit_reset
  <2>2. exceeded' \in BOOLEAN
    BY <1>2, Zenon DEF geocode_rate_limit_reset
  <2> QED BY <1>2, <2>1, <2>2 DEF geocode_rate_limit_reset
<1>3. ASSUME NEW t \in LimitThreads, get_address_from_latlon(t) PROVE RateTypeOK'
  <2>1. alone' \in BOOLEAN
    BY <1>3, Zenon DEF get_address_from_latlon
  <2>2. exceeded' \in BOOLEAN
    BY <1>3, Zenon DEF get_address_from_latlon
  <2>3. spaced' \in BOOLEAN
    BY <1>3, Zenon DEF get_address_from_latlon
  <2>4. {now, last, until, try, asks, mails, overs}' \subseteq Nat
    BY <1>3 DEF get_address_from_latlon
  <2>5. rpc' \in [LimitThreads -> {"idle", "limit", "sleep", "call", "over", "mail"}]
    BY <1>3 DEF get_address_from_latlon
  <2>6. wake' \in [LimitThreads -> Nat] /\ attempt' \in [LimitThreads -> {1, 2}]
    BY <1>3 DEF get_address_from_latlon
  <2> QED BY <2>1, <2>2, <2>3, <2>4, <2>5, <2>6
<1>4. ASSUME NEW t \in LimitThreads, in_address_cache(t) PROVE RateTypeOK'
  BY <1>4 DEF in_address_cache
<1>5. ASSUME NEW t \in LimitThreads, geocode_rate_limit(t) PROVE RateTypeOK'
  BY <1>5 DEF geocode_rate_limit
<1>6. ASSUME NEW t \in LimitThreads, StampLast(t) PROVE RateTypeOK'
  BY <1>6 DEF StampLast
<1>7. ASSUME NEW t \in LimitThreads, ReplyEnds(t) PROVE RateTypeOK'
  BY <1>7 DEF ReplyEnds
<1>8. ASSUME NEW t \in LimitThreads, ReplyOverQuota(t) PROVE RateTypeOK'
  BY <1>8 DEF ReplyOverQuota
<1>9. ASSUME NEW t \in LimitThreads, CountFailure(t) PROVE RateTypeOK'
  <2>1. exceeded' \in BOOLEAN /\ spaced' \in BOOLEAN /\ alone' \in BOOLEAN
    BY <1>9, Zenon DEF CountFailure
  <2>2. {now, last, until, try, asks, mails, overs}' \subseteq Nat
    BY <1>9 DEF CountFailure
  <2>3. rpc' \in [LimitThreads -> {"idle", "limit", "sleep", "call", "over", "mail"}]
    BY <1>9 DEF CountFailure
  <2> QED BY <1>9, <2>1, <2>2, <2>3 DEF CountFailure
<1>10. ASSUME NEW t \in LimitThreads, send_mail_quotalimit(t) PROVE RateTypeOK'
  BY <1>10 DEF send_mail_quotalimit
<1>11. CASE UNCHANGED rateVars
  BY <1>11 DEF rateVars
<1> QED BY <1>1, <1>2, <1>3, <1>4, <1>5, <1>6, <1>7, <1>8, <1>9, <1>10, <1>11 DEF RateNext

\* Every step of a thread that is alone keeps the calls spaced and the count right.
LEMMA CalmStep == RateInv /\ [RateNext]_rateVars => (alone' => Calm')
<1> SUFFICES ASSUME RateInv, [RateNext]_rateVars, alone' PROVE Calm'
  OBVIOUS
<1> USE RateLimitAssumption DEF RateInv, RateTypeOK, blockVars, RGoto, Calm, OneBusy, UnderWay, WakesInTime,
          CallsUnblocked, Counted, FailedCallsBeforeBlocking
<1>1. CASE Tick
  BY <1>1 DEF Tick
<1>2. CASE geocode_rate_limit_reset
  BY <1>2 DEF geocode_rate_limit_reset
<1>3. ASSUME NEW t \in LimitThreads, get_address_from_latlon(t) PROVE Calm'
  <2>1. alone /\ \A u \in LimitThreads : rpc[u] = "idle"
    BY <1>3, Zenon DEF get_address_from_latlon
  <2>2. OneBusy' /\ WakesInTime'
    BY <1>3, <2>1 DEF get_address_from_latlon
  <2>3. CallsUnblocked'
    BY <1>3, <2>1 DEF get_address_from_latlon
  <2>4. Counted'
    BY <1>3, <2>1 DEF get_address_from_latlon
  <2> QED BY <1>3, <2>1, <2>2, <2>3, <2>4 DEF get_address_from_latlon
<1>4. ASSUME NEW t \in LimitThreads, in_address_cache(t) PROVE Calm'
  BY <1>4 DEF in_address_cache
<1>5. ASSUME NEW t \in LimitThreads, geocode_rate_limit(t) PROVE Calm'
  BY <1>5 DEF geocode_rate_limit
<1>6. ASSUME NEW t \in LimitThreads, StampLast(t) PROVE Calm'
  BY <1>6 DEF StampLast
<1>7. ASSUME NEW t \in LimitThreads, ReplyEnds(t) PROVE Calm'
  BY <1>7 DEF ReplyEnds
<1>8. ASSUME NEW t \in LimitThreads, ReplyOverQuota(t) PROVE Calm'
  BY <1>8 DEF ReplyOverQuota
<1>9. ASSUME NEW t \in LimitThreads, CountFailure(t) PROVE Calm'
  BY <1>9 DEF CountFailure, Exhausted
<1>10. ASSUME NEW t \in LimitThreads, send_mail_quotalimit(t) PROVE Calm'
  BY <1>10 DEF send_mail_quotalimit
<1>11. CASE UNCHANGED rateVars
  BY <1>11 DEF rateVars
<1> QED BY <1>1, <1>2, <1>3, <1>4, <1>5, <1>6, <1>7, <1>8, <1>9, <1>10, <1>11 DEF RateNext

\* The invariant holds at the start.
LEMMA RateInitial == RateInit => RateInv
<1> SUFFICES ASSUME RateInit PROVE RateInv
  OBVIOUS
<1>1. RateTypeOK
  <2>1. exceeded \in BOOLEAN /\ spaced \in BOOLEAN /\ alone \in BOOLEAN
    BY Zenon DEF RateInit
  <2> QED BY <2>1 DEF RateInit, RateTypeOK
<1>2. OneBusy /\ WakesInTime /\ CallsUnblocked
  BY DEF RateInit, OneBusy, UnderWay, WakesInTime, CallsUnblocked
<1>3. Counted /\ spaced
  BY DEF RateInit, Counted, FailedCallsBeforeBlocking
<1> QED BY <1>1, <1>2, <1>3 DEF RateInv, Calm

\* Every variable of the rate limit keeps its type (geoloc.c).
THEOREM RateTypeCorrect == RateSpec => []RateTypeOK
<1>1. RateInit => RateTypeOK
  BY RateInitial DEF RateInv
<1> QED BY <1>1, RateTypesKept, PTL DEF RateSpec

\* As long as threads ask for addresses one at a time, calls keep their distance and a block
\* takes three failed requests (geocode_rate_limit, get_address_from_latlon).
THEOREM PoliteAlone == RateSpec => []AloneIsPolite
<1>1. RateInv /\ [RateNext]_rateVars => RateInv'
  BY RateTypesKept, CalmStep DEF RateInv
<1>2. RateInv => AloneIsPolite
  BY DEF RateInv, Calm, Counted, AloneIsPolite, RateTypeOK, FailedCallsBeforeBlocking
<1> QED BY RateInitial, <1>1, <1>2, PTL DEF RateSpec

-----------------------------------------------------------------------------
(* The caches                                                              *)

\* A set of indexes that is not empty has a first one.
LEMMA FirstIsThere ==
    ASSUME NEW S \in SUBSET Indexes, S # {}
    PROVE  FirstOf(S) \in S /\ \A j \in S : FirstOf(S) <= j
<1> DEFINE Less == {ss \in Nat \X Nat : ss[1] < ss[2]}
<1>1. S \in SUBSET Nat
  BY GeocodeAssumption DEF Indexes
<1>2. IsWellFoundedOn(Less, Nat)
  BY NatLessThanWellFounded DEF OpToRel
<1>3. PICK i \in S : \A k \in S : ~(<<k, i>> \in Less)
  <2> HIDE DEF Less
  <2> QED BY <1>1, <1>2, WFMin
<1>4. ASSUME NEW k \in S PROVE i <= k
  <2>1. <<k, i>> \in Nat \X Nat /\ <<k, i>>[1] = k /\ <<k, i>>[2] = i
    BY <1>1
  <2>2. ~(k < i)
    BY <1>3, <2>1
  <2> QED BY <2>2, <1>1
<1> QED BY <1>4 DEF FirstOf

\* No more entries are saved than there are.
LEMMA SavedFit == Cardinality(Saved) \in 0..CacheSize
<1> USE GeocodeAssumption
<1>1. IsFiniteSet(Indexes) /\ Cardinality(Indexes) = CacheSize
  BY FS_Interval DEF Indexes
<1>2. Saved \in SUBSET Indexes
  BY DEF Saved
<1>3. IsFiniteSet(Saved) /\ Cardinality(Saved) <= Cardinality(Indexes)
  BY <1>1, <1>2, FS_Subset
<1>4. Cardinality(Saved) \in Nat
  BY <1>3, FS_CardinalityType
<1> QED BY <1>1, <1>3, <1>4

\* The number of lines that are read is a number.
LEMMA LinesFit == LineCount \in Nat /\ CacheLines \subseteq 1..(CacheSize - 1)
<1> USE GeocodeAssumption
<1>1. CacheLines \in SUBSET (1..(CacheSize - 1))
  BY DEF CacheLines, Readable, ReadableTo
<1>2. IsFiniteSet(1..(CacheSize - 1))
  BY FS_Interval
<1>3. IsFiniteSet(CacheLines)
  BY <1>1, <1>2, FS_Subset
<1>4. Cardinality(CacheLines) \in Nat
  BY <1>3, FS_CardinalityType
<1> QED BY <1>1, <1>4 DEF LineCount

\* An entry without a position is an entry.
LEMMA EmptyEntry == NoEntry \in Entries /\ NoEntry.zoom # "torn"
BY DEF NoEntry, Entries, Positions, None, Zooms

\* What a thread is given has its type, and the thread goes on in one.
LEMMA DeliveredShape ==
    ASSUME ThreadShape, NEW t \in GeoThreads, NEW of \in Positions, NEW cut \in BOOLEAN, NEW id \in Int,
           Deliver(t, of, cut, id), UNCHANGED kind
    PROVE  ThreadShape'
<1> DEFINE a == [place |-> want[t].place, of |-> of, cut |-> cut]
           m == [of |-> of, id |-> id]
           z == want[t].zoom
<1>1. want[t] \in Wants /\ want[t].place \in Positions /\ z \in Zooms
  BY DEF ThreadShape, Wants
<1>2. asked' \in [GeoThreads -> Positions] /\ hit' \in [GeoThreads -> Indexes]
  BY GeocodeAssumption DEF ThreadShape, Deliver, ForgetLocals, Positions, None, Indexes
<1>3. CASE kind = "addr" /\ given' = [given EXCEPT ![t] = a] /\ Return(t) /\ UNCHANGED images
  <2>1. a \in Givens
    BY <1>1 DEF Givens
  <2>2. given' \in [GeoThreads -> Givens]
    <3> HIDE DEF a
    <3> QED BY <2>1, <1>3 DEF ThreadShape
  <2>3. NoWant \in Wants
    BY DEF NoWant, Wants, Positions, None, Zooms
  <2>4. want' \in [GeoThreads -> Wants] /\ gpc' \in [GeoThreads -> Stages]
    BY <2>3, <1>3 DEF ThreadShape, Return, Goto, Stages
  <2>5. \A u \in GeoThreads : images'[u] = NoImages
    BY <1>3 DEF ThreadShape
  <2> QED BY <1>2, <2>2, <2>4, <2>5, <1>3 DEF ThreadShape
<1>4. CASE /\ kind = "map" /\ images' = [images EXCEPT ![t][z] = m]
           /\ Goto(t, IF z = "overview" THEN "search" ELSE "maps")
           /\ want' = [want EXCEPT ![t].zoom = "detailed"] /\ UNCHANGED given
  <2>1. m \in [of : Positions, id : Int]
    OBVIOUS
  <2>2. images' \in [GeoThreads -> MapPairs]
    <3> HIDE DEF m, z
    <3> QED BY <2>1, <1>1, <1>4 DEF ThreadShape, MapPairs
  <2>3. [want[t] EXCEPT !.zoom = "detailed"] \in Wants
    BY <1>1 DEF Wants, Zooms
  <2>4. want' \in [GeoThreads -> Wants]
    BY <2>3, <1>4 DEF ThreadShape
  <2>5. gpc' \in [GeoThreads -> Stages] /\ gpc'[t] \in {"search", "maps"}
    BY <1>4 DEF ThreadShape, Goto, Stages
  <2>6. ASSUME NEW u \in GeoThreads, gpc'[u] \in {"off", "idle"} PROVE images'[u] = NoImages
    <3>1. u # t
      BY <2>5, <2>6
    <3>2. gpc'[u] = gpc[u] /\ images'[u] = images[u]
      BY <3>1, <1>4 DEF ThreadShape, Goto
    <3> QED BY <3>2, <2>6 DEF ThreadShape
  <2>7. kind' # "addr"
    BY <1>4
  <2>8. given' \in [GeoThreads -> Givens]
    BY <1>4 DEF ThreadShape
  <2> QED BY <1>2, <2>2, <2>4, <2>5, <2>6, <2>7, <2>8 DEF ThreadShape
<1> QED BY <1>3, <1>4 DEF Deliver

\* The number of a map is a number.
LEMMA MapIdIsInt == ASSUME ThreadShape, NEW t \in GeoThreads PROVE MapId(t) \in Int
<1>1. want[t].n \in Int
  BY DEF ThreadShape, Wants
<1> QED BY <1>1 DEF MapId

\* A step of a thread keeps the types of what the threads share.
LEMMA CacheStoreKept ==
    ASSUME GeoShape, NEW t \in GeoThreads, GeoStep(t)
    PROVE  StoreShape'
<1> USE GeocodeAssumption
<1>0. /\ want[t].place \in Positions /\ want[t].zoom \in Zooms /\ asked[t] \in Positions
      /\ MapId(t) \in Int
  BY MapIdIsInt DEF GeoShape, ThreadShape, Wants
<1>1. CASE /\ UNCHANGED <<kind, proximity, cache, cidx, cfile, url>>
           /\ requests' = requests
  BY <1>1 DEF GeoShape, StoreShape
<1>2. CASE \E p \in Places : Request(t, p)
  <2>1. requests' \in Int
    BY <1>2 DEF Request, RequestCost, GeoShape, StoreShape
  <2>2. UNCHANGED <<kind, proximity, cache, cidx, cfile, url>>
    BY <1>2 DEF Request, configVars, cacheVars, geoFileVars
  <2> QED BY <2>1, <2>2 DEF GeoShape, StoreShape
<1>3. CASE get_url(t)
  BY <1>0, <1>3 DEF get_url, configVars, cacheVars, geoFileVars, GeoShape, StoreShape
<1>4. CASE put_text(t)
  <2>1. UNCHANGED <<kind, proximity, cidx, cfile, url, requests>>
    BY <1>4 DEF put_text, configVars, geoFileVars
  <2>2. CASE UNCHANGED cache
    BY <2>1, <2>2 DEF GeoShape, StoreShape
  <2>3. CASE cidx \in Indexes /\ ~(UNCHANGED cache)
    <3> DEFINE e == [cache[cidx] EXCEPT !.key = want[t].place, !.cut = Reuse,
                                        !.of = IF kind = "addr" THEN asked[t] ELSE cache[cidx].of]
    <3>1. cache[cidx] \in Entries
      BY <2>3 DEF GeoShape, StoreShape
    <3>2. e \in Entries /\ e.zoom = cache[cidx].zoom
      BY <3>1, <1>0 DEF Entries, Reuse
    <3>3. cache' = [cache EXCEPT ![cidx] = e]
      BY <1>4, <2>3 DEF put_text, Stray
    <3> HIDE DEF e
    <3> QED BY <2>1, <2>3, <3>2, <3>3 DEF GeoShape, StoreShape
  <2> QED BY <1>4, <2>2, <2>3 DEF put_text, Stray
<1>5. CASE put_numbers(t)
  <2>1. UNCHANGED <<kind, proximity, cidx, cfile, url, requests>>
    BY <1>5 DEF put_numbers, configVars, geoFileVars
  <2>2. CASE UNCHANGED cache
    BY <2>1, <2>2 DEF GeoShape, StoreShape
  <2>3. CASE cidx \in Indexes /\ ~(UNCHANGED cache)
    <3> DEFINE e == IF kind = "addr" THEN [cache[cidx] EXCEPT !.pos = want[t].place]
                    ELSE [cache[cidx] EXCEPT !.pos = want[t].place, !.zoom = want[t].zoom,
                                             !.of = asked[t], !.id = MapId(t)]
    <3>1. cache[cidx] \in Entries /\ cache[cidx].zoom # "torn"
      BY <2>3 DEF GeoShape, StoreShape
    <3>2. e \in Entries /\ e.zoom # "torn"
      BY <3>1, <1>0 DEF Entries, Zooms
    <3>3. cache' = [cache EXCEPT ![cidx] = e]
      BY <1>5, <2>3 DEF put_numbers, Stray
    <3> HIDE DEF e
    <3> QED BY <2>1, <2>3, <3>2, <3>3 DEF GeoShape, StoreShape
  <2> QED BY <1>5, <2>2, <2>3 DEF put_numbers, Stray
<1>6. CASE put_idx(t)
  <2>1. UNCHANGED <<kind, proximity, cache, cfile, url, requests>> /\ cidx' = cidx + 1
    BY <1>6 DEF put_idx, configVars, geoFileVars
  <2> QED BY <2>1 DEF GeoShape, StoreShape
<1>7. CASE put_end(t)
  <2>1. UNCHANGED <<kind, proximity, cache, cfile, url, requests>> /\ cidx' \in {0, cidx}
    BY <1>7 DEF put_end, configVars, geoFileVars
  <2> QED BY <2>1 DEF GeoShape, StoreShape
<1>8. CASE in_cache(t) \/ take_entry(t)
  <2>1. UNCHANGED <<kind, proximity, cache, cidx, cfile, url, requests>>
    BY <1>8 DEF in_cache, take_entry, configVars, cacheVars, geoFileVars
  <2> QED BY <2>1, <1>1
<1>9. CASE curl_easy_setopt(t) \/ parse_reply(t) \/ lookup_fails(t) \/ send_maps(t)
  <2>1. UNCHANGED <<kind, proximity, cache, cidx, cfile, url, requests>>
    BY <1>9 DEF curl_easy_setopt, parse_reply, lookup_fails, send_maps, configVars, cacheVars, geoFileVars
  <2> QED BY <2>1, <1>1
<1> QED BY <1>2, <1>3, <1>4, <1>5, <1>6, <1>7, <1>8, <1>9 DEF GeoStep

\* A thread that goes on to another stage, with no answer yet.
LEMMA StageKept ==
    ASSUME ThreadShape, NEW t \in GeoThreads, NEW pc \in Stages \ {"off", "idle"}, Goto(t, pc),
           UNCHANGED <<kind, want, given, images>>,
           asked' \in [GeoThreads -> Positions], hit' \in [GeoThreads -> Indexes]
    PROVE  ThreadShape'
<1>1. gpc' \in [GeoThreads -> Stages]
  BY DEF ThreadShape, Goto
<1>2. ASSUME NEW u \in GeoThreads, gpc'[u] \in {"off", "idle"} \/ kind' = "addr"
      PROVE  images'[u] = NoImages
  <2>1. gpc[u] \in {"off", "idle"} \/ kind = "addr"
    BY <1>2 DEF ThreadShape, Goto
  <2> QED BY <2>1 DEF ThreadShape
<1> QED BY <1>1, <1>2 DEF ThreadShape

\* A step of a thread keeps the types of what the threads have of their own.
LEMMA ThreadKept ==
    ASSUME GeoShape, NEW t \in GeoThreads, GeoStep(t)
    PROVE  ThreadShape'
<1> USE GeocodeAssumption
<1>0. /\ ThreadShape /\ want[t].place \in Positions /\ want[t].zoom \in Zooms /\ asked[t] \in Positions
      /\ MapId(t) \in Int /\ hit[t] \in Indexes /\ None \in Positions /\ None \in Int /\ url \in Positions
      /\ asked \in [GeoThreads -> Positions] /\ hit \in [GeoThreads -> Indexes]
  BY MapIdIsInt DEF GeoShape, StoreShape, ThreadShape, Wants, Positions, None
<1>1. CASE \E p \in Places : Request(t, p)
  <2>1. PICK p \in Places : Request(t, p)
    BY <1>1
  <2> DEFINE w == [place |-> p, zoom |-> "overview", n |-> requests]
  <2>2. w \in Wants
    BY DEF Wants, Positions, Zooms, GeoShape, StoreShape
  <2>3. want' = [want EXCEPT ![t] = w] /\ gpc' = [gpc EXCEPT ![t] = "search"]
        /\ UNCHANGED <<kind, asked, hit, given, images>> /\ gpc[t] = "idle"
    BY <2>1 DEF Request, Goto, At, configVars
  <2> HIDE DEF w
  <2>4. want' \in [GeoThreads -> Wants] /\ gpc' \in [GeoThreads -> Stages]
    BY <1>0, <2>2, <2>3 DEF ThreadShape, Stages
  <2>5. \A u \in GeoThreads : gpc'[u] \in {"off", "idle"} \/ kind' = "addr" => images'[u] = NoImages
    BY <1>0, <2>3 DEF ThreadShape
  <2> QED BY <1>0, <2>3, <2>4, <2>5 DEF ThreadShape
<1>2. CASE in_cache(t)
  <2> DEFINE S == FoundIn(want[t].place, want[t].zoom)
  <2>1. S # {} => FirstOf(S) \in Indexes
    <3>1. S \in SUBSET Indexes
      BY DEF FoundIn
    <3> HIDE DEF S
    <3> QED BY <3>1, FirstIsThere
  <2>2. hit' \in [GeoThreads -> Indexes]
    BY <1>0, <1>2, <2>1 DEF in_cache
  <2>3. Goto(t, "url") \/ Goto(t, "found")
    BY <1>2 DEF in_cache
  <2>4. UNCHANGED <<kind, want, given, images, asked>>
    BY <1>2 DEF in_cache, configVars
  <2>5. {"url", "found"} \subseteq Stages \ {"off", "idle"}
    BY DEF Stages
  <2> QED BY <1>0, <2>2, <2>3, <2>4, <2>5, StageKept
<1>3. CASE take_entry(t)
  <2>1. cache[hit[t]] \in Entries
    BY <1>0 DEF GeoShape, StoreShape
  <2>2. cache[hit[t]].of \in Positions /\ cache[hit[t]].cut \in BOOLEAN /\ cache[hit[t]].id \in Int
    BY <2>1 DEF Entries
  <2>3. Deliver(t, cache[hit[t]].of, cache[hit[t]].cut, cache[hit[t]].id) /\ UNCHANGED kind
    BY <1>3 DEF take_entry, configVars
  <2> QED BY <1>0, <2>2, <2>3, DeliveredShape
<1>4. CASE get_url(t)
  <2>1. Goto(t, "setopt") /\ UNCHANGED <<kind, want, given, images, asked, hit>>
    BY <1>4 DEF get_url, configVars
  <2>2. "setopt" \in Stages \ {"off", "idle"}
    BY DEF Stages
  <2> QED BY <1>0, <2>1, <2>2, StageKept
<1>5. CASE curl_easy_setopt(t)
  <2>1. Goto(t, "call") /\ UNCHANGED <<kind, want, given, images, hit>> /\ asked' = [asked EXCEPT ![t] = url]
    BY <1>5 DEF curl_easy_setopt, configVars
  <2>2. "call" \in Stages \ {"off", "idle"}
    BY DEF Stages
  <2>3. asked' \in [GeoThreads -> Positions]
    BY <1>0, <2>1
  <2> QED BY <1>0, <2>1, <2>2, <2>3, StageKept
<1>6. CASE parse_reply(t)
  <2>1. CASE Goto(t, "put1") /\ UNCHANGED <<want, given, images, asked, hit>>
    <3>1. "put1" \in Stages \ {"off", "idle"} /\ UNCHANGED kind
      BY <1>6 DEF Stages, parse_reply, configVars
    <3> QED BY <1>0, <2>1, <3>1, StageKept
  <2>2. CASE Deliver(t, asked[t], FALSE, None)
    <3>1. UNCHANGED kind
      BY <1>6 DEF parse_reply, configVars
    <3> QED BY <1>0, <2>2, <3>1, DeliveredShape
  <2> QED BY <1>6, <2>1, <2>2 DEF parse_reply
<1>7. CASE lookup_fails(t)
  <2>1. NoAddress \in Givens /\ NoImages \in MapPairs /\ NoWant \in Wants
    BY DEF NoAddress, Givens, NoImages, MapPairs, NoWant, Wants, Positions, None, Zooms
  <2>2. /\ gpc' = [gpc EXCEPT ![t] = "idle"] /\ want' = [want EXCEPT ![t] = NoWant] /\ UNCHANGED kind
        /\ given' = [given EXCEPT ![t] = NoAddress] /\ images' = [images EXCEPT ![t] = NoImages]
        /\ asked' = [asked EXCEPT ![t] = None] /\ hit' = [hit EXCEPT ![t] = 0]
    BY <1>7 DEF lookup_fails, Return, Goto, ForgetLocals, configVars
  <2>3. 0 \in Indexes /\ "idle" \in Stages
    BY DEF Indexes, Stages
  <2>4. /\ gpc' \in [GeoThreads -> Stages] /\ want' \in [GeoThreads -> Wants]
        /\ asked' \in [GeoThreads -> Positions] /\ hit' \in [GeoThreads -> Indexes]
    BY <1>0, <2>1, <2>2, <2>3 DEF ThreadShape
  <2>5. given' \in [GeoThreads -> Givens] /\ images' \in [GeoThreads -> MapPairs]
    BY <1>0, <2>1, <2>2 DEF ThreadShape
  <2>6. \A u \in GeoThreads : gpc'[u] \in {"off", "idle"} \/ kind' = "addr" => images'[u] = NoImages
    BY <1>0, <2>2 DEF ThreadShape
  <2> QED BY <2>4, <2>5, <2>6 DEF ThreadShape
<1>8. CASE put_text(t) \/ put_numbers(t)
  <2>1. UNCHANGED <<kind, want, given, images, asked, hit>>
    BY <1>8 DEF put_text, put_numbers, configVars
  <2>2. CASE UNCHANGED gpc
    BY <1>0, <2>1, <2>2 DEF ThreadShape
  <2>3. CASE Goto(t, "put2") \/ Goto(t, "put3")
    <3>1. {"put2", "put3"} \subseteq Stages \ {"off", "idle"}
      BY DEF Stages
    <3> QED BY <1>0, <2>1, <2>3, <3>1, StageKept
  <2> QED BY <1>8, <2>2, <2>3 DEF put_text, put_numbers, Stray
<1>9. CASE put_idx(t)
  <2>1. Goto(t, "put4") /\ UNCHANGED <<kind, want, given, images, asked, hit>>
    BY <1>9 DEF put_idx, configVars
  <2>2. "put4" \in Stages \ {"off", "idle"}
    BY DEF Stages
  <2> QED BY <1>0, <2>1, <2>2, StageKept
<1>10. CASE put_end(t)
  <2>1. Deliver(t, asked[t], FALSE, MapId(t)) /\ UNCHANGED kind
    BY <1>10 DEF put_end, configVars
  <2> QED BY <1>0, <2>1, DeliveredShape
<1>11. CASE send_maps(t)
  <2>1. NoImages \in MapPairs /\ NoWant \in Wants /\ "idle" \in Stages
    BY DEF NoImages, MapPairs, NoWant, Wants, Positions, None, Zooms, Stages
  <2>2. /\ gpc' = [gpc EXCEPT ![t] = "idle"] /\ want' = [want EXCEPT ![t] = NoWant]
        /\ images' = [images EXCEPT ![t] = NoImages] /\ UNCHANGED <<kind, given, asked, hit>>
    BY <1>11 DEF send_maps, Return, Goto, configVars
  <2>3. /\ gpc' \in [GeoThreads -> Stages] /\ want' \in [GeoThreads -> Wants]
        /\ images' \in [GeoThreads -> MapPairs]
    BY <1>0, <2>1, <2>2 DEF ThreadShape
  <2>4. \A u \in GeoThreads : gpc'[u] \in {"off", "idle"} \/ kind' = "addr" => images'[u] = NoImages
    BY <1>0, <2>2 DEF ThreadShape
  <2> QED BY <1>0, <2>2, <2>3, <2>4 DEF ThreadShape
<1> QED BY <1>1, <1>2, <1>3, <1>4, <1>5, <1>6, <1>7, <1>8, <1>9, <1>10, <1>11 DEF GeoStep

\* What is saved is a sequence of entries.
LEMMA SaveShape ==
    ASSUME GeoShape, write_geocache
    PROVE  GeoShape'
<1> USE GeocodeAssumption
<1>1. PICK n : n = Cardinality(Saved)
  OBVIOUS
<1>2. n \in Nat /\ n <= CacheSize
  BY <1>1, SavedFit
<1>3. PICK k \in {n, n - 1} :
         cfile' = [i \in 1..n |-> [cache[i - 1] EXCEPT !.zoom = IF i <= k THEN cache[i - 1].zoom ELSE "torn"]]
  BY <1>1 DEF write_geocache
<1>4. ASSUME NEW i \in 1..n
      PROVE  [cache[i - 1] EXCEPT !.zoom = IF i <= k THEN cache[i - 1].zoom ELSE "torn"] \in Entries
  <2>1. i - 1 \in Indexes
    BY <1>2 DEF Indexes
  <2>2. cache[i - 1] \in Entries
    BY <2>1 DEF GeoShape, StoreShape
  <2> QED BY <2>2 DEF Entries
<1>5. cfile' \in Seq(Entries)
  BY <1>2, <1>3, <1>4
<1>6. UNCHANGED <<kind, proximity, cache, cidx, url, gpc, want, asked, hit, given, images, requests>>
  BY DEF write_geocache, configVars, cacheVars, threadVars
<1>7. StoreShape'
  BY <1>5, <1>6 DEF GeoShape, StoreShape
<1>8. ThreadShape'
  BY <1>6 DEF GeoShape, ThreadShape
<1> QED BY <1>7, <1>8 DEF GeoShape

\* What is read is a cache.
LEMMA StartShape ==
    ASSUME GeoShape, NEW k \in {"addr", "map"}, NEW p \in {0, 1}, StartDaemon(k, p)
    PROVE  GeoShape'
<1> USE GeocodeAssumption
<1>1. ASSUME NEW i \in Indexes
      PROVE  read_geocache[i] \in Entries /\ read_geocache[i].zoom # "torn"
  <2>1. CASE i + 1 \in CacheLines /\ Whole(cfile[i + 1])
    <3>1. i + 1 \in DOMAIN cfile
      BY <2>1 DEF CacheLines, Readable, ReadableTo
    <3>2. cfile[i + 1] \in Entries
      BY <3>1 DEF GeoShape, StoreShape
    <3>3. -(i + 1) \in Int /\ None \in Int
      BY DEF Indexes, None
    <3>4. read_geocache[i] = [cfile[i + 1] EXCEPT !.pos = cfile[i + 1].key,
                                                  !.id = IF kind = "map" THEN -(i + 1) ELSE None]
      BY <2>1 DEF read_geocache
    <3> QED BY <2>1, <3>2, <3>3, <3>4 DEF Entries, Whole
  <2>2. CASE ~(i + 1 \in CacheLines /\ Whole(cfile[i + 1]))
    BY <2>2, EmptyEntry DEF read_geocache
  <2> QED BY <2>1, <2>2
<1>2. read_geocache \in [Indexes -> Entries]
  <2>1. read_geocache = [i \in Indexes |-> read_geocache[i]]
    BY DEF read_geocache
  <2> QED BY <2>1, <1>1
<1>3. StoreShape'
  <2>1. cache' = read_geocache /\ cidx' = LineCount /\ url' = None /\ kind' = k /\ proximity' = p
        /\ UNCHANGED <<cfile, requests>>
    BY DEF StartDaemon
  <2>2. None \in Positions
    BY DEF Positions
  <2> QED BY <1>1, <1>2, <2>1, <2>2, LinesFit DEF GeoShape, StoreShape
<1>4. ThreadShape'
  <2>1. /\ NoAddress \in Givens /\ NoImages \in MapPairs /\ NoWant \in Wants /\ "idle" \in Stages
        /\ 0 \in Indexes /\ None \in Positions
    BY DEF NoAddress, Givens, NoImages, MapPairs, NoWant, Wants, Positions, None, Zooms, Stages, Indexes
  <2> QED BY <2>1 DEF StartDaemon, ThreadShape
<1> QED BY <1>3, <1>4 DEF GeoShape

\* Every step keeps every part of the geocoder in its type.
LEMMA ShapeKept ==
    ASSUME GeoShape, [GeoNext]_geoVars
    PROVE  GeoShape'
<1>1. CASE UNCHANGED geoVars
  <2>1. UNCHANGED <<kind, proximity, cache, cidx, cfile, url, gpc, want, asked, hit, given, images, requests>>
    BY <1>1 DEF geoVars, configVars, cacheVars, geoFileVars, threadVars
  <2>2. StoreShape'
    BY <2>1 DEF GeoShape, StoreShape
  <2>3. ThreadShape'
    BY <2>1 DEF GeoShape, ThreadShape
  <2> QED BY <2>2, <2>3 DEF GeoShape
<1>2. CASE \E t \in GeoThreads : GeoStep(t)
  BY <1>2, CacheStoreKept, ThreadKept DEF GeoShape
<1>3. CASE write_geocache
  BY <1>3, SaveShape
<1>4. CASE \E k \in {"addr", "map"}, p \in {0, 1} : StartDaemon(k, p)
  BY <1>4, StartShape
<1> QED BY <1>1, <1>2, <1>3, <1>4 DEF GeoNext

-----------------------------------------------------------------------------
(* No two threads meet: an entry is for the place it is filed under        *)

\* Where no other thread is when threads do not meet.
InCache == {"found", "setopt", "put1", "put2", "put3", "put4"}

LEMMA Alone ==
    ASSUME NEW t \in GeoThreads, Meet(t), calm'
    PROVE  calm /\ \A u \in GeoThreads \ {t} : gpc[u] \notin InCache
BY DEF Meet, ActiveThreads, InCache

\* The part of NearInv about one thread, and the one about the entries.
ThreadNear(t) ==
    /\ gpc[t] = "setopt" => url = want[t].place
    /\ gpc[t] \in {"call", "put1", "put2", "put3", "put4"} => asked[t] = want[t].place
    /\ gpc[t] = "put2" => /\ cidx \in Indexes /\ cache[cidx].key = want[t].place
                          /\ kind = "addr" => cache[cidx].of = want[t].place
    /\ gpc[t] = "found" => /\ cache[hit[t]].key # None
                           /\ Matches(cache[hit[t]], want[t].place, want[t].zoom)

EntriesNear == \A i \in Indexes : RightPlace(cache[i]) \/ (i = cidx /\ Filling({"put2"}))

FileNear == \A i \in DOMAIN cfile : RightPlace(cfile[i])

LEMMA NearParts == NearInv <=> (calm => (\A t \in GeoThreads : ThreadNear(t)) /\ EntriesNear /\ FileNear)
BY DEF NearInv, ThreadNear, EntriesNear, FileNear

\* Another thread's part rests on what the step of t leaves alone.
LEMMA OthersNear ==
    ASSUME GeoShape, NEW t \in GeoThreads, NEW u \in GeoThreads, u # t, ThreadNear(u),
           gpc'[u] = gpc[u], want'[u] = want[u], asked'[u] = asked[u], hit'[u] = hit[u],
           \/ gpc[u] \notin InCache
           \/ UNCHANGED <<kind, proximity, url, cidx, cache>>
    PROVE  ThreadNear(u)'
<1>1. CASE gpc[u] \notin InCache
  <2>1. gpc'[u] \notin {"setopt", "put1", "put2", "put3", "put4", "found"}
    BY <1>1 DEF InCache
  <2>2. gpc'[u] = "call" => asked'[u] = want'[u].place
    BY DEF ThreadNear
  <2> QED BY <2>1, <2>2 DEF ThreadNear
<1>2. CASE UNCHANGED <<kind, proximity, url, cidx, cache>>
  <2>1. gpc'[u] = "found" => Matches(cache[hit[u]], want[u].place, want[u].zoom)'
    BY <1>2 DEF ThreadNear, Matches, proximity_dist
  <2> QED BY <1>2, <2>1 DEF ThreadNear
<1> QED BY <1>1, <1>2

\* A thread that goes from one stage to another outside the cache has nothing to keep.
LEMMA IdleNear ==
    ASSUME NEW t \in GeoThreads, gpc'[t] \in {"idle", "search", "maps", "url", "off"}
    PROVE  ThreadNear(t)'
BY DEF ThreadNear

\* What a step of t leaves alone of the other threads.
OthersRest(t) ==
    \A u \in GeoThreads \ {t} : /\ gpc'[u] = gpc[u] /\ want'[u] = want[u] /\ asked'[u] = asked[u]
                                /\ hit'[u] = hit[u] /\ given'[u] = given[u] /\ images'[u] = images[u]

\* Where a thread is after an answer.
LEMMA DeliveredTo ==
    ASSUME ThreadShape, NEW t \in GeoThreads, NEW of, NEW cut, NEW id, Deliver(t, of, cut, id)
    PROVE  /\ gpc'[t] \in {"idle", "search", "maps"}
           /\ OthersRest(t)
BY DEF OthersRest, Deliver, ThreadShape, ForgetLocals, Return, Goto

LEMMA StepRest ==
    ASSUME ThreadShape, NEW t \in GeoThreads, GeoStep(t)
    PROVE  OthersRest(t)
<1>1. CASE take_entry(t)
  <2>1. Deliver(t, cache[hit[t]].of, cache[hit[t]].cut, cache[hit[t]].id)
    BY <1>1 DEF take_entry
  <2> QED BY <2>1, DeliveredTo
<1>2. CASE put_end(t)
  <2>1. Deliver(t, asked[t], FALSE, MapId(t))
    BY <1>2 DEF put_end
  <2> QED BY <2>1, DeliveredTo
<1>3. CASE parse_reply(t)
  <2>1. CASE Deliver(t, asked[t], FALSE, None)
    BY <2>1, DeliveredTo
  <2>2. CASE ~Deliver(t, asked[t], FALSE, None)
    BY <1>3, <2>2 DEF parse_reply, OthersRest, ThreadShape, Goto
  <2> QED BY <2>1, <2>2
<1>4. CASE \E p \in Places : Request(t, p)
  BY <1>4 DEF Request, Goto, OthersRest, ThreadShape
<1>5. CASE in_cache(t)
  BY <1>5 DEF in_cache, Goto, OthersRest, ThreadShape
<1>6. CASE get_url(t) \/ curl_easy_setopt(t)
  BY <1>6 DEF get_url, curl_easy_setopt, Goto, OthersRest, ThreadShape
<1>7. CASE lookup_fails(t) \/ send_maps(t)
  BY <1>7 DEF lookup_fails, send_maps, Return, ForgetLocals, Goto, OthersRest, ThreadShape
<1>8. CASE put_text(t) \/ put_numbers(t) \/ put_idx(t)
  BY <1>8 DEF put_text, put_numbers, put_idx, Stray, Goto, OthersRest, ThreadShape
<1> QED BY <1>1, <1>2, <1>3, <1>4, <1>5, <1>6, <1>7, <1>8 DEF GeoStep

\* NearInv after a step of t, from the parts that the step can touch.
LEMMA NearCombined ==
    ASSUME GeoShape, NearInv, NEW t \in GeoThreads, GeoStep(t), calm, UNCHANGED cfile,
           \/ \A u \in GeoThreads \ {t} : gpc[u] \notin InCache
           \/ UNCHANGED <<kind, proximity, url, cidx, cache>>,
           ThreadNear(t)', EntriesNear'
    PROVE  NearInv'
<1>1. OthersRest(t)
  BY StepRest DEF GeoShape
<1>2. \A u \in GeoThreads : ThreadNear(u)
  BY NearParts
<1>3. ASSUME NEW u \in GeoThreads PROVE ThreadNear(u)'
  <2>1. CASE u = t
    BY <2>1
  <2>2. CASE u # t
    BY <1>1, <1>2, <2>2, OthersNear DEF OthersRest
  <2> QED BY <2>1, <2>2
<1>4. FileNear'
  <2>1. FileNear
    BY NearParts
  <2> QED BY <2>1 DEF FileNear, RightPlace
<1> QED BY <1>3, <1>4 DEF NearInv, ThreadNear, EntriesNear, FileNear

\* The entries when a step leaves the array and the filling of entries alone.
LEMMA EntriesRest ==
    ASSUME EntriesNear, UNCHANGED <<cache, cidx>>, Filling({"put2"}) => Filling({"put2"})'
    PROVE  EntriesNear'
BY DEF EntriesNear, RightPlace

\* No thread fills an entry when the only one in the cache does something else.
LEMMA NobodyFills ==
    ASSUME NEW t \in GeoThreads, NEW pcs \in SUBSET InCache, gpc[t] \notin pcs,
           \A u \in GeoThreads \ {t} : gpc[u] \notin InCache
    PROVE  ~Filling(pcs)
BY DEF Filling

\* Steps outside the array: the request and its answer.
LEMMA NearOutside ==
    ASSUME GeoShape, NearInv, NEW t \in GeoThreads, GeoStep(t), calm',
           \/ \E p \in Places : Request(t, p)
           \/ parse_reply(t) \/ lookup_fails(t) \/ send_maps(t)
    PROVE  NearInv'
<1>1. calm /\ UNCHANGED <<kind, proximity, url, cidx, cache, cfile>>
  BY DEF Request, parse_reply, lookup_fails, send_maps, configVars, cacheVars, geoFileVars
<1>2. ThreadShape /\ (\A u \in GeoThreads : ThreadNear(u)) /\ EntriesNear
  BY <1>1, NearParts DEF GeoShape
<1>3. gpc[t] \in {"idle", "call", "maps"}
  BY DEF Request, parse_reply, lookup_fails, send_maps, At
<1>4. ThreadNear(t)'
  <2>1. CASE \E p \in Places : Request(t, p)
    <3>1. gpc'[t] = "search"
      BY <1>2, <2>1 DEF Request, Goto, ThreadShape
    <3> QED BY <3>1, IdleNear
  <2>2. CASE parse_reply(t)
    <3>1. CASE Deliver(t, asked[t], FALSE, None)
      BY <1>2, <3>1, DeliveredTo, IdleNear
    <3>2. CASE Goto(t, "put1") /\ UNCHANGED <<want, asked>>
      <4>1. gpc'[t] = "put1" /\ asked[t] = want[t].place
        BY <1>2, <2>2, <3>2 DEF parse_reply, At, ThreadNear, Goto, ThreadShape
      <4> QED BY <3>2, <4>1 DEF ThreadNear
    <3> QED BY <2>2, <3>1, <3>2 DEF parse_reply
  <2>3. CASE lookup_fails(t) \/ send_maps(t)
    <3>1. gpc'[t] = "idle"
      BY <1>2, <2>3 DEF lookup_fails, send_maps, Return, Goto, ThreadShape
    <3> QED BY <3>1, IdleNear
  <2> QED BY <2>1, <2>2, <2>3
<1>5. EntriesNear'
  <2>1. Filling({"put2"}) => Filling({"put2"})'
    <3>1. OthersRest(t)
      BY <1>2, StepRest
    <3> QED BY <1>3, <3>1 DEF OthersRest, Filling
  <2> QED BY <1>1, <1>2, <2>1, EntriesRest
<1> QED BY <1>1, <1>4, <1>5, NearCombined

\* Steps that look at the array or write the shared buffer, and leave the array alone.
LEMMA NearLooking ==
    ASSUME GeoShape, NearInv, NEW t \in GeoThreads, GeoStep(t), calm',
           in_cache(t) \/ take_entry(t) \/ get_url(t) \/ curl_easy_setopt(t)
    PROVE  NearInv'
<1>1. Meet(t) /\ UNCHANGED <<kind, proximity, cidx, cache, cfile>>
  BY DEF in_cache, take_entry, get_url, curl_easy_setopt, configVars, cacheVars, geoFileVars
<1>2. calm /\ \A u \in GeoThreads \ {t} : gpc[u] \notin InCache
  BY <1>1, Alone
<1>3. ThreadShape /\ (\A u \in GeoThreads : ThreadNear(u)) /\ EntriesNear
  BY <1>2, NearParts DEF GeoShape
<1>4. gpc[t] \in {"search", "found", "url", "setopt"}
  BY DEF in_cache, take_entry, get_url, curl_easy_setopt, At
<1>5. ThreadNear(t)'
  <2>1. CASE in_cache(t)
    <3> DEFINE S == FoundIn(want[t].place, want[t].zoom)
    <3>1. CASE S = {}
      <4>1. gpc'[t] = "url"
        BY <1>3, <2>1, <3>1 DEF in_cache, Goto, ThreadShape
      <4> QED BY <4>1, IdleNear
    <3>2. CASE S # {}
      <4>1. /\ gpc'[t] = "found" /\ UNCHANGED want
            /\ hit'[t] = FirstOf(S)
        BY <1>3, <2>1, <3>2 DEF in_cache, Goto, ThreadShape
      <4>2. S \in SUBSET Indexes
        BY DEF FoundIn
      <4>3. FirstOf(S) \in S
        <5> HIDE DEF S
        <5> QED BY <3>2, <4>2, FirstIsThere
      <4>4. PICK i : i = FirstOf(S)
        OBVIOUS
      <4>5. i \in Indexes /\ Reached(i) /\ Matches(cache[i], want[t].place, want[t].zoom)
        BY <4>3, <4>4 DEF FoundIn
      <4>6. cache[i].key # None
        BY <4>5, GeocodeAssumption DEF Reached, Indexes
      <4>7. hit'[t] = i
        BY <4>1, <4>4
      <4> HIDE DEF S
      <4>8. Matches(cache[hit[t]], want[t].place, want[t].zoom)'
        BY <1>1, <4>1, <4>5, <4>7 DEF Matches, proximity_dist
      <4> QED BY <1>1, <4>1, <4>6, <4>7, <4>8 DEF ThreadNear
    <3> QED BY <3>1, <3>2
  <2>2. CASE take_entry(t)
    <3>1. Deliver(t, cache[hit[t]].of, cache[hit[t]].cut, cache[hit[t]].id)
      BY <2>2 DEF take_entry
    <3> QED BY <1>3, <3>1, DeliveredTo, IdleNear
  <2>3. CASE get_url(t)
    <3>1. gpc'[t] = "setopt" /\ url' = want[t].place /\ UNCHANGED want
      BY <1>3, <2>3 DEF get_url, Goto, ThreadShape
    <3> QED BY <3>1 DEF ThreadNear
  <2>4. CASE curl_easy_setopt(t)
    <3>1. gpc'[t] = "call" /\ asked'[t] = url /\ UNCHANGED want /\ url = want[t].place
      BY <1>3, <2>4 DEF curl_easy_setopt, At, Goto, ThreadShape, ThreadNear
    <3> QED BY <3>1 DEF ThreadNear
  <2> QED BY <2>1, <2>2, <2>3, <2>4
<1>6. EntriesNear'
  <2>1. ~Filling({"put2"})
    BY <1>2, <1>4, NobodyFills DEF InCache
  <2> QED BY <1>1, <1>3, <2>1, EntriesRest
<1> QED BY <1>1, <1>2, <1>5, <1>6, NearCombined

\* Steps that fill an entry.
LEMMA NearFilling ==
    ASSUME GeoShape, NearInv, NEW t \in GeoThreads, GeoStep(t), calm',
           put_text(t) \/ put_numbers(t) \/ put_idx(t) \/ put_end(t)
    PROVE  NearInv'
<1>1. Meet(t) /\ UNCHANGED <<kind, proximity, cfile, url>>
  BY DEF put_text, put_numbers, put_idx, put_end, configVars, geoFileVars
<1>2. calm /\ \A u \in GeoThreads \ {t} : gpc[u] \notin InCache
  BY <1>1, Alone
<1>3. /\ ThreadShape /\ (\A u \in GeoThreads : ThreadNear(u)) /\ EntriesNear
      /\ cache \in [Indexes -> Entries]
  BY <1>2, NearParts DEF GeoShape, StoreShape
<1>4. gpc[t] \in {"put1", "put2", "put3", "put4"} /\ asked[t] = want[t].place
  BY <1>3 DEF put_text, put_numbers, put_idx, put_end, At, ThreadNear
<1>5. ThreadNear(t)' /\ EntriesNear'
  <2>1. CASE put_text(t)
    <3>1. /\ gpc[t] = "put1" /\ ~Filling({"put2"}) /\ UNCHANGED <<want, asked, cidx>>
      BY <1>2, <2>1, NobodyFills DEF put_text, At, InCache
    <3>2. CASE Stray(t)
      <4>1. UNCHANGED <<gpc, cache, cidx>>
        BY <3>1, <3>2 DEF Stray
      <4>2. ThreadNear(t)'
        BY <1>4, <3>1, <4>1 DEF ThreadNear
      <4> QED BY <1>3, <3>1, <4>1, <4>2, EntriesRest
    <3>3. CASE ~Stray(t)
      <4> DEFINE e == [cache[cidx] EXCEPT !.key = want[t].place, !.cut = Reuse,
                                          !.of = IF kind = "addr" THEN asked[t] ELSE cache[cidx].of]
      <4>1. /\ cidx \in Indexes /\ gpc' = [gpc EXCEPT ![t] = "put2"]
            /\ cache' = [cache EXCEPT ![cidx] = e]
        BY <2>1, <3>3 DEF put_text, Goto
      <4>2. cache[cidx] \in Entries
        BY <1>3, <4>1
      <4>3. e.key = want[t].place /\ (kind = "addr" => e.of = want[t].place)
        BY <1>4, <4>2 DEF Entries
      <4> HIDE DEF e
      <4>4. gpc'[t] = "put2" /\ cache'[cidx] = e
        BY <1>3, <4>1 DEF ThreadShape
      <4>5. ThreadNear(t)'
        BY <1>1, <1>4, <3>1, <4>1, <4>3, <4>4 DEF ThreadNear
      <4>6. Filling({"put2"})'
        BY <4>4 DEF Filling
      <4>7. \A i \in Indexes : i = cidx \/ (RightPlace(cache[i]) /\ cache'[i] = cache[i])
        BY <1>3, <3>1, <4>1 DEF EntriesNear
      <4> QED BY <3>1, <4>5, <4>6, <4>7 DEF EntriesNear, RightPlace
    <3> QED BY <3>2, <3>3
  <2>2. CASE put_numbers(t)
    <3>1. /\ gpc[t] = "put2" /\ UNCHANGED <<want, asked, cidx>>
      BY <2>2 DEF put_numbers, At
    <3>2. /\ cidx \in Indexes /\ cache[cidx].key = want[t].place
          /\ kind = "addr" => cache[cidx].of = want[t].place
      BY <1>3, <3>1 DEF ThreadNear
    <3> DEFINE e == IF kind = "addr" THEN [cache[cidx] EXCEPT !.pos = want[t].place]
                    ELSE [cache[cidx] EXCEPT !.pos = want[t].place, !.zoom = want[t].zoom,
                                             !.of = asked[t], !.id = MapId(t)]
    <3>3. gpc' = [gpc EXCEPT ![t] = "put3"] /\ cache' = [cache EXCEPT ![cidx] = e]
      BY <2>2, <3>2 DEF put_numbers, Stray, Goto
    <3>4. cache[cidx] \in Entries
      BY <1>3, <3>2
    <3>5. e.key = want[t].place /\ e.of = want[t].place /\ e.pos = want[t].place
      BY <1>4, <3>2, <3>4 DEF Entries
    <3> HIDE DEF e
    <3>6. gpc'[t] = "put3" /\ cache'[cidx] = e
      BY <1>3, <3>2, <3>3 DEF ThreadShape
    <3>7. ThreadNear(t)'
      BY <1>4, <3>1, <3>6 DEF ThreadNear
    <3>8. \A i \in Indexes : i = cidx \/ (RightPlace(cache[i]) /\ cache'[i] = cache[i])
      BY <1>3, <3>3 DEF EntriesNear
    <3> QED BY <3>5, <3>6, <3>7, <3>8 DEF EntriesNear, RightPlace
  <2>3. CASE put_idx(t) \/ put_end(t)
    <3>1. gpc[t] \in {"put3", "put4"} /\ UNCHANGED cache
      BY <2>3 DEF put_idx, put_end, At
    <3>2. ~Filling({"put2"})
      BY <1>2, <3>1, NobodyFills DEF InCache
    <3>3. EntriesNear'
      BY <1>3, <3>1, <3>2 DEF EntriesNear, RightPlace
    <3>4. CASE put_idx(t)
      <4>1. gpc'[t] = "put4" /\ UNCHANGED <<asked, want>>
        BY <1>3, <3>4 DEF put_idx, Goto, ThreadShape
      <4>2. ThreadNear(t)'
        BY <1>4, <4>1 DEF ThreadNear
      <4> QED BY <3>3, <4>2
    <3>5. CASE put_end(t)
      <4>1. Deliver(t, asked[t], FALSE, MapId(t))
        BY <3>5 DEF put_end
      <4>2. ThreadNear(t)'
        BY <1>3, <4>1, DeliveredTo, IdleNear
      <4> QED BY <3>3, <4>2
    <3> QED BY <2>3, <3>4, <3>5
  <2> QED BY <2>1, <2>2, <2>3
<1> QED BY <1>1, <1>2, <1>5, NearCombined

\* Saving and reading keep an entry with its place.
LEMMA NearSaved ==
    ASSUME GeoShape, NearInv, write_geocache, calm'
    PROVE  NearInv'
<1> USE GeocodeAssumption
<1>1. calm /\ ActiveThreads = {}
  BY DEF write_geocache
<1>2. (\A u \in GeoThreads : ThreadNear(u)) /\ EntriesNear
  BY <1>1, NearParts
<1>3. UNCHANGED <<kind, proximity, cache, cidx, url, gpc, want, asked, hit>>
  BY DEF write_geocache, configVars, cacheVars, threadVars
<1>4. \A u \in GeoThreads : ThreadNear(u)'
  BY <1>2, <1>3 DEF ThreadNear, Matches, proximity_dist
<1>5. ~Filling({"put2"})
  BY <1>1 DEF ActiveThreads, Filling
<1>6. EntriesNear'
  BY <1>2, <1>3, <1>5, EntriesRest
<1>7. PICK n : n = Cardinality(Saved)
  OBVIOUS
<1>8. n \in Nat /\ n <= CacheSize
  BY <1>7, SavedFit
<1>9. PICK k \in {n, n - 1} :
         cfile' = [i \in 1..n |-> [cache[i - 1] EXCEPT !.zoom = IF i <= k THEN cache[i - 1].zoom ELSE "torn"]]
  BY <1>7 DEF write_geocache
<1>10. ASSUME NEW i \in DOMAIN cfile' PROVE RightPlace(cfile'[i])
  <2>1. i \in 1..n /\ i - 1 \in Indexes
    BY <1>8, <1>9, <1>10 DEF Indexes
  <2>2. cache[i - 1] \in Entries /\ RightPlace(cache[i - 1])
    BY <1>2, <1>5, <2>1 DEF EntriesNear, GeoShape, StoreShape
  <2>3. cfile'[i] = [cache[i - 1] EXCEPT !.zoom = IF i <= k THEN cache[i - 1].zoom ELSE "torn"]
    BY <1>9, <2>1
  <2> QED BY <2>2, <2>3 DEF Entries, RightPlace
<1>11. FileNear'
  BY <1>10 DEF FileNear, RightPlace
<1> QED BY <1>4, <1>6, <1>11 DEF NearInv, ThreadNear, EntriesNear, FileNear

LEMMA NearStart ==
    ASSUME GeoShape, NearInv, NEW k \in {"addr", "map"}, NEW p \in {0, 1}, StartDaemon(k, p)
    PROVE  NearInv'
<1>1. calm /\ cache' = read_geocache /\ UNCHANGED cfile /\ gpc' = [t \in GeoThreads |-> "idle"]
  BY DEF StartDaemon
<1>2. FileNear
  BY <1>1, NearParts
<1>3. \A t \in GeoThreads : ThreadNear(t)'
  BY <1>1, IdleNear
<1>4. ASSUME NEW i \in Indexes PROVE RightPlace(read_geocache[i])
  <2>1. CASE i + 1 \in CacheLines /\ Whole(cfile[i + 1])
    <3>1. i + 1 \in DOMAIN cfile
      BY <2>1 DEF CacheLines, Readable, ReadableTo
    <3>2. cfile[i + 1] \in Entries /\ RightPlace(cfile[i + 1])
      BY <1>2, <3>1 DEF GeoShape, StoreShape, FileNear
    <3>3. read_geocache[i] = [cfile[i + 1] EXCEPT !.pos = cfile[i + 1].key,
                                                  !.id = IF kind = "map" THEN -(i + 1) ELSE None]
      BY <2>1 DEF read_geocache
    <3> QED BY <3>2, <3>3 DEF Entries, RightPlace
  <2>2. CASE ~(i + 1 \in CacheLines /\ Whole(cfile[i + 1]))
    BY <2>2 DEF read_geocache, NoEntry, RightPlace
  <2> QED BY <2>1, <2>2
<1>5. EntriesNear'
  BY <1>1, <1>4 DEF EntriesNear, RightPlace
<1>6. FileNear'
  BY <1>1, <1>2 DEF FileNear, RightPlace
<1> QED BY <1>3, <1>5, <1>6 DEF NearInv, ThreadNear, EntriesNear, FileNear

\* As long as no two threads meet, every step keeps entries and requests with their places.
LEMMA NearKept ==
    ASSUME GeoShape, NearInv, [GeoNext]_geoVars
    PROVE  NearInv'
<1>1. CASE UNCHANGED geoVars
  <2>1. UNCHANGED <<kind, proximity, cache, cidx, cfile, url, gpc, want, asked, hit, calm>>
    BY <1>1 DEF geoVars, configVars, cacheVars, geoFileVars, threadVars
  <2>2. calm => \A t \in GeoThreads : ThreadNear(t)'
    BY <2>1, NearParts DEF ThreadNear, Matches, proximity_dist
  <2>3. calm => EntriesNear' /\ FileNear'
    BY <2>1, NearParts DEF EntriesNear, FileNear, RightPlace, Filling
  <2> QED BY <2>1, <2>2, <2>3 DEF NearInv, ThreadNear, EntriesNear, FileNear
<1>2. CASE ~calm'
  BY <1>2 DEF NearInv
<1>3. ASSUME calm', NEW t \in GeoThreads, GeoStep(t) PROVE NearInv'
  BY <1>3, NearOutside, NearLooking, NearFilling DEF GeoStep
<1>4. ASSUME calm', write_geocache PROVE NearInv'
  BY <1>4, NearSaved
<1>5. CASE \E k \in {"addr", "map"}, p \in {0, 1} : StartDaemon(k, p)
  BY <1>5, NearStart
<1> QED BY <1>1, <1>2, <1>3, <1>4, <1>5 DEF GeoNext

-----------------------------------------------------------------------------
(* Until a cache is full or a file is incomplete no entry is used twice    *)

Fresh == calm /\ ~wrapped /\ ~torn

FreshEntries ==
    \A i \in Indexes : /\ ~cache[i].cut
                       /\ cache[i].key # None => i < cidx \/ (i = cidx /\ Filling({"put2", "put3"}))
FreshFile  == \A i \in DOMAIN cfile : ~cfile[i].cut /\ Whole(cfile[i])
FreshGiven == \A t \in GeoThreads : ~given[t].cut

LEMMA FreshParts == FreshInv <=> (Fresh => FreshEntries /\ FreshFile /\ FreshGiven)
BY DEF FreshInv, Fresh, FreshEntries, FreshFile, FreshGiven

LEMMA FreshPrimed ==
    ASSUME Fresh' => FreshEntries' /\ FreshFile' /\ FreshGiven'
    PROVE  FreshInv'
BY DEF FreshInv, Fresh, FreshEntries, FreshFile, FreshGiven

\* A cache that is fresh after a step of a thread was fresh before.
LEMMA FreshBefore ==
    ASSUME NEW t \in GeoThreads, GeoStep(t), Fresh'
    PROVE  Fresh /\ UNCHANGED <<wrapped, torn, cfile>>
<1>1. CASE \/ \E p \in Places : Request(t, p)
           \/ parse_reply(t) \/ lookup_fails(t) \/ send_maps(t)
  <2>1. UNCHANGED <<calm, wrapped, torn, cfile>>
    BY <1>1 DEF Request, parse_reply, lookup_fails, send_maps, cacheVars, geoFileVars
  <2> QED BY <2>1, Zenon DEF Fresh
<1>2. CASE in_cache(t) \/ take_entry(t) \/ get_url(t) \/ curl_easy_setopt(t)
  <2>1. UNCHANGED <<wrapped, torn, cfile>> /\ Meet(t)
    BY <1>2 DEF in_cache, take_entry, get_url, curl_easy_setopt, cacheVars, geoFileVars
  <2> QED BY <2>1, Zenon DEF Fresh, Meet
<1>3. CASE put_text(t) \/ put_numbers(t) \/ put_idx(t) \/ put_end(t)
  <2>1. UNCHANGED <<torn, cfile>> /\ Meet(t) /\ (UNCHANGED wrapped \/ wrapped' = TRUE)
    BY <1>3 DEF put_text, put_numbers, put_idx, put_end, geoFileVars
  <2>2. wrapped' # TRUE
    BY DEF Fresh
  <2>3. UNCHANGED wrapped
    BY <2>1, <2>2
  <2> QED BY <2>1, <2>3, Zenon DEF Fresh, Meet
<1> QED BY <1>1, <1>2, <1>3 DEF GeoStep

\* What a thread was given keeps its last character when the new address has it.
LEMMA DeliveredFresh ==
    ASSUME ThreadShape, FreshGiven, NEW t \in GeoThreads, NEW of, NEW cut, cut = FALSE, NEW id,
           Deliver(t, of, cut, id)
    PROVE  FreshGiven'
<1> DEFINE a == [place |-> want[t].place, of |-> of, cut |-> cut]
<1>1. ~a.cut
  OBVIOUS
<1>2. given' = [given EXCEPT ![t] = a] \/ UNCHANGED given
  BY DEF Deliver
<1> HIDE DEF a
<1> QED BY <1>1, <1>2 DEF FreshGiven, ThreadShape

LEMMA GivenFresh ==
    ASSUME GeoShape, FreshEntries, FreshGiven, NEW t \in GeoThreads, GeoStep(t)
    PROVE  FreshGiven'
<1>1. CASE take_entry(t)
  <2>1. hit[t] \in Indexes
    BY DEF GeoShape, ThreadShape
  <2>2. cache[hit[t]] \in Entries /\ ~cache[hit[t]].cut
    BY <2>1 DEF GeoShape, StoreShape, FreshEntries
  <2>3. cache[hit[t]].cut = FALSE
    BY <2>2 DEF Entries
  <2>4. Deliver(t, cache[hit[t]].of, cache[hit[t]].cut, cache[hit[t]].id)
    BY <1>1 DEF take_entry
  <2> QED BY <2>3, <2>4, DeliveredFresh DEF GeoShape
<1>2. CASE put_end(t)
  <2>1. Deliver(t, asked[t], FALSE, MapId(t))
    BY <1>2 DEF put_end
  <2> QED BY <2>1, DeliveredFresh DEF GeoShape
<1>3. CASE parse_reply(t)
  <2>1. CASE Deliver(t, asked[t], FALSE, None)
    BY <2>1, DeliveredFresh DEF GeoShape
  <2>2. CASE ~Deliver(t, asked[t], FALSE, None)
    BY <1>3, <2>2 DEF parse_reply, FreshGiven
  <2> QED BY <2>1, <2>2
<1>4. CASE lookup_fails(t)
  <2>1. given' = [given EXCEPT ![t] = NoAddress] /\ ~NoAddress.cut
    BY <1>4 DEF lookup_fails, NoAddress
  <2> QED BY <2>1 DEF GeoShape, ThreadShape, FreshGiven
<1>5. CASE UNCHANGED given
  BY <1>5 DEF FreshGiven
<1> QED BY <1>1, <1>2, <1>3, <1>4, <1>5
    DEF GeoStep, Request, in_cache, get_url, curl_easy_setopt, put_text, put_numbers, put_idx, send_maps

\* Entries when the array and the filling of entries are left alone.
LEMMA EntriesFreshRest ==
    ASSUME GeoShape, FreshEntries, NEW t \in GeoThreads, GeoStep(t), UNCHANGED <<cache, cidx>>,
           gpc[t] \notin {"put2", "put3"}
    PROVE  FreshEntries'
<1>1. OthersRest(t)
  BY StepRest DEF GeoShape
<1>2. Filling({"put2", "put3"}) => Filling({"put2", "put3"})'
  BY <1>1 DEF Filling, OthersRest
<1> QED BY <1>2 DEF FreshEntries

\* Filling takes a free entry, and the index moves past it.
LEMMA EntriesFresh ==
    ASSUME GeoShape, FreshEntries, NEW t \in GeoThreads, GeoStep(t), Fresh'
    PROVE  FreshEntries'
<1> USE GeocodeAssumption
<1>0. cache \in [Indexes -> Entries] /\ ThreadShape /\ cidx \in Nat /\ Indexes \subseteq Nat
  BY DEF GeoShape, StoreShape, Indexes
<1>1. CASE \/ \E p \in Places : Request(t, p)
           \/ parse_reply(t) \/ lookup_fails(t) \/ send_maps(t)
  <2>1. UNCHANGED <<cache, cidx>> /\ gpc[t] \notin {"put2", "put3"}
    BY <1>1 DEF Request, parse_reply, lookup_fails, send_maps, cacheVars, At
  <2> QED BY <2>1, EntriesFreshRest
<1>2. CASE in_cache(t) \/ take_entry(t) \/ get_url(t) \/ curl_easy_setopt(t)
  <2>1. UNCHANGED <<cache, cidx>> /\ gpc[t] \notin {"put2", "put3"}
    BY <1>2 DEF in_cache, take_entry, get_url, curl_easy_setopt, cacheVars, At
  <2> QED BY <2>1, EntriesFreshRest
<1>3. ASSUME put_text(t) \/ put_numbers(t) \/ put_idx(t) \/ put_end(t)
      PROVE  \A u \in GeoThreads \ {t} : gpc[u] \notin InCache
  <2>1. Meet(t)
    BY <1>3 DEF put_text, put_numbers, put_idx, put_end
  <2> QED BY <2>1, Alone DEF Fresh
<1>4. CASE put_text(t)
  <2>1. gpc[t] = "put1" /\ UNCHANGED cidx
    BY <1>4 DEF put_text, At
  <2>2. CASE Stray(t)
    <3>1. UNCHANGED <<cache, cidx>>
      BY <2>1, <2>2 DEF Stray
    <3> QED BY <2>1, <3>1, EntriesFreshRest
  <2>3. CASE ~Stray(t)
    <3> DEFINE e == [cache[cidx] EXCEPT !.key = want[t].place, !.cut = Reuse,
                                        !.of = IF kind = "addr" THEN asked[t] ELSE cache[cidx].of]
    <3>1. /\ cidx \in Indexes /\ gpc' = [gpc EXCEPT ![t] = "put2"]
          /\ cache' = [cache EXCEPT ![cidx] = e]
      BY <1>4, <2>3 DEF put_text, Goto
    <3>2. ~Filling({"put2", "put3"})
      BY <1>3, <1>4, <2>1, NobodyFills DEF InCache
    <3>3. cache[cidx] \in Entries /\ cache[cidx].key = None
      BY <1>0, <3>1, <3>2 DEF FreshEntries
    <3>4. Reuse = FALSE
      BY <3>3 DEF Reuse
    <3>5. ~e.cut
      BY <3>3, <3>4 DEF Entries
    <3> HIDE DEF e
    <3>6. Filling({"put2", "put3"})'
      BY <1>0, <3>1 DEF Filling, ThreadShape
    <3>7. ASSUME NEW i \in Indexes
          PROVE  ~cache'[i].cut /\ (cache'[i].key # None => i < cidx' \/ i = cidx')
      BY <1>0, <2>1, <3>1, <3>2, <3>5 DEF FreshEntries
    <3> QED BY <3>6, <3>7 DEF FreshEntries
  <2> QED BY <2>2, <2>3
<1>5. CASE put_numbers(t)
  <2>1. gpc[t] = "put2" /\ UNCHANGED cidx
    BY <1>5 DEF put_numbers, At
  <2>2. Filling({"put2", "put3"})'
    BY <1>0, <1>5, <2>1 DEF Filling, ThreadShape, put_numbers, Stray, Goto
  <2>3. CASE UNCHANGED cache
    BY <2>1, <2>2, <2>3 DEF FreshEntries
  <2>4. CASE cidx \in Indexes /\ ~(UNCHANGED cache)
    <3> DEFINE e == IF kind = "addr" THEN [cache[cidx] EXCEPT !.pos = want[t].place]
                    ELSE [cache[cidx] EXCEPT !.pos = want[t].place, !.zoom = want[t].zoom,
                                             !.of = asked[t], !.id = MapId(t)]
    <3>1. cache' = [cache EXCEPT ![cidx] = e]
      BY <1>5, <2>4 DEF put_numbers, Stray
    <3>2. cache[cidx] \in Entries
      BY <1>0, <2>4
    <3>3. e.cut = cache[cidx].cut /\ e.key = cache[cidx].key
      BY <3>2 DEF Entries
    <3> HIDE DEF e
    <3>4. ASSUME NEW i \in Indexes PROVE cache'[i].cut = cache[i].cut /\ cache'[i].key = cache[i].key
      BY <1>0, <2>4, <3>1, <3>3
    <3> QED BY <2>1, <2>2, <3>4 DEF FreshEntries
  <2> QED BY <1>5, <2>3, <2>4 DEF put_numbers, Stray
<1>6. CASE put_idx(t)
  <2>1. cidx' = cidx + 1 /\ UNCHANGED cache
    BY <1>6 DEF put_idx
  <2>2. ASSUME NEW i \in Indexes
        PROVE  ~cache'[i].cut /\ (cache'[i].key # None => i < cidx')
    BY <1>0, <2>1 DEF FreshEntries
  <2> QED BY <2>2 DEF FreshEntries
<1>7. CASE put_end(t)
  <2>1. UNCHANGED <<cache, cidx>> /\ gpc[t] = "put4"
    BY <1>7 DEF put_end, Fresh, At
  <2> QED BY <2>1, EntriesFreshRest
<1> QED BY <1>1, <1>2, <1>4, <1>5, <1>6, <1>7 DEF GeoStep

\* A complete file of a fresh cache.
LEMMA FreshSaved ==
    ASSUME GeoShape, FreshInv, write_geocache
    PROVE  FreshInv'
<1> USE GeocodeAssumption
<1> SUFFICES ASSUME Fresh' PROVE FreshEntries' /\ FreshFile' /\ FreshGiven'
  BY FreshPrimed
<1>1. PICK n : n = Cardinality(Saved)
  OBVIOUS
<1>2. n \in Nat /\ n <= CacheSize
  BY <1>1, SavedFit
<1>3. PICK k \in {n, n - 1} :
         /\ cfile' = [i \in 1..n |-> [cache[i - 1] EXCEPT !.zoom = IF i <= k THEN cache[i - 1].zoom ELSE "torn"]]
         /\ torn' = (torn \/ k < n)
  BY <1>1 DEF write_geocache
<1>4. Fresh /\ k = n /\ UNCHANGED <<cache, cidx, gpc, given>>
  <2>1. UNCHANGED <<cache, cidx, gpc, given, wrapped>> /\ calm
    BY DEF write_geocache, cacheVars, threadVars
  <2>2. Fresh /\ ~(k < n)
    BY <1>3, <2>1, Zenon DEF Fresh
  <2> QED BY <1>2, <2>1, <2>2
<1>5. FreshEntries /\ FreshGiven
  BY <1>4, FreshParts
<1>6. ASSUME NEW i \in DOMAIN cfile' PROVE ~cfile'[i].cut /\ Whole(cfile'[i])
  <2>1. i \in 1..n /\ i - 1 \in Indexes /\ i <= k
    BY <1>2, <1>3, <1>4, <1>6 DEF Indexes
  <2>2. cache[i - 1] \in Entries /\ ~cache[i - 1].cut /\ cache[i - 1].zoom # "torn"
    BY <1>5, <2>1 DEF FreshEntries, GeoShape, StoreShape
  <2>3. cfile'[i] = [cache[i - 1] EXCEPT !.zoom = cache[i - 1].zoom]
    BY <1>3, <2>1
  <2>4. cfile'[i] = cache[i - 1]
    BY <2>2, <2>3 DEF Entries
  <2> QED BY <2>2, <2>4 DEF Whole
<1>7. FreshFile'
  BY <1>6 DEF FreshFile, Whole
<1>8. FreshEntries' /\ FreshGiven'
  BY <1>4, <1>5 DEF FreshEntries, FreshGiven, Filling
<1> QED BY <1>7, <1>8

\* How many lines of a complete file are read, and that they are the first ones.
LEMMA LinesOfWhole ==
    ASSUME StoreShape, Bad = {}, \A i \in DOMAIN cfile : Whole(cfile[i])
    PROVE  \E m \in Nat : /\ m = LineCount /\ m <= CacheSize - 1 /\ CacheLines = 1..m
                          /\ 1..m \subseteq DOMAIN cfile
<1> USE GeocodeAssumption
<1>1. PICK l \in Nat : DOMAIN cfile = 1..l
  <2>1. Len(cfile) \in Nat /\ DOMAIN cfile = 1..Len(cfile)
    BY DEF StoreShape
  <2> QED BY <2>1
<1>2. PICK m : m = IF l <= CacheSize - 1 THEN l ELSE CacheSize - 1
  OBVIOUS
<1>3. m \in Nat /\ m <= CacheSize - 1 /\ m <= l /\ (m = l \/ m = CacheSize - 1)
  BY <1>2
<1>4. CacheLines = 1..m
  <2>1. CacheLines = Readable
    BY DEF CacheLines
  <2>2. Readable = {i \in 1..(CacheSize - 1) : i \in DOMAIN cfile}
    BY DEF Readable, ReadableTo
  <2>3. ASSUME NEW i \in 1..(CacheSize - 1) PROVE i \in DOMAIN cfile <=> i \in 1..m
    BY <1>1, <1>3
  <2>4. 1..m \subseteq 1..(CacheSize - 1)
    BY <1>3
  <2> QED BY <2>1, <2>2, <2>3, <2>4
<1>5. LineCount = m
  <2>1. 1 \in Int /\ m \in Int
    BY <1>3
  <2>2. Cardinality(1..m) = IF 1 > m THEN 0 ELSE m - 1 + 1
    BY <2>1, FS_Interval
  <2>3. Cardinality(1..m) = m
    BY <2>2, <1>3
  <2> QED BY <1>4, <2>3 DEF LineCount
<1>6. 1..m \subseteq DOMAIN cfile
  BY <1>1, <1>3
<1> QED BY <1>3, <1>4, <1>5, <1>6

\* The index after reading is past the last entry that was read.
LEMMA FreshStart ==
    ASSUME GeoShape, FreshInv, NEW k \in {"addr", "map"}, NEW p \in {0, 1}, StartDaemon(k, p)
    PROVE  FreshInv'
<1> USE GeocodeAssumption
<1> SUFFICES ASSUME Fresh' PROVE FreshEntries' /\ FreshFile' /\ FreshGiven'
  BY FreshPrimed
<1>1. /\ Fresh /\ Bad = {} /\ cache' = read_geocache /\ cidx' = LineCount /\ UNCHANGED cfile
      /\ given' = [t \in GeoThreads |-> NoAddress]
  BY DEF StartDaemon, Fresh
<1>2. FreshFile
  BY <1>1, FreshParts
<1>3. FreshFile'
  BY <1>1, <1>2 DEF FreshFile, Whole
<1>4. FreshGiven'
  BY <1>1 DEF FreshGiven, NoAddress
<1>5. PICK m \in Nat : m = LineCount /\ CacheLines = 1..m
  BY <1>1, <1>2, LinesOfWhole DEF FreshFile, GeoShape
<1>6. ASSUME NEW i \in Indexes
      PROVE  ~read_geocache[i].cut /\ (read_geocache[i].key # None => i < m)
  <2>1. CASE i + 1 \in CacheLines /\ Whole(cfile[i + 1])
    <3>1. i + 1 \in DOMAIN cfile /\ i < m
      BY <1>5, <2>1 DEF CacheLines, Readable, ReadableTo, Indexes
    <3>2. cfile[i + 1] \in Entries /\ ~cfile[i + 1].cut
      BY <1>2, <3>1 DEF GeoShape, StoreShape, FreshFile
    <3>3. read_geocache[i] = [cfile[i + 1] EXCEPT !.pos = cfile[i + 1].key,
                                                  !.id = IF kind = "map" THEN -(i + 1) ELSE None]
      BY <2>1 DEF read_geocache
    <3> QED BY <3>1, <3>2, <3>3 DEF Entries
  <2>2. CASE ~(i + 1 \in CacheLines /\ Whole(cfile[i + 1]))
    BY <2>2 DEF read_geocache, NoEntry
  <2> QED BY <2>1, <2>2
<1>7. FreshEntries'
  BY <1>1, <1>5, <1>6 DEF FreshEntries
<1> QED BY <1>3, <1>4, <1>7

LEMMA FreshKept ==
    ASSUME GeoShape, FreshInv, [GeoNext]_geoVars
    PROVE  FreshInv'
<1>1. CASE UNCHANGED geoVars
  <2>1. UNCHANGED <<cache, cidx, cfile, gpc, given, calm, wrapped, torn>>
    BY <1>1 DEF geoVars, cacheVars, geoFileVars, threadVars
  <2> QED BY <2>1 DEF FreshInv, Filling, Whole
<1>2. ASSUME NEW t \in GeoThreads, GeoStep(t) PROVE FreshInv'
  <2> SUFFICES ASSUME Fresh' PROVE FreshEntries' /\ FreshFile' /\ FreshGiven'
    BY FreshPrimed
  <2>1. Fresh /\ UNCHANGED cfile
    BY <1>2, FreshBefore
  <2>2. FreshEntries /\ FreshFile /\ FreshGiven
    BY <2>1, FreshParts
  <2>3. FreshFile'
    BY <2>1, <2>2 DEF FreshFile, Whole
  <2> QED BY <1>2, <2>2, <2>3, GivenFresh, EntriesFresh
<1>3. CASE write_geocache
  BY <1>3, FreshSaved
<1>4. CASE \E k \in {"addr", "map"}, p \in {0, 1} : StartDaemon(k, p)
  BY <1>4, FreshStart
<1> QED BY <1>1, <1>2, <1>3, <1>4 DEF GeoNext

-----------------------------------------------------------------------------
(* Answers                                                                 *)

Reach(z) == (IF z = "overview" THEN OverviewFactor ELSE 1) * proximity

GivenNear(t) == given[t].of # None => gpsdist_m(given[t].place, given[t].of) <= proximity

ImagesNear(t) ==
    \A z \in Zooms : images[t][z].of # None => gpsdist_m(want[t].place, images[t][z].of) <= Reach(z)

\* The part of CalmAnswerIsNear about distances.
AnswersNear == calm => \A t \in GeoThreads : GivenNear(t) /\ ImagesNear(t)

\* What is near enough for an answer.
NearEnough(p, q, z) ==
    /\ kind = "addr" => gpsdist_m(p, q) <= proximity
    /\ kind = "map" => gpsdist_m(p, q) <= Reach(z)

\* A place is near itself.
LEMMA NearItself ==
    ASSUME StoreShape, NEW p \in Positions, NEW z \in Zooms
    PROVE  NearEnough(p, p, z)
<1>1. p \in Nat /\ proximity \in {0, 1}
  BY GeocodeAssumption DEF StoreShape, Positions, None
<1> QED BY <1>1 DEF NearEnough, gpsdist_m, Reach, OverviewFactor

\* What the search matches is near when the entry is for the place it is filed under.
LEMMA MatchIsNear ==
    ASSUME StoreShape, NEW p \in Positions, NEW z \in Zooms, NEW e \in Entries,
           Matches(e, p, z), RightPlace(e), e.key # None
    PROVE  NearEnough(p, e.of, z)
<1>1. e.of = e.key /\ e.pos = e.key /\ e.key \in Positions
  BY DEF RightPlace, Entries
<1>2. kind = "addr" => proximity_dist(z) = proximity
  BY DEF proximity_dist
<1>3. kind = "map" => proximity_dist(z) = Reach(z)
  BY DEF proximity_dist, Reach, OverviewFactor, StoreShape
<1>4. CASE proximity_dist(z) > 0
  BY <1>1, <1>2, <1>3, <1>4 DEF Matches, NearEnough
<1>5. CASE ~(proximity_dist(z) > 0)
  <2>1. e.of = p
    BY <1>1, <1>5 DEF Matches
  <2> QED BY <2>1, NearItself
<1> QED BY <1>4, <1>5

\* An answer that is near enough leaves its thread with near answers.
LEMMA DeliveredNear ==
    ASSUME ThreadShape, NEW t \in GeoThreads, GivenNear(t), ImagesNear(t), UNCHANGED <<kind, proximity>>,
           NEW of \in Positions, NEW cut, NEW id, Deliver(t, of, cut, id),
           NearEnough(want[t].place, of, want[t].zoom)
    PROVE  (GivenNear(t) /\ ImagesNear(t))'
<1> DEFINE a == [place |-> want[t].place, of |-> of, cut |-> cut]
           m == [of |-> of, id |-> id]
           z == want[t].zoom
<1>0. want[t] \in Wants /\ z \in Zooms /\ images[t] \in MapPairs
  BY DEF ThreadShape, Wants
<1>1. CASE kind = "addr" /\ given' = [given EXCEPT ![t] = a] /\ UNCHANGED images
  <2>1. a.place = want[t].place /\ a.of = of
    OBVIOUS
  <2>2. given'[t] = a
    BY <1>1 DEF ThreadShape
  <2>3. GivenNear(t)'
    <3> HIDE DEF a
    <3> QED BY <1>1, <2>1, <2>2 DEF GivenNear, NearEnough
  <2>4. \A y \in Zooms : images'[t][y].of = None
    BY <1>1 DEF ThreadShape, NoImages
  <2> QED BY <2>3, <2>4 DEF ImagesNear
<1>2. CASE /\ kind = "map" /\ images' = [images EXCEPT ![t][z] = m]
           /\ want' = [want EXCEPT ![t].zoom = "detailed"] /\ UNCHANGED given
  <2>1. want'[t].place = want[t].place
    BY <1>0, <1>2 DEF ThreadShape, Wants
  <2>2. GivenNear(t)'
    BY <1>2 DEF GivenNear
  <2>3. m.of = of
    OBVIOUS
  <2>4. ASSUME NEW y \in Zooms
        PROVE  images'[t][y].of # None => gpsdist_m(want[t].place, images'[t][y].of) <= Reach(y)
    <3> HIDE DEF m, z
    <3>1. images'[t][y] = IF y = z THEN m ELSE images[t][y]
      BY <1>0, <1>2 DEF ThreadShape, MapPairs
    <3>2. CASE y = z
      <4>1. gpsdist_m(want[t].place, of) <= Reach(y)
        BY <1>2, <3>2 DEF NearEnough, z
      <4> QED BY <2>3, <3>1, <3>2, <4>1
    <3>3. CASE y # z
      BY <3>1, <3>3 DEF ImagesNear
    <3> QED BY <3>2, <3>3
  <2>5. ImagesNear(t)'
    BY <2>1, <2>4 DEF ImagesNear, Reach
  <2> QED BY <2>2, <2>5
<1> QED BY <1>1, <1>2 DEF Deliver

\* Every answer a thread is given is near.
LEMMA AnswersKept ==
    ASSUME GeoShape, NearInv, AnswersNear, NEW t \in GeoThreads, GeoStep(t)
    PROVE  AnswersNear'
<1> SUFFICES ASSUME calm' PROVE \A u \in GeoThreads : (GivenNear(u) /\ ImagesNear(u))'
  BY DEF AnswersNear, GivenNear, ImagesNear, Reach
<1>1. calm /\ UNCHANGED <<kind, proximity>>
  <2>1. CASE \/ \E p \in Places : Request(t, p)
             \/ parse_reply(t) \/ lookup_fails(t) \/ send_maps(t)
    BY <2>1 DEF Request, parse_reply, lookup_fails, send_maps, configVars
  <2>2. CASE in_cache(t) \/ take_entry(t) \/ get_url(t) \/ curl_easy_setopt(t)
    BY <2>2 DEF in_cache, take_entry, get_url, curl_easy_setopt, configVars, Meet
  <2>3. CASE put_text(t) \/ put_numbers(t) \/ put_idx(t) \/ put_end(t)
    BY <2>3 DEF put_text, put_numbers, put_idx, put_end, configVars, Meet
  <2> QED BY <2>1, <2>2, <2>3 DEF GeoStep
<1>2. /\ StoreShape /\ ThreadShape /\ GivenNear(t) /\ ImagesNear(t) /\ (\A u \in GeoThreads : ThreadNear(u))
      /\ EntriesNear
  BY <1>1, NearParts DEF GeoShape, AnswersNear
<1>3. /\ want[t].place \in Positions /\ want[t].zoom \in Zooms /\ asked[t] \in Positions
      /\ hit[t] \in Indexes
  BY <1>2 DEF ThreadShape, Wants
<1>4. GivenNear(t)' /\ ImagesNear(t)'
  <2>1. CASE UNCHANGED <<given, images>> /\ want'[t].place = want[t].place
    BY <1>1, <1>2, <2>1 DEF GivenNear, ImagesNear, Reach
  <2>2. CASE \E p \in Places : Request(t, p)
    <3>1. gpc[t] = "idle" /\ UNCHANGED <<given, images>>
      BY <2>2 DEF Request, At
    <3>2. \A z \in Zooms : images'[t][z].of = None
      BY <1>2, <3>1 DEF ThreadShape, NoImages
    <3> QED BY <1>1, <1>2, <3>1, <3>2 DEF GivenNear, ImagesNear
  <2>3. CASE take_entry(t)
    <3>1. gpc[t] = "found" /\ Meet(t)
      BY <2>3 DEF take_entry, At
    <3>2. PICK e : e = cache[hit[t]]
      OBVIOUS
    <3>3. /\ e.key # None /\ Matches(e, want[t].place, want[t].zoom)
          /\ e \in Entries
      BY <1>2, <1>3, <3>1, <3>2 DEF ThreadNear, StoreShape
    <3>4. ~Filling({"put2"})
      BY <3>1, Alone, NobodyFills DEF InCache
    <3>5. RightPlace(e)
      BY <1>2, <1>3, <3>2, <3>4 DEF EntriesNear
    <3>6. NearEnough(want[t].place, e.of, want[t].zoom) /\ e.of \in Positions
      BY <1>2, <1>3, <3>3, <3>5, MatchIsNear DEF Entries
    <3>7. Deliver(t, e.of, e.cut, e.id)
      BY <2>3, <3>2 DEF take_entry
    <3> QED BY <1>1, <1>2, <3>6, <3>7, DeliveredNear
  <2>4. ASSUME NEW id, Deliver(t, asked[t], FALSE, id), gpc[t] \in {"call", "put4"}
        PROVE  GivenNear(t)' /\ ImagesNear(t)'
    <3>1. asked[t] = want[t].place
      BY <1>2, <2>4 DEF ThreadNear
    <3>2. NearEnough(want[t].place, asked[t], want[t].zoom)
      BY <1>2, <1>3, <3>1, NearItself
    <3> QED BY <1>1, <1>2, <1>3, <2>4, <3>2, DeliveredNear
  <2>5. CASE parse_reply(t) \/ put_end(t)
    <3>1. CASE Deliver(t, asked[t], FALSE, None) /\ gpc[t] = "call"
      BY <2>4, <3>1
    <3>2. CASE Deliver(t, asked[t], FALSE, MapId(t)) /\ gpc[t] = "put4"
      BY <2>4, <3>2
    <3>3. CASE UNCHANGED <<want, given, images>>
      BY <2>1, <3>3
    <3> QED BY <2>5, <3>1, <3>2, <3>3 DEF parse_reply, put_end, At
  <2>6. CASE lookup_fails(t) \/ send_maps(t)
    <3>1. images'[t] = NoImages /\ (given'[t] = NoAddress \/ given'[t] = given[t])
      BY <1>2, <2>6 DEF lookup_fails, send_maps, ThreadShape
    <3>2. ImagesNear(t)'
      BY <3>1 DEF ImagesNear, NoImages
    <3>3. GivenNear(t)'
      BY <1>1, <1>2, <3>1 DEF GivenNear, NoAddress
    <3> QED BY <3>2, <3>3
  <2>7. CASE in_cache(t) \/ get_url(t) \/ curl_easy_setopt(t) \/ put_text(t) \/ put_numbers(t) \/ put_idx(t)
    <3>1. UNCHANGED <<want, given, images>>
      BY <2>7 DEF in_cache, get_url, curl_easy_setopt, put_text, put_numbers, put_idx
    <3> QED BY <2>1, <3>1
  <2> QED BY <2>2, <2>3, <2>5, <2>6, <2>7 DEF GeoStep
<1>5. ASSUME NEW u \in GeoThreads, u # t PROVE (GivenNear(u) /\ ImagesNear(u))'
  <2>1. given'[u] = given[u] /\ images'[u] = images[u] /\ want'[u] = want[u]
    BY <1>2, <1>5, StepRest DEF OthersRest
  <2>2. GivenNear(u) /\ ImagesNear(u)
    BY <1>1 DEF AnswersNear
  <2> QED BY <1>1, <2>1, <2>2 DEF GivenNear, ImagesNear, Reach
<1> QED BY <1>4, <1>5

\* The four invariants start with the first daemon.
LEMMA NearInitial == GeoInit => GeoShape /\ NearInv /\ FreshInv /\ AnswersNear
<1> SUFFICES ASSUME GeoInit PROVE GeoShape /\ NearInv /\ FreshInv /\ AnswersNear
  OBVIOUS
<1> USE GeocodeAssumption
<1>1. /\ NoAddress \in Givens /\ NoImages \in MapPairs /\ NoWant \in Wants /\ "off" \in Stages
      /\ 0 \in Indexes /\ None \in Positions
  BY DEF NoAddress, Givens, NoImages, MapPairs, NoWant, Wants, Positions, None, Zooms, Stages, Indexes
<1>2. StoreShape
  BY <1>1, EmptyEntry DEF GeoInit, StoreShape
<1>3. ThreadShape
  BY <1>1 DEF GeoInit, ThreadShape
<1>4. \A i \in Indexes : RightPlace(cache[i]) /\ ~cache[i].cut /\ cache[i].key = None
  BY DEF GeoInit, RightPlace, NoEntry
<1>5. \A t \in GeoThreads : gpc[t] = "off" /\ given[t] = NoAddress /\ images[t] = NoImages
  BY DEF GeoInit
<1>6. DOMAIN cfile = {}
  BY DEF GeoInit
<1>7. NearInv
  BY <1>4, <1>5, <1>6 DEF NearInv
<1>8. FreshInv
  BY <1>4, <1>5, <1>6 DEF FreshInv, NoAddress
<1>9. AnswersNear
  BY <1>5 DEF AnswersNear, GivenNear, ImagesNear, NoAddress, NoImages
<1> QED BY <1>2, <1>3, <1>7, <1>8, <1>9 DEF GeoShape

\* As long as threads do not meet in the cache, what in_address_cache, in_minimap_cache and
\* parse_reply give out is for a position within the configured distance, and an address has
\* lost its last character only after the cache was full or a file was incomplete: for every
\* size of the cache, every set of positions and every number of threads and restarts.
THEOREM AnswersAreNear == GeoSpec => []CalmAnswerIsNear
<1> DEFINE I == GeoShape /\ NearInv /\ FreshInv /\ AnswersNear
<1>1. GeoInit => I
  BY NearInitial
<1>2. I /\ [GeoNext]_geoVars => I'
  <2> SUFFICES ASSUME GeoShape, NearInv, FreshInv, AnswersNear, [GeoNext]_geoVars PROVE AnswersNear'
    BY ShapeKept, NearKept, FreshKept
  <2>1. CASE UNCHANGED geoVars
    <3>1. UNCHANGED <<proximity, given, images, want, calm>>
      BY <2>1 DEF geoVars, configVars, threadVars
    <3> QED BY <3>1 DEF AnswersNear, GivenNear, ImagesNear, Reach
  <2>2. CASE \E t \in GeoThreads : GeoStep(t)
    BY <2>2, AnswersKept
  <2>3. CASE write_geocache
    <3>1. UNCHANGED <<proximity, given, images, want>> /\ calm
      BY <2>3 DEF write_geocache, configVars, threadVars
    <3> QED BY <3>1 DEF AnswersNear, GivenNear, ImagesNear, Reach
  <2>4. CASE \E k \in {"addr", "map"}, p \in {0, 1} : StartDaemon(k, p)
    <3>1. \A t \in GeoThreads : given'[t] = NoAddress /\ images'[t] = NoImages
      BY <2>4 DEF StartDaemon
    <3> QED BY <3>1 DEF AnswersNear, GivenNear, ImagesNear, NoAddress, NoImages
  <2> QED BY <2>1, <2>2, <2>3, <2>4 DEF GeoNext
<1>3. I => CalmAnswerIsNear
  <2> SUFFICES ASSUME I, calm, NEW t \in GeoThreads
               PROVE  /\ GivenNear(t) /\ ImagesNear(t)
                      /\ given[t].cut => wrapped \/ torn
    BY DEF CalmAnswerIsNear, GivenNear, ImagesNear, Reach
  <2> QED BY FreshParts DEF AnswersNear, Fresh, FreshGiven
<1> QED BY <1>1, <1>2, <1>3, PTL DEF GeoSpec

-----------------------------------------------------------------------------
(* The books of a cache                                                    *)

\* A thread that looks something up looks for a place.
LEMMA PlacesKept ==
    ASSUME GeoShape, FindsPlaces, [GeoNext]_geoVars
    PROVE  FindsPlaces'
<1>0. ThreadShape
  BY DEF GeoShape
<1>1. CASE UNCHANGED <<gpc, want>>
  BY <1>1 DEF FindsPlaces
<1>2. ASSUME NEW t \in GeoThreads, GeoStep(t),
             gpc'[t] = "idle" \/ want'[t].place \in Places
      PROVE  FindsPlaces'
  BY <1>0, <1>2, StepRest DEF OthersRest, FindsPlaces
<1>3. ASSUME NEW t \in GeoThreads, GeoStep(t) PROVE gpc'[t] = "idle" \/ want'[t].place \in Places
  <2>1. ASSUME NEW of, NEW cut, NEW id, Deliver(t, of, cut, id), gpc[t] \notin {"off", "idle"}
        PROVE  gpc'[t] = "idle" \/ want'[t].place \in Places
    <3>1. CASE Return(t)
      BY <1>0, <3>1 DEF Return, Goto, ThreadShape
    <3>2. CASE want' = [want EXCEPT ![t].zoom = "detailed"]
      <4>1. want'[t].place = want[t].place
        BY <1>0, <3>2 DEF ThreadShape, Wants
      <4> QED BY <2>1, <4>1 DEF FindsPlaces
    <3> QED BY <2>1, <3>1, <3>2 DEF Deliver
  <2>2. CASE take_entry(t) \/ put_end(t)
    BY <2>1, <2>2 DEF take_entry, put_end, At
  <2>3. CASE UNCHANGED want /\ gpc[t] \notin {"off", "idle"}
    BY <2>3 DEF FindsPlaces
  <2>4. CASE parse_reply(t)
    BY <2>1, <2>3, <2>4 DEF parse_reply, At
  <2>5. CASE \E p \in Places : Request(t, p)
    BY <1>0, <2>5 DEF Request, ThreadShape
  <2>6. CASE lookup_fails(t) \/ send_maps(t)
    BY <1>0, <2>6 DEF lookup_fails, send_maps, Return, Goto, ThreadShape
  <2>7. CASE in_cache(t) \/ get_url(t) \/ curl_easy_setopt(t)
    BY <2>3, <2>7 DEF in_cache, get_url, curl_easy_setopt, At
  <2>8. CASE put_text(t) \/ put_numbers(t) \/ put_idx(t)
    BY <2>3, <2>8 DEF put_text, put_numbers, put_idx, At
  <2> QED BY <1>3, <2>2, <2>4, <2>5, <2>6, <2>7, <2>8 DEF GeoStep
<1>4. CASE \E k \in {"addr", "map"}, p \in {0, 1} : StartDaemon(k, p)
  BY <1>4 DEF StartDaemon, FindsPlaces
<1>5. CASE write_geocache
  BY <1>1, <1>5 DEF write_geocache, threadVars
<1>6. CASE UNCHANGED geoVars
  BY <1>1, <1>6 DEF geoVars, threadVars
<1> QED BY <1>2, <1>3, <1>4, <1>5, <1>6 DEF GeoNext

\* The saved entries are the first ones, without a gap.
LEMMA SavedIsStart ==
    ASSUME cmax \in Nat
    PROVE  \E n \in 0..CacheSize : /\ n = Cardinality(Saved)
                                   /\ \A i \in 1..n : i - 1 \in Indexes /\ cache[i - 1].key # None
<1> USE GeocodeAssumption
<1>1. Indexes \subseteq Nat /\ Saved \in SUBSET Indexes
  BY DEF Indexes, Saved
<1>2. ASSUME NEW x \in Saved, NEW y \in Indexes, y <= x PROVE y \in Saved
  <2>1. y <= cmax
    BY <1>1, <1>2 DEF Saved
  <2>2. 0..y \subseteq 0..x
    BY <1>1, <1>2
  <2>3. Reached(y)
    BY <2>2 DEF Saved, Reached
  <2> QED BY <2>1, <2>3 DEF Saved
<1>3. PICK n : n \in 0..CacheSize /\ Saved = 0..(n - 1)
  <2>1. CASE Saved = Indexes
    <3>1. CacheSize \in 0..CacheSize /\ Saved = 0..(CacheSize - 1)
      BY <2>1 DEF Indexes
    <3> QED BY <3>1
  <2>2. CASE Saved # Indexes
    <3>1. PICK n \in Indexes \ Saved : \A j \in Indexes \ Saved : n <= j
      <4>1. Indexes \ Saved \in SUBSET Indexes /\ Indexes \ Saved # {}
        BY <1>1, <2>2
      <4> QED BY <4>1, FirstIsThere
    <3>2. n \in 0..CacheSize
      BY <3>1 DEF Indexes
    <3>3. ASSUME NEW j \in Indexes PROVE j \in Saved <=> j < n
      <4>1. CASE j < n
        BY <1>1, <3>1, <4>1
      <4>2. CASE ~(j < n)
        BY <1>1, <1>2, <3>1, <4>2
      <4> QED BY <4>1, <4>2
    <3>4. 0..(n - 1) \subseteq Indexes
      BY <3>2, <3>1 DEF Indexes
    <3>5. ASSUME NEW j \in Indexes PROVE j \in Saved <=> j \in 0..(n - 1)
      BY <1>1, <3>1, <3>3
    <3>6. Saved = 0..(n - 1)
      BY <1>1, <3>4, <3>5
    <3> QED BY <3>2, <3>6
  <2> QED BY <2>1, <2>2
<1>4. Cardinality(Saved) = n
  <2>1. 0 \in Int /\ n - 1 \in Int
    BY <1>3
  <2>2. Cardinality(0..(n - 1)) = IF 0 > n - 1 THEN 0 ELSE (n - 1) - 0 + 1
    BY <2>1, FS_Interval
  <2> QED BY <1>3, <2>2
<1>5. ASSUME NEW i \in 1..n PROVE i - 1 \in Indexes /\ cache[i - 1].key # None
  <2>1. i - 1 \in Saved
    BY <1>3
  <2>2. Reached(i - 1) /\ i - 1 \in Indexes /\ i - 1 \in 0..(i - 1)
    BY <1>1, <2>1 DEF Saved
  <2> QED BY <2>2 DEF Reached
<1> QED BY <1>3, <1>4, <1>5

\* cache_max_idx stays an index, whatever the threads do, and the entries are counted.
LookIndex == cmax \in Indexes /\ cnum \in Nat

LEMMA LookKept ==
    ASSUME GeoShape, LookIndex, [GeoNext]_geoVars
    PROVE  LookIndex'
<1> USE GeocodeAssumption
<1>1. CASE UNCHANGED <<cmax, cnum>>
  BY <1>1 DEF LookIndex
<1>2. ASSUME NEW t \in GeoThreads, in_cache(t) PROVE LookIndex'
  <2> DEFINE S == FoundIn(want[t].place, want[t].zoom)
  <2>1. S # {} => FirstOf(S) \in Indexes
    <3>1. S \in SUBSET Indexes
      BY DEF FoundIn
    <3> HIDE DEF S
    <3> QED BY <3>1, FirstIsThere
  <2>2. cmax' = cmax \/ (S # {} /\ cmax' = Larger(cmax, FirstOf(S)))
    BY <1>2 DEF in_cache
  <2>3. UNCHANGED cnum
    BY <1>2 DEF in_cache
  <2> HIDE DEF S
  <2> QED BY <2>1, <2>2, <2>3 DEF LookIndex, Larger
<1>3. ASSUME NEW t \in GeoThreads, put_end(t) PROVE LookIndex'
  <2>1. UNCHANGED cmax /\ (cnum' = cnum \/ cnum' = cnum + 1)
    BY <1>3 DEF put_end
  <2> QED BY <2>1 DEF LookIndex
<1>4. CASE \E k \in {"addr", "map"}, p \in {0, 1} : StartDaemon(k, p)
  <2>1. cmax' = LineCount /\ cnum' = LineCount
    BY <1>4 DEF StartDaemon
  <2>2. LineCount \in Indexes
    <3>1. PICK c : c = Cardinality(CacheLines)
      OBVIOUS
    <3>2. IsFiniteSet(1..(CacheSize - 1)) /\ CacheLines \in SUBSET (1..(CacheSize - 1))
      BY FS_Interval, LinesFit
    <3>3. c <= Cardinality(1..(CacheSize - 1)) /\ IsFiniteSet(CacheLines)
      BY <3>1, <3>2, FS_Subset
    <3>4. c \in Nat
      BY <3>1, <3>3, FS_CardinalityType
    <3>5. 1 \in Int /\ CacheSize - 1 \in Int
      OBVIOUS
    <3>6. Cardinality(1..(CacheSize - 1)) = IF 1 > CacheSize - 1 THEN 0 ELSE (CacheSize - 1) - 1 + 1
      BY <3>5, FS_Interval
    <3>7. c <= CacheSize - 1
      BY <3>3, <3>4, <3>6
    <3> QED BY <3>1, <3>4, <3>7 DEF LineCount, Indexes
  <2> QED BY <2>1, <2>2 DEF LookIndex, Indexes
<1>5. CASE write_geocache \/ UNCHANGED geoVars
  BY <1>1, <1>5 DEF write_geocache, geoVars, cacheVars
<1>6. ASSUME NEW t \in GeoThreads, GeoStep(t), ~in_cache(t), ~put_end(t) PROVE UNCHANGED <<cmax, cnum>>
  <2>1. CASE \/ \E p \in Places : Request(t, p)
             \/ parse_reply(t) \/ lookup_fails(t) \/ send_maps(t)
    BY <2>1 DEF Request, parse_reply, lookup_fails, send_maps, cacheVars
  <2>2. CASE take_entry(t) \/ get_url(t) \/ curl_easy_setopt(t)
    BY <2>2 DEF take_entry, get_url, curl_easy_setopt, cacheVars
  <2>3. CASE put_text(t) \/ put_numbers(t) \/ put_idx(t)
    BY <2>3 DEF put_text, put_numbers, put_idx
  <2> QED BY <1>6, <2>1, <2>2, <2>3 DEF GeoStep
<1> QED BY <1>1, <1>2, <1>3, <1>4, <1>5, <1>6 DEF GeoNext

\* The three stages of an update, and what the saved lines are.
EntrySettled == ~Filling({"put2", "put3", "put4"}) /\ cidx \in Indexes /\ Books(cidx, cidx)
AtEntry == /\ Filling({"put2", "put3"}) /\ ~Filling({"put4"})
           /\ cidx \in Indexes /\ Books(cidx + 1, cidx)
PastEntry == /\ Filling({"put4"}) /\ ~Filling({"put2", "put3"})
             /\ cidx \in 1..CacheSize /\ Books(cidx, cidx - 1)
Update == EntrySettled \/ AtEntry \/ PastEntry
WholeFile == \A i \in DOMAIN cfile : cfile[i].key # None /\ Whole(cfile[i])

LEMMA BooksParts == BooksInv <=> (calm /\ ~torn => Update /\ WholeFile)
BY DEF BooksInv, EntrySettled, AtEntry, PastEntry, Update, WholeFile

LEMMA BooksPrimed ==
    ASSUME calm' /\ ~torn' => Update' /\ WholeFile'
    PROVE  BooksInv'
BY DEF BooksInv, EntrySettled, AtEntry, PastEntry, Update, WholeFile

\* An update that is not touched stays where it is; a hit may raise cache_max_idx.
LEMMA UpdateRest ==
    ASSUME GeoShape, Update, LookIndex, NEW t \in GeoThreads, OthersRest(t),
           UNCHANGED <<cache, cidx, cnum>>,
           gpc[t] \notin {"put2", "put3", "put4"}, gpc'[t] \notin {"put2", "put3", "put4"},
           cmax' = cmax \/ (cmax' \in InUse)
    PROVE  Update'
<1> USE GeocodeAssumption
<1>1. InUse' = InUse
  BY DEF InUse
<1>2. /\ Filling({"put2", "put3", "put4"})' <=> Filling({"put2", "put3", "put4"})
      /\ Filling({"put2", "put3"})' <=> Filling({"put2", "put3"})
      /\ Filling({"put4"})' <=> Filling({"put4"})
  BY DEF OthersRest, Filling
<1>3. cidx \in Nat /\ cmax \in Nat
  BY DEF GeoShape, StoreShape, LookIndex, Indexes
<1>4. ASSUME NEW x \in Nat, NEW n, Books(x, n)
      PROVE  \/ InUse' = Indexes /\ cnum' \in {CacheSize - 1, CacheSize}
             \/ InUse' = 0..(x - 1) /\ x <= CacheSize /\ cnum' = n /\ cmax' <= x
  BY <1>1, <1>3, <1>4 DEF Books
<1>5. CASE EntrySettled
  BY <1>2, <1>3, <1>4, <1>5 DEF EntrySettled, Update, Books
<1>6. CASE AtEntry
  <2>1. cidx + 1 \in Nat
    BY <1>3
  <2>2. Books(cidx + 1, cidx)'
    BY <1>4, <1>6, <2>1 DEF AtEntry, Books
  <2> QED BY <1>2, <1>6, <2>2 DEF AtEntry, Update
<1>7. CASE PastEntry
  BY <1>2, <1>3, <1>4, <1>7 DEF PastEntry, Update, Books
<1> QED BY <1>5, <1>6, <1>7 DEF Update

\* Lookups and requests.
LEMMA BooksOutside ==
    ASSUME GeoShape, LookIndex, Update, NEW t \in GeoThreads, GeoStep(t),
           ~put_text(t), ~put_numbers(t), ~put_idx(t), ~put_end(t)
    PROVE  Update'
<1>0. ThreadShape /\ OthersRest(t)
  BY StepRest DEF GeoShape
<1>1. CASE in_cache(t)
  <2> DEFINE S == FoundIn(want[t].place, want[t].zoom)
  <2>1. S \in SUBSET InUse
    <3>1. ASSUME NEW i \in Indexes, Reached(i) PROVE i \in InUse
      <4>1. i \in 0..i
        BY GeocodeAssumption DEF Indexes
      <4> QED BY <3>1, <4>1 DEF Reached, InUse
    <3> QED BY <3>1 DEF FoundIn
  <2>2. InUse \in SUBSET Indexes
    BY DEF InUse
  <2>3. cmax' = cmax \/ (S # {} /\ cmax' = Larger(cmax, FirstOf(S)))
    BY <1>1 DEF in_cache
  <2>4. gpc[t] = "search" /\ gpc'[t] \in {"url", "found"} /\ UNCHANGED <<cache, cidx, cnum>>
    BY <1>0, <1>1 DEF in_cache, At, Goto, ThreadShape
  <2> HIDE DEF S
  <2>5. S # {} => FirstOf(S) \in InUse
    BY <2>1, <2>2, FirstIsThere
  <2>6. cmax' = cmax \/ cmax' \in InUse
    BY <2>3, <2>5 DEF Larger
  <2> QED BY <1>0, <2>4, <2>6, UpdateRest
<1>2. ASSUME NEW of, NEW cut, NEW id, Deliver(t, of, cut, id)
      PROVE  gpc'[t] \notin {"put2", "put3", "put4"}
  BY <1>0, <1>2, DeliveredTo
<1>3. CASE take_entry(t) \/ parse_reply(t)
  <2>1. gpc[t] \in {"found", "call"} /\ UNCHANGED <<cache, cidx, cnum, cmax>>
    BY <1>3 DEF take_entry, parse_reply, cacheVars, At
  <2>2. gpc'[t] \notin {"put2", "put3", "put4"}
    <3>1. CASE Goto(t, "put1")
      BY <1>0, <3>1 DEF Goto, ThreadShape
    <3> QED BY <1>2, <1>3, <3>1 DEF take_entry, parse_reply
  <2> QED BY <1>0, <2>1, <2>2, UpdateRest
<1>4. CASE \/ \E p \in Places : Request(t, p)
           \/ lookup_fails(t) \/ send_maps(t)
  <2>1. gpc[t] \in {"idle", "call", "maps"} /\ UNCHANGED <<cache, cidx, cnum, cmax>>
    BY <1>4 DEF Request, lookup_fails, send_maps, cacheVars, At
  <2>2. gpc'[t] \notin {"put2", "put3", "put4"}
    BY <1>0, <1>4 DEF Request, lookup_fails, send_maps, Return, Goto, ThreadShape
  <2> QED BY <1>0, <2>1, <2>2, UpdateRest
<1>5. CASE get_url(t) \/ curl_easy_setopt(t)
  <2>1. gpc[t] \in {"url", "setopt"} /\ UNCHANGED <<cache, cidx, cnum, cmax>>
    BY <1>5 DEF get_url, curl_easy_setopt, cacheVars, At
  <2>2. gpc'[t] \notin {"put2", "put3", "put4"}
    BY <1>0, <1>5 DEF get_url, curl_easy_setopt, Goto, ThreadShape
  <2> QED BY <1>0, <2>1, <2>2, UpdateRest
<1> QED BY <1>1, <1>3, <1>4, <1>5 DEF GeoStep

\* Which entry is being filled when t is the only thread in the cache.
LEMMA FillingAlone ==
    ASSUME NEW t \in GeoThreads, \A u \in GeoThreads \ {t} : gpc[u] \notin InCache, NEW pcs \in SUBSET InCache
    PROVE  Filling(pcs) <=> gpc[t] \in pcs
BY DEF Filling

LEMMA FillingAfter ==
    ASSUME NEW t \in GeoThreads, \A u \in GeoThreads \ {t} : gpc[u] \notin InCache, OthersRest(t),
           NEW pcs \in SUBSET InCache
    PROVE  Filling(pcs)' <=> gpc'[t] \in pcs
BY DEF Filling, OthersRest

\* The steps of an update.
LEMMA BooksFilling ==
    ASSUME GeoShape, LookIndex, FindsPlaces, Update, NEW t \in GeoThreads, GeoStep(t), calm',
           put_text(t) \/ put_numbers(t) \/ put_idx(t) \/ put_end(t)
    PROVE  Update'
<1> USE GeocodeAssumption
<1>0. /\ ThreadShape /\ OthersRest(t) /\ cidx \in Nat /\ cache \in [Indexes -> Entries] /\ cnum \in Nat
      /\ cmax \in Nat /\ cmax <= CacheSize /\ Indexes \subseteq Nat
  BY StepRest DEF GeoShape, StoreShape, LookIndex, Indexes
<1>1. Meet(t)
  BY DEF put_text, put_numbers, put_idx, put_end
<1>2. \A u \in GeoThreads \ {t} : gpc[u] \notin InCache
  BY <1>1, Alone
<1> DEFINE P234 == {"put2", "put3", "put4"}
           P23 == {"put2", "put3"}
           P4 == {"put4"}
<1>3. /\ Filling(P234) <=> gpc[t] \in P234
      /\ Filling(P23) <=> gpc[t] \in P23
      /\ Filling(P4) <=> gpc[t] \in P4
  BY <1>2, FillingAlone DEF InCache
<1>4. /\ Filling(P234)' <=> gpc'[t] \in P234
      /\ Filling(P23)' <=> gpc'[t] \in P23
      /\ Filling(P4)' <=> gpc'[t] \in P4
  BY <1>0, <1>2, FillingAfter DEF InCache
<1>5. CASE put_text(t)
  <2>1. gpc[t] = "put1" /\ UNCHANGED <<cidx, cnum, cmax>>
    BY <1>5 DEF put_text, At
  <2>2. EntrySettled
    BY <1>3, <2>1 DEF Update, AtEntry, PastEntry
  <2>3. cidx \in Indexes /\ Books(cidx, cidx)
    BY <2>2 DEF EntrySettled
  <2> DEFINE e == [cache[cidx] EXCEPT !.key = want[t].place, !.cut = Reuse,
                                      !.of = IF kind = "addr" THEN asked[t] ELSE cache[cidx].of]
  <2>4. gpc' = [gpc EXCEPT ![t] = "put2"] /\ cache' = [cache EXCEPT ![cidx] = e]
    BY <1>5, <2>3 DEF put_text, Goto, Stray
  <2>5. e.key # None
    <3>1. want[t].place \in Places /\ cache[cidx] \in Entries
      BY <1>0, <2>1, <2>3 DEF FindsPlaces
    <3> QED BY <3>1 DEF Entries, None
  <2> HIDE DEF e
  <2>6. InUse' = InUse \cup {cidx}
    BY <1>0, <2>3, <2>4, <2>5 DEF InUse
  <2>7. Books(cidx + 1, cidx)'
    <3>1. CASE InUse = Indexes /\ cnum \in {CacheSize - 1, CacheSize}
      BY <2>1, <2>3, <2>6, <3>1 DEF Books
    <3>2. CASE InUse = 0..(cidx - 1) /\ cidx <= CacheSize /\ cnum = cidx /\ cmax <= cidx
      <4>1. 0..(cidx - 1) \cup {cidx} = 0..((cidx + 1) - 1)
        BY <1>0
      <4>2. InUse' = 0..((cidx' + 1) - 1)
        BY <2>1, <2>6, <3>2, <4>1
      <4>3. cidx' + 1 <= CacheSize /\ cnum' = cidx' /\ cmax' <= cidx' + 1
        BY <1>0, <2>1, <2>3, <3>2 DEF Indexes
      <4> QED BY <4>2, <4>3 DEF Books
    <3> QED BY <2>3, <3>1, <3>2 DEF Books
  <2>8. gpc'[t] = "put2"
    BY <1>0, <2>4 DEF ThreadShape
  <2> QED BY <1>4, <2>1, <2>3, <2>7, <2>8 DEF Update, AtEntry
<1>6. CASE put_numbers(t)
  <2>1. gpc[t] = "put2" /\ UNCHANGED <<cidx, cnum, cmax>>
    BY <1>6 DEF put_numbers, At
  <2>2. cidx \in Indexes /\ Books(cidx + 1, cidx)
    BY <1>3, <2>1 DEF Update, AtEntry, PastEntry, EntrySettled
  <2> DEFINE e == IF kind = "addr" THEN [cache[cidx] EXCEPT !.pos = want[t].place]
                  ELSE [cache[cidx] EXCEPT !.pos = want[t].place, !.zoom = want[t].zoom,
                                           !.of = asked[t], !.id = MapId(t)]
  <2>3. gpc' = [gpc EXCEPT ![t] = "put3"] /\ cache' = [cache EXCEPT ![cidx] = e]
    BY <1>6, <2>2 DEF put_numbers, Goto, Stray
  <2>4. e.key = cache[cidx].key
    <3>1. cache[cidx] \in Entries
      BY <1>0, <2>2
    <3> QED BY <3>1 DEF Entries
  <2> HIDE DEF e
  <2>5. InUse' = InUse
    BY <1>0, <2>2, <2>3, <2>4 DEF InUse
  <2>6. gpc'[t] = "put3" /\ Books(cidx + 1, cidx)'
    BY <1>0, <2>1, <2>2, <2>3, <2>5 DEF ThreadShape, Books
  <2> QED BY <1>4, <2>1, <2>2, <2>6 DEF Update, AtEntry
<1>7. CASE put_idx(t)
  <2>1. gpc[t] = "put3" /\ UNCHANGED <<cache, cnum, cmax>> /\ cidx' = cidx + 1
    BY <1>7 DEF put_idx, At
  <2>2. cidx \in Indexes /\ Books(cidx + 1, cidx)
    BY <1>3, <2>1 DEF Update, AtEntry, PastEntry, EntrySettled
  <2>3. gpc'[t] = "put4" /\ InUse' = InUse
    BY <1>0, <1>7, <2>1 DEF put_idx, Goto, ThreadShape, InUse
  <2>4. cidx' \in 1..CacheSize /\ cidx' - 1 = cidx
    BY <2>1, <2>2 DEF Indexes
  <2>5. Books(cidx, cidx - 1)'
    BY <2>1, <2>2, <2>3, <2>4 DEF Books
  <2> QED BY <1>4, <2>3, <2>4, <2>5 DEF Update, PastEntry
<1>8. CASE put_end(t)
  <2>1. gpc[t] = "put4" /\ UNCHANGED <<cache, cmax>>
    BY <1>8 DEF put_end, At
  <2>2. cidx \in 1..CacheSize /\ Books(cidx, cidx - 1)
    BY <1>3, <2>1 DEF Update, AtEntry, PastEntry, EntrySettled
  <2>3. gpc'[t] \in {"idle", "search", "maps"}
    <3>1. Deliver(t, asked[t], FALSE, MapId(t))
      BY <1>8 DEF put_end
    <3> QED BY <1>0, <3>1, DeliveredTo
  <2>4. InUse' = InUse
    BY <2>1 DEF InUse
  <2>5. CASE cidx >= CacheSize
    <3>1. cidx' = 0 /\ UNCHANGED cnum /\ cidx = CacheSize
      BY <1>8, <2>2, <2>5 DEF put_end
    <3>2. InUse' = Indexes /\ cnum' \in {CacheSize - 1, CacheSize}
      BY <2>2, <2>4, <3>1 DEF Books, Indexes
    <3>3. Books(cidx, cidx)' /\ cidx' \in Indexes
      BY <3>1, <3>2 DEF Books, Indexes
    <3> QED BY <1>4, <2>3, <3>3 DEF Update, EntrySettled
  <2>6. CASE cidx < CacheSize
    <3>1. UNCHANGED cidx /\ cnum' = IF cnum < CacheSize THEN cnum + 1 ELSE cnum
      BY <1>8, <2>2, <2>6 DEF put_end
    <3>2. cidx' \in Indexes
      BY <2>2, <2>6, <3>1 DEF Indexes
    <3>3. CASE InUse = Indexes /\ cnum \in {CacheSize - 1, CacheSize}
      <4>1. cnum' \in {CacheSize - 1, CacheSize}
        BY <3>1, <3>3
      <4>2. Books(cidx, cidx)'
        BY <2>4, <3>3, <4>1 DEF Books
      <4> QED BY <1>4, <2>3, <3>2, <4>2 DEF Update, EntrySettled
    <3>4. CASE InUse = 0..(cidx - 1) /\ cidx <= CacheSize /\ cnum = cidx - 1 /\ cmax <= cidx
      <4>1. cnum' = cidx'
        BY <1>0, <2>6, <3>1, <3>4
      <4>2. Books(cidx, cidx)'
        BY <2>1, <2>4, <3>1, <3>4, <4>1 DEF Books
      <4> QED BY <1>4, <2>3, <3>2, <4>2 DEF Update, EntrySettled
    <3> QED BY <2>2, <3>3, <3>4 DEF Books
  <2> QED BY <1>0, <2>5, <2>6
<1> QED BY <1>5, <1>6, <1>7, <1>8

\* A complete file of a cache whose books agree.
LEMMA BooksSaved ==
    ASSUME GeoShape, LookIndex, BooksInv, write_geocache
    PROVE  BooksInv'
<1> USE GeocodeAssumption
<1> SUFFICES ASSUME calm', ~torn' PROVE Update' /\ WholeFile'
  BY BooksPrimed
<1>1. cmax \in Nat
  BY DEF LookIndex, Indexes
<1>2. PICK n \in 0..CacheSize : /\ n = Cardinality(Saved)
                                /\ \A i \in 1..n : i - 1 \in Indexes /\ cache[i - 1].key # None
  BY <1>1, SavedIsStart
<1>3. PICK k \in {n, n - 1} :
         /\ cfile' = [i \in 1..n |-> [cache[i - 1] EXCEPT !.zoom = IF i <= k THEN cache[i - 1].zoom ELSE "torn"]]
         /\ torn' = (torn \/ k < n)
  BY <1>2 DEF write_geocache
<1>4. UNCHANGED <<cache, cidx, cnum, cmax, gpc>> /\ calm
  BY DEF write_geocache, cacheVars, threadVars
<1>5. ~torn /\ ~(k < n)
  BY <1>3, Zenon
<1>6. k = n
  BY <1>3, <1>5
<1>7. Update
  BY <1>4, <1>5, BooksParts
<1>8. Update'
  BY <1>4, <1>7 DEF Update, EntrySettled, AtEntry, PastEntry, Books, InUse, Filling
<1>9. ASSUME NEW i \in DOMAIN cfile' PROVE cfile'[i].key # None /\ Whole(cfile'[i])
  <2>1. i \in 1..n /\ i <= k
    BY <1>3, <1>6, <1>9
  <2>2. cache[i - 1] \in Entries /\ cache[i - 1].zoom # "torn" /\ cache[i - 1].key # None
    BY <1>2, <2>1 DEF GeoShape, StoreShape
  <2>3. cfile'[i] = [cache[i - 1] EXCEPT !.zoom = cache[i - 1].zoom]
    BY <1>3, <2>1
  <2>4. cfile'[i] = cache[i - 1]
    BY <2>2, <2>3 DEF Entries
  <2> QED BY <2>2, <2>4 DEF Whole
<1>10. WholeFile'
  BY <1>9 DEF WholeFile, Whole
<1> QED BY <1>8, <1>10

\* The books after reading a complete file.
LEMMA BooksStart ==
    ASSUME GeoShape, BooksInv, NEW k \in {"addr", "map"}, NEW p \in {0, 1}, StartDaemon(k, p)
    PROVE  BooksInv'
<1> USE GeocodeAssumption
<1> SUFFICES ASSUME calm', ~torn' PROVE Update' /\ WholeFile'
  BY BooksPrimed
<1>1. /\ calm /\ cache' = read_geocache /\ cidx' = LineCount /\ cnum' = LineCount /\ cmax' = LineCount
      /\ UNCHANGED cfile /\ gpc' = [t \in GeoThreads |-> "idle"] /\ torn' = (torn \/ Bad # {})
  BY DEF StartDaemon
<1>2. ~torn /\ Bad = {}
  BY <1>1, Zenon
<1>3. WholeFile
  BY <1>1, <1>2, BooksParts
<1>4. WholeFile'
  BY <1>1, <1>3 DEF WholeFile, Whole
<1>5. PICK m \in Nat : /\ m = LineCount /\ m <= CacheSize - 1 /\ CacheLines = 1..m
                       /\ 1..m \subseteq DOMAIN cfile
  BY <1>2, <1>3, LinesOfWhole DEF WholeFile, GeoShape
<1>6. ASSUME NEW i \in Indexes PROVE read_geocache[i].key # None <=> i < m
  <2>1. CASE i < m
    <3>1. i + 1 \in 1..m
      BY <2>1 DEF Indexes
    <3>2. i + 1 \in DOMAIN cfile /\ i + 1 \in CacheLines
      BY <1>5, <3>1
    <3>3. cfile[i + 1] \in Entries /\ cfile[i + 1].key # None /\ Whole(cfile[i + 1])
      BY <1>3, <3>2 DEF WholeFile, GeoShape, StoreShape
    <3>4. read_geocache[i] = [cfile[i + 1] EXCEPT !.pos = cfile[i + 1].key,
                                                  !.id = IF kind = "map" THEN -(i + 1) ELSE None]
      BY <3>2, <3>3 DEF read_geocache
    <3> QED BY <2>1, <3>3, <3>4 DEF Entries
  <2>2. CASE ~(i < m)
    <3>1. i + 1 \notin CacheLines
      BY <1>5, <2>2 DEF Indexes
    <3> QED BY <2>2, <3>1 DEF read_geocache, NoEntry
  <2> QED BY <2>1, <2>2
<1>7. InUse' = 0..(m - 1)
  <2>1. 0..(m - 1) \subseteq Indexes
    BY <1>5 DEF Indexes
  <2>2. \A i \in Indexes : i < m <=> i \in 0..(m - 1)
    BY DEF Indexes
  <2>3. InUse' = {i \in Indexes : read_geocache[i].key # None}
    BY <1>1 DEF InUse
  <2> QED BY <1>6, <2>1, <2>2, <2>3
<1>8. Books(cidx, cidx)' /\ cidx' \in Indexes
  BY <1>1, <1>5, <1>7 DEF Books, Indexes
<1>9. ~Filling({"put2", "put3", "put4"})'
  BY <1>1 DEF Filling
<1> QED BY <1>4, <1>8, <1>9 DEF Update, EntrySettled

\* Every step keeps the books.
LEMMA BooksKept ==
    ASSUME GeoShape, LookIndex, FindsPlaces, BooksInv, [GeoNext]_geoVars
    PROVE  BooksInv'
<1>1. CASE UNCHANGED geoVars
  <2>1. UNCHANGED <<cache, cidx, cnum, cmax, cfile, gpc, calm, torn>>
    BY <1>1 DEF geoVars, cacheVars, geoFileVars, threadVars
  <2> QED BY <2>1 DEF BooksInv, Books, InUse, Filling, Whole
<1>2. ASSUME NEW t \in GeoThreads, GeoStep(t) PROVE BooksInv'
  <2> SUFFICES ASSUME calm', ~torn' PROVE Update' /\ WholeFile'
    BY BooksPrimed
  <2>1. CASE put_text(t) \/ put_numbers(t) \/ put_idx(t) \/ put_end(t)
    <3>1. UNCHANGED <<torn, cfile>> /\ Meet(t)
      BY <2>1 DEF put_text, put_numbers, put_idx, put_end, geoFileVars
    <3>2. calm /\ ~torn
      BY <3>1, Zenon DEF Meet
    <3>3. Update /\ WholeFile
      BY <3>2, BooksParts
    <3>4. Update'
      BY <1>2, <2>1, <3>3, BooksFilling
    <3> QED BY <3>1, <3>3, <3>4 DEF WholeFile, Whole
  <2>2. CASE ~(put_text(t) \/ put_numbers(t) \/ put_idx(t) \/ put_end(t))
    <3>1. UNCHANGED <<torn, cfile>> /\ (UNCHANGED calm \/ Meet(t))
      <4>1. CASE \/ \E p \in Places : Request(t, p)
                 \/ parse_reply(t) \/ lookup_fails(t) \/ send_maps(t)
        BY <4>1 DEF Request, parse_reply, lookup_fails, send_maps, geoFileVars
      <4>2. CASE in_cache(t) \/ take_entry(t) \/ get_url(t) \/ curl_easy_setopt(t)
        BY <4>2 DEF in_cache, take_entry, get_url, curl_easy_setopt, geoFileVars
      <4> QED BY <1>2, <2>2, <4>1, <4>2 DEF GeoStep
    <3>2. calm /\ ~torn
      BY <3>1, Zenon DEF Meet
    <3>3. Update /\ WholeFile
      BY <3>2, BooksParts
    <3>4. Update'
      BY <1>2, <2>2, <3>3, BooksOutside
    <3> QED BY <3>1, <3>3, <3>4 DEF WholeFile, Whole
  <2> QED BY <2>1, <2>2
<1>3. CASE write_geocache
  BY <1>3, BooksSaved
<1>4. CASE \E k \in {"addr", "map"}, p \in {0, 1} : StartDaemon(k, p)
  BY <1>4, BooksStart
<1> QED BY <1>1, <1>2, <1>3, <1>4 DEF GeoNext

\* The books of the first daemon.
LEMMA BooksInitial == GeoInit => GeoShape /\ LookIndex /\ FindsPlaces /\ BooksInv
<1> USE GeocodeAssumption
<1> SUFFICES ASSUME GeoInit PROVE GeoShape /\ LookIndex /\ FindsPlaces /\ BooksInv
  OBVIOUS
<1>1. /\ \A i \in Indexes : cache[i].key = None
      /\ \A t \in GeoThreads : gpc[t] = "off"
      /\ cidx = 0 /\ cnum = 0 /\ cmax = 0 /\ cfile = <<>>
  BY DEF GeoInit, NoEntry
<1>2. LookIndex /\ FindsPlaces
  BY <1>1 DEF LookIndex, Indexes, FindsPlaces
<1>3. InUse = 0..(0 - 1) /\ 0 \in Indexes
  BY <1>1 DEF InUse, Indexes
<1>4. Books(cidx, cidx)
  BY <1>1, <1>3 DEF Books
<1>5. BooksInv
  BY <1>1, <1>3, <1>4 DEF BooksInv, Filling
<1> QED BY <1>2, <1>5, NearInitial

\* Whatever the threads do, write_address_geocache looks at no entry past the end of the array;
\* and between updates, when threads never met and files were complete, the entries have no
\* gap, the next index is at their end, and address_cache_num is wrong by at most one: for
\* every size of the cache and every number of threads, requests and restarts.
THEOREM BooksAlwaysAgree == GeoSpec => []BooksAgree
<1> USE GeocodeAssumption
<1> DEFINE I == GeoShape /\ LookIndex /\ FindsPlaces /\ BooksInv
<1>1. GeoInit => I
  BY BooksInitial
<1>2. I /\ [GeoNext]_geoVars => I'
  BY ShapeKept, LookKept, PlacesKept, BooksKept
<1>3. I => BooksAgree
  <2> SUFFICES ASSUME I, calm, ~torn, ActiveThreads = {}
               PROVE  /\ cidx \in Indexes
                      /\ InUse = Indexes \/ InUse = 0..(cidx - 1)
                      /\ cnum - Cardinality(InUse) \in {-1, 0}
                      /\ cmax <= Cardinality(InUse)
    BY DEF BooksAgree, LookIndex
  <2>1. ~Filling({"put2", "put3"}) /\ ~Filling({"put4"})
    BY DEF ActiveThreads, Filling
  <2>2. cidx \in Indexes /\ Books(cidx, cidx)
    BY <2>1 DEF BooksInv
  <2>3. cidx \in Nat /\ 0 \in Int /\ cidx - 1 \in Int /\ CacheSize - 1 \in Int /\ cmax \in Indexes
    BY <2>2 DEF Indexes, LookIndex
  <2>4. CASE InUse = Indexes /\ cnum \in {CacheSize - 1, CacheSize}
    <3>1. Cardinality(Indexes) = IF 0 > CacheSize - 1 THEN 0 ELSE (CacheSize - 1) - 0 + 1
      BY <2>3, FS_Interval DEF Indexes
    <3>2. Cardinality(InUse) = CacheSize
      BY <2>4, <3>1
    <3> QED BY <2>2, <2>3, <2>4, <3>2 DEF Indexes
  <2>5. CASE InUse = 0..(cidx - 1) /\ cidx <= CacheSize /\ cnum = cidx /\ cmax <= cidx
    <3>1. Cardinality(0..(cidx - 1)) = IF 0 > cidx - 1 THEN 0 ELSE (cidx - 1) - 0 + 1
      BY <2>3, FS_Interval
    <3>2. Cardinality(InUse) = cidx
      BY <2>3, <2>5, <3>1
    <3> QED BY <2>2, <2>3, <2>5, <3>2
  <2> QED BY <2>2, <2>4, <2>5 DEF Books
<1> QED BY <1>1, <1>2, <1>3, PTL DEF GeoSpec

-----------------------------------------------------------------------------
(* The types of the geocoder                                               *)

\* What GeoShape does not say: the bounds of the counters, and the truth values of the histories.
Counters ==
    /\ lives \in 0..MaxLives /\ requests \in 0..MaxRequests
    /\ \A t \in GeoThreads : want[t].n \in Nat

Histories == calm \in BOOLEAN /\ torn \in BOOLEAN /\ wild \in BOOLEAN /\ wrapped \in BOOLEAN /\ saved \in BOOLEAN

\* Every step keeps the counters within their bounds.
LEMMA CountersKept ==
    ASSUME GeoShape, Counters, [GeoNext]_geoVars
    PROVE  Counters'
<1>1. want \in [GeoThreads -> Wants]
  BY DEF GeoShape, ThreadShape
<1>2. ASSUME NEW t \in GeoThreads, NEW w \in Wants, w.n \in Nat, want' = [want EXCEPT ![t] = w]
      PROVE  \A u \in GeoThreads : want'[u].n \in Nat
  BY <1>1, <1>2 DEF Counters
<1>3. NoWant \in Wants /\ NoWant.n \in Nat
  BY GeocodeAssumption DEF NoWant, Wants, Positions, Zooms
<1>4. ASSUME NEW t \in GeoThreads, \/ Return(t)
                                   \/ \E of, cut, id : Deliver(t, of, cut, id)
      PROVE  \A u \in GeoThreads : want'[u].n \in Nat
  <2>1. CASE Return(t)
    BY <1>2, <1>3, <2>1 DEF Return
  <2>2. CASE want' = [want EXCEPT ![t].zoom = "detailed"]
    <3>1. want[t] \in Wants /\ want[t].n \in Nat
      BY <1>1 DEF Counters
    <3>2. PICK w : w = [want[t] EXCEPT !.zoom = "detailed"]
      OBVIOUS
    <3>3. w \in Wants /\ w.n \in Nat
      BY <3>1, <3>2 DEF Wants, Zooms
    <3>4. want' = [want EXCEPT ![t] = w]
      BY <1>1, <2>2, <3>2
    <3> QED BY <1>2, <3>3, <3>4
  <2> QED BY <1>4, <2>1, <2>2 DEF Deliver
<1>5. CASE UNCHANGED <<lives, requests, want>>
  BY <1>5 DEF Counters
<1>6. ASSUME NEW t \in GeoThreads, NEW p \in Places, Request(t, p) PROVE Counters'
  <2>1. /\ requests + RequestCost <= MaxRequests /\ requests' = requests + RequestCost
        /\ want' = [want EXCEPT ![t] = [place |-> p, zoom |-> "overview", n |-> requests]] /\ lives' = lives
    BY <1>6 DEF Request, configVars
  <2>2. RequestCost \in Nat
    BY GeocodeAssumption DEF RequestCost
  <2>3. requests \in Nat /\ requests' \in 0..MaxRequests
    BY <2>1, <2>2, GeocodeAssumption DEF Counters
  <2>4. PICK w : w = [place |-> p, zoom |-> "overview", n |-> requests]
    OBVIOUS
  <2>5. w \in Wants /\ w.n \in Nat
    BY <2>3, <2>4 DEF Wants, Positions, Zooms
  <2> QED BY <1>2, <2>1, <2>3, <2>4, <2>5 DEF Counters
<1>7. ASSUME NEW t \in GeoThreads, take_entry(t) \/ lookup_fails(t) \/ put_end(t) \/ send_maps(t) \/ parse_reply(t)
      PROVE  Counters'
  <2>1. lives' = lives /\ requests' = requests
    BY <1>7 DEF take_entry, lookup_fails, put_end, send_maps, parse_reply, configVars
  <2>2. CASE UNCHANGED want
    BY <2>1, <2>2 DEF Counters
  <2>3. CASE Return(t) \/ \E of, cut, id : Deliver(t, of, cut, id)
    BY <1>4, <2>1, <2>3 DEF Counters
  <2> QED BY <1>7, <2>2, <2>3 DEF take_entry, lookup_fails, put_end, send_maps, parse_reply
<1>8. ASSUME NEW t \in GeoThreads, \/ in_cache(t) \/ get_url(t) \/ curl_easy_setopt(t)
                                   \/ put_text(t) \/ put_numbers(t) \/ put_idx(t)
      PROVE  Counters'
  BY <1>5, <1>8 DEF in_cache, get_url, curl_easy_setopt, put_text, put_numbers, put_idx, configVars
<1>9. ASSUME NEW k, NEW p, StartDaemon(k, p) PROVE Counters'
  <2>1. lives < MaxLives /\ lives' = lives + 1 /\ want' = [t \in GeoThreads |-> NoWant] /\ requests' = requests
    BY <1>9 DEF StartDaemon
  <2> QED BY <1>3, <2>1, GeocodeAssumption DEF Counters
<1>10. CASE write_geocache
  BY <1>5, <1>10 DEF write_geocache, configVars, threadVars
<1>11. CASE UNCHANGED geoVars
  BY <1>5, <1>11 DEF geoVars, configVars, threadVars
<1> QED BY <1>6, <1>7, <1>8, <1>9, <1>10, <1>11 DEF GeoNext, GeoStep

\* Every step leaves truth values.
LEMMA HistoriesKept ==
    ASSUME Histories, [GeoNext]_geoVars
    PROVE  Histories'
<1>1. CASE UNCHANGED <<calm, torn, wild, wrapped, saved>>
  BY <1>1 DEF Histories
<1>2. ASSUME NEW t \in GeoThreads, GeoStep(t) PROVE Histories'
  <2>1. torn' = torn /\ saved' = saved
    BY <1>2 DEF GeoStep, Request, in_cache, take_entry, get_url, curl_easy_setopt, parse_reply, lookup_fails, put_text,
                put_numbers, put_idx, put_end, send_maps, geoFileVars
  <2>2. calm' = calm \/ Meet(t)
    BY <1>2 DEF GeoStep, Request, in_cache, take_entry, get_url, curl_easy_setopt, parse_reply, lookup_fails, put_text,
                put_numbers, put_idx, put_end, send_maps
  <2>3. calm' \in BOOLEAN
    BY <2>2, Zenon DEF Meet, Histories
  <2>4. wild' = wild \/ wild' = TRUE
    BY <1>2 DEF GeoStep, Request, in_cache, take_entry, get_url, curl_easy_setopt, parse_reply, lookup_fails, put_text,
                put_numbers, put_idx, put_end, send_maps, Stray
  <2>5. wrapped' = wrapped \/ wrapped' = TRUE
    BY <1>2 DEF GeoStep, Request, in_cache, take_entry, get_url, curl_easy_setopt, parse_reply, lookup_fails, put_text,
                put_numbers, put_idx, put_end, send_maps, cacheVars
  <2> QED BY <2>1, <2>3, <2>4, <2>5 DEF Histories
<1>3. CASE write_geocache
  <2>1. wild' = wild /\ wrapped' = wrapped /\ saved' = TRUE
    BY <1>3 DEF write_geocache, cacheVars
  <2>2. calm' \in BOOLEAN
    BY <1>3, Zenon DEF write_geocache
  <2>3. torn' \in BOOLEAN
    BY <1>3, Zenon DEF write_geocache
  <2> QED BY <2>1, <2>2, <2>3 DEF Histories
<1>4. ASSUME NEW k, NEW p, StartDaemon(k, p) PROVE Histories'
  <2>1. wild' = FALSE /\ saved' = FALSE /\ calm' = calm /\ wrapped' = wrapped
    BY <1>4 DEF StartDaemon
  <2>2. torn' \in BOOLEAN
    BY <1>4, Zenon DEF StartDaemon
  <2> QED BY <2>1, <2>2 DEF Histories
<1>5. CASE UNCHANGED geoVars
  BY <1>1, <1>5 DEF geoVars, cacheVars, geoFileVars
<1> QED BY <1>2, <1>3, <1>4, <1>5 DEF GeoNext

\* The variables of the geocoder keep their types: in particular the statics that
\* update_address_cache and read_address_geocache move never leave the natural numbers, and an
\* entry that was found is one of the array.
THEOREM GeoTypeCorrect == GeoSpec => []GeoTypeOK
<1> DEFINE I == GeoShape /\ LookIndex /\ FindsPlaces /\ BooksInv /\ Counters /\ Histories
<1>1. GeoInit => I
  <2> SUFFICES ASSUME GeoInit PROVE I
    OBVIOUS
  <2>1. GeoShape /\ LookIndex /\ FindsPlaces /\ BooksInv
    BY BooksInitial
  <2>2. Counters
    BY GeocodeAssumption DEF GeoInit, Counters, NoWant
  <2>3. Histories
    BY DEF GeoInit, Histories
  <2> QED BY <2>1, <2>2, <2>3
<1>2. I /\ [GeoNext]_geoVars => I'
  BY ShapeKept, LookKept, PlacesKept, BooksKept, CountersKept, HistoriesKept
<1>3. I => GeoTypeOK
  <2> SUFFICES ASSUME I PROVE GeoTypeOK
    OBVIOUS
  <2>1. want \in [GeoThreads -> [place : Positions, zoom : Zooms, n : Nat]]
    <3>1. \A t \in GeoThreads : want[t] \in Wants /\ want[t].n \in Nat
      BY DEF GeoShape, ThreadShape, Counters
    <3>2. \A t \in GeoThreads : want[t] \in [place : Positions, zoom : Zooms, n : Nat]
      BY <3>1 DEF Wants
    <3> QED BY <3>2 DEF GeoShape, ThreadShape
  <2>2. cmax \in Nat /\ cnum \in Nat
    BY DEF LookIndex, Indexes
  <2>3. /\ kind \in {"addr", "map"} /\ proximity \in {0, 1} /\ cache \in [Indexes -> Entries] /\ cidx \in Nat
        /\ url \in Positions /\ lives \in 0..MaxLives /\ requests \in 0..MaxRequests
    BY DEF GeoShape, StoreShape, Counters
  <2>4. /\ gpc \in [GeoThreads -> Stages] /\ asked \in [GeoThreads -> Positions] /\ hit \in [GeoThreads -> Indexes]
        /\ given \in [GeoThreads -> Givens] /\ images \in [GeoThreads -> MapPairs]
    BY DEF GeoShape, ThreadShape
  <2>5. {calm, torn, wild, wrapped, saved} \subseteq BOOLEAN
    BY Zenon DEF Histories
  <2> QED BY <2>1, <2>2, <2>3, <2>4, <2>5 DEF GeoTypeOK, Stages, Givens, MapPairs
<1> QED BY <1>1, <1>2, <1>3, PTL DEF GeoSpec

=============================================================================
