----------------------- MODULE RepresentativeLookups -----------------------
(***************************************************************************)
(* GET /api/representatives/:slug on the way to the Congress provider: the *)
(* throttle of public lookups (createPublicRequestThrottle), which counts  *)
(* the requests of a client in fixed windows, and the cache of provider    *)
(* lookups (createBoundedPromiseCache), which holds the promise of a       *)
(* lookup from the moment it starts.                                       *)
(*                                                                         *)
(* A lookup may settle at any time; until then other requests for the slug *)
(* share it, it may expire or be evicted, and a newer lookup may take its  *)
(* place.  Requests that wait are alike: only their number matters, and    *)
(* the slug of one only when it asks the cache.                            *)
(*                                                                         *)
(* LoginThrottleProofs extends this module and LoginThrottle, whose names  *)
(* it therefore avoids.                                                    *)
(***************************************************************************)
EXTENDS Naturals, Sequences, FiniteSets, SequencesExt, FiniteSetsExt

CONSTANTS
  Slug,          \* representatives, by normalized slug
  Client,        \* throttle keys, the addresses of clients
  MaxRequests,   \* maxRequests of the throttle
  LookupBuckets, \* maxBuckets of the throttle
  LookupWindow,  \* windowMs of the throttle
  MaxEntries,    \* maxEntries of the cache
  Ttl,           \* ttlMs of the cache
  Requests,      \* bound: requests that come
  LastTick,      \* bound: the last tick
  NoSlug

ASSUME LookupsAssumption ==
  /\ {Requests, MaxRequests, LookupBuckets, LookupWindow, MaxEntries, Ttl} \subseteq Nat \ {0}
  /\ LastTick \in Nat /\ NoSlug \notin Slug /\ IsFiniteSet(Client)

Ticks == 0 .. LastTick

\* Lookups are numbered as they start; no request starts more than one.
Lookups == 1 .. Requests

\* count 0: the client has no bucket.
RequestState == [count : 0 .. MaxRequests, resetAt : 0 .. LastTick + LookupWindow]
NoRequestState == [count |-> 0, resetAt |-> 0]

Entry == [slug : Slug, lookup : Lookups, expiresAt : 0 .. LastTick + Ttl]

\* A lookup; "dropped": it failed, and the cache has been told.
Lookup == [slug : Slug \cup {NoSlug}, started : Ticks,
           state : {"none", "pending", "resolved", "rejected", "dropped"}]
NoLookup == [slug |-> NoSlug, started |-> 0, state |-> "none"]

VARIABLES
  clock,     \* Date.now()
  buckets,   \* attempts, by client
  entries,   \* the cache in the order of its Map, the least recently used first
  lookup,    \* lookup[l]: lookup l
  arrived,   \* requests that have come
  waiting,   \* those of them that have not asked the cache yet
  admitted,  \* history: admitted[c][t], requests of c let through at tick t
  evicted,   \* history: lookups that had to make room
  others     \* history: others[s], slugs asked for since s was

lookupVars == <<clock, buckets, entries, lookup, arrived, waiting, admitted, evicted, others>>
throttle == <<buckets, arrived, admitted>>
cache == <<entries, evicted, others>>

LookupTypeOK ==
  /\ clock \in Ticks
  /\ buckets \in [Client -> RequestState] /\ Cardinality({c \in Client : buckets[c].count > 0}) <= LookupBuckets
  /\ entries \in Seq(Entry) /\ Len(entries) <= MaxEntries
  /\ \A i, j \in DOMAIN entries : entries[i].slug = entries[j].slug => i = j
  /\ lookup \in [Lookups -> Lookup]
  /\ arrived \in 0 .. Requests /\ waiting \in 0 .. arrived
  /\ admitted \in [Client -> [Ticks -> Nat]]
  /\ evicted \subseteq Lookups /\ others \in [Slug -> SUBSET Slug]

LookupInit ==
  /\ clock = 0
  /\ buckets = [c \in Client |-> NoRequestState]
  /\ entries = <<>>
  /\ lookup = [l \in Lookups |-> NoLookup]
  /\ arrived = 0 /\ waiting = 0
  /\ admitted = [c \in Client |-> [t \in Ticks |-> 0]]
  /\ evicted = {} /\ others = [s \in Slug |-> {}]
-----------------------------------------------------------------------------
(****************************** The throttle ******************************)

\* Mutant: a window ends one tick early.
OpenEarly(bucket) == bucket.count > 0 /\ bucket.resetAt > clock + 1

Open(bucket) == bucket.count > 0 /\ bucket.resetAt > clock

PruneRequests == [c \in Client |-> IF Open(buckets[c]) THEN buckets[c] ELSE NoRequestState]

\* A known client has its limit; a new one needs room for a bucket.
MayPass(table, c) ==
  IF Open(table[c])
  THEN table[c].count < MaxRequests
  ELSE Cardinality({d \in Client : Open(table[d])}) < LookupBuckets

ChargeRequest(bucket) ==
  IF Open(bucket) THEN [bucket EXCEPT !.count = @ + 1]
  ELSE [count |-> 1, resetAt |-> clock + LookupWindow]

Come == arrived < Requests /\ arrived' = arrived + 1

\* publicLookupThrottle.attempt, for the request or for its saved lookup.
Admit(c) ==
  /\ Come /\ MayPass(PruneRequests, c)
  /\ buckets' = [PruneRequests EXCEPT ![c] = ChargeRequest(@)]
  /\ admitted' = [admitted EXCEPT ![c][clock] = @ + 1]
  /\ waiting' = waiting + 1
  /\ UNCHANGED <<clock, cache, lookup>>

\* A request that is refused is answered 429.
Refuse(c) ==
  /\ Come /\ ~MayPass(PruneRequests, c)
  /\ buckets' = PruneRequests
  /\ UNCHANGED <<clock, admitted, waiting, cache, lookup>>

LeaveQueue == waiting > 0 /\ waiting' = waiting - 1

\* The representative is known from the saved lookup, a guide or another
\* provider; or the request was for another route of the same throttle.
FindElsewhere == LeaveQueue /\ UNCHANGED <<clock, throttle, cache, lookup>>
-----------------------------------------------------------------------------
(******************************* The cache *******************************)

\* What stays when all places but these are deleted from the Map.
OnlyAt(table, places) ==
  [n \in 1 .. Cardinality(places) |->
     table[CHOOSE i \in places : Cardinality({j \in places : j <= i}) = n]]

Fresh == OnlyAt(entries, {i \in DOMAIN entries : entries[i].expiresAt > clock})

Holds(table, s) == \E i \in DOMAIN table : table[i].slug = s
EntryOf(table, s) == table[CHOOSE i \in DOMAIN table : table[i].slug = s]
Without(table, s) == OnlyAt(table, {i \in DOMAIN table : table[i].slug # s})

\* Mutant: a hit does not count as a use.
TouchNot(table, s) == table

\* Mutant: a hit starts the entry's time again.
TouchExtends(table, s) ==
  Append(Without(table, s), [EntryOf(table, s) EXCEPT !.expiresAt = clock + Ttl])

\* A hit moves the entry to the end of the Map.
Touch(table, s) == Append(Without(table, s), EntryOf(table, s))

\* Mutant: the table is full one entry too late.
MakeRoomLate(table) == IF Len(table) > MaxEntries THEN Tail(table) ELSE table

MakeRoom(table) == IF Len(table) >= MaxEntries THEN Tail(table) ELSE table

Asked(s) == others' = [t \in Slug |-> IF t = s THEN {} ELSE others[t] \cup {s}]

\* getOrCreate: the lookup of the slug is shared, settled or not.
Share(s) ==
  /\ LeaveQueue /\ Asked(s)
  /\ Holds(Fresh, s)
  /\ entries' = Touch(Fresh, s)
  /\ UNCHANGED <<clock, throttle, lookup, evicted>>

Started == {l \in Lookups : lookup[l].state # "none"}

\* getOrCreate: a lookup is started, and cached before it is settled.
Create(s) ==
  /\ LeaveQueue /\ Asked(s)
  /\ ~Holds(Fresh, s)
  /\ LET l == Cardinality(Started) + 1
         kept == MakeRoom(Fresh)
     IN /\ entries' = Append(kept, [slug |-> s, lookup |-> l, expiresAt |-> clock + Ttl])
        /\ evicted' = evicted \cup {e.lookup : e \in ToSet(Fresh) \ ToSet(kept)}
        /\ lookup' = [lookup EXCEPT ![l] = [slug |-> s, started |-> clock, state |-> "pending"]]
  /\ UNCHANGED <<clock, throttle>>

\* The provider answers, and so do the requests that share the lookup; or
\* an error, perhaps the time limit of a fetch, ends it.
Settle(l) ==
  /\ lookup[l].state = "pending"
  /\ \E state \in {"resolved", "rejected"} : lookup' = [lookup EXCEPT ![l].state = state]
  /\ UNCHANGED <<clock, throttle, waiting, cache>>

\* Mutant: the entry of the slug goes, whatever lookup it holds.
IsOfSlug(e, l) == e.slug = lookup[l].slug

IsOwn(e, l) == e.lookup = l

\* pending.catch: a lookup that failed is not kept.  Another callback may
\* run before this one and share the failure.
Drop(l) ==
  /\ lookup[l].state = "rejected"
  /\ entries' = OnlyAt(entries, {i \in DOMAIN entries : ~IsOwn(entries[i], l)})
  /\ lookup' = [lookup EXCEPT ![l] = [NoLookup EXCEPT !.state = "dropped"]]
  /\ UNCHANGED <<clock, throttle, waiting, evicted, others>>

ClockTick ==
  /\ clock < LastTick
  /\ clock' = clock + 1
  /\ UNCHANGED <<throttle, waiting, cache, lookup>>
-----------------------------------------------------------------------------
LookupNext ==
  \/ \E c \in Client : Admit(c) \/ Refuse(c)
  \/ FindElsewhere
  \/ \E s \in Slug : Share(s) \/ Create(s)
  \/ \E l \in Lookups : Settle(l) \/ Drop(l)
  \/ ClockTick

LookupSpec == LookupInit /\ [][LookupNext]_lookupVars
-----------------------------------------------------------------------------
(****************************** Properties ******************************)

Live(l) == lookup[l].state \in {"pending", "resolved"} /\ clock < lookup[l].started + Ttl

(***************************************************************************)
(* README.md: the cache "bounds direct provider-backed representative      *)
(* identity lookups": a lookup is started for a slug whose last one is     *)
(* pending or answered and in its time only if that one had to make room;  *)
(* in particular the late failure of a lookup whose place was taken does   *)
(* not remove the one that took it.                                        *)
(***************************************************************************)
LookupsAreShared ==
  \A l, k \in Lookups :
    l # k /\ Live(l) /\ Live(k) /\ lookup[l].slug = lookup[k].slug => evicted \cap {l, k} # {}

(***************************************************************************)
(* "least-recently-used entries": a slug makes room only when maxEntries   *)
(* other slugs, the new one among them, were asked for since it was.       *)
(***************************************************************************)
LeastRecentlyUsedGoes ==
  [][\A l \in evicted' \ evicted : Cardinality(others'[lookup[l].slug]) >= MaxEntries]_lookupVars

(***************************************************************************)
(* "with a 15-minute freshness window": no request is given a lookup that  *)
(* started ttlMs ago, however often it was asked for in between.           *)
(***************************************************************************)
AnswersAreFresh ==
  [][\A s \in Slug :
       Share(s) \/ Create(s) => clock < lookup'[Last(entries').lookup].started + Ttl]_lookupVars

\* Requests of c let through from tick t on, for the length of a window.
Volume(c, t) == MapThenSumSet(LAMBDA u : admitted[c][u], t .. Min({t + LookupWindow - 1, LastTick}))

(***************************************************************************)
(* "the public lookup throttle limits request volume": the windows are     *)
(* fixed, so a stretch of windowMs may overlap two of them, and lets at    *)
(* most all requests of the second through, and those of the first but the *)
(* one that opened it; for one client, and for each bucket in all.         *)
(***************************************************************************)
VolumeIsLimited ==
  \A t \in Ticks :
    /\ \A c \in Client : Volume(c, t) <= 2 * MaxRequests - 1
    /\ MapThenSumSet(LAMBDA c : Volume(c, t), Client) <= LookupBuckets * (2 * MaxRequests - 1)
=============================================================================
