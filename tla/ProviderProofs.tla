--------------------------- MODULE ProviderProofs ---------------------------
(***************************************************************************)
(* The provider layer, for any number of requests, profiles, cache keys    *)
(* and models.                                                             *)
(*                                                                         *)
(* OneFetch is not inductive: that two leaders of a key are never both     *)
(* young rests on the registry, where a young leader always has its slot   *)
(* (YoungOwnsSlot).  It is proved of the catalog alone and of the requests *)
(* that use it.  DiskIsCurrent speaks of the moment when nothing is on its *)
(* way to the disk; before that, the snapshot of the store's last revision *)
(* is in the hands of some request (DiskInv).                              *)
(***************************************************************************)
EXTENDS ProviderRequests, FiniteSetTheorems, SequenceTheorems, TLAPS

-----------------------------------------------------------------------------
(* The single flight of the catalog                                        *)

\* A leader whose slot is younger than the stale-slot age is the registered
\* one: only its own guard, or a follower that saw it old, removes a slot.
YoungOwnsSlot ==
    \A q \in Requests, k \in Keys : Leads(q, k) /\ ~fetch[q].aged => slot[k] = q

CatalogInv == CatalogTypeOK /\ YoungOwnsSlot

LEMMA NoFetchType == Keys # {} => NoFetch \in Fetch
  BY DEF NoFetch, Fetch, FetchSteps, Results

\* The types hold initially; with a key there is a state to start from.
LEMMA CatalogInitInv == ASSUME Keys # {}, CatalogInit PROVE CatalogInv
  <1>1. CatalogTypeOK
    BY NoFetchType DEF CatalogInit, CatalogTypeOK
  <1>2. YoungOwnsSlot
    BY DEF CatalogInit, YoungOwnsSlot, Leads, NoFetch
  <1> QED BY <1>1, <1>2 DEF CatalogInv

LEMMA LookupInv ==
  ASSUME CatalogInv, NEW r \in Requests, NEW k \in Keys, Lookup(r, k) PROVE CatalogInv'
  <1> USE DEF CatalogInv
  <1>1. CatalogTypeOK'
    BY DEF Lookup, NoFetch, CatalogTypeOK, Fetch, FetchSteps, Results
  <1>2. YoungOwnsSlot'
    BY DEF Lookup, NoFetch, CatalogTypeOK, Fetch, YoungOwnsSlot, Leads
  <1> QED BY <1>1, <1>2

LEMMA SettleInv ==
  ASSUME CatalogInv, NEW r \in Requests, Settle(r) PROVE CatalogInv'
  <1> USE DEF CatalogInv
  <1>0. Keys # {} BY DEF CatalogTypeOK, Fetch
  <1>1. CatalogTypeOK'
    BY <1>0, NoFetchType DEF Settle, CatalogTypeOK, Fetch, FetchSteps, Results
  <1>2. YoungOwnsSlot'
    BY <1>0, NoFetchType DEF Settle, NoFetch, CatalogTypeOK, Fetch, YoungOwnsSlot, Leads
  <1> QED BY <1>1, <1>2

LEMMA JoinInv ==
  ASSUME CatalogInv, NEW r \in Requests, Join(r) PROVE CatalogInv'
  <1> USE DEF CatalogInv
  <1>1. CASE slot[fetch[r].key] # NoOne
    <2>1. CatalogTypeOK'
      BY <1>1 DEF Join, CatalogTypeOK, Fetch, FetchSteps
    <2>2. YoungOwnsSlot'
      BY <1>1 DEF Join, CatalogTypeOK, Fetch, YoungOwnsSlot, Leads
    <2> QED BY <2>1, <2>2
  <1>2. CASE slot[fetch[r].key] = NoOne
    <2>1. CatalogTypeOK'
      BY <1>2 DEF Join, Goto, CatalogTypeOK, Fetch, FetchSteps
    <2>2. YoungOwnsSlot'
      BY <1>2, NoOneAssumption DEF Join, Goto, CatalogTypeOK, Fetch, YoungOwnsSlot, Leads
    <2> QED BY <2>1, <2>2
  <1> QED BY <1>1, <1>2

\* Steps that leave the registry alone, and make no leader.
LEMMA StallInv ==
  ASSUME CatalogInv, NEW r \in Requests, Stall(r) PROVE CatalogInv'
  BY DEF CatalogInv, Stall, Goto, CatalogTypeOK, Fetch, FetchSteps, YoungOwnsSlot, Leads

LEMMA PublishInv ==
  ASSUME CatalogInv, NEW r \in Requests, NEW result \in Results, Publish(r, result)
  PROVE  CatalogInv'
  <1> USE DEF CatalogInv
  <1>1. CatalogTypeOK'
    <2>1. [fetch[r] EXCEPT !.at = "publish", !.result = result] \in Fetch
      BY DEF CatalogTypeOK, Fetch, FetchSteps
    <2>2. \A q \in Requests : [fetch[q] EXCEPT !.result = result] \in Fetch
      BY DEF CatalogTypeOK, Fetch
    <2> QED BY <2>1, <2>2 DEF Publish, CatalogTypeOK
  <1>2. YoungOwnsSlot'
    BY DEF Publish, CatalogTypeOK, Fetch, YoungOwnsSlot, Leads
  <1> QED BY <1>1, <1>2

LEMMA ReceiveInv ==
  ASSUME CatalogInv, NEW r \in Requests, Receive(r) PROVE CatalogInv'
  <1> USE DEF CatalogInv
  <1>1. [fetch[r] EXCEPT !.at = "settle", !.leader = NoOne] \in Fetch
    BY DEF CatalogTypeOK, Fetch, FetchSteps, Results
  <1>2. fetch' = [fetch EXCEPT ![r] = [fetch[r] EXCEPT !.at = "settle", !.leader = NoOne]]
    BY DEF Receive, CatalogTypeOK
  <1>3. CatalogTypeOK'
    BY <1>1, <1>2 DEF Receive, CatalogTypeOK, Fetch
  <1>4. YoungOwnsSlot'
    BY <1>2 DEF Receive, CatalogTypeOK, Fetch, YoungOwnsSlot, Leads
  <1> QED BY <1>3, <1>4

LEMMA SenderGoneInv ==
  ASSUME CatalogInv, NEW r \in Requests, SenderGone(r) PROVE CatalogInv'
  <1> USE DEF CatalogInv
  <1>1. [fetch[r] EXCEPT !.at = "join", !.leader = NoOne, !.result = "none"] \in Fetch
    BY DEF CatalogTypeOK, Fetch, FetchSteps, Results
  <1>2. fetch' = [fetch EXCEPT ![r] =
                    [fetch[r] EXCEPT !.at = "join", !.leader = NoOne, !.result = "none"]]
    BY DEF SenderGone, Rejoin, CatalogTypeOK
  <1>3. CatalogTypeOK'
    BY <1>1, <1>2 DEF SenderGone, CatalogTypeOK, Fetch
  <1>4. YoungOwnsSlot'
    BY <1>2 DEF SenderGone, CatalogTypeOK, Fetch, YoungOwnsSlot, Leads
  <1> QED BY <1>3, <1>4

LEMMA AgeSlotInv ==
  ASSUME CatalogInv, NEW r \in Requests, AgeSlot(r) PROVE CatalogInv'
  <1> USE DEF CatalogInv
  <1>1. [fetch[r] EXCEPT !.aged = TRUE] \in Fetch
    BY DEF CatalogTypeOK, Fetch, FetchSteps, Results
  <1>2. fetch' = [fetch EXCEPT ![r] = [fetch[r] EXCEPT !.aged = TRUE]]
    BY DEF AgeSlot, CatalogTypeOK
  <1>3. CatalogTypeOK'
    BY <1>1, <1>2 DEF AgeSlot, CatalogTypeOK, Fetch
  <1>4. YoungOwnsSlot'
    BY <1>2 DEF AgeSlot, CatalogTypeOK, Fetch, YoungOwnsSlot, Leads
  <1> QED BY <1>3, <1>4

LEMMA AgeCacheInv ==
  ASSUME CatalogInv, NEW k \in Keys, AgeCache(k) PROVE CatalogInv'
  BY DEF CatalogInv, AgeCache, CatalogTypeOK, YoungOwnsSlot, Leads

\* Steps that remove a slot: a leader that leaves its own, a follower one that
\* it saw old.
LEMMA UnregisterInv ==
  ASSUME CatalogInv, NEW r \in Requests, Unregister(r) PROVE CatalogInv'
  <1> USE DEF CatalogInv
  <1>1. [fetch[r] EXCEPT !.at = "settle", !.aged = FALSE] \in Fetch
    BY DEF CatalogTypeOK, Fetch, FetchSteps, Results
  <1>2. fetch' = [fetch EXCEPT ![r] = [fetch[r] EXCEPT !.at = "settle", !.aged = FALSE]]
    BY DEF Unregister, CatalogTypeOK
  <1>3. CatalogTypeOK'
    BY <1>1, <1>2 DEF Unregister, Withdraw, CatalogTypeOK, Fetch
  <1>4. YoungOwnsSlot'
    BY <1>2 DEF Unregister, Withdraw, CatalogTypeOK, Fetch, YoungOwnsSlot, Leads
  <1> QED BY <1>3, <1>4

LEMMA AbandonInv ==
  ASSUME CatalogInv, NEW r \in Requests, Abandon(r) PROVE CatalogInv'
  <1> USE DEF CatalogInv
  <1>0. Keys # {} BY DEF CatalogTypeOK, Fetch
  <1>1. slot' \in [Keys -> Requests \cup {NoOne}]
    BY DEF Abandon, Withdraw, CatalogTypeOK, Fetch
  <1>2. fetch' \in [Requests -> Fetch]
    BY <1>0, NoFetchType DEF Abandon, CatalogTypeOK, Fetch, FetchSteps
  <1>3. CatalogTypeOK'
    BY <1>1, <1>2 DEF Abandon, CatalogTypeOK
  <1>4. YoungOwnsSlot'
    BY <1>0, NoFetchType DEF Abandon, Withdraw, CatalogTypeOK, Fetch, YoungOwnsSlot, Leads
  <1> QED BY <1>3, <1>4

LEMMA EvictInv ==
  ASSUME CatalogInv, NEW r \in Requests, Evict(r) PROVE CatalogInv'
  <1> USE DEF CatalogInv
  <1>1. [fetch[r] EXCEPT !.at = "join", !.leader = NoOne, !.result = "none"] \in Fetch
    BY DEF CatalogTypeOK, Fetch, FetchSteps, Results
  <1>2. fetch' = [fetch EXCEPT ![r] =
                    [fetch[r] EXCEPT !.at = "join", !.leader = NoOne, !.result = "none"]]
    BY DEF Evict, Rejoin, CatalogTypeOK
  <1>3. CatalogTypeOK'
    BY <1>1, <1>2 DEF Evict, CatalogTypeOK, Fetch
  <1>4. YoungOwnsSlot'
    <2> SUFFICES ASSUME NEW q \in Requests, NEW k \in Keys,
                        Leads(q, k)', ~fetch[q].aged'
                 PROVE  slot[k]' = q
      BY DEF YoungOwnsSlot
    <2>1. q # r
      BY <1>2 DEF Leads, CatalogTypeOK, Fetch
    <2>2. Leads(q, k) /\ ~fetch[q].aged
      BY <1>2, <2>1 DEF Leads, CatalogTypeOK, Fetch
    <2>3. slot[k] = q
      BY <2>2 DEF YoungOwnsSlot
    <2>4. k # fetch[r].key
      BY <2>2, <2>3 DEF Evict
    <2> QED BY <2>3, <2>4 DEF Evict, CatalogTypeOK
  <1> QED BY <1>3, <1>4

LEMMA CatalogNextInv == ASSUME CatalogInv, [CatalogNext]_catalogVars PROVE CatalogInv'
  <1>1. ASSUME NEW r \in Requests, FetchStep(r) PROVE CatalogInv'
    BY <1>1, JoinInv, SettleInv, UnregisterInv, ReceiveInv, SenderGoneInv, EvictInv
       DEF FetchStep
  <1>2. ASSUME NEW r \in Requests, FetchEvent(r) PROVE CatalogInv'
    BY <1>2, StallInv, AbandonInv, PublishInv DEF FetchEvent
  <1>3. ASSUME NEW r \in Requests, NEW k \in Keys, Lookup(r, k) PROVE CatalogInv'
    BY <1>3, LookupInv
  <1>4. CASE Passage
    BY <1>4, AgeCacheInv, AgeSlotInv DEF Passage
  <1>5. CASE UNCHANGED catalogVars
    BY <1>5 DEF catalogVars, CatalogInv, CatalogTypeOK, YoungOwnsSlot, Leads
  <1> QED BY <1>1, <1>2, <1>3, <1>4, <1>5 DEF CatalogNext

\* The registry, the cache and the requests keep their types, and a leader that
\* is not old has its slot.
THEOREM CatalogInvariant == Keys # {} => (CatalogSpec => []CatalogInv)
  <1> SUFFICES ASSUME Keys # {} PROVE CatalogSpec => []CatalogInv
    OBVIOUS
  <1>1. CatalogInit => CatalogInv
    BY CatalogInitInv
  <1>2. CatalogInv /\ [CatalogNext]_catalogVars => CatalogInv'
    BY CatalogNextInv
  <1> QED BY <1>1, <1>2, PTL DEF CatalogSpec

\* fetch_model_catalog_singleflight keeps its name: no two fetches of one key
\* are both younger than the stale-slot age, however many requests join, are
\* dropped, hang, are evicted or come back late.
THEOREM SingleFlight == Keys # {} => (CatalogSpec => []OneFetch)
  <1> SUFFICES ASSUME Keys # {} PROVE CatalogSpec => []OneFetch
    OBVIOUS
  <1>1. CatalogInv => OneFetch
    BY DEF CatalogInv, YoungOwnsSlot, OneFetch
  <1> QED BY <1>1, CatalogInvariant, PTL

-----------------------------------------------------------------------------
(* The store of the profiles                                               *)

\* The windows of t are windows of s.
Includes(s, t) == t.cooling \subseteq s.cooling /\ t.disabled \subseteq s.disabled

LEMMA EmptyType ==
  /\ EmptyStore \in Store
  /\ EmptyStore.revision = 0 /\ EmptyStore.cooling = {} /\ EmptyStore.disabled = {}
  /\ Torn.revision = 0 /\ Torn.entries = {"torn"}
  /\ NoSnapshot.revision = 0 /\ NoSnapshot.entries = {"none"}
  /\ EmptyStore # Torn /\ EmptyStore # NoSnapshot
  BY DEF EmptyStore, Store, Torn, NoSnapshot

LEMMA WithoutType ==
  ASSUME NEW s \in Store, NEW gone
  PROVE  /\ Without(s, gone) \in Store
         /\ Without(s, gone).revision = s.revision
         /\ Includes(s, Without(s, gone))
  <1> DEFINE kept == {e \in s.order : e[1] \notin gone /\ e[2] \notin gone}
             t == [s EXCEPT !.entries = @ \ gone, !.order = kept]
             u == [t EXCEPT !.cooling = @ \ gone, !.disabled = @ \ gone, !.used = @ \ gone]
  <1>1. kept \in SUBSET (Profiles \X Profiles)
    BY DEF Store
  <1> HIDE DEF kept
  <1>2. t \in Store /\ t.revision = s.revision /\ t.cooling = s.cooling /\ t.disabled = s.disabled
    BY <1>1 DEF Store
  <1>3. Without(s, gone) = u
    BY Zenon DEF Without, kept
  <1> HIDE DEF t
  <1>4. /\ u \in Store /\ u.revision = t.revision
        /\ u.cooling = t.cooling \ gone /\ u.disabled = t.disabled \ gone
    BY <1>2 DEF Store
  <1> HIDE DEF u
  <1> QED BY <1>2, <1>3, <1>4 DEF Includes

LEMMA PrunedType ==
  ASSUME NEW s \in Store
  PROVE  Pruned(s) \in Store /\ Pruned(s).revision = s.revision /\ Includes(s, Pruned(s))
  BY WithoutType DEF Pruned

LEMMA TouchedType ==
  ASSUME NEW s \in Store, NEW p \in Profiles
  PROVE  Touched(s, p) \in Store /\ Touched(s, p).revision = s.revision + 1
  <1> DEFINE o == {e \in s.order : e[1] # p} \cup {<<q, p>> : q \in s.entries \ {p}}
             n == [s EXCEPT !.entries = @ \cup {p}, !.order = o]
             t == [n EXCEPT !.revision = @ + 1]
  <1>1. o \in SUBSET (Profiles \X Profiles)
    BY DEF Store
  <1>2. Touched(s, p) = Bounded(t)
    BY Zenon DEF Touched
  <1> HIDE DEF o
  <1>3. n \in Store /\ n.revision = s.revision
    BY <1>1 DEF Store
  <1> HIDE DEF n
  <1>4. t \in Store /\ t.revision = s.revision + 1
    BY <1>3 DEF Store
  <1> HIDE DEF t
  <1>5. Bounded(t) \in Store /\ Bounded(t).revision = t.revision
    BY <1>4, WithoutType DEF Bounded
  <1> QED BY <1>2, <1>4, <1>5

LEMMA MarkedType ==
  ASSUME NEW s \in Store, NEW p \in Profiles, NEW auth \in BOOLEAN
  PROVE  \A t \in {AfterSuccess(s, p), AfterFailure(s, p, auth)} :
            t \in Store /\ t.revision = s.revision + 1
  <1> DEFINE a == [s EXCEPT !.cooling = @ \ {p}, !.disabled = @ \ {p}, !.used = @ \cup {p}]
             b == [s EXCEPT !.cooling = @ \ {p}, !.disabled = @ \cup {p}]
             c == [s EXCEPT !.cooling = @ \cup {p}]
  <1>1. a \in Store /\ a.revision = s.revision
    BY DEF Store
  <1>2. b \in Store /\ b.revision = s.revision
    BY DEF Store
  <1>3. c \in Store /\ c.revision = s.revision
    BY DEF Store
  <1>4. AfterSuccess(s, p) = Touched(a, p)
    BY Zenon DEF AfterSuccess
  <1>5. AfterFailure(s, p, auth) \in {Touched(a, p), Touched(b, p), Touched(c, p)}
    BY DEF AfterFailure
  <1> HIDE DEF a, b, c
  <1> QED BY <1>1, <1>2, <1>3, <1>4, <1>5, TouchedType

-----------------------------------------------------------------------------
(* The file                                                                *)

ProfileTypeOK ==
    /\ store \in Store
    /\ disk = Torn \/ disk \in Store
    /\ persistRev \in Nat /\ lost \in BOOLEAN
    /\ unsaved \in [Clients -> Store \cup {NoSnapshot}]
    /\ writer \in Clients \cup {Idle}

\* Snapshots that have been taken and not written.
Pending == {c \in Clients : unsaved[c] # NoSnapshot}

\* A snapshot on its way is of this process; of the last revision, it has every
\* window that is open.
PendingIsRecent ==
    \A c \in Pending :
       /\ unsaved[c] \in Store
       /\ unsaved[c].revision >= 1 /\ unsaved[c].revision <= store.revision
       /\ unsaved[c].revision = store.revision => Includes(unsaved[c], store)

\* So is the file; the backend knows which revision it has.
FileIsRecent ==
    /\ persistRev <= store.revision
    /\ disk # Torn =>
         /\ disk.revision = persistRev
         /\ disk.revision = store.revision => Includes(disk, store)

\* The last revision is in the file, or somebody has it, or its write failed.
LastIsSomewhere ==
    \/ lost
    \/ \E c \in Pending : unsaved[c].revision = store.revision
    \/ disk.revision = store.revision

\* The file is half written only by a client that has its snapshot.
WriterIsPending == writer # Idle => writer \in Pending /\ disk = Torn

DiskInv ==
    /\ ProfileTypeOK /\ PendingIsRecent /\ FileIsRecent /\ LastIsSomewhere /\ WriterIsPending

LEMMA DiskFacts ==
  ASSUME DiskInv
  PROVE  /\ store.revision \in Nat /\ persistRev \in Nat /\ disk.revision \in Nat
         /\ \A c \in Pending : /\ unsaved[c] \in Store /\ unsaved[c].revision \in Nat
                               /\ unsaved[c] # Torn /\ unsaved[c] # NoSnapshot
         /\ \A c \in Clients \ Pending : unsaved[c] = NoSnapshot
         /\ Torn.revision = 0
  <1>1. store.revision \in Nat /\ persistRev \in Nat /\ disk.revision \in Nat /\ Torn.revision = 0
    BY EmptyType DEF DiskInv, ProfileTypeOK, Store
  <1>2. ASSUME NEW c \in Pending
        PROVE  /\ unsaved[c] \in Store /\ unsaved[c].revision \in Nat
               /\ unsaved[c] # Torn /\ unsaved[c] # NoSnapshot
    <2>1. unsaved[c] \in Store /\ unsaved[c].revision >= 1
      BY DEF DiskInv, PendingIsRecent
    <2>2. unsaved[c].revision \in Nat
      BY <2>1 DEF Store
    <2> QED BY <1>1, <2>1, <2>2 DEF Pending
  <1> QED BY <1>1, <1>2 DEF Pending

LEMMA MarkInv ==
  ASSUME DiskInv, NEW c \in Clients, NEW s \in Store, s.revision = store.revision + 1, Mark(c, s)
  PROVE  DiskInv'
  <1>0. s.revision \in Nat /\ s.revision >= 1 /\ s # NoSnapshot
    BY DiskFacts, EmptyType DEF Store
  <1>1. /\ store' = s /\ unsaved'[c] = s /\ \A d \in Clients \ {c} : unsaved'[d] = unsaved[d]
        /\ UNCHANGED <<persistRev, disk, writer>>
        /\ unsaved[c] = NoSnapshot
    BY DEF Mark, DiskInv, ProfileTypeOK
  <1>2. Pending' = Pending \cup {c}
    BY <1>0, <1>1 DEF Pending
  <1>3. ProfileTypeOK'
    BY DEF Mark, DiskInv, ProfileTypeOK
  <1>4. PendingIsRecent'
    <2> SUFFICES ASSUME NEW d \in Pending'
                 PROVE  /\ unsaved'[d] \in Store
                        /\ unsaved'[d].revision >= 1 /\ unsaved'[d].revision <= store'.revision
                        /\ unsaved'[d].revision = store'.revision => Includes(unsaved'[d], store')
      BY DEF PendingIsRecent, Includes
    <2>1. CASE d = c
      BY <1>0, <1>1, <2>1 DEF Includes
    <2>2. CASE d # c
      <3>1. d \in Pending /\ unsaved'[d] = unsaved[d]
        BY <1>1, <1>2, <2>2 DEF Pending
      <3>2. /\ unsaved[d] \in Store /\ unsaved[d].revision \in Nat
            /\ unsaved[d].revision >= 1 /\ unsaved[d].revision <= store.revision
        BY <3>1, DiskFacts DEF DiskInv, PendingIsRecent
      <3> QED BY <1>1, <3>1, <3>2, DiskFacts
    <2> QED BY <2>1, <2>2
  <1>5. FileIsRecent'
    BY <1>1, DiskFacts DEF DiskInv, FileIsRecent
  <1>6. LastIsSomewhere'
    BY <1>1, <1>2 DEF LastIsSomewhere
  <1>7. WriterIsPending'
    BY <1>1, <1>2 DEF DiskInv, WriterIsPending
  <1> QED BY <1>3, <1>4, <1>5, <1>6, <1>7 DEF DiskInv

\* The store loses windows, and keeps its revision: Look and Expire.
LEMMA ShrinkInv ==
  ASSUME DiskInv, NEW s \in Store, s.revision = store.revision, Includes(store, s),
         store' = s, UNCHANGED <<persistRev, disk, unsaved, writer, lost>>
  PROVE  DiskInv'
  <1>1. Pending' = Pending
    BY DEF Pending
  <1>2. ProfileTypeOK'
    BY DEF DiskInv, ProfileTypeOK
  <1>3. PendingIsRecent'
    BY <1>1 DEF DiskInv, PendingIsRecent, Includes
  <1>4. FileIsRecent'
    BY DEF DiskInv, FileIsRecent, Includes
  <1>5. LastIsSomewhere' /\ WriterIsPending'
    BY <1>1 DEF DiskInv, LastIsSomewhere, WriterIsPending
  <1> QED BY <1>2, <1>3, <1>4, <1>5 DEF DiskInv

LEMMA LookInv ==
  ASSUME DiskInv, Look PROVE DiskInv'
  <1> DEFINE s == IF Cardinality(Profiles) > 1 THEN Pruned(store) ELSE store
  <1>1. store \in Store
    BY DEF DiskInv, ProfileTypeOK
  <1>2. s \in Store /\ s.revision = store.revision /\ Includes(store, s)
    BY <1>1, PrunedType DEF Includes
  <1>3. store' = s /\ UNCHANGED <<persistRev, disk, unsaved, writer, lost>>
    BY DEF Look
  <1> HIDE DEF s
  <1> QED BY <1>2, <1>3, ShrinkInv

LEMMA ExpireInv ==
  ASSUME DiskInv, NEW p, Expire(p) PROVE DiskInv'
  <1> DEFINE a == [store EXCEPT !.cooling = @ \ {p}]
             b == [store EXCEPT !.disabled = @ \ {p}]
  <1>1. store \in Store
    BY DEF DiskInv, ProfileTypeOK
  <1>2. a \in Store /\ a.revision = store.revision /\ Includes(store, a)
    BY <1>1 DEF Includes, Store
  <1>3. b \in Store /\ b.revision = store.revision /\ Includes(store, b)
    BY <1>1 DEF Includes, Store
  <1>4. (store' = a \/ store' = b) /\ UNCHANGED <<persistRev, disk, unsaved, writer, lost>>
    BY DEF Expire
  <1> HIDE DEF a, b
  <1> QED BY <1>2, <1>3, <1>4, ShrinkInv

\* The client has written its snapshot, or dropped it.
LEMMA SavedPending ==
  ASSUME DiskInv, NEW c \in Clients, Saved(c)
  PROVE  /\ Pending' = Pending \ {c}
         /\ \A d \in Pending' : unsaved'[d] = unsaved[d]
         /\ unsaved' \in [Clients -> Store \cup {NoSnapshot}]
  BY DEF DiskInv, ProfileTypeOK, Saved, Pending

\* The file gets the snapshot of c, which is not older than what is in it.
LEMMA WrittenInv ==
  ASSUME DiskInv, NEW c \in Pending, Saved(c), disk' = unsaved[c],
         persistRev' = unsaved[c].revision, writer' = Idle, UNCHANGED <<store, lost>>,
         disk # Torn => unsaved[c].revision >= persistRev
  PROVE  DiskInv'
  <1>0. c \in Clients
    BY DEF Pending
  <1>1. /\ Pending' = Pending \ {c} /\ \A d \in Pending' : unsaved'[d] = unsaved[d]
        /\ unsaved' \in [Clients -> Store \cup {NoSnapshot}]
    BY <1>0, SavedPending
  <1>2. /\ unsaved[c] \in Store /\ unsaved[c].revision \in Nat
        /\ unsaved[c].revision >= 1 /\ unsaved[c].revision <= store.revision
        /\ unsaved[c].revision = store.revision => Includes(unsaved[c], store)
    BY DiskFacts DEF DiskInv, PendingIsRecent
  <1>3. ProfileTypeOK'
    BY <1>1, <1>2 DEF DiskInv, ProfileTypeOK
  <1>4. PendingIsRecent'
    BY <1>1 DEF DiskInv, PendingIsRecent, Includes
  <1>5. FileIsRecent'
    BY <1>2 DEF FileIsRecent, Includes
  <1>6. LastIsSomewhere'
    <2>1. CASE lost \/ disk'.revision = store.revision
      BY <2>1 DEF LastIsSomewhere
    <2>2. CASE ~lost /\ disk'.revision # store.revision
      <3>1. PICK d \in Pending : unsaved[d].revision = store.revision
        <4>1. CASE disk.revision = store.revision
          BY <1>2, <2>2, <4>1, DiskFacts DEF DiskInv, FileIsRecent
        <4> QED BY <2>2, <4>1 DEF DiskInv, LastIsSomewhere
      <3> QED BY <1>1, <2>2, <3>1 DEF LastIsSomewhere
    <2> QED BY <2>1, <2>2
  <1>7. WriterIsPending'
    BY DEF WriterIsPending
  <1> QED BY <1>3, <1>4, <1>5, <1>6, <1>7 DEF DiskInv

LEMMA ReplaceInv ==
  ASSUME DiskInv, NEW c \in Clients, Replace(c) PROVE DiskInv'
  <1>1. c \in Pending /\ writer = Idle /\ unsaved[c].revision >= persistRev
    BY DiskFacts DEF Replace, HoldsLock, IsStale, Pending
  <1> QED BY <1>1, WrittenInv DEF Replace

LEMMA EndOverwriteInv ==
  ASSUME DiskInv, NEW c \in Clients, EndOverwrite(c) PROVE DiskInv'
  <1>1. c \in Pending /\ disk = Torn
    BY IdleAssumption DEF EndOverwrite, DiskInv, WriterIsPending
  <1> QED BY <1>1, WrittenInv DEF EndOverwrite

\* Dropping a snapshot is harmless unless it is the last one, and then lost
\* says so.
LEMMA DroppedInv ==
  ASSUME DiskInv, NEW c \in Pending, Saved(c), writer' = Idle, UNCHANGED <<store, persistRev, disk>>,
         lost' \in BOOLEAN, lost => lost', unsaved[c].revision = store.revision => lost'
  PROVE  DiskInv'
  <1>0. c \in Clients
    BY DEF Pending
  <1>1. /\ Pending' = Pending \ {c} /\ \A d \in Pending' : unsaved'[d] = unsaved[d]
        /\ unsaved' \in [Clients -> Store \cup {NoSnapshot}]
    BY <1>0, SavedPending
  <1>2. ProfileTypeOK'
    BY <1>1 DEF DiskInv, ProfileTypeOK
  <1>3. PendingIsRecent'
    BY <1>1 DEF DiskInv, PendingIsRecent, Includes
  <1>4. FileIsRecent'
    BY DEF DiskInv, FileIsRecent, Includes
  <1>5. LastIsSomewhere'
    BY <1>1 DEF DiskInv, LastIsSomewhere
  <1>6. WriterIsPending'
    BY DEF WriterIsPending
  <1> QED BY <1>2, <1>3, <1>4, <1>5, <1>6 DEF DiskInv

LEMMA SkipStaleInv ==
  ASSUME DiskInv, NEW c \in Clients, SkipStale(c) PROVE DiskInv'
  <1>1. c \in Pending /\ writer' = Idle
    BY DEF SkipStale, HoldsLock, Pending
  <1>2. unsaved[c].revision # store.revision
    BY <1>1, DiskFacts DEF SkipStale, IsStale, DiskInv, FileIsRecent
  <1>3. lost \in BOOLEAN
    BY DEF DiskInv, ProfileTypeOK
  <1> QED BY <1>1, <1>2, <1>3, DroppedInv DEF SkipStale

LEMMA FailToWriteInv ==
  ASSUME DiskInv, NEW c \in Clients, FailToWrite(c) PROVE DiskInv'
  <1>1. c \in Pending
    BY IdleAssumption DEF FailToWrite, HoldsLock, Pending, DiskInv, WriterIsPending
  <1>2. lost' \in BOOLEAN /\ (lost => lost') /\ (unsaved[c].revision = store.revision => lost')
    BY DEF FailToWrite, DiskInv, ProfileTypeOK
  <1> QED BY <1>1, <1>2, DroppedInv DEF FailToWrite

\* Writing in place destroys the file: it is not the only copy of the last
\* revision, for the writer's snapshot is not older than it.
LEMMA BeginOverwriteInv ==
  ASSUME DiskInv, NEW c \in Clients, BeginOverwrite(c) PROVE DiskInv'
  <1>1. c \in Pending /\ unsaved[c].revision >= persistRev
    BY DiskFacts DEF BeginOverwrite, HoldsLock, IsStale, Pending
  <1>2. /\ Pending' = Pending /\ disk' = Torn /\ writer' = c
        /\ UNCHANGED <<store, persistRev, unsaved, lost>>
    BY DEF BeginOverwrite, Pending
  <1>3. ProfileTypeOK' /\ PendingIsRecent' /\ FileIsRecent' /\ WriterIsPending'
    BY <1>1, <1>2 DEF DiskInv, ProfileTypeOK, PendingIsRecent, FileIsRecent, WriterIsPending, Includes
  <1>4. unsaved[c].revision >= 1 /\ unsaved[c].revision <= store.revision
    BY <1>1 DEF DiskInv, PendingIsRecent
  <1>5. LastIsSomewhere'
    <2>1. CASE disk.revision = store.revision
      <3>1. unsaved[c].revision = store.revision
        BY <1>1, <1>4, <2>1, DiskFacts DEF DiskInv, FileIsRecent
      <3> QED BY <1>1, <1>2, <3>1 DEF LastIsSomewhere
    <2>2. CASE disk.revision # store.revision
      BY <1>2, <2>2 DEF DiskInv, LastIsSomewhere
    <2> QED BY <2>1, <2>2
  <1> QED BY <1>3, <1>5 DEF DiskInv

LEMMA ReloadInv ==
  ASSUME DiskInv, Reload PROVE DiskInv'
  <1> DEFINE s == IF disk = Torn THEN EmptyStore ELSE Pruned(disk)
  <1>1. s \in Store /\ s.revision = disk.revision /\ (disk # Torn => Includes(disk, s))
    BY EmptyType, PrunedType DEF DiskInv, ProfileTypeOK
  <1>2. /\ store' = s /\ persistRev' = s.revision /\ disk' = disk /\ writer' = Idle /\ lost' = FALSE
        /\ unsaved' = [c \in Clients |-> NoSnapshot]
    BY DEF Reload
  <1> HIDE DEF s
  <1>3. s.revision \in Nat
    BY <1>1 DEF Store
  <1>4. Pending' = {}
    BY <1>2 DEF Pending
  <1>5. ProfileTypeOK'
    BY <1>1, <1>2, <1>3 DEF DiskInv, ProfileTypeOK
  <1> QED BY <1>1, <1>2, <1>3, <1>4, <1>5
          DEF DiskInv, PendingIsRecent, FileIsRecent, LastIsSomewhere, WriterIsPending, Includes

LEMMA ProfilesInitInv == ProfilesInit => DiskInv
  <1> SUFFICES ASSUME ProfilesInit PROVE DiskInv
    OBVIOUS
  <1>1. Pending = {}
    BY DEF ProfilesInit, Pending
  <1>2. ProfileTypeOK
    BY EmptyType DEF ProfilesInit, ProfileTypeOK
  <1> QED BY <1>1, <1>2, EmptyType
          DEF DiskInv, ProfilesInit, PendingIsRecent, FileIsRecent, LastIsSomewhere,
              WriterIsPending, Includes

-----------------------------------------------------------------------------
(* The requests                                                            *)

\* A request that runs has a profile to go on with, and an order of them to
\* start again from with the next model.
HasProfile(q) ==
    /\ q.stage \in {"catalog", "attempt"} => q.todo # << >>
    /\ q.stage = "attempt" => q.ordered # << >>

RequestInv ==
    /\ req \in [Requests -> Request]
    /\ \A r \in Requests : HasProfile(req[r])
    /\ faults \in 0..MaxFaults

ProviderInv == CatalogInv /\ DiskInv /\ RequestInv

LEMMA RankingType ==
  ASSUME NEW order, NEW s \in Rankings(order) PROVE s \in Seq(Profiles) /\ s # << >>
  <1> DEFINE n == Cardinality(Profiles)
  <1>1. n \in Nat /\ n # 0
    BY ConfiguredAssumption, FS_CardinalityType, FS_EmptySet
  <1>2. DOMAIN Configured = 1..n
    BY ConfiguredAssumption
  <1> HIDE DEF n
  <1>3. s \in [1..n -> Profiles]
    BY <1>2 DEF Rankings
  <1>4. s \in Seq(Profiles) /\ Len(s) = n
    BY <1>1, <1>3
  <1> QED BY <1>1, <1>4

LEMMA RequestType ==
  /\ NoRequest \in Request /\ HasProfile(NoRequest)
  /\ \A how \in {"done", "failed", "dropped"} : Ended(how) \in Request /\ HasProfile(Ended(how))
  /\ \A order : \A s \in Rankings(order) :
        /\ [stage |-> "catalog", todo |-> s, ordered |-> s, model |-> 0] \in Request
        /\ HasProfile([stage |-> "catalog", todo |-> s, ordered |-> s, model |-> 0])
        /\ [stage |-> "attempt", todo |-> s, ordered |-> s, model |-> 1] \in Request
        /\ HasProfile([stage |-> "attempt", todo |-> s, ordered |-> s, model |-> 1])
  <1>0. << >> \in Seq(Profiles) /\ NumModels \in Nat \ {0}
    BY EmptySeq, NumModelsAssumption
  <1>1. NoRequest \in Request /\ HasProfile(NoRequest)
    BY <1>0 DEF NoRequest, Request, Stages, HasProfile
  <1>2. ASSUME NEW how \in {"done", "failed", "dropped"}
        PROVE  Ended(how) \in Request /\ HasProfile(Ended(how))
    <2>1. Ended(how) = [stage |-> how, todo |-> << >>, ordered |-> << >>, model |-> 0]
      BY DEF Ended, NoRequest
    <2> QED BY <1>0, <2>1 DEF Request, Stages, HasProfile
  <1>3. ASSUME NEW s \in Seq(Profiles), s # << >>
        PROVE  /\ [stage |-> "catalog", todo |-> s, ordered |-> s, model |-> 0] \in Request
               /\ HasProfile([stage |-> "catalog", todo |-> s, ordered |-> s, model |-> 0])
               /\ [stage |-> "attempt", todo |-> s, ordered |-> s, model |-> 1] \in Request
               /\ HasProfile([stage |-> "attempt", todo |-> s, ordered |-> s, model |-> 1])
    <2> DEFINE q == [stage |-> "catalog", todo |-> s, ordered |-> s, model |-> 0]
               a == [stage |-> "attempt", todo |-> s, ordered |-> s, model |-> 1]
    <2>1. q \in Request /\ a \in Request
      BY <1>0, <1>3 DEF Request, Stages
    <2>2. HasProfile(q) /\ HasProfile(a)
      BY <1>3 DEF HasProfile
    <2> QED BY <2>1, <2>2
  <1>4. \A order : \A s \in Rankings(order) : s \in Seq(Profiles) /\ s # << >>
    BY RankingType, Zenon
  <1> QED BY <1>1, <1>2, <1>3, <1>4, Zenon

LEMMA NextProfile ==
  ASSUME NEW q \in Request, HasProfile(q), Len(q.todo) > 1
  PROVE  [q EXCEPT !.todo = Tail(@)] \in Request /\ HasProfile([q EXCEPT !.todo = Tail(@)])
  <1>1. q.todo \in Seq(Profiles) /\ q.todo # << >>
    BY DEF Request
  <1>2. Tail(q.todo) \in Seq(Profiles) /\ Len(Tail(q.todo)) = Len(q.todo) - 1
    BY <1>1, HeadTailProperties
  <1>3. Tail(q.todo) # << >>
    BY <1>1, <1>2
  <1> QED BY <1>2, <1>3 DEF Request, HasProfile

LEMMA AdvancedType ==
  ASSUME NEW q \in Request, HasProfile(q), q.stage = "attempt"
  PROVE  Advanced(q) \in Request /\ HasProfile(Advanced(q))
  <1>1. CASE Len(q.todo) > 1
    BY <1>1, NextProfile DEF Advanced
  <1>2. CASE ~(Len(q.todo) > 1) /\ q.model < NumModels
    <2>1. Advanced(q) = [q EXCEPT !.todo = q.ordered, !.model = @ + 1]
      BY <1>2 DEF Advanced
    <2>2. q.ordered \in Seq(Profiles) /\ q.ordered # << >> /\ q.model + 1 \in 0..NumModels
      BY <1>2, NumModelsAssumption DEF Request, HasProfile
    <2> QED BY <2>1, <2>2 DEF Request, HasProfile
  <1>3. CASE ~(Len(q.todo) > 1) /\ ~(q.model < NumModels)
    BY <1>3, RequestType DEF Advanced
  <1> QED BY <1>1, <1>2, <1>3

\* One request moves on.
LEMMA OneRequest ==
  ASSUME RequestInv, NEW r \in Requests, NEW q \in Request, HasProfile(q),
         req' = [req EXCEPT ![r] = q], faults' \in 0..MaxFaults
  PROVE  RequestInv'
  BY DEF RequestInv

LEMMA SameRequests ==
  ASSUME RequestInv, req' = req, faults' = faults \/ Fault PROVE RequestInv'
  BY MaxFaultsAssumption DEF RequestInv, Fault

LEMMA SameCatalog ==
  ASSUME CatalogInv, UNCHANGED catalogVars PROVE CatalogInv'
  BY DEF catalogVars, CatalogInv, CatalogTypeOK, YoungOwnsSlot, Leads

LEMMA SameProfiles ==
  ASSUME DiskInv, UNCHANGED profileVars PROVE DiskInv'
  <1>1. Pending' = Pending
    BY DEF profileVars, Pending
  <1> QED BY <1>1 DEF profileVars, DiskInv, ProfileTypeOK, PendingIsRecent, FileIsRecent,
                      LastIsSomewhere, WriterIsPending, Includes

\* The request takes the outcome of its fetch.
LEMMA TakeFetch ==
  ASSUME CatalogInv, NEW r \in Requests, fetch' = [fetch EXCEPT ![r] = NoFetch],
         UNCHANGED <<cache, slot>>
  PROVE  CatalogInv'
  <1>0. Keys # {}
    BY DEF CatalogInv, CatalogTypeOK, Fetch
  <1>1. NoFetch \in Fetch /\ NoFetch.at = "idle"
    BY <1>0, NoFetchType DEF NoFetch
  <1>2. CatalogTypeOK'
    BY <1>1 DEF CatalogInv, CatalogTypeOK
  <1>3. YoungOwnsSlot'
    BY <1>1 DEF CatalogInv, CatalogTypeOK, YoungOwnsSlot, Leads
  <1> QED BY <1>2, <1>3 DEF CatalogInv

LEMMA CurrentType ==
  ASSUME RequestInv, NEW r \in Requests, req[r].stage \in {"catalog", "attempt"}
  PROVE  Current(r) \in Profiles
  <1>1. req[r].todo \in Seq(Profiles) /\ req[r].todo # << >>
    BY DEF RequestInv, Request, HasProfile
  <1> QED BY <1>1 DEF Current

LEMMA MarksInv ==
  ASSUME DiskInv, NEW c \in Clients, NEW p \in Profiles, NEW auth \in BOOLEAN,
         MarkSuccess(c, p) \/ MarkFailure(c, p, auth)
  PROVE  DiskInv'
  <1>1. Pruned(store) \in Store /\ Pruned(store).revision = store.revision
    BY PrunedType DEF DiskInv, ProfileTypeOK
  <1>2. PICK s \in {AfterSuccess(Pruned(store), p), AfterFailure(Pruned(store), p, auth)} : Mark(c, s)
    BY DEF MarkSuccess, MarkFailure
  <1>3. s \in Store /\ s.revision = store.revision + 1
    BY <1>1, <1>2, MarkedType
  <1> QED BY <1>2, <1>3, MarkInv

LEMMA WalkInv ==
  ASSUME ProviderInv, NEW r \in Requests,
         \/ Begin(r) \/ Resolve(r) \/ Resolved(r) \/ \E auth \in BOOLEAN : Unresolved(r, auth)
  PROVE  ProviderInv'
  <1> USE DEF ProviderInv
  <1>0. faults \in 0..MaxFaults /\ r \in Clients
    BY ClientsAssumption DEF RequestInv
  <1>1. CASE Begin(r)
    <2>1. RequestInv'
      BY <1>0, <1>1, RequestType, OneRequest DEF Begin
    <2> QED BY <1>1, <2>1, SameCatalog, LookInv DEF Begin
  <1>2. CASE Resolve(r)
    <2>1. KeyOf[Current(r)] \in Keys
      BY <1>2, CurrentType, KeyOfAssumption DEF Resolve, Running
    <2>2. CatalogInv'
      BY <1>2, <2>1, LookupInv DEF Resolve
    <2> QED BY <1>2, <2>2, SameProfiles, SameRequests DEF Resolve
  <1>3. CASE Resolved(r)
    <2>1. RequestInv'
      BY <1>0, <1>3, RequestType, OneRequest DEF Resolved
    <2> QED BY <1>3, <2>1, TakeFetch, LookInv DEF Resolved
  <1>4. ASSUME NEW auth \in BOOLEAN, Unresolved(r, auth) PROVE ProviderInv'
    <2>1. Current(r) \in Profiles
      BY <1>4, CurrentType DEF Unresolved, Running
    <2>2. DiskInv'
      BY <1>0, <1>4, <2>1, MarksInv DEF Unresolved
    <2>3. CatalogInv'
      BY <1>4, TakeFetch DEF Unresolved
    <2>4. RequestInv'
      <3>1. req' = [req EXCEPT ![r] = NextAsked(req[r])] /\ faults' = faults
        BY <1>4 DEF Unresolved
      <3>2. NextAsked(req[r]) \in Request /\ HasProfile(NextAsked(req[r]))
        BY NextProfile, RequestType DEF RequestInv, NextAsked
      <3> QED BY <1>0, <3>1, <3>2, OneRequest
    <2> QED BY <2>2, <2>3, <2>4
  <1> QED BY <1>1, <1>2, <1>3, <1>4

LEMMA AnswerInv ==
  ASSUME ProviderInv, NEW r \in Requests, Answer(r) PROVE ProviderInv'
  <1> USE DEF ProviderInv
  <1>0. faults \in 0..MaxFaults /\ r \in Clients
    BY ClientsAssumption DEF RequestInv
  <1>1. CASE Answered(r)
    <2>1. DiskInv'
      <3>1. Current(r) \in Profiles
        BY <1>1, CurrentType DEF Answered, Running
      <3> QED BY <1>0, <1>1, <3>1, MarksInv DEF Answered
    <2>2. RequestInv'
      BY <1>0, <1>1, RequestType, OneRequest DEF Answered
    <2> QED BY <1>1, <2>1, <2>2, SameCatalog DEF Answered
  <1>2. ASSUME NEW marks \in BOOLEAN, NEW auth \in BOOLEAN, Refused(r, marks, auth)
        PROVE  ProviderInv'
    <2>1. req[r].stage = "attempt"
      BY <1>2 DEF Refused, Running
    <2>2. DiskInv'
      <3>1. Current(r) \in Profiles
        BY <2>1, CurrentType
      <3> QED BY <1>0, <1>2, <3>1, MarksInv, SameProfiles DEF Refused
    <2>3. RequestInv'
      <3>1. Advanced(req[r]) \in Request /\ HasProfile(Advanced(req[r]))
        BY <2>1, AdvancedType DEF RequestInv
      <3>2. req' = [req EXCEPT ![r] = Advanced(req[r])] /\ faults' = faults
        BY <1>2 DEF Refused
      <3> QED BY <1>0, <3>1, <3>2, OneRequest
    <2> QED BY <1>2, <2>2, <2>3, SameCatalog DEF Refused
  <1> QED BY <1>1, <1>2 DEF Answer

\* The catalog and the disk go their own way.
LEMMA BackgroundInv ==
  ASSUME ProviderInv,
         \/ \E r \in Requests :
               \/ CatalogMoves(r) \/ Fetched(r) \/ Save(r)
               \/ Cancel(r) \/ FetchFails(r) \/ WriteFails(r)
         \/ SlotsAge \/ EntriesAge
  PROVE  ProviderInv'
  <1> USE DEF ProviderInv
  <1>1. ASSUME NEW r \in Requests, CatalogMoves(r) \/ Fetched(r) \/ FetchFails(r)
        PROVE  ProviderInv'
    <2>1. CatalogInv'
      BY <1>1, JoinInv, SettleInv, UnregisterInv, ReceiveInv, SenderGoneInv, EvictInv,
         PublishInv, StallInv, AbandonInv DEF CatalogMoves, Fetched, FetchFails, FetchStep
    <2> QED BY <1>1, <2>1, SameProfiles, SameRequests DEF CatalogMoves, Fetched, FetchFails
  <1>2. ASSUME NEW r \in Requests, Save(r) \/ WriteFails(r) PROVE ProviderInv'
    <2>1. DiskInv'
      BY <1>2, ClientsAssumption, SkipStaleInv, ReplaceInv, EndOverwriteInv, BeginOverwriteInv,
         FailToWriteInv DEF Save, WriteFails
    <2> QED BY <1>2, <2>1, SameCatalog, SameRequests DEF Save, WriteFails
  <1>3. ASSUME NEW r \in Requests, Cancel(r) PROVE ProviderInv'
    <2>1. faults' \in 0..MaxFaults
      BY <1>3, MaxFaultsAssumption DEF Cancel, Fault, RequestInv
    <2>2. RequestInv'
      BY <1>3, <2>1, RequestType, OneRequest DEF Cancel
    <2> QED BY <1>3, <2>2, SameCatalog, SameProfiles DEF Cancel
  <1>4. CASE SlotsAge
    BY <1>4, AgeSlotInv, SameProfiles, SameRequests DEF SlotsAge
  <1>5. CASE EntriesAge
    <2>1. CatalogInv' /\ DiskInv'
      BY <1>5, AgeCacheInv, ExpireInv, SameProfiles, SameCatalog DEF EntriesAge
    <2> QED BY <1>5, <2>1, SameRequests DEF EntriesAge
  <1> QED BY <1>1, <1>2, <1>3, <1>4, <1>5

LEMMA KeyExists == Keys # {}
  BY KeyOfAssumption, ConfiguredAssumption

LEMMA CrashInv ==
  ASSUME ProviderInv, Crash PROVE ProviderInv'
  <1>1. CatalogInv'
    <2>1. NoFetch \in Fetch /\ NoFetch.at = "idle"
      BY KeyExists, NoFetchType DEF NoFetch
    <2> QED BY <2>1 DEF Crash, CatalogInv, CatalogTypeOK, YoungOwnsSlot, Leads
  <1>2. DiskInv'
    BY ReloadInv DEF Crash, ProviderInv
  <1>3. RequestInv'
    <2>1. req' = [r \in Requests |-> NoRequest]
      BY DEF Crash
    <2>2. faults' \in 0..MaxFaults
      BY MaxFaultsAssumption DEF Crash, Fault, ProviderInv, RequestInv
    <2>3. \A r \in Requests : req'[r] = NoRequest
      BY <2>1
    <2> QED BY <2>1, <2>2, <2>3, RequestType DEF RequestInv
  <1> QED BY <1>1, <1>2, <1>3 DEF ProviderInv

LEMMA ProviderInitInv == Init => ProviderInv
  <1> SUFFICES ASSUME Init PROVE ProviderInv
    OBVIOUS
  <1>1. CatalogInv
    BY KeyExists, CatalogInitInv DEF Init
  <1>2. RequestInv
    <2>1. req = [r \in Requests |-> NoRequest] /\ faults \in 0..MaxFaults
      BY MaxFaultsAssumption DEF Init
    <2>2. \A r \in Requests : req[r] = NoRequest
      BY <2>1
    <2> QED BY <2>1, <2>2, RequestType DEF RequestInv
  <1> QED BY <1>1, <1>2, ProfilesInitInv DEF Init, ProviderInv

LEMMA ProviderNextInv == ProviderInv /\ [Next]_vars => ProviderInv'
  <1> SUFFICES ASSUME ProviderInv, [Next]_vars PROVE ProviderInv'
    OBVIOUS
  <1>1. CASE UNCHANGED vars
    <2>1. UNCHANGED catalogVars /\ UNCHANGED profileVars /\ req' = req /\ faults' = faults
      BY <1>1 DEF vars, catalogVars, profileVars
    <2> QED BY <2>1, SameCatalog, SameProfiles, SameRequests DEF ProviderInv
  <1>2. CASE Next
    BY <1>2, WalkInv, AnswerInv, BackgroundInv, CrashInv DEF Next
  <1> QED BY <1>1, <1>2

LEMMA ProviderInvariant == Spec => []ProviderInv
  BY ProviderInitInv, ProviderNextInv, PTL DEF Spec

\* Type correctness: no request walks past its last model or profile
\* (request_across_model_candidates), and every snapshot and the file are
\* stores, or torn.
THEOREM ProviderTypeCorrect == Spec => []ProviderTypeOK
  <1>1. ProviderInv => ProviderTypeOK
    BY DEF ProviderInv, CatalogInv, DiskInv, ProfileTypeOK, RequestInv, ProviderTypeOK
  <1> QED BY <1>1, ProviderInvariant, PTL

\* The single flight holds for the requests that drive the catalog with one
\* auth profile after the other, through failovers and crashes.
THEOREM RequestsShareFetches == Spec => []OneFetch
  <1>1. ProviderInv => OneFetch
    BY DEF ProviderInv, CatalogInv, YoungOwnsSlot, OneFetch
  <1> QED BY <1>1, ProviderInvariant, PTL

\* persist_snapshot keeps the last revision: whatever the order of the writes,
\* once they are all over a restart forgets no open window, unless the write of
\* the last revision failed or a crash tore the file.
THEOREM LastRevisionIsSaved == Spec => []DiskIsCurrent
  <1>1. ProviderInv => DiskIsCurrent
    <2> SUFFICES ASSUME DiskInv, \A c \in Clients : unsaved[c] = NoSnapshot, disk # Torn, ~lost
                 PROVE  disk.revision = store.revision /\ Includes(disk, store)
      BY DEF ProviderInv, DiskIsCurrent, Includes
    <2>1. Pending = {}
      BY DEF Pending
    <2>2. disk.revision = store.revision
      BY <2>1 DEF DiskInv, LastIsSomewhere
    <2> QED BY <2>2 DEF DiskInv, FileIsRecent
  <1> QED BY <1>1, ProviderInvariant, PTL
=============================================================================
