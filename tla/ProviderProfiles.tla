-------------------------- MODULE ProviderProfiles --------------------------
(***************************************************************************)
(* The health of the provider's auth profiles (profile_state_store.rs,     *)
(* profile_health_runtime.rs) and its copy on disk (the file backend of    *)
(* profile_state_backend.rs).  A request marks a profile and takes a       *)
(* snapshot under the store's lock; it writes the snapshot after releasing *)
(* it, under the lock of the backend, so snapshots may reach the disk in   *)
(* any order: a revision number keeps the older one out.                   *)
(*                                                                         *)
(* Times are abstracted to what they decide: whether a cooldown or a       *)
(* disabled window is open, and whether the profile was ever used.         *)
(***************************************************************************)
EXTENDS Naturals, FiniteSets

CONSTANTS
    Clients,      \* threads that mark profiles
    Profiles,     \* profile state keys
    MaxEntries,   \* profile_state_max_entries
    ObserveOnly   \* the health mode is ObserveOnly

ASSUME MaxEntriesAssumption == MaxEntries \in Nat \ {0}
ASSUME HealthModeAssumption == ObserveOnly \in BOOLEAN

VARIABLES
    store,       \* PROVIDER_PROFILE_STATES
    persistRev,  \* persist_revision of the backend
    disk,        \* the state file
    unsaved,     \* per client: the snapshot it still has to write
    writer,      \* the client inside a write that is not atomic
    lost         \* the write of the store's last revision has failed (history)

profileVars == <<store, persistRev, disk, unsaved, writer, lost>>

-----------------------------------------------------------------------------
(* Types                                                                   *)

\* The list `order` is kept as a relation: <<p, q>> when p was marked before q.
Store == [entries : SUBSET Profiles, order : SUBSET (Profiles \X Profiles),
          cooling : SUBSET Profiles, disabled : SUBSET Profiles, used : SUBSET Profiles,
          revision : Nat]

\* ProviderProfileStateStore::default()
EmptyStore == [entries |-> {}, order |-> {}, cooling |-> {}, disabled |-> {}, used |-> {},
               revision |-> 0]

\* A file that a crash left half written.
Torn == [EmptyStore EXCEPT !.entries = {"torn"}]

NoSnapshot == [EmptyStore EXCEPT !.entries = {"none"}]
Idle == "idle"

ASSUME IdleAssumption == Idle \notin Clients

-----------------------------------------------------------------------------
(* The store                                                               *)

Without(s, gone) ==
    [s EXCEPT !.entries = @ \ gone,
              !.order = {e \in @ : e[1] \notin gone /\ e[2] \notin gone},
              !.cooling = @ \ gone, !.disabled = @ \ gone, !.used = @ \ gone]

\* prune_expired: an entry without an open window that was never used goes.
Pruned(s) == Without(s, s.entries \ (s.cooling \cup s.disabled \cup s.used))

\* prune_capacity: the least recently marked entries go.
Newer(s, p) == {e \in s.order : e[1] = p}
Bounded(s) ==
    IF Cardinality(s.entries) <= MaxEntries THEN s
    ELSE Without(s, {p \in s.entries : Cardinality(Newer(s, p)) >= MaxEntries})

\* touch_order and bump_revision: p is the entry marked last.
Touched(s, p) ==
    Bounded([s EXCEPT !.entries = @ \cup {p},
                      !.order = {e \in @ : e[1] # p} \cup {<<q, p>> : q \in s.entries \ {p}},
                      !.revision = @ + 1])

AfterSuccess(s, p) ==
    Touched([s EXCEPT !.cooling = @ \ {p}, !.disabled = @ \ {p}, !.used = @ \cup {p}], p)

\* An authentication error disables the profile and ends its cooldown, another
\* one cools it down; observe-only mode opens no window.
AfterFailure(s, p, auth) ==
    Touched(IF ObserveOnly
            THEN [s EXCEPT !.cooling = @ \ {p}, !.disabled = @ \ {p}, !.used = @ \cup {p}]
            ELSE IF auth
            THEN [s EXCEPT !.cooling = @ \ {p}, !.disabled = @ \cup {p}]
            ELSE [s EXCEPT !.cooling = @ \cup {p}], p)

\* Under the store's lock: change the store and take the snapshot.
Mark(c, s) ==
    /\ unsaved[c] = NoSnapshot
    /\ store' = s
    /\ unsaved' = [unsaved EXCEPT ![c] = s]
    /\ lost' = FALSE
    /\ UNCHANGED <<persistRev, disk, writer>>

MarkSuccess(c, p) == Mark(c, AfterSuccess(Pruned(store), p))
MarkFailure(c, p, auth) == Mark(c, AfterFailure(Pruned(store), p, auth))

\* health_snapshot, which also prunes the store; a single profile needs none.
Look ==
    /\ store' = IF Cardinality(Profiles) > 1 THEN Pruned(store) ELSE store
    /\ UNCHANGED <<persistRev, disk, unsaved, writer, lost>>

Unusable == store.cooling \cup store.disabled

\* Time passes: a window ends.
Expire(p) ==
    /\ p \in Unusable
    /\ \/ store' = [store EXCEPT !.cooling = @ \ {p}]
       \/ store' = [store EXCEPT !.disabled = @ \ {p}]
    /\ UNCHANGED <<persistRev, disk, unsaved, writer, lost>>

-----------------------------------------------------------------------------
(* persist_snapshot of the file backend                                    *)

HoldsLock(c) == writer = Idle /\ unsaved[c] # NoSnapshot
IsStale(c) == unsaved[c].revision < persistRev
Saved(c) == unsaved' = [unsaved EXCEPT ![c] = NoSnapshot]

\* A newer snapshot has been written.
SkipStale(c) ==
    /\ HoldsLock(c) /\ IsStale(c)
    /\ Saved(c)
    /\ UNCHANGED <<store, persistRev, disk, writer, lost>>

\* The temporary file replaces the state file.  (Replace_Blind: without the
\* test of the revision.)
Replace_Blind(c) ==
    /\ HoldsLock(c)
    /\ disk' = unsaved[c]
    /\ persistRev' = unsaved[c].revision
    /\ Saved(c)
    /\ UNCHANGED <<store, writer, lost>>
Replace(c) ==
    /\ HoldsLock(c) /\ ~IsStale(c)
    /\ disk' = unsaved[c]
    /\ persistRev' = unsaved[c].revision
    /\ Saved(c)
    /\ UNCHANGED <<store, writer, lost>>

\* The temporary file cannot be written or renamed: the state file is written
\* in place.
BeginOverwrite(c) ==
    /\ HoldsLock(c) /\ ~IsStale(c)
    /\ disk' = Torn
    /\ writer' = c
    /\ UNCHANGED <<store, persistRev, unsaved, lost>>
EndOverwrite(c) ==
    /\ writer = c
    /\ disk' = unsaved[c]
    /\ persistRev' = unsaved[c].revision
    /\ writer' = Idle
    /\ Saved(c)
    /\ UNCHANGED <<store, lost>>

\* Neither can be written: the snapshot is dropped, and the state file is as
\* it was, unless writing it in place failed half way.
FailToWrite(c) ==
    /\ (HoldsLock(c) /\ ~IsStale(c)) \/ writer = c
    /\ writer' = Idle
    /\ lost' = (lost \/ unsaved[c].revision = store.revision)
    /\ Saved(c)
    /\ UNCHANGED <<store, persistRev, disk>>

Persist(c) ==
    \/ SkipStale(c) \/ Replace(c)
    \/ BeginOverwrite(c) \/ EndOverwrite(c) \/ FailToWrite(c)

\* load_store in a new process: a file that cannot be parsed counts as none.
Reload ==
    LET s == IF disk = Torn THEN EmptyStore ELSE Pruned(disk)
    IN /\ store' = s
       /\ persistRev' = s.revision
       /\ unsaved' = [c \in Clients |-> NoSnapshot]
       /\ writer' = Idle
       /\ lost' = FALSE
       /\ disk' = disk

ProfilesInit ==
    /\ store = EmptyStore
    /\ persistRev = 0
    /\ disk = EmptyStore
    /\ unsaved = [c \in Clients |-> NoSnapshot]
    /\ writer = Idle
    /\ lost = FALSE

-----------------------------------------------------------------------------
(* Properties                                                              *)

\* When no snapshot is on its way to the disk, the file has the last revision
\* of the store, and with it every window that is still open: a restart forgets
\* no suppressed profile, in whatever order the snapshots were written.  The
\* exceptions are a write of that revision that failed, and a file that was
\* torn by a crash.
DiskIsCurrent ==
    (\A c \in Clients : unsaved[c] = NoSnapshot) /\ disk # Torn =>
       \/ lost
       \/ /\ disk.revision = store.revision
          /\ store.cooling \subseteq disk.cooling
          /\ store.disabled \subseteq disk.disabled
=============================================================================
