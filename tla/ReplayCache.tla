----------------------------- MODULE ReplayCache -----------------------------
(***************************************************************************)
(* service/replay.go: the cache of handshake salts that all ports of the   *)
(* server share.  It keeps two maps of 32-bit hashes.  Add works on the    *)
(* active one; when that is full it becomes the archive and the previous   *)
(* archive is dropped.  Add runs under the cache's mutex, so a call is one *)
(* step.                                                                   *)
(*                                                                         *)
(* A Handshake is a (key ID, salt) pair; HashOf is preHash, which may map  *)
(* several of them to one hash.  age and seen are history variables: they  *)
(* record what callers did and no guard of the cache reads them.           *)
(***************************************************************************)
EXTENDS Integers, FiniteSets

CONSTANTS Handshake, Hash, HashOf, Capacity

\* const MaxCapacity = 20_000
MaxCapacity == 20000

ASSUME HashOfAssumption == HashOf \in [Handshake -> Hash]

\* NewReplayCache panics on a larger capacity.
ASSUME CapacityAssumption == Capacity \in 0 .. MaxCapacity

VARIABLES
    active,     \* c.active, as the set of its keys
    archive,    \* c.archive, likewise
    accepted,   \* what the last call of Add returned
    age,        \* history: calls since a handshake was last added, saturated
    seen        \* history: the handshakes ever added

cacheVars == <<active, archive>>
historyVars == <<age, seen>>
replayVars == <<active, archive, accepted, age, seen>>

Memory == INSTANCE ReplayMemory

-----------------------------------------------------------------------------

NewReplayCache ==
    /\ active = {}
    /\ archive = {}

CacheInit ==
    /\ NewReplayCache
    /\ Memory!Init

\* Cache is disabled, so every salt is new.
AddDisabled(h) ==
    /\ Capacity = 0
    /\ accepted' = TRUE
    /\ UNCHANGED cacheVars

\* The salt is already in the active set.
AddFastReplay(h) ==
    /\ Capacity # 0
    /\ HashOf[h] \in active
    /\ accepted' = FALSE
    /\ UNCHANGED cacheVars

\* Mutant of AddToActive: the rotation replaces the insertion.
AddToActiveRotatesOnly(h) ==
    /\ Capacity # 0
    /\ HashOf[h] \notin active
    /\ accepted' = (HashOf[h] \notin archive)
    /\ IF Cardinality(active) = Capacity
         THEN archive' = active /\ active' = {}
         ELSE archive' = archive /\ active' = active \cup {HashOf[h]}

\* Mutant of AddToActive: the size is tested after the insertion, against a
\* limit off by one.
AddToActiveOneMore(h) ==
    /\ Capacity # 0
    /\ HashOf[h] \notin active
    /\ accepted' = (HashOf[h] \notin archive)
    /\ IF Cardinality(active) = Capacity + 1
         THEN archive' = active /\ active' = {HashOf[h]}
         ELSE archive' = archive /\ active' = active \cup {HashOf[h]}

\* Mutant of AddToActive: the archive is emptied instead of replaced.
AddToActiveNoArchive(h) ==
    /\ Capacity # 0
    /\ HashOf[h] \notin active
    /\ accepted' = (HashOf[h] \notin archive)
    /\ archive' = {}
    /\ active' = IF Cardinality(active) = Capacity
                   THEN {HashOf[h]} ELSE active \cup {HashOf[h]}

\* The salt goes into the active set, which is first moved to the archive if it
\* is full.  Whether the salt is in the archive is looked up before that.
AddToActive(h) ==
    /\ Capacity # 0
    /\ HashOf[h] \notin active
    /\ accepted' = (HashOf[h] \notin archive)
    /\ IF Cardinality(active) = Capacity
         THEN archive' = active /\ active' = {HashOf[h]}
         ELSE archive' = archive /\ active' = active \cup {HashOf[h]}

Add(h) == AddDisabled(h) \/ AddFastReplay(h) \/ AddToActive(h)

Call(h) == Add(h) /\ Memory!Remember(h)

CacheNext == \E h \in Handshake : Call(h)

CacheSpec == CacheInit /\ [][CacheNext]_replayVars

-----------------------------------------------------------------------------

CacheTypeOK ==
    /\ active \in SUBSET Hash
    /\ archive \in SUBSET Hash
    /\ accepted \in BOOLEAN
    /\ age \in [Handshake -> 0 .. Capacity]
    /\ seen \in SUBSET Handshake

\* Add never lets a map outgrow the capacity: len(c.active) == c.capacity is
\* tested with == and not >=, so the rotation must never be missed.
Bounded ==
    /\ IsFiniteSet(active) /\ Cardinality(active) <= Capacity
    /\ IsFiniteSet(archive) /\ Cardinality(archive) <= Capacity

\* "NewReplayCache returns a fresh ReplayCache that promises to remember at
\* least the most recent `capacity` handshakes": the hash of each of them is in
\* one of the two maps, whatever rotations and repeated Adds came in between.
Remembers ==
    \A h \in Handshake : age[h] < Capacity => HashOf[h] \in active \cup archive

\* The part that makes Remembers inductive: the active map holds at least the
\* last len(active) handshakes, so dropping the archive at a rotation loses
\* nothing the promise covers.
ActiveIsRecent ==
    \A h \in Handshake : age[h] < Cardinality(active) => HashOf[h] \in active

\* Every hash Add put into a map is the hash of a handshake it was called with.
NothingInvented ==
    active \cup archive \subseteq {HashOf[h] : h \in seen}

\* A handshake is refused only if one with its hash was added before, and one
\* of the last capacity handshakes is refused always: Add implements what
\* ReplayMemory says of it.
RefinesMemory == Memory!Spec

=============================================================================
