-------------------------- MODULE SharedStateProofs --------------------------
(***************************************************************************)
(* What the connections of all ports share, each under its own mutex.  The *)
(* replay cache, for every set of handshakes, every preHash and every      *)
(* capacity: the two maps stay within the capacity, the cache keeps its    *)
(* promise to remember the last Capacity handshakes, and it implements     *)
(* ReplayMemory.  The cipher list, for any number of keys, users,          *)
(* addresses and updates: however late a mark arrives and however many     *)
(* updates came in between, it holds exactly the entries of the last       *)
(* Update, in the order of their last use.  The two have no state in       *)
(* common.                                                                 *)
(***************************************************************************)
EXTENDS CipherList, ReplayCache, FiniteSetTheorems, SequenceTheorems,
        WellFoundedInduction, TLAPS

-----------------------------------------------------------------------------
(* The replay cache.                                                       *)

\* The inductive invariant.
CacheIInv == CacheTypeOK /\ Bounded /\ ActiveIsRecent /\ Remembers /\ NothingInvented

-----------------------------------------------------------------------------

\* What a call does to the ages: the handshake added becomes the youngest, no
\* other one becomes younger, and a live one ages by one.
LEMMA AgesAfterAdd ==
    ASSUME CacheTypeOK, NEW h \in Handshake, Memory!Remember(h)
    PROVE  /\ age' \in [Handshake -> 0 .. Capacity]
           /\ age'[h] = 0
           /\ \A g \in Handshake \ {h} :
                age'[g] < Capacity => age'[g] = age[g] + 1
  <1>1. Capacity \in Nat /\ age \in [Handshake -> 0 .. Capacity]
    BY CapacityAssumption DEF CacheTypeOK
  <1>2. \A n \in 0 .. Capacity :
          /\ Memory!Older(n) \in 0 .. Capacity
          /\ Memory!Older(n) < Capacity => Memory!Older(n) = n + 1
    BY <1>1 DEF Memory!Older
  <1>3. age' = [g \in Handshake |-> IF g = h THEN 0 ELSE Memory!Older(age[g])]
    BY DEF Memory!Remember
  <1>4. 0 \in 0 .. Capacity /\ \A g \in Handshake : age[g] \in 0 .. Capacity
    BY <1>1
  <1>5. age' \in [Handshake -> 0 .. Capacity]
    BY <1>2, <1>3, <1>4
  <1> QED BY <1>2, <1>3, <1>4, <1>5

\* The size of the active map after Add inserts a hash that was not in it.
LEMMA SizeAfterInsert ==
    ASSUME Bounded, NEW x, x \notin active
    PROVE  /\ IsFiniteSet({x}) /\ Cardinality({x}) = 1
           /\ IsFiniteSet(active \cup {x})
           /\ Cardinality(active \cup {x}) = Cardinality(active) + 1
           /\ Cardinality(active) \in Nat
  <1>1. IsFiniteSet({x}) /\ Cardinality({x}) = 1
    BY FS_Singleton
  <1>2. IsFiniteSet(active)
    BY DEF Bounded
  <1>3. IsFiniteSet(active \cup {x})
        /\ Cardinality(active \cup {x}) = Cardinality(active) + 1
    BY <1>2, FS_AddElement
  <1>4. Cardinality(active) \in Nat
    BY <1>2, FS_CardinalityType
  <1> QED BY <1>1, <1>3, <1>4

\* The inductive invariant holds at the start.
LEMMA CacheInitIInv == CacheInit => CacheIInv
  <1> SUFFICES ASSUME CacheInit PROVE CacheIInv
    OBVIOUS
  <1>a. IsFiniteSet({}) /\ Cardinality({}) = 0
    BY FS_EmptySet
  <1>b. Capacity \in Nat
    BY CapacityAssumption DEF MaxCapacity
  <1> USE DEF CacheInit, NewReplayCache, Memory!Init
  <1>1. CacheTypeOK
    BY <1>b DEF CacheTypeOK
  <1>2. Bounded
    BY <1>a, <1>b DEF Bounded
  <1>3. ActiveIsRecent
    BY <1>a, <1>b DEF ActiveIsRecent
  <1>4. Remembers
    BY <1>b DEF Remembers
  <1>5. NothingInvented
    BY DEF NothingInvented
  <1> QED BY <1>1, <1>2, <1>3, <1>4, <1>5 DEF CacheIInv

\* A call on a disabled cache.
LEMMA DisabledIInv ==
    ASSUME CacheIInv, NEW h \in Handshake, AddDisabled(h), Memory!Remember(h)
    PROVE  CacheIInv'
  <1>1. age' \in [Handshake -> 0 .. Capacity]
    BY AgesAfterAdd DEF CacheIInv
  <1>2. Capacity = 0 /\ active' = active /\ archive' = archive
        /\ accepted' = TRUE /\ seen' = seen \cup {h}
    BY DEF AddDisabled, cacheVars, Memory!Remember
  <1>3. CacheTypeOK'
    BY <1>1, <1>2 DEF CacheIInv, CacheTypeOK
  <1>4. Bounded'
    BY <1>2 DEF CacheIInv, Bounded
  <1>5. Remembers'
    BY <1>1, <1>2 DEF Remembers
  <1>6. ActiveIsRecent'
    <2>1. Cardinality(active) \in Nat
      BY FS_CardinalityType DEF CacheIInv, Bounded
    <2>2. Cardinality(active) <= 0
      BY <1>2 DEF CacheIInv, Bounded
    <2> QED BY <1>1, <1>2, <2>1, <2>2 DEF ActiveIsRecent
  <1>7. NothingInvented'
    BY <1>2 DEF CacheIInv, NothingInvented
  <1> QED BY <1>3, <1>4, <1>5, <1>6, <1>7 DEF CacheIInv

\* A call with a hash that is in the active map: everyone else only ages.
LEMMA FastReplayIInv ==
    ASSUME CacheIInv, NEW h \in Handshake, AddFastReplay(h), Memory!Remember(h)
    PROVE  CacheIInv'
  <1>1. /\ age' \in [Handshake -> 0 .. Capacity]
        /\ \A g \in Handshake \ {h} : age'[g] < Capacity => age'[g] = age[g] + 1
    BY AgesAfterAdd DEF CacheIInv
  <1>2. /\ HashOf[h] \in active /\ active' = active /\ archive' = archive
        /\ accepted' = FALSE /\ seen' = seen \cup {h}
    BY DEF AddFastReplay, cacheVars, Memory!Remember
  <1>3. Cardinality(active) \in Nat /\ Cardinality(active) <= Capacity
    BY FS_CardinalityType DEF CacheIInv, Bounded
  <1>4. age \in [Handshake -> 0 .. Capacity] /\ Capacity \in Nat
    <2>1. Capacity \in Nat
      BY CapacityAssumption
    <2> QED BY <2>1 DEF CacheIInv, CacheTypeOK
  <1>5. CacheTypeOK'
    BY <1>1, <1>2 DEF CacheIInv, CacheTypeOK
  <1>6. Bounded'
    BY <1>2 DEF CacheIInv, Bounded
  <1>7. ActiveIsRecent'
    BY <1>1, <1>2, <1>3, <1>4 DEF CacheIInv, ActiveIsRecent
  <1>8. Remembers'
    BY <1>1, <1>2, <1>4 DEF CacheIInv, Remembers
  <1>9. NothingInvented'
    BY <1>2 DEF CacheIInv, NothingInvented
  <1> QED BY <1>5, <1>6, <1>7, <1>8, <1>9 DEF CacheIInv

\* A call that inserts its hash, with or without a rotation.  Without one, the
\* active map grows by the youngest handshake.  With one, the full active map,
\* which holds the last Capacity handshakes, becomes the archive.
LEMMA InsertIInv ==
    ASSUME CacheIInv, NEW h \in Handshake, AddToActive(h), Memory!Remember(h)
    PROVE  CacheIInv'
  <1> DEFINE x == HashOf[h]
  <1>1. /\ age' \in [Handshake -> 0 .. Capacity]
        /\ \A g \in Handshake \ {h} : age'[g] < Capacity => age'[g] = age[g] + 1
    BY AgesAfterAdd DEF CacheIInv
  <1>2. /\ x \notin active /\ accepted' = (x \notin archive)
        /\ seen' = seen \cup {h} /\ x \in Hash
    BY HashOfAssumption DEF AddToActive, Memory!Remember
  <1>3. /\ IsFiniteSet({x}) /\ Cardinality({x}) = 1
        /\ IsFiniteSet(active \cup {x})
        /\ Cardinality(active \cup {x}) = Cardinality(active) + 1
        /\ Cardinality(active) \in Nat
    BY <1>2, SizeAfterInsert DEF CacheIInv
  <1>4. age \in [Handshake -> 0 .. Capacity] /\ Capacity \in Nat \ {0}
    <2>1. Capacity \in Nat
      BY CapacityAssumption
    <2> QED BY <2>1 DEF CacheIInv, CacheTypeOK, AddToActive
  <1>5. CASE Cardinality(active) = Capacity
    <2>1. archive' = active /\ active' = {x}
      BY <1>5 DEF AddToActive
    <2>2. CacheTypeOK'
      BY <1>1, <1>2, <2>1 DEF CacheIInv, CacheTypeOK
    <2>3. Bounded'
      BY <1>3, <1>4, <2>1 DEF CacheIInv, Bounded
    <2>4. ActiveIsRecent'
      BY <1>1, <1>3, <1>4, <2>1 DEF ActiveIsRecent
    <2>5. Remembers'
      BY <1>1, <1>4, <1>5, <2>1 DEF CacheIInv, ActiveIsRecent, Remembers
    <2>6. NothingInvented'
      BY <1>2, <2>1 DEF CacheIInv, NothingInvented
    <2> QED BY <2>2, <2>3, <2>4, <2>5, <2>6 DEF CacheIInv
  <1>6. CASE Cardinality(active) # Capacity
    <2>1. archive' = archive /\ active' = active \cup {x}
      BY <1>6 DEF AddToActive
    <2>2. CacheTypeOK'
      BY <1>1, <1>2, <2>1 DEF CacheIInv, CacheTypeOK
    <2>3. Bounded'
      BY <1>3, <1>4, <1>6, <2>1 DEF CacheIInv, Bounded
    <2>4. ActiveIsRecent'
      <3>1. Cardinality(active') = Cardinality(active) + 1
            /\ Cardinality(active) < Capacity
        BY <1>3, <1>4, <1>6, <2>1 DEF CacheIInv, Bounded
      <3> QED BY <1>1, <1>3, <1>4, <2>1, <3>1 DEF CacheIInv, ActiveIsRecent
    <2>5. Remembers'
      BY <1>1, <1>4, <2>1 DEF CacheIInv, Remembers
    <2>6. NothingInvented'
      BY <1>2, <2>1 DEF CacheIInv, NothingInvented
    <2> QED BY <2>2, <2>3, <2>4, <2>5, <2>6 DEF CacheIInv
  <1> QED BY <1>5, <1>6

\* Every call of Add preserves the invariant.
LEMMA CacheNextIInv == CacheIInv /\ [CacheNext]_replayVars => CacheIInv'
  <1> SUFFICES ASSUME CacheIInv, [CacheNext]_replayVars PROVE CacheIInv'
    OBVIOUS
  <1>1. ASSUME NEW h \in Handshake, Call(h) PROVE CacheIInv'
    BY <1>1, DisabledIInv, FastReplayIInv, InsertIInv DEF Call, Add
  <1>2. CASE UNCHANGED replayVars
    BY <1>2 DEF replayVars, CacheIInv, CacheTypeOK, Bounded, ActiveIsRecent, Remembers,
                NothingInvented
  <1> QED BY <1>1, <1>2 DEF CacheNext

-----------------------------------------------------------------------------

\* The invariant holds whatever calls of Add are made.
THEOREM CacheInvariance == CacheSpec => []CacheIInv
  BY CacheInitIInv, CacheNextIInv, PTL DEF CacheSpec

\* The maps of service/replay.go hold hashes, and the history is well formed.
THEOREM CacheTypeCorrect == CacheSpec => []CacheTypeOK
  <1>1. CacheIInv => CacheTypeOK
    BY DEF CacheIInv
  <1> QED BY <1>1, CacheInvariance, PTL

\* Neither map of the cache ever holds more than capacity hashes.
THEOREM StaysBounded == CacheSpec => []Bounded
  <1>1. CacheIInv => Bounded
    BY DEF CacheIInv
  <1> QED BY <1>1, CacheInvariance, PTL

\* NewReplayCache's promise: the most recent capacity handshakes are remembered.
THEOREM KeepsPromise == CacheSpec => []Remembers
  <1>1. CacheIInv => Remembers
    BY DEF CacheIInv
  <1> QED BY <1>1, CacheInvariance, PTL

\* A call answers as ReplayMemory allows.
LEMMA AddImplements ==
    ASSUME CacheIInv, NEW h \in Handshake, Call(h)
    PROVE  Memory!Add(h)
  <1>1. accepted' \in BOOLEAN
    BY DEF Call, Add, AddDisabled, AddFastReplay, AddToActive
  <1>2. Capacity = 0 => accepted'
    BY DEF Call, Add, AddDisabled, AddFastReplay, AddToActive
  <1>3. ASSUME Memory!New(h) PROVE accepted'
    <2>1. HashOf[h] \notin active \cup archive
      BY <1>3 DEF CacheIInv, CacheTypeOK, NothingInvented, Memory!New
    <2> QED BY <2>1 DEF Call, Add, AddDisabled, AddFastReplay, AddToActive
  <1>4. ASSUME ~Memory!Forgettable(h) PROVE ~accepted'
    <2>0. age[h] \in 0 .. Capacity /\ Capacity \in Nat
      BY CapacityAssumption DEF CacheIInv, CacheTypeOK
    <2>1. age[h] < Capacity
      BY <1>4, <2>0 DEF Memory!Forgettable
    <2>2. Capacity # 0 /\ HashOf[h] \in active \cup archive
      <3>1. HashOf[h] \in active \cup archive
        BY <2>1 DEF CacheIInv, Remembers
      <3> QED BY <2>0, <2>1, <3>1
    <2> QED BY <2>2 DEF Call, Add, AddDisabled, AddFastReplay, AddToActive
  <1>5. Memory!Remember(h)
    BY DEF Call
  <1> QED BY <1>1, <1>2, <1>3, <1>4, <1>5 DEF Memory!Add

\* The two-map cache implements ReplayMemory: it refuses each of the last
\* capacity handshakes and accepts each whose hash was never added.
THEOREM ImplementsMemory == CacheSpec => RefinesMemory
  <1>1. CacheInit => Memory!Init
    BY DEF CacheInit
  <1>2. CacheIInv /\ [CacheNext]_replayVars => [Memory!Next]_(Memory!vars)
    <2> SUFFICES ASSUME CacheIInv, [CacheNext]_replayVars
                 PROVE  [Memory!Next]_(Memory!vars)
      OBVIOUS
    <2>1. CASE CacheNext
      BY <2>1, AddImplements DEF CacheNext, Memory!Next
    <2>2. CASE UNCHANGED replayVars
      BY <2>2 DEF replayVars, Memory!vars
    <2> QED BY <2>1, <2>2
  <1> QED BY <1>1, <1>2, CacheInvariance, PTL DEF CacheSpec, RefinesMemory, Memory!Spec

-----------------------------------------------------------------------------
(* The passes of SnapshotForClientIP.  Only is a recursive function of the *)
(* number of elements passed; that it exists and obeys the usual laws is   *)
(* shown with least counterexamples.                                       *)

\* A set of numbers that is not empty has a least one.
LEMMA Minimum ==
    ASSUME NEW S \in SUBSET Nat, S # {}
    PROVE  \E i \in S : \A j \in S : i <= j
<1>1. PICK i \in S : \A j \in S : ~ (<<j, i>> \in OpToRel(<, Nat))
  BY NatLessThanWellFounded, WFMin
<1>2. \A j \in S : ~ (j < i)
  BY <1>1 DEF OpToRel
<1> QED BY <1>2

\* One step of the pass, from what it has taken of the first n - 1 elements.
Take(r, x, S) == IF x \in S THEN Append(r, x) ELSE r

\* f records the first m steps of a pass over s.
Passes(f, s, S, m) ==
    f[0] = <<>> /\ \A n \in 1 .. m : f[n] = Take(f[n - 1], s[n], S)

\* The pass as a function of the elements seen.
OnlyOf(s, S) ==
    CHOOSE f : f = [n \in 0 .. Len(s) |-> IF n = 0 THEN <<>> ELSE Take(f[n - 1], s[n], S)]

\* Only is the last value of that function.
LEMMA OnlyIsOnlyOf == \A s, S : Only(s, S) = OnlyOf(s, S)[Len(s)]
BY DEF Only, OnlyOf, Take

\* A pass of any length exists.
LEMMA PassExists == ASSUME NEW s, NEW S PROVE \A m \in Nat : \E f : Passes(f, s, S, m)
<1> SUFFICES ASSUME NEW m0 \in Nat, ~ \E f : Passes(f, s, S, m0) PROVE FALSE OBVIOUS
<1> DEFINE Bad == {m \in Nat : ~ \E f : Passes(f, s, S, m)}
<1>1. PICK m \in Bad : \A j \in Bad : m <= j
  <2> HIDE DEF Bad
  <2>1. Bad \in SUBSET Nat /\ Bad # {}
    BY DEF Bad
  <2> QED BY <2>1, Minimum
<1>2. CASE m = 0
  <2>1. Passes([n \in {0} |-> <<>>], s, S, 0)
    BY DEF Passes
  <2> QED BY <1>1, <1>2, <2>1
<1>3. CASE m # 0
  <2>1. m \in Nat /\ m - 1 \in Nat /\ m - 1 \notin Bad
    BY <1>1, <1>3
  <2>2. PICK f : Passes(f, s, S, m - 1)
    BY <2>1
  <2> DEFINE last == Take(f[m - 1], s[m], S)
             g == [n \in 0 .. m |-> IF n = m THEN last ELSE f[n]]
  <2>3. Passes(g, s, S, m)
    <3>1. \A n \in 0 .. m : g[n] = IF n = m THEN last ELSE f[n]
      OBVIOUS
    <3> HIDE DEF g
    <3>2. g[0] = <<>>
      BY <1>3, <2>1, <2>2, <3>1 DEF Passes
    <3>3. g[m] = Take(g[m - 1], s[m], S)
      <4>1. m \in 0 .. m /\ m - 1 \in 0 .. m /\ m - 1 # m
        BY <1>3, <2>1
      <4> QED BY <3>1, <4>1
    <3>4. ASSUME NEW n \in 1 .. m, n # m PROVE g[n] = Take(g[n - 1], s[n], S)
      <4>1. /\ n \in 0 .. m /\ n - 1 \in 0 .. m
            /\ n # m /\ n - 1 # m /\ n \in 1 .. (m - 1)
        BY <2>1, <3>4
      <4>2. f[n] = Take(f[n - 1], s[n], S)
        BY <2>2, <4>1 DEF Passes
      <4> QED BY <3>1, <4>1, <4>2
    <3> QED BY <3>2, <3>3, <3>4 DEF Passes
  <2> QED BY <1>1, <2>3
<1> QED BY <1>2, <1>3

\* Two passes over the same elements agree.
LEMMA PassUnique ==
    ASSUME NEW s, NEW t, NEW S, NEW f, NEW g, NEW m \in Nat,
           \A n \in 1 .. m : s[n] = t[n],
           Passes(f, s, S, m), Passes(g, t, S, m), NEW n0 \in 0 .. m
    PROVE  f[n0] = g[n0]
<1> SUFFICES ASSUME f[n0] # g[n0] PROVE FALSE OBVIOUS
<1> DEFINE Bad == {n \in 0 .. m : f[n] # g[n]}
<1>1. PICK n \in Bad : \A j \in Bad : n <= j
  <2> HIDE DEF Bad
  <2>1. Bad \in SUBSET Nat /\ Bad # {}
    BY DEF Bad
  <2> QED BY <2>1, Minimum
<1>2. n # 0
  BY <1>1 DEF Passes
<1>3. n - 1 \in 0 .. m /\ n - 1 \notin Bad /\ n \in 1 .. m
  BY <1>1, <1>2
<1>4. f[n - 1] = g[n - 1]
  BY <1>3
<1> QED BY <1>1, <1>3, <1>4 DEF Passes

\* The function behind Only is a pass over the whole list.
LEMMA OnlyPasses ==
    ASSUME NEW T, NEW s \in Seq(T), NEW S
    PROVE  Passes(OnlyOf(s, S), s, S, Len(s))
<1> DEFINE N == Len(s)
<1>0. N \in Nat
  BY LenProperties
<1> HIDE DEF N
<1>1. PICK f : Passes(f, s, S, N)
  BY <1>0, PassExists
<1> DEFINE h == [n \in 0 .. N |-> f[n]]
<1>2. h = [n \in 0 .. N |-> IF n = 0 THEN <<>> ELSE Take(h[n - 1], s[n], S)]
  <2>1. ASSUME NEW n \in 0 .. N PROVE h[n] = IF n = 0 THEN <<>> ELSE Take(h[n - 1], s[n], S)
    <3>1. CASE n = 0
      BY <1>1, <3>1 DEF Passes
    <3>2. CASE n # 0
      <4>1. n \in 1 .. N /\ n - 1 \in 0 .. N
        BY <1>0, <3>2
      <4>2. f[n] = Take(f[n - 1], s[n], S)
        BY <1>1, <4>1 DEF Passes
      <4>3. h[n] = f[n] /\ h[n - 1] = f[n - 1]
        BY <4>1
      <4> QED BY <3>2, <4>2, <4>3
    <3> QED BY <3>1, <3>2
  <2> HIDE DEF h
  <2>2. h = [n \in 0 .. N |-> h[n]]
    BY DEF h
  <2> QED BY <2>1, <2>2
<1> HIDE DEF h
<1> DEFINE F == OnlyOf(s, S)
<1>3. F = [n \in 0 .. N |-> IF n = 0 THEN <<>> ELSE Take(F[n - 1], s[n], S)]
  BY <1>2 DEF OnlyOf, N
<1> HIDE DEF F
<1>4. ASSUME NEW n \in 1 .. N PROVE F[n] = Take(F[n - 1], s[n], S)
  BY <1>0, <1>3
<1>5. F[0] = <<>>
  BY <1>0, <1>3
<1> QED BY <1>4, <1>5 DEF Passes, F, N

\* The pass over an empty list takes nothing, and the last step of the others.
LEMMA OnlyEmpty == ASSUME NEW S PROVE Only(<<>>, S) = <<>>
<1>1. <<>> \in Seq({}) /\ Len(<<>>) = 0
  OBVIOUS
<1>2. Passes(OnlyOf(<<>>, S), <<>>, S, Len(<<>>))
  BY <1>1, OnlyPasses
<1> QED BY <1>1, <1>2, OnlyIsOnlyOf DEF Passes

\* One more element is one more step.
LEMMA OnlyAppend ==
    ASSUME NEW T, NEW s \in Seq(T), NEW x \in T, NEW S
    PROVE  Only(Append(s, x), S) = Take(Only(s, S), x, S)
<1> DEFINE t == Append(s, x)
           N == Len(s)
<1>1. /\ t \in Seq(T) /\ N \in Nat /\ Len(t) = N + 1
      /\ (\A i \in 1 .. N : s[i] = t[i]) /\ t[N + 1] = x
  BY AppendProperties, LenProperties
<1> HIDE DEF t, N
<1> DEFINE F == OnlyOf(t, S)
           G == OnlyOf(s, S)
<1>2. Passes(F, t, S, N + 1) /\ Passes(G, s, S, N)
  BY <1>1, OnlyPasses DEF N
<1> HIDE DEF F, G
<1>3. Passes(F, t, S, N)
  BY <1>1, <1>2 DEF Passes
<1>4. N \in 0 .. N /\ N + 1 \in 1 .. N + 1 /\ (N + 1) - 1 = N
  BY <1>1
<1>5. G[N] = F[N]
  BY <1>1, <1>2, <1>3, <1>4, PassUnique
<1>6. F[N + 1] = Take(F[N], x, S)
  BY <1>1, <1>2, <1>4 DEF Passes
<1>7. Only(t, S) = F[N + 1] /\ Only(s, S) = G[N]
  BY <1>1, OnlyIsOnlyOf DEF F, G, N
<1> QED BY <1>5, <1>6, <1>7 DEF t

\* Appending adds one element.
LEMMA ElementsOfAppend ==
    ASSUME NEW T, NEW s \in Seq(T), NEW x \in T
    PROVE  Elements(Append(s, x)) = Elements(s) \cup {x}
<1> DEFINE t == Append(s, x)
           N == Len(s)
<1>1. /\ t \in Seq(T) /\ N \in Nat /\ DOMAIN t = 1 .. N + 1 /\ DOMAIN s = 1 .. N
      /\ (\A i \in 1 .. N : t[i] = s[i]) /\ t[N + 1] = x
  BY AppendProperties, LenProperties
<1> HIDE DEF t, N
<1>2. \A i \in 1 .. N + 1 : i \in 1 .. N \/ i = N + 1
  BY <1>1
<1>3. \A i \in 1 .. N : i \in 1 .. N + 1
  BY <1>1
<1>4. N + 1 \in 1 .. N + 1
  BY <1>1
<1>5. Elements(t) \subseteq Elements(s) \cup {x}
  BY <1>1, <1>2 DEF Elements
<1>6. Elements(s) \subseteq Elements(t)
  BY <1>1, <1>3 DEF Elements
<1>7. x \in Elements(t)
  BY <1>1, <1>4 DEF Elements
<1> QED BY <1>5, <1>6, <1>7 DEF t

\* Two lists together have the elements of both.
LEMMA ElementsOfConcat ==
    ASSUME NEW T, NEW s \in Seq(T), NEW t \in Seq(T)
    PROVE  s \o t \in Seq(T) /\ Elements(s \o t) = Elements(s) \cup Elements(t)
<1> DEFINE w == s \o t
           M == Len(s)
           N == Len(t)
<1>1. /\ w \in Seq(T) /\ M \in Nat /\ N \in Nat
      /\ DOMAIN w = 1 .. M + N /\ DOMAIN s = 1 .. M /\ DOMAIN t = 1 .. N
      /\ \A i \in 1 .. M + N : w[i] = IF i <= M THEN s[i] ELSE t[i - M]
  BY ConcatProperties, LenProperties
<1> HIDE DEF w, M, N
<1>2. ASSUME NEW i \in 1 .. M + N PROVE w[i] \in Elements(s) \cup Elements(t)
  <2>1. CASE i <= M
    <3>1. i \in 1 .. M
      BY <1>1, <2>1
    <3> QED BY <1>1, <2>1, <3>1 DEF Elements
  <2>2. CASE ~ (i <= M)
    <3>1. i - M \in 1 .. N
      BY <1>1, <2>2
    <3> QED BY <1>1, <2>2, <3>1 DEF Elements
  <2> QED BY <2>1, <2>2
<1>3. ASSUME NEW i \in 1 .. M PROVE s[i] \in Elements(w)
  <2>1. i \in 1 .. M + N /\ i <= M
    BY <1>1
  <2> QED BY <1>1, <2>1 DEF Elements
<1>4. ASSUME NEW i \in 1 .. N PROVE t[i] \in Elements(w)
  <2>1. M + i \in 1 .. M + N /\ ~ (M + i <= M) /\ (M + i) - M = i
    BY <1>1
  <2> QED BY <1>1, <2>1 DEF Elements
<1>5. Elements(w) \subseteq Elements(s) \cup Elements(t)
  BY <1>1, <1>2 DEF Elements
<1>6. Elements(s) \subseteq Elements(w) /\ Elements(t) \subseteq Elements(w)
  BY <1>1, <1>3, <1>4 DEF Elements
<1> QED BY <1>1, <1>5, <1>6 DEF w

\* Only the empty list has no elements.
LEMMA NoElements ==
    ASSUME NEW T, NEW s \in Seq(T), Elements(s) = {}
    PROVE  s = <<>>
<1>1. DOMAIN s = 1 .. Len(s) /\ Len(s) \in Nat
  BY LenProperties
<1>2. \A i \in 1 .. Len(s) : FALSE
  BY <1>1 DEF Elements
<1>3. Len(s) = 0
  BY <1>1, <1>2
<1> QED BY <1>3, EmptySeq

\* The laws of a pass over s: what it takes, that two passes are one, that only
\* the elements matter, and that a pass that takes all leaves the list as it is.
Laws(s, T) ==
    \A S :
      /\ Only(s, S) \in Seq(T)
      /\ Elements(Only(s, S)) = Elements(s) \cap S
      /\ Elements(s) \subseteq S => Only(s, S) = s
      /\ \A R : /\ Only(Only(s, S), R) = Only(s, S \cap R)
                /\ Elements(s) \cap S = Elements(s) \cap R => Only(s, S) = Only(s, R)

\* The laws hold of the empty list,
LEMMA LawsOfEmpty == ASSUME NEW T PROVE Laws(<<>>, T)
<1>1. Elements(<<>>) = {} /\ <<>> \in Seq(T)
  BY DEF Elements
<1> QED BY <1>1, OnlyEmpty DEF Laws

\* and of a list with one element more,
LEMMA LawsOfAppend ==
    ASSUME NEW T, NEW s \in Seq(T), NEW x \in T, Laws(s, T)
    PROVE  Laws(Append(s, x), T)
<1> DEFINE t == Append(s, x)
<1>1. t \in Seq(T) /\ Elements(t) = Elements(s) \cup {x}
  BY AppendProperties, ElementsOfAppend
<1>2. \A S : Only(t, S) = Take(Only(s, S), x, S)
  BY OnlyAppend
<1> SUFFICES ASSUME NEW S
             PROVE  /\ Only(t, S) \in Seq(T)
                    /\ Elements(Only(t, S)) = Elements(t) \cap S
                    /\ Elements(t) \subseteq S => Only(t, S) = t
                    /\ \A R : /\ Only(Only(t, S), R) = Only(t, S \cap R)
                              /\ Elements(t) \cap S = Elements(t) \cap R =>
                                   Only(t, S) = Only(t, R)
  BY DEF Laws
<1>3. /\ Only(s, S) \in Seq(T)
      /\ Elements(Only(s, S)) = Elements(s) \cap S
      /\ Elements(s) \subseteq S => Only(s, S) = s
      /\ \A R : /\ Only(Only(s, S), R) = Only(s, S \cap R)
                /\ Elements(s) \cap S = Elements(s) \cap R => Only(s, S) = Only(s, R)
  BY DEF Laws
<1>4. Only(t, S) \in Seq(T)
  <2>1. Append(Only(s, S), x) \in Seq(T)
    BY <1>3, AppendProperties
  <2> HIDE DEF t
  <2> QED BY <1>2, <1>3, <2>1 DEF Take
<1>5. Elements(Only(t, S)) = Elements(t) \cap S
  <2>1. CASE x \in S
    <3>1. Only(t, S) = Append(Only(s, S), x)
      BY <1>2, <2>1 DEF Take
    <3>2. Elements(Only(t, S)) = Elements(Only(s, S)) \cup {x}
      BY <1>3, <3>1, ElementsOfAppend
    <3> HIDE DEF t
    <3> QED BY <1>1, <1>3, <2>1, <3>2
  <2>2. CASE x \notin S
    <3>1. Only(t, S) = Only(s, S)
      BY <1>2, <2>2 DEF Take
    <3> HIDE DEF t
    <3> QED BY <1>1, <1>3, <2>2, <3>1
  <2> QED BY <2>1, <2>2
<1>6. Elements(t) \subseteq S => Only(t, S) = t
  BY <1>1, <1>2, <1>3 DEF Take
<1>7. ASSUME NEW R PROVE Only(Only(t, S), R) = Only(t, S \cap R)
  <2>0. Only(t, S \cap R) = Take(Only(s, S \cap R), x, S \cap R)
    BY <1>2
  <2>1. CASE x \in S
    <3>1. Only(t, S) = Append(Only(s, S), x)
      BY <1>2, <2>1 DEF Take
    <3>2. Only(Append(Only(s, S), x), R) = Take(Only(Only(s, S), R), x, R)
      BY <1>3, OnlyAppend
    <3> HIDE DEF t
    <3> QED BY <1>3, <2>0, <2>1, <3>1, <3>2 DEF Take
  <2>2. CASE x \notin S
    <3>1. Only(t, S) = Only(s, S)
      BY <1>2, <2>2 DEF Take
    <3> HIDE DEF t
    <3> QED BY <1>3, <2>0, <2>2, <3>1 DEF Take
  <2> QED BY <2>1, <2>2
<1>8. ASSUME NEW R, Elements(t) \cap S = Elements(t) \cap R PROVE Only(t, S) = Only(t, R)
  <2> HIDE DEF t
  <2>1. Elements(s) \cap S = Elements(s) \cap R /\ (x \in S <=> x \in R)
    BY <1>1, <1>8
  <2> QED BY <1>2, <1>3, <2>1 DEF Take
<1> QED BY <1>4, <1>5, <1>6, <1>7, <1>8

\* and so of every list: there is no shortest one that breaks them.
LEMMA OnlyLaws ==
    ASSUME NEW T, NEW s0 \in Seq(T)
    PROVE  Laws(s0, T)
<1> SUFFICES ASSUME ~Laws(s0, T) PROVE FALSE OBVIOUS
<1> DEFINE Bad == {n \in Nat : \E s \in Seq(T) : Len(s) = n /\ ~Laws(s, T)}
<1>1. PICK n \in Bad : \A j \in Bad : n <= j
  <2>1. Len(s0) \in Bad
    BY LenProperties
  <2> HIDE DEF Bad
  <2>2. Bad \in SUBSET Nat /\ Bad # {}
    BY <2>1 DEF Bad
  <2> QED BY <2>2, Minimum
<1>2. PICK s \in Seq(T) : Len(s) = n /\ ~Laws(s, T)
  BY <1>1
<1>3. s # <<>>
  BY <1>2, LawsOfEmpty
<1>4. PICK r \in Seq(T), x \in T : s = Append(r, x)
  BY <1>3, SequenceEmptyOrAppend
<1>5. Len(r) \in Nat /\ Len(r) < n
  BY <1>2, <1>4, AppendProperties, LenProperties
<1>6. Len(r) \notin Bad
  BY <1>1, <1>5
<1>7. Laws(r, T)
  BY <1>5, <1>6
<1> QED BY <1>2, <1>4, <1>7, LawsOfAppend

\* A pass over two lists, one behind the other.
Splits(t, T) ==
    \A s \in Seq(T) : \A S : Only(s \o t, S) = Only(s, S) \o Only(t, S)

\* Nothing behind a list adds nothing to a pass over it.
LEMMA SplitsEmpty == ASSUME NEW T PROVE Splits(<<>>, T)
<1> SUFFICES ASSUME NEW s \in Seq(T), NEW S
             PROVE  Only(s \o <<>>, S) = Only(s, S) \o Only(<<>>, S)
  BY DEF Splits
<1>1. Only(s, S) \in Seq(T)
  BY OnlyLaws DEF Laws
<1>2. s \o <<>> = s /\ Only(s, S) \o <<>> = Only(s, S)
  BY <1>1, ConcatEmptySeq
<1> QED BY <1>2, OnlyEmpty

\* An element more behind it is taken or left.
LEMMA SplitsAppend ==
    ASSUME NEW T, NEW t \in Seq(T), NEW x \in T, Splits(t, T)
    PROVE  Splits(Append(t, x), T)
<1> SUFFICES ASSUME NEW s \in Seq(T), NEW S
             PROVE  Only(s \o Append(t, x), S) = Only(s, S) \o Only(Append(t, x), S)
  BY DEF Splits
<1>1. s \o Append(t, x) = Append(s \o t, x) /\ s \o t \in Seq(T)
  BY ConcatProperties, AppendIsConcat, ConcatAssociative
<1>2. Only(s \o t, S) = Only(s, S) \o Only(t, S)
  BY DEF Splits
<1>3. /\ Only(Append(s \o t, x), S) = Take(Only(s \o t, S), x, S)
      /\ Only(Append(t, x), S) = Take(Only(t, S), x, S)
  BY <1>1, OnlyAppend
<1>4. Only(s, S) \in Seq(T) /\ Only(t, S) \in Seq(T)
  BY OnlyLaws DEF Laws
<1>5. Only(s, S) \o Append(Only(t, S), x) = Append(Only(s, S) \o Only(t, S), x)
  BY <1>4, ConcatProperties, AppendIsConcat, ConcatAssociative
<1> QED BY <1>1, <1>2, <1>3, <1>5 DEF Take

\* The pass over s \o t is the pass over s, then the pass over t.
LEMMA OnlyConcat ==
    ASSUME NEW T, NEW t0 \in Seq(T)
    PROVE  Splits(t0, T)
<1> SUFFICES ASSUME ~Splits(t0, T) PROVE FALSE OBVIOUS
<1> DEFINE Bad == {n \in Nat : \E t \in Seq(T) : Len(t) = n /\ ~Splits(t, T)}
<1>1. PICK n \in Bad : \A j \in Bad : n <= j
  <2>1. Len(t0) \in Bad
    BY LenProperties
  <2> HIDE DEF Bad
  <2>2. Bad \in SUBSET Nat /\ Bad # {}
    BY <2>1 DEF Bad
  <2> QED BY <2>2, Minimum
<1>2. PICK t \in Seq(T) : Len(t) = n /\ ~Splits(t, T)
  BY <1>1
<1>3. t # <<>>
  BY <1>2, SplitsEmpty
<1>4. PICK r \in Seq(T), x \in T : t = Append(r, x)
  BY <1>3, SequenceEmptyOrAppend
<1>5. Len(r) \in Nat /\ Len(r) < n
  BY <1>2, <1>4, AppendProperties, LenProperties
<1>6. Len(r) \notin Bad
  BY <1>1, <1>5
<1>7. Splits(r, T)
  BY <1>5, <1>6
<1> QED BY <1>2, <1>4, <1>7, SplitsAppend

\* Two passes are one that takes what both take.
LEMMA OnlyTwice ==
    ASSUME NEW T, NEW s \in Seq(T), NEW S, NEW R
    PROVE  Only(Only(s, S), R) = Only(s, S \cap R)
BY OnlyLaws DEF Laws

\* Passes that take the same of the list's elements are the same.
LEMMA OnlySame ==
    ASSUME NEW T, NEW s \in Seq(T), NEW S, NEW R,
           Elements(s) \cap S = Elements(s) \cap R
    PROVE  Only(s, S) = Only(s, R)
<1>1. Laws(s, T)
  BY OnlyLaws
<1>2. \A V : Elements(s) \cap S = Elements(s) \cap V => Only(s, S) = Only(s, V)
  BY ONLY <1>1, Zenon DEF Laws
<1> QED BY <1>2

\* OnlyConcat with the lists' type spelled out.
LEMMA OnlySplits ==
    ASSUME NEW T, NEW s \in Seq(T), NEW t \in Seq(T), NEW S
    PROVE  Only(s \o t, S) = Only(s, S) \o Only(t, S)
BY OnlyConcat DEF Splits

-----------------------------------------------------------------------------
(* MoveToFront.                                                            *)

\* No element occurs twice.
Distinct(s) == \A i, j \in DOMAIN s : s[i] = s[j] => i = j

\* Moving an element to the front permutes the list: container/list's
\* MoveToFront as SnapshotForClientIP's callers rely on it.
LEMMA MoveToFrontPermutes ==
    ASSUME NEW S, NEW s \in Seq(S), NEW e, Distinct(s)
    PROVE  /\ MoveToFront(s, e) \in Seq(S)
           /\ Len(MoveToFront(s, e)) = Len(s)
           /\ Elements(MoveToFront(s, e)) = Elements(s)
           /\ Distinct(MoveToFront(s, e))
  <1>1. CASE e \notin Elements(s)
    BY <1>1 DEF MoveToFront
  <1>2. CASE e \in Elements(s)
    <2> DEFINE k == CHOOSE i \in DOMAIN s : s[i] = e
    <2> DEFINE t == [i \in 1 .. Len(s) |->
                       IF i = 1 THEN e ELSE IF i <= k THEN s[i - 1] ELSE s[i]]
    <2>1. MoveToFront(s, e) = t
      BY <1>2 DEF MoveToFront
    <2>2. k \in DOMAIN s /\ s[k] = e
      BY <1>2 DEF Elements
    <2>3. DOMAIN s = 1 .. Len(s) /\ Len(s) \in Nat /\ k \in 1 .. Len(s)
      BY <2>2
    <2> HIDE DEF k
    <2>4. \A i \in 1 .. Len(s) : t[i] \in S
      BY <2>2, <2>3
    <2>5. t \in Seq(S) /\ Len(t) = Len(s) /\ DOMAIN t = 1 .. Len(s)
      BY <2>3, <2>4
    <2>6. ASSUME NEW i \in 1 .. Len(s)
          PROVE  s[i] \in Elements(t)
      <3>1. CASE i < k
        <4>1. i + 1 \in 1 .. Len(s) /\ t[i + 1] = s[i]
          BY <2>3, <3>1
        <4> QED BY <4>1, <2>5 DEF Elements
      <3>2. CASE i = k
        BY <2>2, <2>3, <2>5, <3>2 DEF Elements
      <3>3. CASE i > k
        <4>1. t[i] = s[i]
          BY <2>3, <3>3
        <4> QED BY <4>1, <2>5 DEF Elements
      <3> QED BY <2>3, <3>1, <3>2, <3>3
    <2>7. ASSUME NEW i \in 1 .. Len(s)
          PROVE  t[i] \in Elements(s)
      <3>1. CASE i = 1
        BY <1>2, <3>1
      <3>2. CASE i # 1 /\ i <= k
        <4>1. i - 1 \in 1 .. Len(s) /\ t[i] = s[i - 1]
          BY <2>3, <3>2
        <4> QED BY <4>1, <2>3 DEF Elements
      <3>3. CASE i # 1 /\ ~(i <= k)
        <4>1. t[i] = s[i]
          BY <3>3
        <4> QED BY <4>1, <2>3 DEF Elements
      <3> QED BY <3>1, <3>2, <3>3
    <2>8. Elements(t) = Elements(s)
      <3> HIDE DEF t
      <3>1. Elements(t) \subseteq Elements(s)
        BY <2>5, <2>7 DEF Elements
      <3>2. Elements(s) \subseteq Elements(t)
        BY <2>3, <2>6 DEF Elements
      <3> QED BY <3>1, <3>2
    <2>9. ASSUME NEW i \in 1 .. Len(s), NEW j \in 1 .. Len(s), t[i] = t[j]
          PROVE  i = j
      <3> DEFINE from(n) == IF n = 1 THEN k ELSE IF n <= k THEN n - 1 ELSE n
      <3>1. from(i) \in 1 .. Len(s) /\ from(j) \in 1 .. Len(s)
        BY <2>3
      <3>2. t[i] = s[from(i)] /\ t[j] = s[from(j)]
        BY <2>2
      <3>3. from(i) = from(j)
        BY <2>3, <2>9, <3>1, <3>2 DEF Distinct
      <3> QED BY <2>3, <3>3
    <2>10. Distinct(t)
      BY <2>5, <2>9 DEF Distinct
    <2> QED BY <2>1, <2>5, <2>8, <2>10
  <1> QED BY <1>1, <1>2

\* It is also what comes first, then the rest in its order.
LEMMA MoveToFrontIsOnly ==
    ASSUME NEW T, NEW s \in Seq(T), NEW e \in T, Distinct(s), e \in Elements(s)
    PROVE  MoveToFront(s, e) = <<e>> \o Without(s, e)
  <1> DEFINE k == CHOOSE i \in DOMAIN s : s[i] = e
             A == SubSeq(s, 1, k - 1)
             B == SubSeq(s, k + 1, Len(s))
             t == [i \in 1 .. Len(s) |->
                     IF i = 1 THEN e ELSE IF i <= k THEN s[i - 1] ELSE s[i]]
             N == Len(s)
  <1>1. MoveToFront(s, e) = t
    BY DEF MoveToFront
  <1>2. k \in DOMAIN s /\ s[k] = e
    BY DEF Elements
  <1>3. DOMAIN s = 1 .. N /\ N \in Nat /\ k \in 1 .. N /\ \A i \in 1 .. N : s[i] \in T
    BY <1>2
  <1> HIDE DEF k, N
  <1>4. /\ A \in Seq(T) /\ Len(A) = k - 1
        /\ \A i \in 1 .. k - 1 : A[i] = s[i]
    BY <1>3, SubSeqProperties
  <1>5. /\ B \in Seq(T) /\ Len(B) = N - k
        /\ \A i \in 1 .. N - k : B[i] = s[k + i]
    <2>1. B = SubSeq(s, k + 1, N)
      BY DEF N
    <2>2. \A i \in k + 1 .. N : s[i] \in T
      BY <1>3
    <2>3. k + 1 \in Int /\ N \in Int
      BY <1>3
    <2> HIDE DEF B
    <2>4. /\ B \in Seq(T) /\ Len(B) = IF k + 1 <= N THEN N - (k + 1) + 1 ELSE 0
          /\ \A i \in 1 .. N - (k + 1) + 1 : B[i] = s[(k + 1) + i - 1]
      BY <2>1, <2>2, <2>3, SubSeqProperties
    <2>5. N - (k + 1) + 1 = N - k /\ (IF k + 1 <= N THEN N - (k + 1) + 1 ELSE 0) = N - k
      BY <1>3
    <2>6. \A i \in 1 .. N - k : (k + 1) + i - 1 = k + i
      BY <1>3
    <2> QED BY <2>4, <2>5, <2>6
  <1> HIDE DEF A, B
  <1>6. /\ <<e>> \in Seq(T) /\ Len(<<e>>) = 1 /\ <<e>>[1] = e
    OBVIOUS
  <1> DEFINE C == A \o B
             D == <<e>> \o B
  <1>7. /\ C \in Seq(T) /\ Len(C) = N - 1
        /\ \A i \in 1 .. N - 1 : C[i] = IF i <= k - 1 THEN A[i] ELSE B[i - (k - 1)]
    <2>1. /\ C \in Seq(T) /\ Len(C) = Len(A) + Len(B)
          /\ \A i \in 1 .. Len(A) + Len(B) :
               C[i] = IF i <= Len(A) THEN A[i] ELSE B[i - Len(A)]
      BY <1>4, <1>5, ConcatProperties
    <2>2. Len(A) + Len(B) = N - 1 /\ Len(A) = k - 1
      BY <1>3, <1>4, <1>5
    <2> HIDE DEF C
    <2> QED BY <2>1, <2>2
  <1>8. /\ D \in Seq(T) /\ Len(D) = 1 + (N - k)
        /\ \A i \in 1 .. 1 + (N - k) : D[i] = IF i <= 1 THEN e ELSE B[i - 1]
    <2>1. /\ D \in Seq(T) /\ Len(D) = 1 + (N - k)
          /\ \A i \in 1 .. 1 + (N - k) : D[i] = IF i <= 1 THEN <<e>>[i] ELSE B[i - 1]
      BY <1>5, <1>6, ConcatProperties
    <2> HIDE DEF D
    <2> QED BY <1>3, <1>6, <2>1
  <1> HIDE DEF C, D
  <1>9. s = A \o D
    <2>1. /\ A \o D \in Seq(T) /\ Len(A \o D) = (k - 1) + (1 + (N - k))
          /\ \A i \in 1 .. (k - 1) + (1 + (N - k)) :
               (A \o D)[i] = IF i <= k - 1 THEN A[i] ELSE D[i - (k - 1)]
      <3>1. /\ A \o D \in Seq(T) /\ Len(A \o D) = Len(A) + Len(D)
            /\ \A i \in 1 .. Len(A) + Len(D) :
                 (A \o D)[i] = IF i <= Len(A) THEN A[i] ELSE D[i - Len(A)]
        BY <1>4, <1>8, ConcatProperties
      <3> QED BY <1>4, <1>8, <3>1
    <2>2. (k - 1) + (1 + (N - k)) = N
      BY <1>3
    <2>3. ASSUME NEW i \in 1 .. N PROVE s[i] = (A \o D)[i]
      <3>1. CASE i <= k - 1
        BY <1>3, <1>4, <2>1, <2>2, <3>1
      <3>2. CASE i = k
        <4>1. i - (k - 1) = 1 /\ ~ (i <= k - 1) /\ 1 \in 1 .. 1 + (N - k)
          BY <1>3, <3>2
        <4>2. (A \o D)[i] = D[1]
          BY <2>1, <2>2, <4>1
        <4> QED BY <1>2, <1>8, <3>2, <4>1, <4>2
      <3>3. CASE i > k
        <4>1. /\ ~ (i <= k - 1) /\ i - (k - 1) \in 1 .. 1 + (N - k)
              /\ ~ (i - (k - 1) <= 1) /\ (i - (k - 1)) - 1 = i - k
              /\ i - k \in 1 .. N - k /\ k + (i - k) = i
          BY <1>3, <3>3
        <4>2. (A \o D)[i] = D[i - (k - 1)]
          BY <2>1, <2>2, <4>1
        <4>3. D[i - (k - 1)] = B[i - k]
          BY <1>8, <4>1
        <4> QED BY <1>5, <4>1, <4>2, <4>3
      <3>4. i <= k - 1 \/ i = k \/ i > k
        BY <1>3
      <3> QED BY <3>1, <3>2, <3>3, <3>4
    <2> QED BY <2>1, <2>2, <2>3, <1>3, SeqEqual DEF N
  <1>10. t = <<e>> \o C
    <2>1. /\ <<e>> \o C \in Seq(T) /\ Len(<<e>> \o C) = 1 + (N - 1)
          /\ \A i \in 1 .. 1 + (N - 1) :
               (<<e>> \o C)[i] = IF i <= 1 THEN <<e>>[i] ELSE C[i - 1]
      BY <1>6, <1>7, ConcatProperties
    <2>2. 1 + (N - 1) = N
      BY <1>3
    <2>3. \A i \in 1 .. N : t[i] = IF i = 1 THEN e ELSE IF i <= k THEN s[i - 1] ELSE s[i]
      BY DEF N
    <2>4. t \in Seq(T) /\ Len(t) = N
      <3>1. \A i \in 1 .. N : t[i] \in T
        BY <1>3, <2>3
      <3>2. t = [i \in 1 .. N |-> t[i]]
        BY DEF N
      <3> HIDE DEF t
      <3> QED BY <1>3, <3>1, <3>2
    <2> HIDE DEF t
    <2>5. ASSUME NEW i \in 1 .. N PROVE t[i] = (<<e>> \o C)[i]
      <3>1. CASE i = 1
        BY <1>3, <1>6, <2>1, <2>2, <2>3, <3>1
      <3>2. CASE i # 1 /\ i <= k
        <4>1. i - 1 \in 1 .. N - 1 /\ i - 1 <= k - 1 /\ i - 1 \in 1 .. k - 1 /\ ~ (i <= 1)
          BY <1>3, <3>2
        <4>2. (<<e>> \o C)[i] = C[i - 1]
          BY <2>1, <2>2, <4>1
        <4>3. C[i - 1] = s[i - 1]
          BY <1>4, <1>7, <4>1
        <4> QED BY <2>3, <3>2, <4>2, <4>3
      <3>3. CASE i > k
        <4>1. /\ i - 1 \in 1 .. N - 1 /\ ~ (i - 1 <= k - 1) /\ ~ (i <= 1) /\ i # 1
              /\ ~ (i <= k) /\ (i - 1) - (k - 1) = i - k
              /\ i - k \in 1 .. N - k /\ k + (i - k) = i
          BY <1>3, <3>3
        <4>2. (<<e>> \o C)[i] = C[i - 1]
          BY <2>1, <2>2, <4>1
        <4>3. C[i - 1] = B[i - k]
          BY <1>7, <4>1
        <4>4. B[i - k] = s[i]
          BY <1>5, <4>1
        <4> QED BY <2>3, <4>1, <4>2, <4>3, <4>4
      <3>4. i = 1 \/ (i # 1 /\ i <= k) \/ i > k
        BY <1>3
      <3> QED BY <3>1, <3>2, <3>3, <3>4
    <2> QED BY <2>1, <2>2, <2>4, <2>5, SeqEqual
  <1>11. Without(s, e) = C
    <2> DEFINE S == Elements(s) \ {e}
    <2>1. Elements(A) \subseteq S
      <3>1. ASSUME NEW i \in 1 .. k - 1 PROVE A[i] \in S
        <4>1. i \in 1 .. N /\ i # k
          BY <1>3
        <4>2. A[i] = s[i] /\ s[i] # e
          BY <1>2, <1>3, <1>4, <4>1 DEF Distinct
        <4> QED BY <1>3, <4>1, <4>2 DEF Elements
      <3> HIDE DEF S
      <3>2. DOMAIN A = 1 .. k - 1
        BY <1>3, <1>4
      <3> QED BY <3>1, <3>2 DEF Elements
    <2>2. Elements(B) \subseteq S
      <3>1. ASSUME NEW i \in 1 .. N - k PROVE B[i] \in S
        <4>1. k + i \in 1 .. N /\ k + i # k
          BY <1>3
        <4>2. B[i] = s[k + i] /\ s[k + i] # e
          BY <1>2, <1>3, <1>5, <4>1 DEF Distinct
        <4> QED BY <1>3, <4>1, <4>2 DEF Elements
      <3> HIDE DEF S
      <3>2. DOMAIN B = 1 .. N - k
        BY <1>3, <1>5
      <3> QED BY <3>1, <3>2 DEF Elements
    <2>3. e \notin S
      OBVIOUS
    <2> HIDE DEF S
    <2>4. Only(A, S) = A /\ Only(B, S) = B
      BY <1>4, <1>5, <2>1, <2>2, OnlyLaws DEF Laws
    <2>5. Only(<<e>>, S) = <<>>
      <3>1. <<e>> = Append(<<>>, e) /\ <<>> \in Seq(T)
        OBVIOUS
      <3>2. Only(Append(<<>>, e), S) = Take(Only(<<>>, S), e, S)
        BY <3>1, OnlyAppend
      <3> QED BY <2>3, <3>1, <3>2, OnlyEmpty DEF Take
    <2>6. Only(D, S) = <<>> \o B
      <3>1. Only(<<e>> \o B, S) = Only(<<e>>, S) \o Only(B, S)
        <4> DEFINE E == <<e>>
        <4>1. E \in Seq(T) /\ B \in Seq(T)
          BY <1>5, <1>6
        <4> HIDE DEF E
        <4>2. Only(E \o B, S) = Only(E, S) \o Only(B, S)
          BY ONLY <4>1, OnlySplits
        <4> QED BY <4>2 DEF E
      <3> QED BY <2>4, <2>5, <3>1 DEF D
    <2>7. Only(A \o D, S) = A \o Only(D, S)
      <3>1. Only(A \o D, S) = Only(A, S) \o Only(D, S)
        BY <1>4, <1>8, OnlySplits
      <3> QED BY <2>4, <3>1
    <2>8. <<>> \o B = B
      BY <1>5, ConcatEmptySeq
    <2>9. Without(s, e) = Only(s, S)
      BY DEF Without, S
    <2> QED BY <1>9, <2>6, <2>7, <2>8, <2>9 DEF C
  <1> QED BY <1>1, <1>10, <1>11

\* SnapshotForClientIP's two passes together take every entry of the list.
LEMMA SnapshotIsComplete ==
    ASSUME NEW T, list \in Seq(T), NEW ip
    PROVE  /\ SnapshotForClientIP(ip) \in Seq(T)
           /\ Elements(SnapshotForClientIP(ip)) = Elements(list)
  <1> DEFINE M == {e \in Elements(list) : matchesIP(e, ip)}
             P == Only(list, M)
             Q == Only(list, Elements(list) \ M)
  <1>1. SnapshotForClientIP(ip) = P \o Q
    BY DEF SnapshotForClientIP
  <1>2. /\ P \in Seq(T) /\ Elements(P) = Elements(list) \cap M
        /\ Q \in Seq(T) /\ Elements(Q) = Elements(list) \cap (Elements(list) \ M)
    BY OnlyLaws DEF Laws
  <1> HIDE DEF P, Q
  <1>3. P \o Q \in Seq(T) /\ Elements(P \o Q) = Elements(P) \cup Elements(Q)
    BY <1>2, ElementsOfConcat
  <1> QED BY <1>1, <1>2, <1>3

-----------------------------------------------------------------------------
(* The inductive invariant.                                                *)

\* No list, snapshot or mark has an entry of an update that is still to come.
IsPast(s) == \A e \in Elements(s) : e[1] <= updates

\* The inductive invariant: what the runs check, and nothing of the future.
IInv ==
    /\ TypeOK
    /\ ListIsInstalled
    /\ RecencyOrder
    /\ IsPast(list) /\ IsPast(used)
    /\ \A u \in User : IsPast(snapshot[u])

\* The inductive invariant holds at the start.
LEMMA InitIInv == Init => IInv
  <1> SUFFICES ASSUME Init PROVE IInv
    OBVIOUS
  <1> USE DEF Init, NewCipherList
  <1>1. TypeOK
    BY MaxUpdatesAssumption DEF TypeOK
  <1>2. ListIsInstalled
    BY DEF ListIsInstalled
  <1>3. Elements(<<>>) = {}
    BY DEF Elements
  <1>4. RecencyOrder
    BY OnlyEmpty DEF RecencyOrder
  <1> QED BY <1>1, <1>2, <1>3, <1>4 DEF IInv, IsPast

\* A snapshot has entries of the list only.
LEMMA TakeSnapshotIInv ==
    ASSUME IInv, NEW u \in User, NEW ip \in IP \cup {NoIP}, TakeSnapshot(u, ip)
    PROVE  IInv'
  <1>1. /\ snapshot' = [snapshot EXCEPT ![u] = SnapshotForClientIP(ip)]
        /\ clientIP' = [clientIP EXCEPT ![u] = ip]
        /\ UNCHANGED <<list, lastClientIP, updates, installed, used>>
    BY DEF TakeSnapshot, listVars
  <1>2. /\ SnapshotForClientIP(ip) \in Seq(Entry)
        /\ Elements(SnapshotForClientIP(ip)) = Elements(list)
    BY SnapshotIsComplete DEF IInv, TypeOK
  <1>3. TypeOK'
    BY <1>1, <1>2 DEF IInv, TypeOK
  <1>4. ListIsInstalled' /\ RecencyOrder' /\ IsPast(list)' /\ IsPast(used)'
    BY <1>1 DEF IInv, ListIsInstalled, RecencyOrder, IsPast
  <1>5. ASSUME NEW v \in User PROVE IsPast(snapshot[v])'
    <2>1. CASE v = u
      <3>1. snapshot'[v] = SnapshotForClientIP(ip)
        BY <1>1, <2>1 DEF IInv, TypeOK
      <3> QED BY <1>1, <1>2, <3>1 DEF IInv, IsPast
    <2>2. CASE v # u
      BY <1>1, <2>2 DEF IInv, TypeOK, IsPast
    <2> QED BY <2>1, <2>2
  <1> QED BY <1>3, <1>4, <1>5 DEF IInv

\* The entry marked is the last one used; the others keep their order.
LEMMA MarkKeepsOrder ==
    ASSUME TypeOK, ListIsInstalled, RecencyOrder, NEW e \in Entry,
           list' = MoveToFront(list, e), installed' = installed,
           used' = <<e>> \o Without(used, e)
    PROVE  RecencyOrder' /\ used' \in Seq(Entry)
           /\ Elements(used') = Elements(used) \cup {e}
  <1> DEFINE I == Elements(installed)
             U == Elements(used)
             W == Without(used, e)
             E == <<e>>
  <1>1. /\ list \in Seq(Entry) /\ installed \in Seq(Entry) /\ used \in Seq(Entry)
        /\ E \in Seq(Entry) /\ Elements(E) = {e}
    <2>1. E \in Seq(Entry) /\ DOMAIN E = {1} /\ E[1] = e
      OBVIOUS
    <2> HIDE DEF E
    <2> QED BY <2>1 DEF TypeOK, Elements
  <1> HIDE DEF E
  <1>2. W \in Seq(Entry) /\ Elements(W) = U \cap (U \ {e}) /\ W = Only(used, U \ {e})
    BY <1>1, OnlyLaws DEF Laws, Without
  <1> HIDE DEF W
  <1>3. used' = E \o W
    BY DEF E, W
  <1>4. used' \in Seq(Entry) /\ Elements(used') = U \cup {e}
    <2>1. E \o W \in Seq(Entry) /\ Elements(E \o W) = Elements(E) \cup Elements(W)
      <3>1. E \in Seq(Entry) /\ W \in Seq(Entry)
        BY <1>1, <1>2
      <3> QED BY ONLY <3>1, ElementsOfConcat
    <2> HIDE DEF U
    <2> QED BY <1>1, <1>2, <1>3, <2>1
  <1>5. Only(used', I) = Only(E, I) \o Only(used, (U \ {e}) \cap I)
    <2>1. Only(E \o W, I) = Only(E, I) \o Only(W, I)
      <3>1. E \in Seq(Entry) /\ W \in Seq(Entry)
        BY <1>1, <1>2
      <3> QED BY ONLY <3>1, OnlySplits
    <2>2. Only(Only(used, U \ {e}), I) = Only(used, (U \ {e}) \cap I)
      BY <1>1, OnlyTwice
    <2> QED BY <1>2, <1>3, <2>1, <2>2
  <1>6. RecencyOrder' <=>
          list' = (Only(E, I) \o Only(used, (U \ {e}) \cap I)) \o
                  Only(installed, I \ (U \cup {e}))
    BY <1>4, <1>5 DEF RecencyOrder
  <1>7. CASE e \notin I
    <2>1. list' = list
      BY <1>7 DEF MoveToFront, ListIsInstalled
    <2>2. Only(E, I) = <<>>
      <3>1. Only(E, I) \in Seq(Entry) /\ Elements(Only(E, I)) = {e} \cap I
        BY <1>1, OnlyLaws DEF Laws
      <3>2. Elements(Only(E, I)) = {}
        BY <1>7, <3>1
      <3> QED BY <3>1, <3>2, NoElements
    <2>3. Only(used, (U \ {e}) \cap I) = Only(used, I)
      <3>1. Elements(used) \cap ((U \ {e}) \cap I) = Elements(used) \cap I
        BY <1>7
      <3> QED BY <1>1, <3>1, OnlySame
    <2>4. I \ (U \cup {e}) = I \ U
      BY <1>7
    <2>5. Only(used, I) \in Seq(Entry)
      BY <1>1, OnlyLaws DEF Laws
    <2>6. <<>> \o Only(used, I) = Only(used, I)
      BY <2>5, ConcatEmptySeq
    <2> QED BY <1>4, <1>6, <2>1, <2>2, <2>3, <2>4, <2>6 DEF RecencyOrder
  <1>8. CASE e \in I
    <2> DEFINE P == Only(used, I)
               Q == Only(installed, I \ U)
               R == Elements(list) \ {e}
    <2>1. list' = E \o Only(list, R)
      <3>1. e \in Elements(list) /\ Distinct(list)
        BY <1>8 DEF ListIsInstalled, Distinct
      <3>2. MoveToFront(list, e) = <<e>> \o Without(list, e)
        BY <1>1, <3>1, MoveToFrontIsOnly
      <3> QED BY <3>2 DEF E, Without
    <2>2. P \in Seq(Entry) /\ Q \in Seq(Entry) /\ list = P \o Q
      BY <1>1, OnlyLaws DEF Laws, RecencyOrder
    <2>3. Only(list, R) = Only(P, R) \o Only(Q, R)
      <3> HIDE DEF P, Q, R
      <3>1. Only(P \o Q, R) = Only(P, R) \o Only(Q, R)
        BY <2>2, OnlySplits
      <3> QED BY <2>2, <3>1
    <2>4. Elements(list) = I
      BY DEF ListIsInstalled
    <2>5. Only(P, R) = Only(used, (U \ {e}) \cap I)
      <3>1. Only(P, R) = Only(used, I \cap R)
        BY <1>1, OnlyTwice
      <3>2. Elements(used) \cap (I \cap R) = Elements(used) \cap ((U \ {e}) \cap I)
        BY <2>4
      <3>3. Only(used, I \cap R) = Only(used, (U \ {e}) \cap I)
        BY <1>1, <3>2, OnlySame
      <3> QED BY <3>1, <3>3
    <2>6. Only(Q, R) = Only(installed, I \ (U \cup {e}))
      <3>1. Only(Q, R) = Only(installed, (I \ U) \cap R)
        BY <1>1, OnlyTwice
      <3>2. (I \ U) \cap R = I \ (U \cup {e})
        BY <2>4
      <3> QED BY <3>1, <3>2
    <2>7. Only(E, I) = E
      <3>1. Elements(E) \subseteq I
        BY <1>1, <1>8
      <3> QED BY <1>1, <3>1, OnlyLaws DEF Laws
    <2>8. Only(used, (U \ {e}) \cap I) \in Seq(Entry)
          /\ Only(installed, I \ (U \cup {e})) \in Seq(Entry)
      BY <1>1, OnlyLaws DEF Laws
    <2> HIDE DEF P, Q, R
    <2> DEFINE F == Only(used, (U \ {e}) \cap I)
               G == Only(installed, I \ (U \cup {e}))
    <2>9. F \in Seq(Entry) /\ G \in Seq(Entry)
      BY <2>8
    <2>10. Only(E, I) \o F = E \o F /\ list' = E \o (F \o G)
      BY <2>1, <2>3, <2>5, <2>6, <2>7
    <2>11. RecencyOrder' <=> list' = (Only(E, I) \o F) \o G
      BY <1>6
    <2> HIDE DEF F, G
    <2>12. (E \o F) \o G = E \o (F \o G)
      <3>1. E \in Seq(Entry)
        BY <1>1
      <3> QED BY ONLY <2>9, <3>1, ConcatAssociative
    <2> QED BY <1>4, <2>10, <2>11, <2>12
  <1> QED BY <1>4, <1>7, <1>8

\* A mark permutes the list or, if its entry was replaced, leaves it alone.
LEMMA MarkIInv ==
    ASSUME IInv, NEW u \in User, NEW e \in Entry, Mark(u, e)
    PROVE  IInv'
  <1>1. /\ list' = MoveToFront(list, e) /\ installed' = installed /\ updates' = updates
        /\ used' = <<e>> \o Without(used, e) /\ e \in Elements(snapshot[u])
        /\ lastClientIP' = [lastClientIP EXCEPT ![e] = clientIP[u]]
        /\ snapshot' = [snapshot EXCEPT ![u] = <<>>]
        /\ clientIP' = [clientIP EXCEPT ![u] = NoIP]
    BY DEF Mark, MarkUsedByClientIP
  <1>2. TypeOK /\ ListIsInstalled /\ RecencyOrder
    BY DEF IInv
  <1>3. list \in Seq(Entry) /\ Distinct(list)
    BY <1>2 DEF TypeOK, ListIsInstalled, Distinct
  <1>4. /\ list' \in Seq(Entry)
        /\ Len(list') = Len(list)
        /\ Elements(list') = Elements(list)
        /\ Distinct(list')
    BY <1>1, <1>3, MoveToFrontPermutes
  <1>5. ListIsInstalled'
    BY <1>1, <1>2, <1>4 DEF ListIsInstalled, Distinct
  <1>6. /\ RecencyOrder' /\ used' \in Seq(Entry)
        /\ Elements(used') = Elements(used) \cup {e}
    BY <1>1, <1>2, MarkKeepsOrder
  <1>7. TypeOK'
    BY <1>1, <1>2, <1>4, <1>6 DEF TypeOK
  <1>8. IsPast(list)' /\ IsPast(used)'
    BY <1>1, <1>4, <1>6 DEF IInv, IsPast
  <1>9. ASSUME NEW v \in User PROVE IsPast(snapshot[v])'
    <2>1. CASE v = u
      <3>1. snapshot'[v] = <<>>
        BY <1>1, <1>2, <2>1 DEF TypeOK
      <3> QED BY <3>1 DEF IsPast, Elements
    <2>2. CASE v # u
      BY <1>1, <1>2, <2>2 DEF IInv, TypeOK, IsPast
    <2> QED BY <2>1, <2>2
  <1> QED BY <1>5, <1>6, <1>7, <1>8, <1>9 DEF IInv

\* An update installs distinct entries, because a port's keys are distinct, and
\* new ones, so that no mark of the past concerns them.
LEMMA ReplaceIInv ==
    ASSUME IInv, NEW keys \in Contents, Replace(keys)
    PROVE  IInv'
  <1>1. /\ updates' = updates + 1 /\ updates < MaxUpdates
        /\ list' = [i \in 1 .. Len(keys) |-> <<updates + 1, keys[i]>>]
        /\ installed' = list'
        /\ UNCHANGED <<lastClientIP, used, snapshot, clientIP>>
    BY DEF Replace, Update
  <1>2. PICK n \in 0 .. Cardinality(Key) :
          /\ keys \in [1 .. n -> Key]
          /\ \A i, j \in 1 .. n : keys[i] = keys[j] => i = j
    BY DEF Contents
  <1>3. n \in Nat /\ keys \in Seq(Key) /\ Len(keys) = n
    BY <1>2
  <1>4. updates \in Nat /\ updates + 1 \in 0 .. MaxUpdates
    BY <1>1, MaxUpdatesAssumption DEF IInv, TypeOK
  <1>5. \A i \in 1 .. n : <<updates + 1, keys[i]>> \in Entry
    BY <1>2, <1>4 DEF Entry
  <1>6. list' \in Seq(Entry) /\ DOMAIN list' = 1 .. n
    BY <1>1, <1>3, <1>5
  <1>7. \A i, j \in DOMAIN list' : list'[i] = list'[j] => i = j
    BY <1>1, <1>2, <1>3, <1>6
  <1>8. ListIsInstalled'
    BY <1>1, <1>7 DEF ListIsInstalled
  <1>9. \A e \in Elements(list') : e[1] = updates + 1
    BY <1>1, <1>3, <1>6 DEF Elements
  <1>10. \A e \in Entry : e[1] \in Int
    BY MaxUpdatesAssumption DEF Entry
  <1>11. ASSUME NEW s \in Seq(Entry), IsPast(s) PROVE IsPast(s)'
    <2>1. \A e \in Elements(s) : e \in Entry
      BY DEF Elements
    <2> QED BY <1>1, <1>4, <1>10, <1>11, <2>1 DEF IsPast
  <1>12. IsPast(used)' /\ \A u \in User : IsPast(snapshot[u])'
    <2>1. used \in Seq(Entry) /\ IsPast(used) /\ used' = used
      BY <1>1 DEF IInv, TypeOK
    <2>2. ASSUME NEW u \in User PROVE IsPast(snapshot[u])'
      <3>1. snapshot[u] \in Seq(Entry) /\ IsPast(snapshot[u]) /\ snapshot'[u] = snapshot[u]
        BY <1>1 DEF IInv, TypeOK
      <3> QED BY <1>11, <3>1 DEF IsPast
    <2>3. IsPast(used)'
      BY <1>11, <2>1 DEF IsPast
    <2> QED BY <2>2, <2>3
  <1>13. IsPast(list)'
    BY <1>1, <1>4, <1>9 DEF IsPast
  <1>14. Elements(used) \cap Elements(list') = {}
    BY <1>4, <1>9 DEF IInv, IsPast
  <1>15. RecencyOrder'
    <2> DEFINE L == list'
               E == Elements(L)
    <2>1. used \in Seq(Entry) /\ L \in Seq(Entry)
      BY <1>6 DEF IInv, TypeOK
    <2>2. Only(used, E) = <<>>
      <3>1. Only(used, E) \in Seq(Entry) /\ Elements(Only(used, E)) = Elements(used) \cap E
        BY <2>1, OnlyLaws DEF Laws
      <3> QED BY <1>14, <3>1, NoElements
    <2>3. Only(L, E \ Elements(used)) = L
      <3>1. Elements(L) \subseteq E \ Elements(used)
        BY <1>14
      <3> HIDE DEF L
      <3> QED BY <2>1, <3>1, OnlyLaws DEF Laws
    <2>4. <<>> \o L = L
      BY <2>1, ConcatEmptySeq
    <2> QED BY <1>1, <2>2, <2>3, <2>4 DEF RecencyOrder
  <1>16. TypeOK'
    BY <1>1, <1>4, <1>6 DEF IInv, TypeOK
  <1> QED BY <1>8, <1>12, <1>13, <1>15, <1>16 DEF IInv

\* Every operation preserves the inductive invariant.
LEMMA NextIInv == IInv /\ [Next]_vars => IInv'
  <1> SUFFICES ASSUME IInv, [Next]_vars PROVE IInv'
    OBVIOUS
  <1>1. CASE UNCHANGED vars
    BY <1>1 DEF vars, IInv, TypeOK, ListIsInstalled, RecencyOrder, IsPast
  <1> QED BY <1>1, TakeSnapshotIInv, MarkIInv, ReplaceIInv DEF Next

\* The inductive invariant holds of every behaviour.
THEOREM Invariant == Spec => []IInv
  BY InitIInv, NextIInv, PTL DEF Spec

\* The list, the entries, the snapshots and the history have their types.
THEOREM TypeCorrect == Spec => []TypeOK
  BY Invariant, PTL DEF IInv

\* Late marks never resurrect, drop or duplicate an access key.
THEOREM ListStaysInstalled == Spec => []ListIsInstalled
  BY Invariant, PTL DEF IInv

\* Whatever snapshots they come from, marks put the keys in the order of their
\* last use, and those not used since the update stay as configured.
THEOREM OrderIsRecency == Spec => []RecencyOrder
  BY Invariant, PTL DEF IInv

=============================================================================
