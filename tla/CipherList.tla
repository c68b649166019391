----------------------------- MODULE CipherList -----------------------------
(***************************************************************************)
(* service/cipher_list.go: the access keys of a port, tried in turn on the *)
(* first bytes of a client.  Connection handlers and the UDP loop take a   *)
(* snapshot, search it without the lock, and mark the entry they found;    *)
(* meanwhile doRun of cmd/quick_ss may replace the whole list.  Each of    *)
(* the three operations runs under cipherList.mu and is one step.          *)
(*                                                                         *)
(* doRun builds new entries for every update, so an entry is identified    *)
(* by the update that installed it and its access key.                     *)
(***************************************************************************)
EXTENDS Integers, Sequences, FiniteSets

CONSTANTS
    Key,          \* access keys (an ID with its cipher)
    IP,           \* client addresses
    NoIP,         \* a nil net.IP
    User,         \* goroutines that search the list
    MaxUpdates    \* bound on the number of updates

ASSUME NoIPAssumption == NoIP \notin IP
ASSUME MaxUpdatesAssumption == MaxUpdates \in Nat

VARIABLES
    list,           \* cl.list, front first
    lastClientIP,   \* CipherEntry.lastClientIP of every entry ever installed
    updates,        \* number of updates so far
    snapshot,       \* what each user got from SnapshotForClientIP
    clientIP,       \* the address it asked for
    installed,      \* history: the contents given to the last Update
    used            \* history: the entries marked so far, last one first

listVars == <<list, lastClientIP, updates, installed, used>>
vars == <<list, lastClientIP, updates, snapshot, clientIP, installed, used>>

Entry == (0 .. MaxUpdates) \X Key

Elements(s) == {s[i] : i \in DOMAIN s}

-----------------------------------------------------------------------------

NewCipherList ==
    /\ list = <<>>
    /\ lastClientIP = [e \in Entry |-> NoIP]
    /\ updates = 0

Init ==
    /\ NewCipherList
    /\ installed = <<>>
    /\ used = <<>>
    /\ snapshot = [u \in User |-> <<>>]
    /\ clientIP = [u \in User |-> NoIP]

matchesIP(e, ip) == ip # NoIP /\ ip = lastClientIP[e]

\* A pass over the list s that takes the elements of S.
Only(s, S) ==
    LET only[n \in 0 .. Len(s)] ==
          IF n = 0 THEN <<>>
          ELSE IF s[n] \in S THEN Append(only[n - 1], s[n]) ELSE only[n - 1]
    IN  only[Len(s)]

\* s without one of its elements.
Without(s, e) == Only(s, Elements(s) \ {e})

\* The entries last used from this address, then the others, each group in
\* list order.
SnapshotForClientIP(ip) ==
    LET matching == {e \in Elements(list) : matchesIP(e, ip)}
    IN  Only(list, matching) \o Only(list, Elements(list) \ matching)

\* Mutant of MoveToFront: an element of another list is inserted.
MoveToFrontForeign(s, e) == <<e>> \o Without(s, e)

\* Mutant of MoveToFront: the element changes places with the first one.
MoveToFrontSwaps(s, e) ==
    IF e \notin Elements(s) THEN s
    ELSE LET k == CHOOSE i \in DOMAIN s : s[i] = e
         IN  [s EXCEPT ![1] = e, ![k] = s[1]]

\* container/list: an element of another list, or already at the front, is left
\* where it is.
MoveToFront(s, e) ==
    IF e \notin Elements(s) THEN s
    ELSE LET k == CHOOSE i \in DOMAIN s : s[i] = e
         IN  [i \in 1 .. Len(s) |->
                IF i = 1 THEN e ELSE IF i <= k THEN s[i - 1] ELSE s[i]]

\* The entry is written even if an Update has replaced the list since.
MarkUsedByClientIP(e, ip) ==
    /\ list' = MoveToFront(list, e)
    /\ lastClientIP' = [lastClientIP EXCEPT ![e] = ip]
    /\ UNCHANGED updates

\* contents is the list doRun has built, one new entry for each of the keys.
Update(keys) ==
    /\ updates < MaxUpdates
    /\ updates' = updates + 1
    /\ list' = [i \in 1 .. Len(keys) |-> <<updates + 1, keys[i]>>]
    /\ UNCHANGED lastClientIP

-----------------------------------------------------------------------------

\* The key sequences an Update may install: a port's keys, without repetition.
Contents ==
    UNION {{s \in [1 .. n -> Key] : \A i, j \in 1 .. n : s[i] = s[j] => i = j} :
             n \in 0 .. Cardinality(Key)}

TakeSnapshot(u, ip) ==
    /\ snapshot' = [snapshot EXCEPT ![u] = SnapshotForClientIP(ip)]
    /\ clientIP' = [clientIP EXCEPT ![u] = ip]
    /\ UNCHANGED listVars

\* The search of findEntry ended at entry e of the snapshot.
Mark(u, e) ==
    /\ e \in Elements(snapshot[u])
    /\ MarkUsedByClientIP(e, clientIP[u])
    /\ used' = <<e>> \o Without(used, e)
    /\ UNCHANGED installed
    /\ snapshot' = [snapshot EXCEPT ![u] = <<>>]
    /\ clientIP' = [clientIP EXCEPT ![u] = NoIP]

Replace(keys) ==
    /\ Update(keys)
    /\ installed' = list'
    /\ UNCHANGED <<used, snapshot, clientIP>>

Next ==
    \/ \E u \in User, ip \in IP \cup {NoIP} : TakeSnapshot(u, ip)
    \/ \E u \in User, e \in Entry : Mark(u, e)
    \/ \E keys \in Contents : Replace(keys)

Spec == Init /\ [][Next]_vars

-----------------------------------------------------------------------------

TypeOK ==
    /\ list \in Seq(Entry)
    /\ lastClientIP \in [Entry -> IP \cup {NoIP}]
    /\ updates \in 0 .. MaxUpdates
    /\ snapshot \in [User -> Seq(Entry)]
    /\ clientIP \in [User -> IP \cup {NoIP}]
    /\ installed \in Seq(Entry)
    /\ used \in Seq(Entry)

\* Marks that come late, from snapshots of lists long replaced, never bring a
\* removed key back, drop one or duplicate one: the list always holds exactly
\* the entries of the last Update.
ListIsInstalled ==
    /\ Elements(list) = Elements(installed)
    /\ Len(list) = Len(installed)
    /\ \A i, j \in DOMAIN list : list[i] = list[j] => i = j

\* "in recency order": the entries used so far, most recent first, then the
\* ones never used in the order they were configured.
RecencyOrder ==
    list = Only(used, Elements(installed)) \o
           Only(installed, Elements(installed) \ Elements(used))

=============================================================================
