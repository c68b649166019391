-------------------------- MODULE TrafficRepoProofs --------------------------
(***************************************************************************)
(* The list of reports and its arrays, for any number of calls of AddRepo  *)
(* in any interleaving, any number of elements, reports and retries, and   *)
(* crashes: nothing is invented, and only a race or an answer that came    *)
(* too late loses an element or has it counted twice.                      *)
(***************************************************************************)
EXTENDS TrafficRepo, FiniteSetTheorems, SequenceTheorems, TLAPS

Arrays == Seq(Element)

\* The calls that have written a word of their element, for each word.
Writers == [w \in Word |-> {a \in Call : Billable(a) /\ w \notin left[a]}]

\* s is a slice of an array of the heap h and shows words of W.
Good(h, W, s) ==
    /\ s \in [array : 1 .. Len(h), len : Nat] /\ s.len <= Len(h[s.array])
    /\ \A i \in 1 .. s.len : \A w \in Word : h[s.array][i][w] \in W[w]

\* Behind the slice s the array has an element whose words D are of W.
Begun(h, W, s, D) ==
    \A w \in D : s.len < Len(h[s.array]) /\ h[s.array][s.len + 1][w] \in W[w]

\* What is neither a slice nor an array, and which calls go on.
Scalars ==
    /\ task \in {"Rtask", "Wtask"}
    /\ add \in [Call -> {"idle", "append", "assign", "done"}]
    /\ left \in [Call -> SUBSET Word]
    /\ \A a \in Call : add[a] # "idle" => Billable(a)
    /\ \A a \in Call : add[a] = "idle" => left[a] = Word
    /\ check \in {"idle", "post", "reset", "crashed"}
    /\ early \in 0 .. MaxEarly
    /\ attempts \in 0 .. Retries
    /\ contents \in Seq(Element)
    /\ taken \in [Call -> Nat] /\ counted \in [Call -> Nat]
    /\ raced \in BOOLEAN /\ late \in BOOLEAN
    /\ ~Running => \A a \in Call : add[a] = "idle"

\* A call has a good slice; in the midst of writing its element, the words that
\* it has written are still its own or were overwritten by another call.
CallInv(a) ==
    /\ Good(heap, Writers, newlist[a])
    /\ add[a] = "append" => Begun(heap, Writers, newlist[a], Word \ left[a])

\* Every slice is good, whatever other slices share its array.
HeapInv ==
    /\ Scalars
    /\ heap \in Seq(Arrays)
    /\ Good(heap, Writers, RepoList) /\ Good(heap, Writers, sending)
    /\ newlist = [a \in Call |-> newlist[a]]
    /\ \A a \in Call : CallInv(a)

\* What the shared header shows.
List == Elements(RepoList)

\* How many of its elements are in the report at hand; a is one of the others.
Reported == IF check = "idle" THEN 0 ELSE Len(contents)
Waits(list, n, a) == \E i \in n + 1 .. Len(list) : list[i] = Whole(a)

Distinct(s) == \A i, j \in 1 .. Len(s) : s[i] = s[j] => i = j

\* The element e is that of one call, which is over.
Over(e, done) == \E a \in Call : e = Whole(a) /\ done[a] = "done"

\* s is the first part of the sequence list.
FirstOf(s, list) == Len(s) <= Len(list) /\ \A i \in 1 .. Len(s) : s[i] = list[i]

\* Without a race: the list has no element twice, and only those of calls that
\* are over; the report at hand is the first part of it; and each call that is
\* over waits in the list, or was taken, and taken once.
ListInv ==
    ~raced /\ Running =>
      /\ Distinct(List)
      /\ \A i \in 1 .. Len(List) : Over(List[i], add)
      /\ check # "idle" => Elements(sending) = contents /\ FirstOf(contents, List)
      /\ \A a \in Call :
           taken[a] = IF add[a] = "done" /\ ~Waits(List, Reported, a) THEN 1 ELSE 0

\* What the collector may have counted of a call by now.
CountedInv ==
    ~raced => \A a \in Call :
      /\ counted[a] <= IF late THEN Retries + 1 ELSE 1
      /\ taken[a] = 0 => counted[a] = 0
      /\ check = "post" /\ Waits(contents, 0, a) =>
           counted[a] <= IF late THEN attempts ELSE 0

IInv == HeapInv /\ ListInv /\ CountedInv

-----------------------------------------------------------------------------
(* Elements and slices.                                                    *)

\* The element of a call is an element, and tells which call it is.
LEMMA WholeFacts ==
    /\ Blank \in Element
    /\ \A a \in Call : Whole(a) \in Element
    /\ \A a, b : Whole(a) = Whole(b) => a = b
  <1>1. PICK w : w \in Word
    BY WordAssumption
  <1>2. ASSUME NEW a, NEW b, Whole(a) = Whole(b) PROVE a = b
    <2>1. Whole(a)[w] = a /\ Whole(b)[w] = b
      BY <1>1 DEF Whole
    <2> QED BY <1>2, <2>1
  <1> QED BY <1>2 DEF Blank, Whole, Element

\* What a good slice shows.
LEMMA ShownFacts ==
    ASSUME NEW h \in Seq(Arrays), NEW W, NEW s, Good(h, W, s)
    PROVE  /\ s.len \in Nat
           /\ SubSeq(h[s.array], 1, s.len) \in Seq(Element)
           /\ Len(SubSeq(h[s.array], 1, s.len)) = s.len
           /\ \A i \in 1 .. s.len : SubSeq(h[s.array], 1, s.len)[i] = h[s.array][i]
  <1> DEFINE arr == h[s.array]
             n == s.len
  <1>0. n \in Nat /\ s.array \in 1 .. Len(h) /\ n <= Len(arr)
    BY DEF Good
  <1>1. n \in Nat /\ \A i \in 1 .. n : arr[i] \in Element
    <2>1. arr \in Seq(Element)
      BY <1>0, ElementOfSeq DEF Arrays
    <2>2. Len(arr) \in Nat
      BY <2>1, LenProperties
    <2> HIDE DEF arr, n
    <2>3. \A i \in 1 .. n : i \in 1 .. Len(arr)
      BY <1>0, <2>2
    <2> QED BY <1>0, <2>1, <2>3, ElementOfSeq
  <1> HIDE DEF arr, n
  <1>2. /\ SubSeq(arr, 1, n) \in Seq(Element)
        /\ Len(SubSeq(arr, 1, n)) = IF 1 <= n THEN n - 1 + 1 ELSE 0
        /\ \A i \in 1 .. n - 1 + 1 : SubSeq(arr, 1, n)[i] = arr[1 + i - 1]
    BY <1>1, SubSeqProperties
  <1>3. Len(SubSeq(arr, 1, n)) = n
    BY <1>1, <1>2
  <1>4. ASSUME NEW i \in 1 .. n PROVE SubSeq(arr, 1, n)[i] = arr[i]
    <2>1. i \in 1 .. n - 1 + 1 /\ 1 + i - 1 = i
      BY <1>1
    <2> QED BY <1>2, <2>1
  <1> QED BY <1>1, <1>2, <1>3, <1>4 DEF arr, n

\* From h to g arrays are added, and words of V replaced by words of W at most.
Grows(h, g, V, W) ==
    /\ Len(h) \in Nat /\ Len(g) \in Nat /\ Len(h) <= Len(g)
    /\ \A k \in 1 .. Len(h) :
         /\ Len(g[k]) = Len(h[k])
         /\ \A i \in 1 .. Len(h[k]) : \A w \in Word :
              h[k][i][w] \in V[w] => g[k][i][w] \in W[w]

\* Good slices stay good when the heap grows, and so do the elements that are
\* being written.
LEMMA StaysGood ==
    ASSUME NEW h \in Seq(Arrays), NEW g, NEW V, NEW W, NEW s, Good(h, V, s),
           Grows(h, g, V, W)
    PROVE  /\ Good(g, W, s)
           /\ \A D \in SUBSET Word : Begun(h, V, s, D) => Begun(g, W, s, D)
  <1> DEFINE k == s.array
             n == s.len
  <1>1. s \in [array : 1 .. Len(h), len : Nat] /\ n <= Len(h[k])
        /\ \A i \in 1 .. n : \A w \in Word : h[k][i][w] \in V[w]
    BY DEF Good
  <1>2. k \in 1 .. Len(h) /\ n \in Nat /\ s \in [array : 1 .. Len(g), len : Nat]
    BY <1>1 DEF Grows
  <1>3. Len(h[k]) \in Nat
    <2>1. h[k] \in Arrays
      BY <1>2, ElementOfSeq
    <2> QED BY <2>1, LenProperties DEF Arrays
  <1> HIDE DEF k, n
  <1>4. Len(g[k]) = Len(h[k])
    BY <1>2 DEF Grows
  <1>5. ASSUME NEW i \in 1 .. n, NEW w \in Word PROVE g[k][i][w] \in W[w]
    <2>1. i \in 1 .. Len(h[k])
      BY <1>1, <1>2, <1>3
    <2> QED BY <1>1, <1>2, <2>1 DEF Grows
  <1>6. ASSUME NEW D \in SUBSET Word, Begun(h, V, s, D), NEW w \in D
        PROVE  n < Len(g[k]) /\ g[k][n + 1][w] \in W[w]
    <2>1. n < Len(h[k]) /\ h[k][n + 1][w] \in V[w]
      BY <1>6 DEF Begun, k, n
    <2>2. n + 1 \in 1 .. Len(h[k])
      BY <1>2, <1>3, <2>1
    <2> QED BY <1>2, <1>4, <2>1, <2>2 DEF Grows
  <1>7. Good(g, W, s)
    BY <1>1, <1>2, <1>4, <1>5 DEF Good, k, n
  <1> QED BY <1>6, <1>7 DEF Begun, k, n

\* No word of an array changes up to its element n, and none loses its writer.
LEMMA SameGrows ==
    ASSUME NEW h \in Seq(Arrays), NEW V, NEW W, \A w \in Word : V[w] \subseteq W[w]
    PROVE  Grows(h, h, V, W)
  BY LenProperties DEF Grows

\* The heap after the call a has written the word w behind n elements of array k.
WrittenHeap(h, a, k, n, w) == [h EXCEPT ![k][n + 1][w] = a]

\* append in place: what it writes, and where.
LEMMA InPlaceFacts ==
    ASSUME NEW h \in Seq(Arrays), NEW a \in Call, NEW k \in 1 .. Len(h), NEW n \in Nat,
           n < Len(h[k]), NEW w \in Word, NEW g, g = WrittenHeap(h, a, k, n, w)
    PROVE  /\ g \in Seq(Arrays) /\ Len(g) = Len(h) /\ Len(g[k]) = Len(h[k])
           /\ g[k][n + 1][w] = a
           /\ \A v \in Word : v # w => g[k][n + 1][v] = h[k][n + 1][v]
           /\ \A i \in 1 .. Len(h[k]) : i # n + 1 => g[k][i] = h[k][i]
           /\ \A j \in 1 .. Len(h) : j # k => g[j] = h[j]
  <1> DEFINE arr == h[k]
             old == arr[n + 1]
             e == [old EXCEPT ![w] = a]
             new == [arr EXCEPT ![n + 1] = e]
  <1>1. arr \in Seq(Element) /\ Len(arr) \in Nat
    <2>1. arr \in Arrays
      BY ElementOfSeq
    <2> QED BY <2>1, LenProperties DEF Arrays
  <1> HIDE DEF arr
  <1>2. n < Len(arr) /\ n + 1 \in 1 .. Len(arr)
    BY <1>1 DEF arr
  <1>3. old \in Element
    BY <1>1, <1>2, ElementOfSeq
  <1> HIDE DEF old
  <1>4. e \in Element /\ e[w] = a /\ \A v \in Word : v # w => e[v] = old[v]
    BY <1>3 DEF Element
  <1> HIDE DEF e
  <1>5. /\ new \in Seq(Element) /\ Len(new) = Len(arr)
        /\ \A i \in 1 .. Len(arr) : new[i] = IF i = n + 1 THEN e ELSE arr[i]
    BY <1>1, <1>2, <1>4, ExceptSeq
  <1> HIDE DEF new
  <1>6. new \in Arrays
    BY <1>5 DEF Arrays
  <1>7. g = [h EXCEPT ![k] = new]
    BY DEF WrittenHeap, new, e, old, arr
  <1>8. /\ g \in Seq(Arrays) /\ Len(g) = Len(h)
        /\ \A j \in 1 .. Len(h) : g[j] = IF j = k THEN new ELSE h[j]
    <2> DEFINE f == [h EXCEPT ![k] = new]
    <2>1. /\ f \in Seq(Arrays) /\ Len(f) = Len(h)
          /\ \A j \in 1 .. Len(h) : f[j] = IF j = k THEN new ELSE h[j]
      BY <1>6, ExceptSeq
    <2> QED BY <1>7, <2>1
  <1>9. g[k] = new /\ new[n + 1] = e /\ arr = h[k] /\ old = h[k][n + 1]
    BY <1>2, <1>5, <1>8 DEF arr, old
  <1> QED BY <1>4, <1>5, <1>8, <1>9

\* The heap after the call a has outgrown the array k, which has n elements.
GrownHeap(h, a, k, n) ==
    Append(h, [i \in 1 .. Doubled(n) |->
                 IF i <= n THEN h[k][i] ELSE IF i = n + 1 THEN Whole(a) ELSE Blank])

\* append into a new array: the old elements, and its own behind them.
LEMMA GrownFacts ==
    ASSUME NEW h \in Seq(Arrays), NEW a \in Call, NEW k \in 1 .. Len(h),
           NEW n \in Nat, n = Len(h[k]), NEW g, g = GrownHeap(h, a, k, n),
           NEW m, m = Len(h) + 1
    PROVE  /\ g \in Seq(Arrays) /\ Len(g) = m /\ n + 1 <= Len(g[m])
           /\ g[m][n + 1] = Whole(a)
           /\ \A i \in 1 .. n : g[m][i] = h[k][i]
           /\ \A j \in 1 .. Len(h) : g[j] = h[j]
  <1> DEFINE N == Doubled(n)
             e == Whole(a)
             grown == [i \in 1 .. N |->
                         IF i <= n THEN h[k][i] ELSE IF i = n + 1 THEN e ELSE Blank]
  <1>1. N \in Nat /\ n + 1 <= N
    BY DEF Doubled
  <1>2. \A i \in 1 .. n : h[k][i] \in Element
    <2>1. h[k] \in Arrays
      BY ElementOfSeq
    <2> QED BY <2>1, ElementOfSeq DEF Arrays
  <1>0. Len(h) \in Nat /\ e \in Element /\ Blank \in Element
    BY LenProperties, WholeFacts
  <1> HIDE DEF N, e
  <1>3. grown \in [1 .. N -> Element]
    <2>1. ASSUME NEW i \in 1 .. N PROVE grown[i] \in Element
      <3>1. CASE i <= n
        <4>1. i \in 1 .. n
          BY <1>1, <3>1
        <4> QED BY <1>2, <3>1, <4>1
      <3>2. CASE ~ (i <= n)
        BY <1>0, <3>2
      <3> QED BY <3>1, <3>2
    <2> QED BY <2>1
  <1>4. /\ \A i \in 1 .. n : i \in 1 .. N /\ i <= n
        /\ n + 1 \in 1 .. N /\ ~ (n + 1 <= n)
    BY <1>1
  <1>5. (\A i \in 1 .. n : grown[i] = h[k][i]) /\ grown[n + 1] = e
    BY <1>4
  <1> HIDE DEF grown
  <1>6. grown \in Arrays /\ Len(grown) = N
    <2>1. grown \in Seq(Element)
      BY <1>1, <1>3, SeqDef
    <2>2. Len(grown) = N
      BY <1>1, <1>3, <2>1, LenProperties
    <2> QED BY <2>1, <2>2 DEF Arrays
  <1>7. /\ g \in Seq(Arrays) /\ Len(g) = m /\ g[m] = grown
        /\ \A j \in 1 .. Len(h) : g[j] = h[j]
    <2>1. g = Append(h, grown)
      BY DEF GrownHeap, grown, N, e
    <2> QED BY <1>6, <2>1, AppendProperties
  <1>8. g \in Seq(Arrays) /\ Len(g) = m /\ n + 1 <= Len(g[m]) /\ g[m][n + 1] = e
        /\ (\A i \in 1 .. n : g[m][i] = h[k][i]) /\ \A j \in 1 .. Len(h) : g[j] = h[j]
    BY <1>1, <1>5, <1>6, <1>7
  <1> QED BY <1>8 DEF e

-----------------------------------------------------------------------------
(* append.                                                                 *)

\* From h to g no array changes up to its element n.
KeepsUpTo(h, g, n) ==
    \A k \in 1 .. Len(h) : \A i \in 1 .. Len(h[k]) : i <= n => g[k][i] = h[k][i]

\* The words of a call are written until the process dies.
LEMMA WritersStay ==
    ASSUME Scalars, task' = task, NEW a \in Call, NEW D \in SUBSET Word,
           left' = [left EXCEPT ![a] = left[a] \ D], add[a] # "idle"
    PROVE  /\ \A w \in Word : Writers[w] \subseteq Writers'[w]
           /\ \A w \in Word \ left'[a] : a \in Writers'[w]
  <1>1. \A b : Billable(b)' <=> Billable(b)
    BY DEF Billable
  <1>2. Billable(a) /\ left \in [Call -> SUBSET Word]
    BY DEF Scalars
  <1> HIDE DEF Billable
  <1>3. \A b \in Call : left'[b] \subseteq left[b]
    BY <1>2
  <1> QED BY <1>1, <1>2, <1>3 DEF Writers

\* A word is written in place: the slices that share the array show words of
\* callers still, and what they show up to the length of the call's own slice
\* does not change.
LEMMA WriteWordFacts ==
    ASSUME HeapInv, NEW a \in Call, NEW w \in Word, WriteWord(a, w)
    PROVE  /\ heap' \in Seq(Arrays) /\ Grows(heap, heap', Writers, Writers')
           /\ Good(heap', Writers', newlist'[a])
           /\ add'[a] = "append" =>
                Begun(heap', Writers', newlist'[a], Word \ left'[a])
           /\ KeepsUpTo(heap, heap', newlist[a].len)
           /\ \A v \in Word : Writers[v] \subseteq Writers'[v]
  <1> DEFINE s == newlist[a]
             k == s.array
             n == s.len
             V == Writers
             W == Writers'
             D == Word \ left'[a]
             g == WrittenHeap(heap, a, k, n, w)
             long == [array |-> k, len |-> n + 1]
  <1>1. /\ add[a] = "append" /\ w \in left[a] /\ n < Len(heap[k]) /\ task' = task
        /\ heap' = g /\ left' = [left EXCEPT ![a] = left[a] \ {w}]
        /\ \/ left[a] = {w} /\ add' = [add EXCEPT ![a] = "assign"]
              /\ newlist' = [newlist EXCEPT ![a].len = @ + 1]
           \/ add' = add /\ newlist' = newlist
    BY DEF WriteWord, WrittenHeap
  <1>2. /\ heap \in Seq(Arrays) /\ Good(heap, V, s) /\ Begun(heap, V, s, Word \ left[a])
        /\ Scalars /\ newlist = [b \in Call |-> newlist[b]]
    BY <1>1 DEF HeapInv, CallInv
  <1>3. /\ s \in [array : 1 .. Len(heap), len : Nat] /\ k \in 1 .. Len(heap) /\ n \in Nat
        /\ Len(heap) \in Nat
    BY <1>2, LenProperties DEF Good
  <1>4. /\ g \in Seq(Arrays) /\ Len(g) = Len(heap) /\ Len(g[k]) = Len(heap[k])
        /\ g[k][n + 1][w] = a
        /\ \A v \in Word : v # w => g[k][n + 1][v] = heap[k][n + 1][v]
        /\ \A i \in 1 .. Len(heap[k]) : i # n + 1 => g[k][i] = heap[k][i]
        /\ \A j \in 1 .. Len(heap) : j # k => g[j] = heap[j]
    <2>1. g = WrittenHeap(heap, a, k, n, w) /\ n < Len(heap[k])
      BY <1>1
    <2> HIDE DEF s, k, n, g
    <2> QED BY <1>2, <1>3, <2>1, InPlaceFacts
  <1>5. /\ \A v \in Word : V[v] \subseteq W[v]
        /\ D = (Word \ left[a]) \cup {w} /\ a \in W[w]
    <2>1. left'[a] = left[a] \ {w} /\ left[a] \subseteq Word
      BY <1>1, <1>2 DEF Scalars
    <2>2. D = (Word \ left[a]) \cup {w}
      BY <2>1
    <2> QED BY <1>1, <1>2, <2>2, WritersStay
  <1>6. (left[a] = {w} => D = Word) /\ D \in SUBSET Word
    BY <1>5
  <1>7. \/ newlist'[a] = s
        \/ newlist'[a] = long /\ add'[a] = "assign" /\ left[a] = {w}
    BY <1>1, <1>2, <1>3 DEF Scalars
  <1> HIDE DEF g, s, k, n, V, W, D
  <1>8. Grows(heap, g, V, W)
    <2>1. ASSUME NEW j \in 1 .. Len(heap), NEW i \in 1 .. Len(heap[j]), NEW v \in Word,
                 heap[j][i][v] \in V[v]
          PROVE  g[j][i][v] \in W[v]
      <3>1. CASE j = k /\ i = n + 1 /\ v = w
        BY <1>4, <1>5, <3>1
      <3>2. CASE ~ (j = k /\ i = n + 1 /\ v = w)
        <4>1. g[j][i][v] = heap[j][i][v]
          BY <1>4, <3>2
        <4> QED BY <1>5, <2>1, <4>1
      <3> QED BY <3>1, <3>2
    <2>2. \A j \in 1 .. Len(heap) : Len(g[j]) = Len(heap[j])
      BY <1>4
    <2>3. Len(g) \in Nat /\ Len(heap) <= Len(g)
      BY <1>3, <1>4
    <2> QED BY <1>3, <2>1, <2>2, <2>3 DEF Grows
  <1>9. Good(g, W, s) /\ Begun(g, W, s, Word \ left[a])
    <2>1. Word \ left[a] \in SUBSET Word
      OBVIOUS
    <2> QED BY <1>2, <1>8, <2>1, StaysGood
  <1>10. Begun(g, W, s, D)
    <2>1. n < Len(g[k]) /\ g[k][n + 1][w] \in W[w]
      BY <1>1, <1>4, <1>5 DEF n, k, s
    <2> QED BY <1>5, <1>9, <2>1 DEF Begun, n, k
  <1>11. left[a] = {w} => Good(g, W, long)
    <2>1. SUFFICES ASSUME left[a] = {w} PROVE Good(g, W, long)
      OBVIOUS
    <2>2. Begun(g, W, s, Word)
      BY <1>6, <1>10, <2>1
    <2>3. ASSUME NEW i \in 1 .. n + 1, NEW v \in Word PROVE g[k][i][v] \in W[v]
      <3>1. i \in 1 .. n \/ i = n + 1
        BY <1>3
      <3> QED BY <1>9, <2>2, <3>1 DEF Good, Begun, k, n
    <2>4. n < Len(g[k]) /\ Len(g[k]) \in Nat
      <3>1. g[k] \in Seq(Element)
        BY <1>3, <1>4, ElementOfSeq DEF Arrays
      <3> QED BY <1>1, <1>4, <3>1, LenProperties DEF n, k, s
    <2>5. long \in [array : 1 .. Len(g), len : Nat] /\ n + 1 <= Len(g[k])
      BY <1>3, <1>4, <2>4
    <2> QED BY <2>3, <2>5 DEF Good
  <1>12. KeepsUpTo(heap, g, n)
    <2>1. ASSUME NEW j \in 1 .. Len(heap), NEW i \in 1 .. Len(heap[j]), i <= n
          PROVE  g[j][i] = heap[j][i]
      <3>1. i # n + 1
        BY <1>3, <2>1
      <3> QED BY <1>4, <3>1
    <2> QED BY <2>1 DEF KeepsUpTo
  <1>13. heap' = g /\ Writers = V /\ Writers' = W /\ newlist[a].len = n /\ newlist[a] = s
         /\ Word \ left'[a] = D
    BY <1>1 DEF g, V, W, n, s, D, k
  <1>14. Good(g, W, newlist'[a]) /\ (add'[a] = "append" => Begun(g, W, newlist'[a], D))
    BY <1>7, <1>9, <1>10, <1>11
  <1> QED BY <1>4, <1>5, <1>8, <1>12, <1>13, <1>14

\* append into a new array: nothing changes in the arrays there are.
LEMMA GrowFacts ==
    ASSUME HeapInv, NEW a \in Call, Grow(a)
    PROVE  /\ heap' \in Seq(Arrays) /\ Grows(heap, heap', Writers, Writers')
           /\ Good(heap', Writers', newlist'[a]) /\ add'[a] = "assign"
           /\ KeepsUpTo(heap, heap', newlist[a].len)
           /\ \A v \in Word : Writers[v] \subseteq Writers'[v]
  <1> DEFINE s == newlist[a]
             k == s.array
             n == s.len
             V == Writers
             W == Writers'
             g == GrownHeap(heap, a, k, n)
             m == Len(heap) + 1
             long == [array |-> m, len |-> n + 1]
  <1>1. /\ add[a] = "append" /\ n = Len(heap[k]) /\ task' = task
        /\ heap' = g /\ left' = [left EXCEPT ![a] = {}]
        /\ add' = [add EXCEPT ![a] = "assign"]
        /\ newlist' = [newlist EXCEPT ![a] = long]
    BY DEF Grow, GrownHeap
  <1>2. /\ heap \in Seq(Arrays) /\ Good(heap, V, s)
        /\ Scalars /\ newlist = [b \in Call |-> newlist[b]]
    BY <1>1 DEF HeapInv, CallInv
  <1>3. /\ k \in 1 .. Len(heap) /\ n \in Nat /\ Len(heap) \in Nat
        /\ \A i \in 1 .. n : \A w \in Word : heap[k][i][w] \in V[w]
    BY <1>2, LenProperties DEF Good
  <1>4. newlist'[a] = long /\ add'[a] = "assign" /\ left'[a] = {}
        /\ left' = [left EXCEPT ![a] = left[a] \ Word]
    BY <1>1, <1>2 DEF Scalars
  <1>5. (\A v \in Word : V[v] \subseteq W[v]) /\ \A v \in Word : a \in W[v]
    BY <1>1, <1>2, <1>4, WritersStay
  <1>6. /\ g \in Seq(Arrays) /\ Len(g) = m /\ n + 1 <= Len(g[m])
        /\ g[m][n + 1] = Whole(a)
        /\ \A i \in 1 .. n : g[m][i] = heap[k][i]
        /\ \A j \in 1 .. Len(heap) : g[j] = heap[j]
    <2>1. g = GrownHeap(heap, a, k, n) /\ m = Len(heap) + 1
      OBVIOUS
    <2> HIDE DEF s, k, n, g, m
    <2> QED BY <1>1, <1>2, <1>3, <2>1, GrownFacts DEF s, k, n
  <1>7. m = Len(heap) + 1 /\ long = [array |-> m, len |-> n + 1]
    OBVIOUS
  <1> HIDE DEF g, s, k, n, m, V, W, long
  <1>8. Grows(heap, g, V, W)
    BY <1>3, <1>5, <1>6, <1>7 DEF Grows
  <1>9. Good(g, W, long)
    <2>1. ASSUME NEW i \in 1 .. n + 1, NEW v \in Word PROVE g[m][i][v] \in W[v]
      <3>1. CASE i \in 1 .. n
        BY <1>3, <1>5, <1>6, <3>1
      <3>2. CASE i = n + 1
        <4>1. g[m][i][v] = a
          BY <1>6, <3>2 DEF Whole
        <4> QED BY <1>5, <4>1
      <3> QED BY <1>3, <3>1, <3>2
    <2>2. m \in 1 .. Len(g) /\ n + 1 \in Nat
      BY <1>3, <1>6, <1>7
    <2>3. long \in [array : 1 .. Len(g), len : Nat] /\ long.array = m /\ long.len = n + 1
      BY <1>7, <2>2
    <2> QED BY <1>6, <2>1, <2>3 DEF Good
  <1>10. KeepsUpTo(heap, g, n)
    BY <1>6 DEF KeepsUpTo
  <1> QED BY <1>1, <1>4, <1>5, <1>6, <1>8, <1>9, <1>10 DEF V, W, s, n

-----------------------------------------------------------------------------
(* The heap, step by step.                                                 *)

\* The number of places where an element is.
LEMMA OccurrencesFacts ==
    ASSUME NEW S, NEW s \in Seq(S), NEW a
    PROVE  /\ Occurrences(s, a) \in Nat
           /\ ~Waits(s, 0, a) => Occurrences(s, a) = 0
           /\ Distinct(s) /\ Waits(s, 0, a) => Occurrences(s, a) = 1
  <1> DEFINE e == Whole(a)
             P == {i \in 1 .. Len(s) : s[i] = e}
  <1>1. Occurrences(s, a) = Cardinality(P) /\ Len(s) \in Nat
    BY LenProperties DEF Occurrences
  <1> HIDE DEF e
  <1>2. IsFiniteSet(P)
    <2>1. IsFiniteSet(1 .. Len(s))
      BY <1>1, FS_Interval
    <2> QED BY <2>1, FS_Subset
  <1>3. Cardinality(P) \in Nat
    BY <1>2, FS_CardinalityType
  <1>4. (\A i \in 1 .. Len(s) : s[i] # e) => Cardinality(P) = 0
    BY FS_EmptySet
  <1>5. ASSUME \A i, j \in 1 .. Len(s) : s[i] = s[j] => i = j,
               \E i \in 1 .. Len(s) : s[i] = e
        PROVE  Cardinality(P) = 1
    <2>1. PICK i \in 1 .. Len(s) : s[i] = e
      BY <1>5
    <2>2. P = {i}
      BY <1>5, <2>1
    <2> QED BY <2>2, FS_Singleton
  <1> QED BY <1>1, <1>3, <1>4, <1>5 DEF Waits, Distinct, e

\* A step after which the calls and slices are as they should be, or are what
\* they were before, on a heap that has grown.
CallStays(a) ==
    /\ newlist'[a] = newlist[a]
    /\ add'[a] = "append" => add[a] = "append" /\ left'[a] = left[a]

LEMMA HeapStep ==
    ASSUME HeapInv, Scalars', heap' \in Seq(Arrays),
           Grows(heap, heap', Writers, Writers'),
           Good(heap, Writers, RepoList') \/ Good(heap', Writers', RepoList'),
           Good(heap, Writers, sending') \/ Good(heap', Writers', sending'),
           newlist' = [a \in Call |-> newlist'[a]],
           \A a \in Call : CallStays(a) \/ CallInv(a)'
    PROVE  HeapInv'
  <1> DEFINE V == Writers
             W == Writers'
             h == heap
             g == heap'
  <1>1. h \in Seq(Arrays) /\ Scalars
    BY DEF HeapInv
  <1>2. ASSUME NEW s, Good(h, V, s)
        PROVE  /\ Good(g, W, s)
               /\ \A D \in SUBSET Word : Begun(h, V, s, D) => Begun(g, W, s, D)
    <2>1. Grows(h, g, V, W)
      OBVIOUS
    <2> HIDE DEF V, W, g, h
    <2> QED BY <1>1, <1>2, <2>1, StaysGood
  <1>3. Good(heap', Writers', RepoList') /\ Good(heap', Writers', sending')
    BY <1>2
  <1>4. ASSUME NEW a \in Call, CallStays(a) PROVE CallInv(a)'
    <2>1. /\ Good(h, V, newlist'[a])
          /\ add'[a] = "append" => Begun(h, V, newlist'[a], Word \ left'[a])
      BY <1>4 DEF HeapInv, CallInv, CallStays
    <2>2. Word \ left'[a] \in SUBSET Word
      OBVIOUS
    <2>3. /\ Good(g, W, newlist'[a])
          /\ add'[a] = "append" => Begun(g, W, newlist'[a], Word \ left'[a])
      BY <1>2, <2>1, <2>2
    <2> QED BY <2>3 DEF CallInv
  <1> HIDE DEF Good, Writers, Scalars, CallInv
  <1> QED BY <1>3, <1>4 DEF HeapInv

\* The same, if no array changes.
LEMMA SameHeap ==
    ASSUME HeapInv, Scalars', UNCHANGED heap,
           \A w \in Word : Writers[w] \subseteq Writers'[w],
           Good(heap, Writers, RepoList') \/ Good(heap', Writers', RepoList'),
           Good(heap, Writers, sending') \/ Good(heap', Writers', sending'),
           newlist' = [a \in Call |-> newlist'[a]],
           \A a \in Call : CallStays(a) \/ CallInv(a)'
    PROVE  HeapInv'
  <1>1. heap \in Seq(Arrays) /\ heap' \in Seq(Arrays)
    BY DEF HeapInv
  <1> DEFINE V == Writers
             W == Writers'
             h == heap
  <1>2. Grows(heap, heap', Writers, Writers')
    <2>1. h \in Seq(Arrays) /\ \A w \in Word : V[w] \subseteq W[w]
      BY <1>1
    <2> HIDE DEF V, W, h
    <2>2. Grows(h, h, V, W)
      BY <2>1, SameGrows
    <2> QED BY <2>2 DEF V, W, h
  <1> QED BY <1>1, <1>2, HeapStep

\* What depends on the list only.
LEMMA SameTask ==
    ASSUME task' = task
    PROVE  /\ MaxEarly' = MaxEarly /\ Retries' = Retries
           /\ \A a : Billable(a)' <=> Billable(a)
  BY DEF MaxEarly, Retries, Billable

\* The words written stay written if no call starts a new one.
LEMMA SameWriters ==
    ASSUME task' = task, left' = left
    PROVE  Writers' = Writers /\ \A w \in Word : Writers[w] \subseteq Writers'[w]
  <1>1. \A b : Billable(b)' <=> Billable(b)
    BY SameTask
  <1> HIDE DEF Billable
  <1> QED BY <1>1 DEF Writers

\* AddRepo's reading of the header: its local slice is the shared one.
LEMMA ReadListHeap ==
    ASSUME HeapInv, NEW a \in Call, ReadList(a)
    PROVE  HeapInv'
  <1>1. /\ Running /\ add[a] = "idle" /\ Billable(a)
        /\ add' = [add EXCEPT ![a] = "append"]
        /\ newlist' = [newlist EXCEPT ![a] = RepoList]
        /\ UNCHANGED <<task, RepoList, heap, left, check, early, sending, attempts,
                       contents, taken, counted, late, raced>>
    BY DEF ReadList, reportVars
  <1>2. Scalars
    BY DEF HeapInv
  <1>3. Scalars'
    BY <1>1, <1>2, SameTask DEF Scalars, Running
  <1>4. Writers' = Writers /\ \A w \in Word : Writers[w] \subseteq Writers'[w]
    BY <1>1, SameWriters
  <1>5. newlist' = [b \in Call |-> newlist'[b]]
        /\ \A b \in Call : b # a => CallStays(b)
    BY <1>1, <1>2 DEF HeapInv, Scalars, CallStays
  <1>6. CallInv(a)'
    <2>1. newlist'[a] = RepoList /\ left'[a] = Word
      BY <1>1, <1>2 DEF HeapInv, Scalars
    <2>2. Begun(heap', Writers', newlist'[a], Word \ left'[a])
      BY <2>1 DEF Begun
    <2>3. Good(heap', Writers', newlist'[a])
      BY <1>1, <1>4, <2>1 DEF HeapInv
    <2> QED BY <2>2, <2>3 DEF CallInv
  <1> QED BY <1>1, <1>3, <1>4, <1>5, <1>6, SameHeap DEF HeapInv

\* append, a word of it or all at once.
Appends(a) == Grow(a) \/ \E w \in Word : WriteWord(a, w)

LEMMA AppendFacts ==
    ASSUME HeapInv, NEW a \in Call, Appends(a)
    PROVE  /\ heap' \in Seq(Arrays) /\ Grows(heap, heap', Writers, Writers')
           /\ CallInv(a)'
           /\ KeepsUpTo(heap, heap', newlist[a].len)
  <1>1. CASE Grow(a)
    BY <1>1, GrowFacts DEF CallInv
  <1>2. ASSUME NEW w \in Word, WriteWord(a, w)
        PROVE  /\ heap' \in Seq(Arrays) /\ Grows(heap, heap', Writers, Writers')
               /\ CallInv(a)'
               /\ KeepsUpTo(heap, heap', newlist[a].len)
    BY <1>2, WriteWordFacts DEF CallInv
  <1> QED BY <1>1, <1>2 DEF Appends

\* append: slices that share its array show written words still.
LEMMA AppendHeap ==
    ASSUME HeapInv, NEW a \in Call, Appends(a)
    PROVE  HeapInv'
  <1>1. /\ Running /\ add[a] = "append"
        /\ add' = add \/ add' = [add EXCEPT ![a] = "assign"]
        /\ raced' = (raced \/ Stale(newlist[a]))
        /\ \E D \in SUBSET Word : left' = [left EXCEPT ![a] = D]
        /\ UNCHANGED <<task, RepoList, check, early, sending, attempts,
                       contents, taken, counted, late>>
    <2>1. CASE Grow(a)
      BY <2>1 DEF Grow, reportVars
    <2>2. ASSUME NEW w \in Word, WriteWord(a, w)
          PROVE  /\ Running /\ add[a] = "append"
                 /\ add' = add \/ add' = [add EXCEPT ![a] = "assign"]
                 /\ raced' = (raced \/ Stale(newlist[a]))
                 /\ left' = [left EXCEPT ![a] = left[a] \ {w}]
                 /\ UNCHANGED <<task, RepoList, check, early, sending, attempts,
                                contents, taken, counted, late>>
      BY <2>2 DEF WriteWord, reportVars
    <2>3. left[a] \subseteq Word
      BY DEF HeapInv, Scalars
    <2> QED BY <2>1, <2>2, <2>3 DEF Appends
  <1>2. Scalars
    BY DEF HeapInv
  <1>3. Scalars'
    BY <1>1, <1>2, SameTask DEF Scalars, Running
  <1>4. newlist' = [b \in Call |-> newlist'[b]]
        /\ \A b \in Call : b # a => newlist'[b] = newlist[b]
    BY DEF HeapInv, Appends, WriteWord, Grow
  <1>5. \A b \in Call : CallStays(b) \/ CallInv(b)'
    <2>1. \A b \in Call : b # a => CallStays(b)
      BY <1>1, <1>2, <1>4 DEF Scalars, CallStays
    <2> QED BY <2>1, AppendFacts
  <1> QED BY <1>1, <1>3, <1>4, <1>5, AppendFacts, HeapStep DEF HeapInv

\* The header that becomes the shared one shows written elements only.
LEMMA AssignListHeap ==
    ASSUME HeapInv, NEW a \in Call, AssignList(a)
    PROVE  HeapInv'
  <1>1. /\ add[a] = "assign" /\ add' = [add EXCEPT ![a] = "done"]
        /\ RepoList' = newlist[a]
        /\ raced' = (raced \/ Elements(newlist[a]) # Append(Elements(RepoList), Whole(a)))
        /\ UNCHANGED <<task, heap, newlist, left, check, early, sending, attempts,
                       contents, taken, counted, late>>
    BY DEF AssignList, reportVars
  <1>2. Scalars
    BY DEF HeapInv
  <1>3. Scalars'
    BY <1>1, <1>2, SameTask DEF Scalars, Running
  <1>4. \A w \in Word : Writers[w] \subseteq Writers'[w]
    BY <1>1, SameWriters
  <1>5. \A b \in Call : CallStays(b)
    BY <1>1, <1>2 DEF Scalars, CallStays
  <1>6. Good(heap, Writers, RepoList')
    BY <1>1 DEF HeapInv, CallInv
  <1> QED BY <1>1, <1>3, <1>4, <1>5, <1>6, SameHeap DEF HeapInv

\* The steps of CheckRepo and of the request leave the calls alone.
LEMMA SameCalls ==
    ASSUME HeapInv, Scalars', UNCHANGED <<task, add, newlist, left, heap>>,
           RepoList' = RepoList, sending' = sending \/ sending' = RepoList
    PROVE  HeapInv'
  <1>1. \A w \in Word : Writers[w] \subseteq Writers'[w]
    BY SameWriters
  <1>2. /\ newlist' = [a \in Call |-> newlist'[a]]
        /\ \A a \in Call : CallStays(a)
    BY DEF HeapInv, CallStays
  <1>3. Good(heap, Writers, RepoList') /\ Good(heap, Writers, sending')
    BY DEF HeapInv
  <1> QED BY <1>1, <1>2, <1>3, SameHeap

\* A tick that comes too early counts up to MaxEarly at most.
LEMMA TooEarlyHeap ==
    ASSUME HeapInv, TooEarly
    PROVE  HeapInv'
  <1>1. /\ early < MaxEarly /\ early' = early + 1
        /\ UNCHANGED <<task, RepoList, heap, add, newlist, left, check, sending,
                       attempts, contents, taken, counted, late, raced>>
    BY DEF TooEarly, reportVars, callVars
  <1>2. Scalars /\ MaxEarly \in Nat
    BY DEF HeapInv, MaxEarly
  <1>3. Scalars'
    BY <1>1, <1>2, SameTask DEF Scalars, Running
  <1> QED BY <1>1, <1>3, SameCalls

\* What the shared header shows: words that are written.
LEMMA ListFacts ==
    ASSUME HeapInv
    PROVE  /\ List \in Seq(Element)
           /\ Len(List) = RepoList.len /\ RepoList.len \in Nat
           /\ \A i \in 1 .. RepoList.len : \A w \in Word : List[i][w] \in Writers[w]
  <1>1. Good(heap, Writers, RepoList) /\ heap \in Seq(Arrays)
    BY DEF HeapInv
  <1>2. /\ List \in Seq(Element) /\ Len(List) = RepoList.len /\ RepoList.len \in Nat
        /\ \A i \in 1 .. RepoList.len : List[i] = heap[RepoList.array][i]
    BY <1>1, ShownFacts DEF List, Elements
  <1>3. \A i \in 1 .. RepoList.len : \A w \in Word :
          heap[RepoList.array][i][w] \in Writers[w]
    BY <1>1 DEF Good
  <1> QED BY <1>2, <1>3

\* A report is made of elements.
LEMMA StartReportHeap ==
    ASSUME HeapInv, StartReport
    PROVE  HeapInv'
  <1>1. /\ check' = "post" /\ early' = 0 /\ sending' = RepoList
        /\ contents' = List /\ attempts' = 0
        /\ taken' = [a \in Call |-> taken[a] + Occurrences(contents', a)]
        /\ UNCHANGED <<task, RepoList, heap, add, newlist, left, counted, raced, late>>
    BY DEF StartReport, callVars, List
  <1>2. Scalars /\ MaxEarly \in Nat /\ Retries \in Nat
    BY RetryCountAssumption DEF HeapInv, MaxEarly, Retries
  <1>3. contents' \in Seq(Element)
    BY <1>1, ListFacts
  <1>4. taken' \in [Call -> Nat]
    <2>1. \A a \in Call : taken[a] \in Nat /\ Occurrences(contents', a) \in Nat
      BY <1>2, <1>3, OccurrencesFacts DEF Scalars
    <2>2. \A a \in Call : taken[a] + Occurrences(contents', a) \in Nat
      BY <2>1
    <2> QED BY <1>1, <2>2
  <1>5. Scalars'
    BY <1>1, <1>2, <1>3, <1>4, SameTask DEF Scalars, Running
  <1> QED BY <1>1, <1>5, SameCalls

\* What the collector counts.
LEMMA CountedFacts ==
    ASSUME HeapInv, NEW ok \in BOOLEAN, Counted(ok)
    PROVE  /\ counted' \in [Call -> Nat]
           /\ \A a \in Call : counted'[a] = counted[a] + IF ok THEN Occurrences(contents, a) ELSE 0
  <1>1. \A a \in Call : counted[a] \in Nat /\ Occurrences(contents, a) \in Nat
    BY OccurrencesFacts DEF HeapInv, Scalars
  <1>2. counted' = [a \in Call |-> counted[a] + IF ok THEN Occurrences(contents, a) ELSE 0]
    BY DEF Counted
  <1>3. \A a \in Call : counted[a] + (IF ok THEN Occurrences(contents, a) ELSE 0) \in Nat
    BY <1>1
  <1> QED BY <1>2, <1>3

\* An answer changes what the collector has counted.
LEMMA AnswerHeap ==
    ASSUME HeapInv, NEW ok \in BOOLEAN, Answer(ok)
    PROVE  HeapInv'
  <1>1. /\ check' = "reset" /\ Counted(ok)
        /\ UNCHANGED <<task, RepoList, heap, add, newlist, left, early, sending,
                       attempts, contents, taken, raced, late>>
    BY DEF Answer, callVars
  <1>2. Scalars /\ counted' \in [Call -> Nat]
    BY <1>1, CountedFacts DEF HeapInv
  <1>3. Scalars'
    BY <1>1, <1>2, SameTask DEF Scalars, Running
  <1> QED BY <1>1, <1>3, SameCalls

\* A retry is one of Retries at most.
LEMMA RetryHeap ==
    ASSUME HeapInv, NEW arrived \in BOOLEAN, Retry(arrived)
    PROVE  HeapInv'
  <1>1. /\ check' \in {"post", "reset"} /\ Counted(arrived)
        /\ \/ attempts < Retries /\ attempts' = attempts + 1
           \/ attempts' = attempts
        /\ late' = (late \/ arrived)
        /\ UNCHANGED <<task, RepoList, heap, add, newlist, left, early, sending,
                       contents, taken, raced>>
    BY DEF Retry, callVars, Attempted
  <1>2. Scalars /\ counted' \in [Call -> Nat] /\ Retries \in Nat
    BY <1>1, CountedFacts, RetryCountAssumption DEF HeapInv, Retries
  <1>3. attempts' \in 0 .. Retries' /\ late' \in BOOLEAN
    BY <1>1, <1>2, SameTask DEF Scalars, Running
  <1>4. Scalars'
    BY <1>1, <1>2, <1>3, SameTask DEF Scalars, Running
  <1> QED BY <1>1, <1>4, SameCalls

\* The new list is an empty slice of a new array.
LEMMA ResetHeap ==
    ASSUME HeapInv, Reset
    PROVE  HeapInv'
  <1>1. /\ check' = "idle" /\ heap' = Append(heap, <<>>)
        /\ RepoList' = [array |-> Len(heap) + 1, len |-> 0]
        /\ raced' = (raced \/ Stale(sending))
        /\ UNCHANGED <<task, add, newlist, left, early, sending, attempts, contents, taken,
                       counted, late>>
    BY DEF Reset, callVars, Emptied, Fresh
  <1>2. Scalars /\ heap \in Seq(Arrays) /\ Len(heap) \in Nat
    BY LenProperties DEF HeapInv
  <1>3. Scalars'
    BY <1>1, <1>2, SameTask DEF Scalars, Running
  <1>4. \A w \in Word : Writers[w] \subseteq Writers'[w]
    BY <1>1, SameWriters
  <1>5. /\ heap' \in Seq(Arrays) /\ Len(heap') = Len(heap) + 1
        /\ heap'[Len(heap) + 1] = <<>>
        /\ \A k \in 1 .. Len(heap) : heap'[k] = heap[k]
    <2>1. <<>> \in Arrays
      BY DEF Arrays
    <2> QED BY <1>1, <1>2, <2>1, AppendProperties
  <1>6. Grows(heap, heap', Writers, Writers')
    BY <1>2, <1>4, <1>5 DEF Grows
  <1>7. Good(heap', Writers', RepoList')
    <2>1. Len(<<>>) = 0 /\ Len(heap) + 1 \in 1 .. Len(heap')
      BY <1>2, <1>5
    <2> QED BY <1>1, <1>5, <2>1 DEF Good
  <1>8. /\ newlist' = [a \in Call |-> newlist'[a]]
        /\ \A a \in Call : CallStays(a)
    BY <1>1 DEF HeapInv, CallStays
  <1>9. Good(heap, Writers, sending')
    BY <1>1 DEF HeapInv
  <1> QED BY <1>3, <1>5, <1>6, <1>7, <1>8, <1>9, HeapStep

\* After a crash there are empty slices only.
LEMMA CrashHeap ==
    ASSUME HeapInv, Crash, counted' \in [Call -> Nat]
    PROVE  HeapInv'
  <1> DEFINE empty == [array |-> 1, len |-> 0]
  <1>1. /\ check' = "crashed" /\ heap' = << <<>> >>
        /\ RepoList' = empty /\ sending' = empty
        /\ add' = [a \in Call |-> "idle"] /\ newlist' = [a \in Call |-> empty]
        /\ left' = [a \in Call |-> Word]
        /\ early' = 0 /\ attempts' = 0 /\ contents' = <<>>
        /\ UNCHANGED <<task, taken, raced, late>>
    BY DEF Crash
  <1>2. Scalars /\ MaxEarly \in Nat /\ Retries \in Nat
    BY RetryCountAssumption DEF HeapInv, MaxEarly, Retries
  <1>3. Scalars'
    BY <1>1, <1>2, SameTask DEF Scalars, Running
  <1>4. heap' \in Seq(Arrays)
    BY <1>1 DEF Arrays
  <1>5. Good(heap', Writers', empty)
    <2>1. Len(heap') = 1 /\ Len(heap'[1]) = 0
      BY <1>1
    <2> QED BY <2>1 DEF Good
  <1>6. newlist' = [a \in Call |-> newlist'[a]] /\ \A a \in Call : CallInv(a)'
    BY <1>1, <1>5 DEF CallInv
  <1> QED BY <1>1, <1>3, <1>4, <1>5, <1>6 DEF HeapInv

\* The process starts with slices that are all its shared header.
LEMMA InitHeap ==
    ASSUME Init
    PROVE  HeapInv
  <1> DEFINE n == Len(Earlier)
             arr == [i \in 1 .. n + Spare |-> IF i <= n THEN Whole(Earlier[i]) ELSE Blank]
  <1>1. Earlier \in Seq(Call) /\ n \in Nat /\ Spare \in Nat /\ DOMAIN Earlier = 1 .. n
    BY EarlierAssumption, SpareAssumption, LenProperties
  <1>2. /\ heap = <<arr>> /\ RepoList = [array |-> 1, len |-> n] /\ sending = RepoList
        /\ newlist = [a \in Call |-> RepoList]
        /\ add = [a \in Call |-> IF a \in ToSet(Earlier) THEN "done" ELSE "idle"]
        /\ left = [a \in Call |-> IF a \in ToSet(Earlier) THEN {} ELSE Word]
        /\ \A i \in DOMAIN Earlier : Billable(Earlier[i])
        /\ task \in {"Rtask", "Wtask"} /\ check = "idle" /\ early = 0 /\ attempts = 0
        /\ contents = <<>> /\ taken = [a \in Call |-> 0] /\ counted = [a \in Call |-> 0]
        /\ raced = FALSE /\ late = FALSE
    BY DEF Init
  <1>3. ToSet(Earlier) = {Earlier[i] : i \in 1 .. n}
    BY <1>1 DEF ToSet
  <1>4. \A i \in 1 .. n : Earlier[i] \in Call
    BY <1>1, ElementOfSeq
  <1>5. Scalars
    <2>1. MaxEarly \in Nat /\ Retries \in Nat
      BY RetryCountAssumption DEF MaxEarly, Retries
    <2>2. \A a \in Call : add[a] # "idle" => Billable(a)
      BY <1>1, <1>2, <1>3
    <2>3. /\ add \in [Call -> {"idle", "append", "assign", "done"}]
          /\ left \in [Call -> SUBSET Word]
          /\ \A a \in Call : add[a] = "idle" => left[a] = Word
      BY <1>2
    <2>4. taken \in [Call -> Nat] /\ counted \in [Call -> Nat] /\ contents \in Seq(Element)
      BY <1>2
    <2>5. early \in 0 .. MaxEarly /\ attempts \in 0 .. Retries
      BY <1>2, <2>1
    <2>6. raced \in BOOLEAN /\ late \in BOOLEAN /\ Running
      BY <1>2 DEF Running
    <2> HIDE DEF Billable, Running, MaxEarly, Retries
    <2> QED BY <1>2, <2>2, <2>3, <2>4, <2>5, <2>6 DEF Scalars
  <1>6. arr \in Seq(Element) /\ Len(arr) = n + Spare
    <2>0. n + Spare \in Nat
      BY <1>1
    <2>1. arr \in [1 .. n + Spare -> Element]
      <3>1. ASSUME NEW i \in 1 .. n + Spare
            PROVE  (IF i <= n THEN Whole(Earlier[i]) ELSE Blank) \in Element
        <4>1. i <= n => i \in 1 .. n
          BY <1>1
        <4> QED BY <1>4, <4>1, WholeFacts
      <3> QED BY <3>1
    <2> HIDE DEF arr, n
    <2>2. arr \in Seq(Element)
      BY <2>0, <2>1, SeqDef
    <2> QED BY <2>0, <2>1, <2>2, LenProperties
  <1>7. \A i \in 1 .. n : \A w \in Word : arr[i][w] \in Writers[w]
    <2>1. \A i \in 1 .. n : i \in 1 .. n + Spare /\ i <= n
      BY <1>1
    <2>2. \A i \in 1 .. n : left[Earlier[i]] = {} /\ Billable(Earlier[i])
      BY <1>1, <1>2, <1>3, <1>4
    <2>3. \A i \in 1 .. n : arr[i] = Whole(Earlier[i])
      BY <2>1
    <2>4. \A i \in 1 .. n : \A w \in Word : Earlier[i] \in Writers[w]
      BY <1>4, <2>2 DEF Writers
    <2> HIDE DEF arr, n, Writers
    <2>5. ASSUME NEW i \in 1 .. n, NEW w \in Word PROVE arr[i][w] \in Writers[w]
      <3>1. arr[i][w] = Earlier[i]
        BY <2>3 DEF Whole
      <3> QED BY <2>4, <3>1
    <2> QED BY <2>5
  <1> HIDE DEF arr, n
  <1>8. heap \in Seq(Arrays) /\ Len(heap) = 1 /\ heap[1] = arr
    BY <1>2, <1>6 DEF Arrays
  <1>9. Good(heap, Writers, RepoList)
    <2>1. n <= Len(arr)
      BY <1>1, <1>6
    <2> QED BY <1>1, <1>2, <1>7, <1>8, <2>1 DEF Good
  <1>10. \A a \in Call : CallInv(a)
    BY <1>2, <1>9 DEF CallInv
  <1> QED BY <1>2, <1>5, <1>8, <1>9, <1>10 DEF HeapInv

-----------------------------------------------------------------------------
(* The list, as long as no step works on a slice out of date.              *)

\* What a slice shows on a heap.
Shown(h, s) == SubSeq(h[s.array], 1, s.len)

\* What a slice shows does not change with what comes behind it in its array.
LEMMA KeptFacts ==
    ASSUME NEW h \in Seq(Arrays), NEW g, NEW V, NEW W, NEW s, Good(h, V, s), Good(g, W, s), g \in Seq(Arrays),
           NEW n \in Nat, s.len <= n, KeepsUpTo(h, g, n)
    PROVE  Shown(g, s) = Shown(h, s)
  <1> DEFINE old == SubSeq(h[s.array], 1, s.len)
             new == SubSeq(g[s.array], 1, s.len)
  <1>1. /\ s.len \in Nat /\ old \in Seq(Element) /\ Len(old) = s.len
        /\ \A i \in 1 .. s.len : old[i] = h[s.array][i]
    BY ShownFacts
  <1>2. /\ new \in Seq(Element) /\ Len(new) = s.len
        /\ \A i \in 1 .. s.len : new[i] = g[s.array][i]
    BY ShownFacts
  <1>3. s.array \in 1 .. Len(h) /\ s.len <= Len(h[s.array]) /\ Len(h[s.array]) \in Nat
    <2>1. s.array \in 1 .. Len(h) /\ s.len <= Len(h[s.array])
      BY DEF Good
    <2>2. h[s.array] \in Seq(Element)
      BY <2>1, ElementOfSeq DEF Arrays
    <2> QED BY <2>1, <2>2, LenProperties
  <1> HIDE DEF old, new
  <1>4. ASSUME NEW i \in 1 .. s.len PROVE old[i] = new[i]
    <2>1. i \in 1 .. Len(h[s.array]) /\ i <= n
      BY <1>1, <1>3
    <2> QED BY <1>1, <1>2, <1>3, <2>1 DEF KeepsUpTo
  <1>5. old = new
    BY <1>1, <1>2, <1>4, SeqEqual
  <1> QED BY <1>5 DEF Shown, old, new

\* Steps that leave the list as it is, and which calls are over.
LEMMA SameList ==
    ASSUME HeapInv, ListInv, List' = List, UNCHANGED <<contents, taken>>,
           raced => raced',
           check' = check \/ (check = "post" /\ check' = "reset"),
           check # "idle" /\ ~raced' => Elements(sending)' = Elements(sending),
           \A a \in Call : add'[a] = "done" <=> add[a] = "done"
    PROVE  ListInv'
  <1>1. (Running' => Running) /\ Reported' = Reported /\ (check' # "idle" <=> check # "idle")
    BY DEF Running, Reported
  <1>2. \A e : Over(e, add) => Over(e, add')
    BY DEF Over
  <1> HIDE DEF List, Running, Reported, Waits, Distinct, FirstOf, Over
  <1>3. SUFFICES ASSUME ~raced', Running'
                 PROVE  /\ Distinct(List)
                        /\ \A i \in 1 .. Len(List) : Over(List[i], add')
                        /\ check # "idle" => /\ Elements(sending)' = contents
                                             /\ FirstOf(contents, List)
                        /\ \A a \in Call :
                             taken[a] = IF add'[a] = "done" /\ ~Waits(List, Reported, a)
                                          THEN 1 ELSE 0
    BY <1>1 DEF ListInv
  <1>4. /\ Distinct(List)
        /\ \A i \in 1 .. Len(List) : Over(List[i], add)
        /\ check # "idle" => Elements(sending) = contents /\ FirstOf(contents, List)
        /\ \A a \in Call :
             taken[a] = IF add[a] = "done" /\ ~Waits(List, Reported, a) THEN 1 ELSE 0
    BY <1>1, <1>3 DEF ListInv
  <1> QED BY <1>2, <1>3, <1>4

\* To read the header changes neither the list nor what is over.
LEMMA ReadListList ==
    ASSUME HeapInv, ListInv, NEW a \in Call, ReadList(a)
    PROVE  ListInv'
  <1>1. /\ add[a] = "idle" /\ add' = [add EXCEPT ![a] = "append"]
        /\ UNCHANGED <<RepoList, heap, check, sending, contents, taken, raced>>
    BY DEF ReadList, reportVars
  <1>2. List' = List /\ Elements(sending)' = Elements(sending)
    BY <1>1 DEF List, Elements
  <1>3. \A b \in Call : add'[b] = "done" <=> add[b] = "done"
    BY <1>1 DEF HeapInv, Scalars
  <1> QED BY <1>1, <1>2, <1>3, SameList

\* append does not change what the slices show that are no longer than its own.
LEMMA AppendKeeps ==
    ASSUME HeapInv, NEW a \in Call, Appends(a), NEW s, Good(heap, Writers, s),
           Good(heap', Writers', s), s.len <= newlist[a].len
    PROVE  Shown(heap', s) = Shown(heap, s)
  <1> DEFINE h == heap
             g == heap'
             V == Writers
             W == Writers'
             n == newlist[a].len
  <1>1. h \in Seq(Arrays) /\ g \in Seq(Arrays) /\ Good(h, V, newlist[a])
    BY AppendFacts DEF HeapInv, CallInv
  <1>2. n \in Nat
    BY <1>1 DEF Good
  <1>3. KeepsUpTo(h, g, n)
    BY AppendFacts
  <1>4. Good(h, V, s) /\ Good(g, W, s) /\ s.len <= n
    OBVIOUS
  <1> HIDE DEF h, g, V, W, n
  <1>5. Shown(g, s) = Shown(h, s)
    BY <1>1, <1>2, <1>3, <1>4, KeptFacts
  <1> QED BY <1>5 DEF h, g

\* append by a call whose slice is not out of date writes behind the list and
\* behind the report at hand, so that both show what they showed.
LEMMA AppendList ==
    ASSUME HeapInv, HeapInv', ListInv, NEW a \in Call, Appends(a)
    PROVE  ListInv'
  <1>1. /\ Running /\ add[a] = "append"
        /\ add' = add \/ add' = [add EXCEPT ![a] = "assign"]
        /\ raced' = (raced \/ Stale(newlist[a]))
        /\ UNCHANGED <<RepoList, check, sending, contents, taken>>
    BY DEF Appends, Grow, WriteWord, reportVars
  <1>2. /\ heap \in Seq(Arrays) /\ Good(heap, Writers, newlist[a])
        /\ Good(heap, Writers, RepoList) /\ Good(heap, Writers, sending)
        /\ Good(heap', Writers', RepoList') /\ Good(heap', Writers', sending')
    BY DEF HeapInv, CallInv
  <1> DEFINE n == newlist[a].len
  <1>3. /\ n \in Nat /\ Len(Elements(newlist[a])) = n
        /\ Len(Elements(sending)) = sending.len
        /\ Len(List) = RepoList.len /\ RepoList.len \in Nat /\ sending.len \in Nat
    BY <1>2, ShownFacts DEF Elements, List
  <1>5. \A b \in Call : add'[b] = "done" <=> add[b] = "done"
    BY <1>1 DEF HeapInv, Scalars
  <1>6. CASE raced'
    BY <1>6 DEF ListInv
  <1>7. CASE ~raced'
    <2>1. Elements(newlist[a]) = List /\ ~raced
      BY <1>1, <1>7 DEF Stale, List
    <2>2. RepoList.len <= n
      BY <1>3, <2>1
    <2> HIDE DEF n
    <2>3. List' = List
      <3>1. Good(heap', Writers', RepoList)
        BY <1>1, <1>2
      <3>2. Shown(heap', RepoList) = Shown(heap, RepoList)
        BY <1>2, <2>2, <3>1, AppendKeeps DEF n
      <3> QED BY <1>1, <3>2 DEF List, Elements, Shown
    <2>4. ASSUME check # "idle" PROVE Elements(sending)' = Elements(sending)
      <3>1. sending.len <= n
        <4>1. Elements(sending) = contents /\ Len(contents) <= Len(List)
          BY <1>1, <2>1, <2>4 DEF ListInv, FirstOf
        <4> QED BY <1>3, <2>2, <4>1
      <3>2. Good(heap', Writers', sending)
        BY <1>1, <1>2
      <3>3. Shown(heap', sending) = Shown(heap, sending)
        BY <1>2, <3>1, <3>2, AppendKeeps DEF n
      <3> QED BY <1>1, <3>3 DEF Elements, Shown
    <2> QED BY <1>1, <1>5, <2>1, <2>3, <2>4, SameList
  <1> QED BY <1>6, <1>7

\* An element comes behind those of the list.
LEMMA LongerList ==
    ASSUME NEW S, NEW s \in Seq(S), NEW a \in S
    PROVE  /\ Len(Append(s, a)) = Len(s) + 1 /\ Len(s) \in Nat
           /\ \A i \in 1 .. Len(s) : Append(s, a)[i] = s[i]
           /\ Append(s, a)[Len(s) + 1] = a
           /\ \A i \in 1 .. Len(s) + 1 : i \in 1 .. Len(s) \/ i = Len(s) + 1
           /\ \A b : \A n \in 0 .. Len(s) :
                Waits(Append(s, a), n, b) <=> Waits(s, n, b) \/ Whole(b) = a
  <1> DEFINE t == Append(s, a)
             N == Len(s)
  <1>1. /\ Len(t) = N + 1 /\ N \in Nat /\ t[N + 1] = a
        /\ \A i \in 1 .. N : t[i] = s[i]
    BY AppendProperties, LenProperties
  <1> HIDE DEF t, N, Whole
  <1>2. \A i \in 1 .. N + 1 : i \in 1 .. N \/ i = N + 1
    BY <1>1
  <1>3. ASSUME NEW b, NEW n \in 0 .. N
        PROVE  Waits(t, n, b) <=> Waits(s, n, b) \/ Whole(b) = a
    <2>1. ASSUME Waits(t, n, b) PROVE Waits(s, n, b) \/ Whole(b) = a
      <3>1. PICK i \in n + 1 .. N + 1 : t[i] = Whole(b)
        BY <1>1, <2>1 DEF Waits
      <3>2. CASE i = N + 1
        BY <1>1, <3>1, <3>2
      <3>3. CASE i # N + 1
        <4>1. i \in n + 1 .. N /\ i \in 1 .. N
          BY <1>1, <3>1, <3>3
        <4> QED BY <1>1, <3>1, <4>1 DEF Waits, N
      <3> QED BY <3>2, <3>3
    <2>2. ASSUME Waits(s, n, b) PROVE Waits(t, n, b)
      <3>1. PICK i \in n + 1 .. N : s[i] = Whole(b)
        BY <2>2 DEF Waits, N
      <3>2. i \in 1 .. N /\ i \in n + 1 .. N + 1
        BY <1>1, <3>1
      <3> QED BY <1>1, <3>1, <3>2 DEF Waits
    <2>3. ASSUME Whole(b) = a PROVE Waits(t, n, b)
      <3>1. N + 1 \in n + 1 .. N + 1
        BY <1>1
      <3> QED BY <1>1, <2>3, <3>1 DEF Waits
    <2> QED BY <2>1, <2>2, <2>3
  <1> QED BY <1>1, <1>2, <1>3 DEF t, N

\* The call that is over waits at the end of the list.
LEMMA AssignListList ==
    ASSUME HeapInv, ListInv, NEW a \in Call, AssignList(a)
    PROVE  ListInv'
  <1>1. /\ Running /\ add[a] = "assign" /\ add' = [add EXCEPT ![a] = "done"]
        /\ RepoList' = newlist[a]
        /\ raced' = (raced \/ Elements(newlist[a]) # Append(List, Whole(a)))
        /\ UNCHANGED <<heap, check, sending, contents, taken>>
    BY DEF AssignList, reportVars, List
  <1>2. SUFFICES ASSUME ~raced' PROVE ListInv'
    BY DEF ListInv
  <1>3. ~raced /\ List' = Append(List, Whole(a)) /\ Elements(sending)' = Elements(sending)
    BY <1>1, <1>2 DEF List, Elements
  <1>4. List \in Seq(Element) /\ contents \in Seq(Element)
        /\ add \in [Call -> {"idle", "append", "assign", "done"}]
    BY ListFacts DEF HeapInv, Scalars
  <1>5. /\ Distinct(List)
        /\ \A i \in 1 .. Len(List) : Over(List[i], add)
        /\ check # "idle" => Elements(sending) = contents /\ FirstOf(contents, List)
        /\ \A b \in Call :
             taken[b] = IF add[b] = "done" /\ ~Waits(List, Reported, b) THEN 1 ELSE 0
    BY <1>1, <1>3 DEF ListInv
  <1>6. Reported' = Reported /\ Reported \in 0 .. Len(List) /\ Running'
    <2>1. Len(contents) \in Nat /\ Len(List) \in Nat
      BY <1>4, LenProperties
    <2> QED BY <1>1, <1>5, <2>1 DEF Reported, FirstOf, Running
  <1> DEFINE t == Append(List, Whole(a))
             N == Len(List)
  <1>7. /\ Len(t) = N + 1 /\ N \in Nat /\ t[N + 1] = Whole(a)
        /\ \A i \in 1 .. N : t[i] = List[i]
        /\ \A i \in 1 .. N + 1 : i \in 1 .. N \/ i = N + 1
        /\ \A b : Waits(t, Reported, b) <=> Waits(List, Reported, b) \/ b = a
    <2>1. Whole(a) \in Element /\ \A b : Whole(b) = Whole(a) <=> b = a
      BY WholeFacts
    <2> HIDE DEF List, Whole
    <2> QED BY <1>4, <1>6, <2>1, LongerList
  <1>8. \A i \in 1 .. N : List[i] # Whole(a)
    <2>1. \A b \in Call : Whole(b) = Whole(a) => b = a
      BY WholeFacts
    <2> HIDE DEF List, Whole
    <2> QED BY <1>1, <1>5, <2>1 DEF Over
  <1>9. t = List'
    BY <1>3
  <1> HIDE DEF t, N, List, Reported, Whole
  <1>10. Distinct(t)
    BY <1>5, <1>7, <1>8 DEF Distinct, N
  <1>11. \A i \in 1 .. Len(t) : Over(t[i], add')
    <2>1. \A e : Over(e, add) \/ e = Whole(a) => Over(e, add')
      BY <1>1, <1>4 DEF Over
    <2> QED BY <1>5, <1>7, <2>1 DEF N
  <1>12. check # "idle" => FirstOf(contents, t)
    <2>1. SUFFICES ASSUME check # "idle" PROVE FirstOf(contents, t)
      OBVIOUS
    <2>2. Len(contents) \in Nat /\ Len(contents) <= N /\ \A i \in 1 .. Len(contents) : contents[i] = List[i]
      BY <1>4, <1>5, <2>1, LenProperties DEF FirstOf, N
    <2>3. \A i \in 1 .. Len(contents) : i \in 1 .. N
      BY <1>7, <2>2
    <2>4. Len(contents) <= Len(t)
      BY <1>7, <2>2
    <2> QED BY <1>7, <2>2, <2>3, <2>4 DEF FirstOf
  <1>13. \A b \in Call :
           taken[b] = IF add'[b] = "done" /\ ~Waits(t, Reported, b) THEN 1 ELSE 0
    BY <1>1, <1>4, <1>5, <1>7
  <1> HIDE DEF Waits, Distinct, FirstOf, Over
  <1> QED BY <1>1, <1>3, <1>5, <1>6, <1>9, <1>10, <1>11, <1>12, <1>13 DEF ListInv

\* A report takes what waits, each element once.
LEMMA StartReportList ==
    ASSUME HeapInv, ListInv, StartReport
    PROVE  ListInv'
  <1>1. /\ check = "idle" /\ check' = "post" /\ sending' = RepoList
        /\ contents' = List
        /\ taken' = [a \in Call |-> taken[a] + Occurrences(contents', a)]
        /\ UNCHANGED <<RepoList, heap, add, raced>>
    BY DEF StartReport, callVars, List
  <1>2. SUFFICES ASSUME ~raced PROVE ListInv'
    BY <1>1 DEF ListInv
  <1>3. /\ Distinct(List)
        /\ \A i \in 1 .. Len(List) : Over(List[i], add)
        /\ \A a \in Call :
             taken[a] = IF add[a] = "done" /\ ~Waits(List, 0, a) THEN 1 ELSE 0
    BY <1>1, <1>2 DEF ListInv, Running, Reported
  <1>4. List' = List /\ Elements(sending)' = List
    BY <1>1 DEF List, Elements
  <1>5. List \in Seq(Element) /\ Len(List) \in Nat
    BY ListFacts
  <1>6. Reported' = Len(List) /\ \A a : ~Waits(List, Len(List), a)
    BY <1>1, <1>4, <1>5 DEF Reported, Waits
  <1>7. FirstOf(List, List)
    BY <1>5 DEF FirstOf
  <1> HIDE DEF List
  <1>8. ASSUME NEW a \in Call
        PROVE  taken'[a] = IF add[a] = "done" THEN 1 ELSE 0
    <2>1. taken'[a] = taken[a] + Occurrences(List, a)
      BY <1>1
    <2>2. CASE Waits(List, 0, a)
      <3>1. Occurrences(List, a) = 1
        BY <1>3, <1>5, <2>2, OccurrencesFacts
      <3>2. add[a] = "done"
        <4>1. PICK i \in 1 .. Len(List) : List[i] = Whole(a)
          BY <2>2 DEF Waits
        <4>2. Over(Whole(a), add)
          BY <1>3, <4>1
        <4> QED BY <4>2, WholeFacts DEF Over
      <3> QED BY <1>3, <2>1, <2>2, <3>1, <3>2
    <2>3. CASE ~Waits(List, 0, a)
      <3>1. Occurrences(List, a) = 0
        BY <1>5, <2>3, OccurrencesFacts
      <3> QED BY <1>3, <2>1, <2>3, <3>1
    <2> QED BY <2>2, <2>3
  <1> HIDE DEF Waits, Distinct, FirstOf, Reported
  <1> QED BY <1>1, <1>3, <1>4, <1>6, <1>7, <1>8 DEF ListInv

\* The new list is empty, and so is what waits: nothing came behind the report.
LEMMA ResetList ==
    ASSUME HeapInv, ListInv, Reset
    PROVE  ListInv'
  <1>1. /\ check = "reset" /\ check' = "idle" /\ heap' = Append(heap, <<>>)
        /\ RepoList' = [array |-> Len(heap) + 1, len |-> 0]
        /\ raced' = (raced \/ Stale(sending))
        /\ UNCHANGED <<add, taken>>
    BY DEF Reset, callVars, Emptied, Fresh
  <1>2. SUFFICES ASSUME ~raced' PROVE ListInv'
    BY DEF ListInv
  <1>3. ~raced /\ Elements(sending) = List
    BY <1>1, <1>2 DEF Stale, List
  <1>4. /\ Elements(sending) = contents
        /\ \A a \in Call :
             taken[a] = IF add[a] = "done" /\ ~Waits(List, Reported, a) THEN 1 ELSE 0
    BY <1>1, <1>3 DEF ListInv, Running
  <1>5. Reported = Len(List) /\ Len(List) \in Nat
    BY <1>1, <1>3, <1>4, ListFacts DEF Reported
  <1>6. \A a : ~Waits(List, Reported, a)
    BY <1>5 DEF Waits
  <1>7. List' = <<>>
    BY <1>1 DEF List, Elements
  <1>8. Reported' = 0 /\ Len(<<>>) = 0 /\ \A a : ~Waits(<<>>, 0, a)
    BY <1>1 DEF Reported, Waits
  <1>9. Distinct(<<>>)
    BY <1>8 DEF Distinct
  <1> HIDE DEF Waits, Distinct, FirstOf, Reported, List
  <1> QED BY <1>1, <1>4, <1>6, <1>7, <1>8, <1>9 DEF ListInv

\* The steps that leave the list and the calls alone.
LEMMA OtherList ==
    ASSUME HeapInv, ListInv, NEW ok \in BOOLEAN,
           TooEarly \/ Answer(ok) \/ Retry(ok) \/ Crash \/ UNCHANGED vars
    PROVE  ListInv'
  <1>1. CASE Crash
    BY <1>1 DEF Crash, ListInv, Running
  <1>2. CASE TooEarly \/ Answer(ok) \/ Retry(ok) \/ UNCHANGED vars
    <2>1. UNCHANGED <<RepoList, heap, add, sending, contents, taken, raced>>
      BY <1>2 DEF TooEarly, Answer, Retry, vars, callVars, reportVars
    <2>2. check' = check \/ (check = "post" /\ check' = "reset")
      <3>1. CASE TooEarly
        BY <3>1 DEF TooEarly
      <3>2. CASE Answer(ok)
        BY <3>2 DEF Answer
      <3>3. CASE Retry(ok)
        BY <3>3 DEF Retry
      <3>4. CASE UNCHANGED vars
        BY <3>4 DEF vars
      <3> QED BY <1>2, <3>1, <3>2, <3>3, <3>4
    <2>3. List' = List /\ Elements(sending)' = Elements(sending)
      BY <2>1 DEF List, Elements
    <2> QED BY <2>1, <2>2, <2>3, SameList
  <1> QED BY <1>1, <1>2

\* At first the list is Earlier, and all of it waits.
LEMMA InitList ==
    ASSUME Init, HeapInv
    PROVE  ListInv
  <1> DEFINE n == Len(Earlier)
             arr == [i \in 1 .. n + Spare |-> IF i <= n THEN Whole(Earlier[i]) ELSE Blank]
  <1>1. /\ heap = <<arr>> /\ RepoList = [array |-> 1, len |-> n]
        /\ add = [a \in Call |-> IF a \in ToSet(Earlier) THEN "done" ELSE "idle"]
        /\ check = "idle" /\ taken = [a \in Call |-> 0]
    BY DEF Init
  <1>2. /\ Earlier \in Seq(Call) /\ n \in Nat /\ Spare \in Nat /\ DOMAIN Earlier = 1 .. n
        /\ \A i \in 1 .. n : Earlier[i] \in Call
    <2>1. Earlier \in Seq(Call) /\ Spare \in Nat
      BY EarlierAssumption, SpareAssumption
    <2> QED BY <2>1, LenProperties, ElementOfSeq
  <1>3. ToSet(Earlier) = {Earlier[i] : i \in 1 .. n}
    BY <1>2 DEF ToSet
  <1>4. Len(List) = n /\ \A i \in 1 .. n : List[i] = Whole(Earlier[i])
    <2>1. \A i \in 1 .. n : i \in 1 .. n + Spare /\ i <= n
      BY <1>2
    <2>2. \A i \in 1 .. n : arr[i] = Whole(Earlier[i])
      BY <2>1
    <2>3. heap[1] = arr /\ RepoList.array = 1 /\ RepoList.len = n
      BY <1>1
    <2> HIDE DEF arr
    <2>4. Good(heap, Writers, RepoList) /\ heap \in Seq(Arrays)
      BY DEF HeapInv
    <2>5. Len(List) = RepoList.len /\ \A i \in 1 .. RepoList.len : List[i] = heap[RepoList.array][i]
      BY <2>4, ShownFacts DEF List, Elements
    <2> QED BY <2>2, <2>3, <2>5
  <1> HIDE DEF n, List, arr
  <1>5. Distinct(List)
    <2>1. \A i, j \in 1 .. n : Whole(Earlier[i]) = Whole(Earlier[j]) => i = j
      BY <1>2, EarlierAssumption, WholeFacts
    <2> QED BY <1>4, <2>1 DEF Distinct
  <1>6. \A i \in 1 .. Len(List) : Over(List[i], add)
    BY <1>1, <1>2, <1>3, <1>4 DEF Over
  <1>7. ASSUME NEW a \in Call, add[a] = "done" PROVE Waits(List, 0, a)
    <2>1. PICK i \in 1 .. n : Earlier[i] = a
      BY <1>1, <1>3, <1>7
    <2> QED BY <1>4, <2>1 DEF Waits
  <1>8. Reported = 0
    BY <1>1 DEF Reported
  <1> HIDE DEF Waits, Distinct, FirstOf, Reported, Over
  <1> QED BY <1>1, <1>5, <1>6, <1>7, <1>8 DEF ListInv

-----------------------------------------------------------------------------
(* What the collector counts.                                              *)

\* The report at hand: each of its elements is in it once, and was taken.
LEMMA ReportFacts ==
    ASSUME HeapInv, ListInv, ~raced, check = "post", NEW a \in Call
    PROVE  /\ ~Waits(contents, 0, a) => Occurrences(contents, a) = 0
           /\ Waits(contents, 0, a) => Occurrences(contents, a) = 1 /\ taken[a] = 1
  <1>1. /\ Distinct(List) /\ FirstOf(contents, List) /\ Reported = Len(contents)
        /\ \A i \in 1 .. Len(List) : Over(List[i], add)
        /\ taken[a] = IF add[a] = "done" /\ ~Waits(List, Reported, a) THEN 1 ELSE 0
    BY DEF ListInv, Running, Reported
  <1>2. contents \in Seq(Element) /\ Len(contents) \in Nat /\ Len(List) \in Nat
    BY ListFacts, LenProperties DEF HeapInv, Scalars
  <1> HIDE DEF List
  <1>3. \A i \in 1 .. Len(contents) : i \in 1 .. Len(List) /\ contents[i] = List[i]
    BY <1>1, <1>2 DEF FirstOf
  <1>4. Distinct(contents)
    BY <1>1, <1>3 DEF Distinct
  <1>5. ASSUME Waits(contents, 0, a) PROVE taken[a] = 1
    <2>1. PICK i \in 1 .. Len(contents) : contents[i] = Whole(a)
      BY <1>5 DEF Waits
    <2>2. i \in 1 .. Len(List) /\ List[i] = Whole(a)
      BY <1>3, <2>1
    <2> HIDE DEF Whole
    <2>3. ASSUME NEW j \in Len(contents) + 1 .. Len(List) PROVE List[j] # Whole(a)
      <3>1. j \in 1 .. Len(List) /\ j # i
        BY <1>2, <2>1
      <3> QED BY <1>1, <2>2, <3>1 DEF Distinct
    <2>4. ~Waits(List, Reported, a)
      BY <1>1, <2>3 DEF Waits
    <2>5. add[a] = "done"
      <3>1. Over(Whole(a), add)
        BY <1>1, <2>2
      <3> QED BY <3>1, WholeFacts DEF Over
    <2> QED BY <1>1, <2>4, <2>5
  <1> QED BY <1>2, <1>4, <1>5, OccurrencesFacts

\* The collector answers, in time or not, or the process dies of the answer.
LEMMA PostCounted ==
    ASSUME HeapInv, HeapInv', ListInv, CountedInv, NEW ok \in BOOLEAN,
           Answer(ok) \/ GenDecode(ok) \/ Retry(ok)
    PROVE  CountedInv'
  <1>1. Answer(ok) \/ GenDecode(ok) => check = "post" /\ check' # "post" /\ Counted(ok)
                                       /\ UNCHANGED <<task, taken, raced, late>>
    BY DEF Answer, GenDecode, Crash
  <1>2. Retry(ok) => /\ check = "post" /\ Counted(ok) /\ late' = (late \/ ok)
                     /\ check' = "post" => attempts' = attempts + 1
                     /\ UNCHANGED <<task, taken, raced, contents>>
    BY DEF Retry, Attempted
  <1>3. /\ check = "post" /\ Counted(ok) /\ UNCHANGED <<task, taken, raced>>
        /\ late' \in BOOLEAN /\ late \in BOOLEAN /\ attempts \in 0 .. Retries /\ Retries \in Nat
        /\ Retries' = Retries
        /\ late => late'
        /\ ok /\ ~late' => check' # "post"
        /\ check' = "post" => attempts' = attempts + 1 /\ contents' = contents
                              /\ (ok => late')
    <2>1. CASE Answer(ok) \/ GenDecode(ok)
      BY <1>1, <2>1, SameTask, RetryCountAssumption DEF HeapInv, Scalars, Retries
    <2>2. CASE Retry(ok)
      BY <1>2, <2>2, SameTask, RetryCountAssumption DEF HeapInv, Scalars, Retries
    <2> QED BY <2>1, <2>2
  <1>4. SUFFICES ASSUME ~raced, NEW a \in Call
                 PROVE  /\ counted'[a] <= IF late' THEN Retries + 1 ELSE 1
                        /\ taken[a] = 0 => counted'[a] = 0
                        /\ check' = "post" /\ Waits(contents', 0, a) =>
                             counted'[a] <= IF late' THEN attempts' ELSE 0
    BY <1>3 DEF CountedInv
  <1>5. /\ counted[a] \in Nat /\ taken[a] \in Nat
        /\ counted[a] <= IF late THEN Retries + 1 ELSE 1
        /\ taken[a] = 0 => counted[a] = 0
        /\ Waits(contents, 0, a) => counted[a] <= IF late THEN attempts ELSE 0
    BY <1>3, <1>4 DEF CountedInv, HeapInv, Scalars
  <1>6. counted'[a] = counted[a] + IF ok THEN Occurrences(contents, a) ELSE 0
    BY <1>3, CountedFacts
  <1>7. /\ ~Waits(contents, 0, a) => Occurrences(contents, a) = 0
        /\ Waits(contents, 0, a) => Occurrences(contents, a) = 1 /\ taken[a] = 1
    BY <1>3, <1>4, ReportFacts
  <1> HIDE DEF Waits, Occurrences, Retries
  <1>8. CASE Waits(contents, 0, a)
    BY <1>3, <1>5, <1>6, <1>7, <1>8
  <1>9. CASE ~Waits(contents, 0, a)
    BY <1>3, <1>5, <1>6, <1>7, <1>9
  <1> QED BY <1>8, <1>9

\* What a report takes has not been counted before.
LEMMA StartReportCounted ==
    ASSUME HeapInv, ListInv, CountedInv, StartReport
    PROVE  CountedInv'
  <1>1. /\ check = "idle" /\ contents' = List /\ attempts' = 0
        /\ taken' = [a \in Call |-> taken[a] + Occurrences(contents', a)]
        /\ UNCHANGED <<task, counted, raced, late>>
    BY DEF StartReport, List
  <1>2. Retries' = Retries
    BY <1>1, SameTask
  <1>3. SUFFICES ASSUME ~raced, NEW a \in Call
                 PROVE  /\ counted[a] <= IF late THEN Retries + 1 ELSE 1
                        /\ taken'[a] = 0 => counted[a] = 0
                        /\ Waits(List, 0, a) => counted[a] <= IF late THEN 0 ELSE 0
    BY <1>1, <1>2 DEF CountedInv
  <1>4. /\ counted[a] \in Nat /\ taken[a] \in Nat
        /\ counted[a] <= IF late THEN Retries + 1 ELSE 1
        /\ taken[a] = 0 => counted[a] = 0
    BY <1>3 DEF CountedInv, HeapInv, Scalars
  <1>5. taken'[a] = 0 => taken[a] = 0
    <2>1. Occurrences(contents', a) \in Nat
      BY <1>1, ListFacts, OccurrencesFacts
    <2>2. taken'[a] = taken[a] + Occurrences(contents', a)
      BY <1>1
    <2> HIDE DEF Occurrences
    <2> QED BY <1>4, <2>1, <2>2
  <1>6. Waits(List, 0, a) => taken[a] = 0
    BY <1>1, <1>3 DEF ListInv, Running, Reported
  <1> HIDE DEF Waits, List, Retries
  <1> QED BY <1>4, <1>5, <1>6

\* Nothing is counted, or taken, by the other steps.
LEMMA OtherCounted ==
    ASSUME CountedInv, UNCHANGED <<task, taken, counted, late>>, raced => raced',
           check' = "post" => UNCHANGED <<check, contents, attempts>>
    PROVE  CountedInv'
  <1>1. Retries' = Retries
    BY SameTask
  <1> HIDE DEF Waits, Retries
  <1> QED BY <1>1 DEF CountedInv

-----------------------------------------------------------------------------
(* The invariant and what it says.                                         *)

\* A step of AddRepo.
LEMMA AddRepoIInv ==
    ASSUME IInv, NEW a \in Call, AddRepo(a)
    PROVE  IInv'
  <1>0. ReadList(a) \/ Appends(a) \/ AssignList(a)
    BY DEF AddRepo, Appends
  <1>1. HeapInv /\ ListInv /\ CountedInv
    BY DEF IInv
  <1>2. HeapInv'
    BY <1>0, <1>1, ReadListHeap, AppendHeap, AssignListHeap
  <1>3. ListInv'
    BY <1>0, <1>1, <1>2, ReadListList, AppendList, AssignListList
  <1>4. CountedInv'
    <2>1. UNCHANGED <<task, taken, counted, late, check, contents, attempts>>
      BY <1>0 DEF ReadList, Appends, WriteWord, Grow, AssignList, reportVars
    <2>2. raced => raced'
      BY <1>0 DEF ReadList, Appends, WriteWord, Grow, AssignList
    <2> QED BY <1>1, <2>1, <2>2, OtherCounted
  <1> QED BY <1>2, <1>3, <1>4 DEF IInv

\* A step of the request.
LEMMA PostIInv ==
    ASSUME IInv, NEW ok \in BOOLEAN, Answer(ok) \/ GenDecode(ok) \/ Retry(ok)
    PROVE  IInv'
  <1>1. HeapInv /\ ListInv /\ CountedInv
    BY DEF IInv
  <1>2. HeapInv' /\ ListInv'
    <2>1. CASE GenDecode(ok)
      <3>1. Crash /\ counted' \in [Call -> Nat]
        BY <1>1, <2>1, CountedFacts DEF GenDecode
      <3> QED BY <1>1, <3>1, CrashHeap, OtherList
    <2> QED BY <1>1, <2>1, AnswerHeap, RetryHeap, OtherList
  <1>3. CountedInv'
    BY <1>1, <1>2, PostCounted
  <1> QED BY <1>2, <1>3 DEF IInv

\* A step of CheckRepo, a crash, or none.
LEMMA CheckRepoIInv ==
    ASSUME IInv, CheckRepo \/ ReportSys \/ UNCHANGED vars
    PROVE  IInv'
  <1>1. HeapInv /\ ListInv /\ CountedInv
    BY DEF IInv
  <1>2. CASE TooEarly
    <2>1. HeapInv' /\ ListInv'
      BY <1>1, <1>2, TooEarlyHeap, OtherList
    <2>2. UNCHANGED <<task, taken, counted, late, check, contents, attempts, raced>>
      BY <1>2 DEF TooEarly, reportVars
    <2> QED BY <1>1, <2>1, <2>2, OtherCounted DEF IInv
  <1>3. CASE StartReport
    BY <1>1, <1>3, StartReportHeap, StartReportList, StartReportCounted DEF IInv
  <1>4. CASE Reset
    <2>1. HeapInv' /\ ListInv'
      BY <1>1, <1>4, ResetHeap, ResetList
    <2>2. UNCHANGED <<task, taken, counted, late>> /\ check' = "idle"
      BY <1>4 DEF Reset
    <2>3. raced => raced'
      BY <1>4 DEF Reset
    <2> QED BY <1>1, <2>1, <2>2, <2>3, OtherCounted DEF IInv
  <1>5. CASE ReportSys
    <2>1. Crash /\ counted' = counted
      BY <1>5 DEF ReportSys
    <2>2. counted' \in [Call -> Nat]
      BY <1>1, <2>1 DEF HeapInv, Scalars
    <2>3. HeapInv' /\ ListInv'
      BY <1>1, <2>1, <2>2, CrashHeap, OtherList
    <2>4. UNCHANGED <<task, taken, counted, late, raced>> /\ check' = "crashed"
      BY <2>1 DEF Crash
    <2> QED BY <1>1, <2>3, <2>4, OtherCounted DEF IInv
  <1>6. CASE UNCHANGED vars
    <2>1. UNCHANGED <<task, RepoList, heap, add, newlist, left, check, early, sending,
                      attempts, contents, taken, counted, raced, late>>
      BY <1>6 DEF vars
    <2>2. Scalars'
      BY <1>1, <2>1, SameTask DEF HeapInv, Scalars, Running
    <2>3. HeapInv'
      BY <1>1, <2>1, <2>2, SameCalls
    <2>4. ListInv'
      BY <1>1, <1>6, OtherList
    <2> QED BY <1>1, <2>1, <2>3, <2>4, OtherCounted DEF IInv
  <1> QED BY <1>2, <1>3, <1>4, <1>5, <1>6 DEF CheckRepo

\* Nothing is counted at first.
LEMMA InitIInv ==
    ASSUME Init
    PROVE  IInv
  <1>1. HeapInv
    BY InitHeap
  <1>2. ListInv
    BY <1>1, InitList
  <1>3. /\ taken = [a \in Call |-> 0] /\ counted = [a \in Call |-> 0] /\ check = "idle"
        /\ late = FALSE
    BY DEF Init
  <1>4. CountedInv
    BY <1>3 DEF CountedInv
  <1> QED BY <1>1, <1>2, <1>4 DEF IInv

\* Whatever the interleaving of the calls, the ticks and the answers, the slices
\* show written elements only, and without a race they keep account of each one.
THEOREM Invariance == Spec => []IInv
  <1>1. Init => IInv
    BY InitIInv
  <1>2. IInv /\ [Next]_vars => IInv'
    BY AddRepoIInv, PostIInv, CheckRepoIInv DEF Next, Post
  <1> QED BY <1>1, <1>2, PTL DEF Spec

\* Every slice header is one of an array that was allocated.
THEOREM TypeCorrect == Spec => []TypeOK
  <1>1. IInv => TypeOK
    <2>1. SUFFICES ASSUME HeapInv PROVE TypeOK
      BY DEF IInv
    <2>2. RepoList \in Slice /\ sending \in Slice /\ \A a \in Call : newlist[a] \in Slice
      BY <2>1 DEF HeapInv, CallInv, Good, Slice
    <2>3. newlist \in [Call -> Slice]
      BY <2>1, <2>2 DEF HeapInv
    <2>4. attempts \in 0 .. RetryCount
      BY <2>1, RetryCountAssumption DEF HeapInv, Scalars, Retries
    <2> HIDE DEF Slice
    <2> QED BY <2>1, <2>2, <2>3, <2>4 DEF HeapInv, Scalars, TypeOK, Arrays
  <1> QED BY <1>1, Invariance, PTL

\* Whatever the races on the slice that AddRepo and CheckRepo share without a lock,
\* it never shows a word that no call has written or that is not to be reported,
\* and as long as there was no race its elements are those of one call each.
THEOREM InventsNothing == Spec => []NothingInvented
  <1>1. IInv => NothingInvented
    <2>1. SUFFICES ASSUME HeapInv, ListInv PROVE NothingInvented
      BY DEF IInv
    <2>2. /\ List \in Seq(Element) /\ Len(List) = RepoList.len
          /\ \A i \in 1 .. RepoList.len : \A w \in Word : List[i][w] \in Writers[w]
      BY <2>1, ListFacts
    <2>3. \A i \in 1 .. RepoList.len : \A w \in Word :
            LET b == List[i][w] IN b \in Call /\ Billable(b) /\ w \notin left[b]
      BY <2>2 DEF Writers
    <2>4. ASSUME ~raced, NEW i \in 1 .. RepoList.len
          PROVE  \E a \in Call : List[i] = Whole(a)
      <3>1. CASE Running
        BY <2>1, <2>2, <2>4, <3>1 DEF ListInv, Over
      <3>2. CASE ~Running
        <4>1. \A a \in Call : left[a] = Word
          BY <2>1, <3>2 DEF HeapInv, Scalars
        <4>2. PICK w : w \in Word
          BY WordAssumption
        <4> QED BY <2>3, <4>1, <4>2
      <3> QED BY <3>1, <3>2
    <2> HIDE DEF Elements, Billable, Whole
    <2> QED BY <2>3, <2>4 DEF NothingInvented, List
  <1> QED BY <1>1, Invariance, PTL

\* Only a race on the shared slice loses an element that AddRepo has added or has
\* it in two reports, however many calls, ticks and retries there are.
THEOREM LosesOnlyByRace == Spec => []NoLossWithoutRace
  <1>1. IInv => NoLossWithoutRace
    <2>1. SUFFICES ASSUME HeapInv, ListInv, ~raced, NEW a \in Call, add[a] = "done"
                   PROVE  taken[a] + (IF check # "idle" /\ taken[a] > 0 THEN 0
                                      ELSE Occurrences(Elements(RepoList), a)) = 1
      BY DEF IInv, NoLossWithoutRace
    <2>2. Running
      BY <2>1 DEF HeapInv, Scalars
    <2>3. /\ Distinct(List)
          /\ taken[a] = IF ~Waits(List, Reported, a) THEN 1 ELSE 0
          /\ check # "idle" => FirstOf(contents, List)
      BY <2>1, <2>2 DEF ListInv
    <2>4. List \in Seq(Element) /\ Len(List) \in Nat /\ contents \in Seq(Element)
          /\ Len(contents) \in Nat
      BY <2>1, ListFacts, LenProperties DEF HeapInv, Scalars
    <2>5. Elements(RepoList) = List
      BY DEF List
    <2> HIDE DEF List
    <2>6. CASE Waits(List, Reported, a)
      <3>1. Waits(List, 0, a)
        <4>1. Reported \in Nat
          BY <2>4 DEF Reported
        <4> QED BY <2>4, <2>6, <4>1 DEF Waits
      <3>2. Occurrences(List, a) = 1
        BY <2>3, <2>4, <3>1, OccurrencesFacts
      <3> QED BY <2>3, <2>5, <2>6, <3>2
    <2>7. CASE ~Waits(List, Reported, a)
      <3>1. CASE check # "idle"
        BY <2>3, <2>7, <3>1
      <3>2. CASE check = "idle"
        <4>1. Occurrences(List, a) = 0
          BY <2>4, <2>7, <3>2, OccurrencesFacts DEF Reported
        <4> QED BY <2>3, <2>5, <2>7, <3>2, <4>1
      <3> QED BY <3>1, <3>2
    <2> QED BY <2>6, <2>7
  <1> QED BY <1>1, Invariance, PTL

\* Without a race the collector counts an element once, or, if an answer came
\* after the client's timeout, at most once for every attempt.
THEOREM BillsTwiceOnlyIfLate == Spec => []NoDoubleBilling
  <1>1. IInv => NoDoubleBilling
    BY DEF IInv, CountedInv, NoDoubleBilling
  <1> QED BY <1>1, Invariance, PTL

=============================================================================
