----------------------------- MODULE TrafficRepo -----------------------------
(***************************************************************************)
(* Reports on their way to the collectors.  The program keeps two lists:   *)
(* Rtask, the traffic of users (api.AddRepo, sent by CheckRepo of          *)
(* cmd/quick_ss), and Wtask, the hosts they visit (AddWwwRepo,             *)
(* CheckWwwRepo).  Connections and the UDP loop append to a slice that     *)
(* they share without a lock; from time to time the list is sent and a new *)
(* slice is started.  The two lists never meet, so that a behaviour is     *)
(* about one of them, task.                                                *)
(*                                                                         *)
(* The reads and writes of the shared slice are steps of their own.  A Go  *)
(* slice is a header (an array and a length) on an array that several      *)
(* headers may share: append writes in place if there is room, so two      *)
(* goroutines may write the same element, and since an element is several  *)
(* machine words (a string's pointer and length, U, D), which are written  *)
(* one after the other, it may end up with words of both.                  *)
(***************************************************************************)
EXTENDS Integers, Sequences, SequencesExt, FiniteSetsExt

CONSTANTS
    Call,          \* calls of AddRepo or AddWwwRepo, each made once
    Earlier,       \* the calls already over, whose element is in the list
    Spare,         \* the room that its array has for more
    Word,          \* the machine words of an element
    UID, NoUID,    \* user IDs, and the empty string
    Traffic,       \* the argument of each call
    RetryCount,    \* the HTTP client's retries
    Nil            \* a word not yet written

ASSUME TrafficAssumption ==
    Traffic \in [Call -> [UID : UID \cup {NoUID}, U : Nat, D : Nat]]
ASSUME EarlierAssumption ==
    /\ Earlier \in Seq(Call)
    /\ \A i, j \in DOMAIN Earlier : Earlier[i] = Earlier[j] => i = j
ASSUME SpareAssumption == Spare \in Nat
ASSUME WordAssumption == Word # {}
ASSUME RetryCountAssumption == RetryCount \in Nat
ASSUME NilAssumption == Nil \notin Call /\ NoUID \notin UID

VARIABLES
    task,          \* the list this behaviour is about
    RepoList,      \* its *RepoList, a slice header
    heap,          \* the arrays allocated so far
    add,           \* where each call of AddRepo is
    newlist,       \* its local slice
    left,          \* the words of its element that it has still to write
    check,         \* where CheckRepo is
    early,         \* ticks since the last report that came too early for another
    sending,       \* the slice it reports
    attempts,      \* how often it has tried again
    contents,      \* the elements it sends
    taken,         \* history: reports that included a call's element
    counted,       \* history: times the collector has counted it
    raced,         \* history: whether a step worked on a slice out of date
    late           \* history: whether an answer came after the client's timeout

callVars == <<add, newlist, left>>
reportVars == <<sending, attempts, contents, taken, counted, late>>
vars == <<task, RepoList, heap, add, newlist, left, check, early, sending,
          attempts, contents, taken, counted, raced, late>>

\* An element is, word by word, the call that wrote it last; the element of one
\* call, and one that nobody has written.
Element == [Word -> Call \cup {Nil}]
Whole(a) == [w \in Word |-> a]
Blank == [w \in Word |-> Nil]

Elements(slice) == SubSeq(heap[slice.array], 1, slice.len)

\* A slice that is not, or no longer, what the shared header shows.
Stale(slice) == Elements(slice) # Elements(RepoList)

Occurrences(s, a) == Cardinality({i \in DOMAIN s : s[i] = Whole(a)})

-----------------------------------------------------------------------------

\* A report of traffic needs a user and traffic; one of a host needs a user (no
\* caller has an empty host).  Other calls return at once and change nothing.
Billable(a) ==
    /\ Traffic[a].UID # NoUID
    /\ task = "Rtask" => Traffic[a].D # 0 \/ Traffic[a].U # 0

Init ==
    /\ task \in {"Rtask", "Wtask"}
    /\ \A i \in DOMAIN Earlier : Billable(Earlier[i])
    /\ heap = << [i \in 1 .. Len(Earlier) + Spare |->
                   IF i <= Len(Earlier) THEN Whole(Earlier[i]) ELSE Blank] >>
    /\ RepoList = [array |-> 1, len |-> Len(Earlier)]
    /\ add = [a \in Call |-> IF a \in ToSet(Earlier) THEN "done" ELSE "idle"]
    /\ newlist = [a \in Call |-> RepoList]
    /\ left = [a \in Call |-> IF a \in ToSet(Earlier) THEN {} ELSE Word]
    /\ check = "idle" /\ early = 0
    /\ sending = RepoList
    /\ attempts = 0
    /\ contents = <<>>
    /\ taken = [a \in Call |-> 0]
    /\ counted = [a \in Call |-> 0]
    /\ raced = FALSE /\ late = FALSE

Running == check # "crashed"

-----------------------------------------------------------------------------
(* AddRepo and AddWwwRepo.                                                 *)

\* The shared header is read.
ReadList(a) ==
    /\ Running /\ add[a] = "idle" /\ Billable(a)
    /\ add' = [add EXCEPT ![a] = "append"]
    /\ newlist' = [newlist EXCEPT ![a] = RepoList]
    /\ UNCHANGED <<task, RepoList, heap, left, check, early, reportVars, raced>>

\* append, if the array has room: the element is written in place, word by word.
WriteWord(a, w) ==
    LET s == newlist[a]
        over == left[a] = {w}
    IN  /\ Running /\ add[a] = "append" /\ w \in left[a]
        /\ s.len < Len(heap[s.array])
        /\ heap' = [heap EXCEPT ![s.array][s.len + 1][w] = a]
        /\ left' = [left EXCEPT ![a] = @ \ {w}]
        /\ add' = IF over THEN [add EXCEPT ![a] = "assign"] ELSE add
        /\ newlist' = IF over THEN [newlist EXCEPT ![a].len = @ + 1] ELSE newlist
        /\ raced' = (raced \/ Stale(s))
        /\ UNCHANGED <<task, RepoList, check, early, reportVars>>

\* append doubles the array it outgrows.
Doubled(cap) == IF cap = 0 THEN 1 ELSE 2 * cap

\* append, if the array is full: into a new one, which nobody else knows yet.
Grow(a) ==
    LET s == newlist[a]
        grown == [i \in 1 .. Doubled(s.len) |->
                    IF i <= s.len THEN heap[s.array][i]
                    ELSE IF i = s.len + 1 THEN Whole(a) ELSE Blank]
    IN  /\ Running /\ add[a] = "append"
        /\ s.len = Len(heap[s.array])
        /\ heap' = Append(heap, grown)
        /\ left' = [left EXCEPT ![a] = {}]
        /\ add' = [add EXCEPT ![a] = "assign"]
        /\ newlist' = [newlist EXCEPT ![a] = [array |-> Len(heap) + 1, len |-> s.len + 1]]
        /\ raced' = (raced \/ Stale(s))
        /\ UNCHANGED <<task, RepoList, check, early, reportVars>>

\* The new header becomes the shared one.
AssignList(a) ==
    /\ Running /\ add[a] = "assign"
    /\ add' = [add EXCEPT ![a] = "done"]
    /\ RepoList' = newlist[a]
    /\ raced' = (raced \/ Elements(newlist[a]) # Append(Elements(RepoList), Whole(a)))
    /\ UNCHANGED <<task, heap, newlist, left, check, early, reportVars>>

-----------------------------------------------------------------------------
(* CheckRepo with ReportUserTraffic, CheckWwwRepo with ReportWwwTraffic.   *)

\* How many ticks in a row may find that the last report is too recent.  For
\* traffic the interval is 300 s or more and the test is for 9.  For hosts the
\* interval is 30 s and the test, in whole seconds, for more than 30: a tick 30 s
\* after a report fails it, and so may the one before it if the report was itself
\* started by a tick that had been waiting.
MaxEarly == IF task = "Rtask" THEN 0 ELSE 2

\* Mutant of Reportable: a single element waits for company.
ReportableMany == RepoList.len > 1

\* The list is not empty.
Reportable == RepoList.len > 0

\* "no time".
TooEarly ==
    /\ check = "idle" /\ Reportable
    /\ early < MaxEarly
    /\ early' = early + 1
    /\ UNCHANGED <<task, RepoList, heap, callVars, check, reportVars, raced>>

\* A tick finds something to report, and takes all elements.
StartReport ==
    /\ check = "idle" /\ Reportable
    /\ check' = "post" /\ early' = 0
    /\ sending' = RepoList
    /\ contents' = Elements(RepoList)
    /\ attempts' = 0
    /\ taken' = [a \in Call |-> taken[a] + Occurrences(contents', a)]
    /\ UNCHANGED <<task, RepoList, heap, callVars, counted, raced, late>>

\* The collector counts what it was sent, or not.
Counted(ok) ==
    counted' = [a \in Call |-> counted[a] + IF ok THEN Occurrences(contents, a) ELSE 0]

\* The collector answers, and either counts the report or refuses it.  An error
\* status is no reason for a retry, and nobody looks at it.
Answer(ok) ==
    /\ check = "post"
    /\ check' = "reset"
    /\ Counted(ok)
    /\ UNCHANGED <<task, RepoList, heap, callVars, early, sending, attempts,
                   contents, taken, raced, late>>

\* The process dies, and its memory with it.
Crash ==
    /\ check' = "crashed"
    /\ heap' = << <<>> >>
    /\ RepoList' = [array |-> 1, len |-> 0] /\ sending' = RepoList'
    /\ add' = [a \in Call |-> "idle"]
    /\ newlist' = [a \in Call |-> RepoList']
    /\ left' = [a \in Call |-> Word]
    /\ early' = 0 /\ attempts' = 0 /\ contents' = <<>>
    /\ UNCHANGED <<task, taken, raced, late>>

\* parseResponse decodes every answer with a status up to 400, and GenDecode
\* ignores the error of gzip.NewReader and uses its nil result: if the answer is
\* not compressed the goroutine panics, and the process with it.
GenDecode(ok) ==
    check = "post" /\ task = "Rtask" /\ Counted(ok) /\ Crash

\* RepoSys posts the state of the host every 300 s; its answer can do the same.
ReportSys == Running /\ Crash /\ UNCHANGED counted

\* Retries of the request: http.Post, which sends the hosts, makes none.
Retries == IF task = "Rtask" THEN RetryCount ELSE 0

\* Mutant of Attempted: the counter of attempts is not kept.
AttemptedUncounted == attempts

Attempted == attempts + 1

\* The request fails or is not answered within the client's timeout, whether or
\* not it arrived: the client tries again.
Retry(arrived) ==
    /\ check = "post"
    /\ IF attempts < Retries
         THEN check' = "post" /\ attempts' = Attempted
         ELSE check' = "reset" /\ UNCHANGED attempts
    /\ Counted(arrived) /\ late' = (late \/ arrived)
    /\ UNCHANGED <<task, RepoList, heap, callVars, early, sending, contents,
                   taken, raced>>

\* Mutant of Fresh: the new list is made with a length instead of a capacity.
FreshOfOne == <<Blank>>

\* The array of the new list.
Fresh == <<>>

\* Mutant of Emptied: the list is kept.
EmptiedNot == RepoList

\* The header of the new list.
Emptied == [array |-> Len(heap) + 1, len |-> Len(Fresh)]

\* Whatever became of the report, the list starts anew.
Reset ==
    /\ check = "reset"
    /\ check' = "idle"
    /\ heap' = Append(heap, Fresh)
    /\ RepoList' = Emptied
    /\ raced' = (raced \/ Stale(sending))
    /\ UNCHANGED <<task, callVars, early, sending, attempts, contents, taken,
                   counted, late>>

-----------------------------------------------------------------------------

AddRepo(a) ==
    \/ ReadList(a) \/ Grow(a) \/ AssignList(a)
    \/ \E w \in Word : WriteWord(a, w)

Post ==
    \/ \E ok \in BOOLEAN : Answer(ok) \/ GenDecode(ok)
    \/ \E arrived \in BOOLEAN : Retry(arrived)

CheckRepo == TooEarly \/ StartReport \/ Reset

Next == CheckRepo \/ Post \/ ReportSys \/ \E a \in Call : AddRepo(a)

Spec == Init /\ [][Next]_vars

\* The ticker fires, and the HTTP client's timeout ends every attempt to send
\* traffic.  The post of the hosts has no timeout.
FairSpec ==
    /\ Spec
    /\ WF_vars(CheckRepo)
    /\ WF_vars(task = "Rtask" /\ Post)
    /\ \A a \in Call : WF_vars(AddRepo(a))

-----------------------------------------------------------------------------

Slice == [array : 1 .. Len(heap), len : Nat]

TypeOK ==
    /\ task \in {"Rtask", "Wtask"}
    /\ heap \in Seq(Seq(Element))
    /\ RepoList \in Slice /\ sending \in Slice
    /\ newlist \in [Call -> Slice] /\ left \in [Call -> SUBSET Word]
    /\ add \in [Call -> {"idle", "append", "assign", "done"}]
    /\ check \in {"idle", "post", "reset", "crashed"}
    /\ early \in 0 .. MaxEarly
    /\ attempts \in 0 .. RetryCount
    /\ contents \in Seq(Element)
    /\ taken \in [Call -> Nat] /\ counted \in [Call -> Nat]
    /\ raced \in BOOLEAN /\ late \in BOOLEAN

\* Whatever the races on the slice and its arrays, it never shows a word that no
\* AddRepo has written, or one of a call that should not be reported; and only
\* after a race does an element mix the words of two calls.
NothingInvented ==
    \A i \in 1 .. RepoList.len :
      LET e == Elements(RepoList)[i]
      IN  /\ \A w \in Word : e[w] \in Call /\ Billable(e[w]) /\ w \notin left[e[w]]
          /\ ~raced => \E a \in Call : e = Whole(a)

\* Only a race loses an element or has it reported twice: as long as no step has
\* worked on a slice that was out of date, what AddRepo has added is once in the
\* list or in exactly one report.
NoLossWithoutRace ==
    \A a \in Call : ~raced /\ add[a] = "done" /\ Billable(a) =>
      taken[a] + (IF check # "idle" /\ taken[a] > 0 THEN 0
                  ELSE Occurrences(Elements(RepoList), a)) = 1

\* Traffic is counted twice only after a race, or after an answer that came too
\* late for the client's timeout; one report is counted at most once for every
\* attempt to send it, and one of hosts at most once.
NoDoubleBilling ==
    \A a \in Call : ~raced =>
      counted[a] <= IF late THEN Retries + 1 ELSE 1

\* Every element of the list is reported some day, unless a race loses it or the
\* process dies: the ticks that come too early are not many enough to stop it.
\* Hosts depend on a collector that answers; traffic depends on nobody.
EventuallyReported ==
    (task = "Rtask" \/ []<>(check # "post")) =>
      \A a \in Call :
        add[a] = "done" /\ Billable(a) ~> taken[a] > 0 \/ raced \/ ~Running

=============================================================================
