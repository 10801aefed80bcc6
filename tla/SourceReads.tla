---------------------------- MODULE SourceReads -----------------------------
(* One side of a scan read file by file (git-source.ts): a ref, the index  *)
(* or the working tree, behind the cache of loadState. Each git process    *)
(* and each file system call is a step, and the side may be edited between *)
(* any two of them: a ref moves, a path is staged, a file is saved.        *)
(* Simplified: a blob is named by its text; a path of the working tree is  *)
(* a file, a directory, nothing, or a link that resolveContained refuses,  *)
(* and no such link appears during the scan.                               *)
EXTENDS Naturals, FiniteSets

CONSTANTS
  Paths, Texts,
  MaxMoves,   \* edits of the side during the scan
  MaxFaults   \* processes and calls that fail

(* What the constants are; whoever instantiates the module assumes it.     *)
SourceReadsConstants == MaxMoves \in Nat /\ MaxFaults \in Nat

VARIABLES
  side,     \* what is read, fixed
  onDisk,   \* paths the working tree holds while a git side is read, fixed
  held,     \* what the side holds at each path now
  window,   \* all it held there since the listing, or since the read began
  listing,  \* the memoized listing of a git side
  stage,    \* list, idle, asking, or stopped by an error
  want,     \* paths of the current request that have no answer yet
  ids,      \* those of them left to the batch
  at,       \* the next call of each working-tree path's read
  got,      \* answers of the current request
  cache,    \* cachingSource: answers given
  moves, faults

vars == <<side, onDisk, held, window, listing, stage, want, ids, at, got,
          cache, moves, faults>>

Sides == {"ref", "index", "disk"}
Git == side # "disk"
Null == [is |-> "null"]
Unknown == [is |-> "unknown"]
Text(t) == [is |-> "text", text |-> t]
Answer == {Null, Unknown} \cup {Text(t) : t \in Texts}

File(t) == [kind |-> "file", text |-> t]
Other(k) == [kind |-> k]
Entries(s) == {File(t) : t \in Texts} \cup {Other("none")} \cup
  CASE s = "ref" -> {} [] s = "index" -> {Other("conflict")}
    [] s = "disk" -> {Other("directory"), Other("refused")}
IsFile(e) == e.kind = "file"
Unread == [p \in Paths |-> "realpath"]
NoAnswer == [p \in Paths |-> Unknown]

Init ==
  /\ side \in Sides
  /\ onDisk \in IF side = "disk" THEN {{}} ELSE SUBSET Paths
  /\ held \in [Paths -> Entries(side)]
  /\ window = [p \in Paths |-> {held[p]}] /\ listing = held
  /\ stage = IF Git THEN "list" ELSE "idle"
  /\ want = {} /\ ids = {} /\ at = Unread
  /\ got = NoAnswer /\ cache = NoAnswer
  /\ moves = 0 /\ faults = 0

Fault == faults < MaxFaults /\ faults' = faults + 1
Stop == stage' = "stopped" /\ UNCHANGED <<held, window, listing, want, ids, at, got, cache, moves>>
Fixed == UNCHANGED <<side, onDisk>>
-----------------------------------------------------------------------------
(* The listing is asked for once; its rejection is memoized too.           *)
List ==
  /\ stage = "list" /\ stage' = "idle"
  /\ listing' = held /\ window' = [p \in Paths |-> {held[p]}]
  /\ UNCHANGED <<held, want, ids, at, got, cache, moves, faults>> /\ Fixed

ListFails == stage = "list" /\ Fault /\ Stop /\ Fixed

(* Mutant: an absence is not remembered.                                   *)
ForgetsAbsence(p) == cache[p] \in {Unknown, Null}
Uncached(p) == cache[p] = Unknown

(* read and readMany ask the source for what the cache has not; a path     *)
(* that is not listed is absent without a process; one with a single       *)
(* stage-0 blob is left to the batch.                                      *)
Ask == \E S \in (SUBSET Paths) \ {{}}, many \in BOOLEAN :
  /\ stage = "idle" /\ stage' = "asking"
  /\ \A p \in S : Uncached(p)
  /\ many \/ Cardinality(S) = 1
  /\ LET unlisted == {p \in S : Git /\ listing[p].kind = "none"} IN
     /\ got' = [p \in Paths |-> IF p \in unlisted THEN Null ELSE Unknown]
     /\ want' = S \ unlisted
     /\ ids' = {p \in S : Git /\ many /\ IsFile(listing[p])}
  /\ UNCHANGED <<held, window, listing, at, cache, moves, faults>> /\ Fixed

Answered(p, a) ==
  /\ got' = [got EXCEPT ![p] = a] /\ want' = want \ {p}
  /\ UNCHANGED <<held, window, listing, stage, ids, cache, moves, faults>> /\ Fixed

(* One git cat-file for all: an id it reports as missing, or a failure of  *)
(* the call, is left to git show. Paths with one text share an id.         *)
Batch == \E D \in SUBSET ids :
  /\ stage = "asking" /\ ids # {} /\ want = ids
  /\ \A p \in D, q \in ids : listing[p] = listing[q] => q \in D
  /\ IF D = ids THEN UNCHANGED faults ELSE Fault
  /\ got' = [p \in Paths |-> IF p \in D THEN Text(listing[p].text) ELSE got[p]]
  /\ want' = want \ D /\ ids' = {}
  /\ UNCHANGED <<held, window, listing, stage, at, cache, moves>> /\ Fixed

(* What git says when it cannot show a path of this side.                  *)
Message(p) ==
  CASE held[p].kind = "conflict" -> "in the index, but not at stage 0"
    [] side = "ref" -> IF p \in onDisk THEN "exists on disk, but not in REF"
                                       ELSE "does not exist in REF"
    [] OTHER -> IF p \in onDisk THEN "exists on disk, but not in the index"
                                ELSE "neither on disk nor in the index"

(* Mutant: whatever git cannot show is taken for absent.                   *)
AnyFailureIsAbsence(p) == TRUE
SaysAbsent(p) == Message(p) \in {"does not exist in REF",
  "exists on disk, but not in the index", "neither on disk nor in the index"}

ToShow == want \ ids
Show == \E p \in ToShow :
  /\ stage = "asking" /\ Git /\ UNCHANGED at
  /\ \/ IsFile(held[p]) /\ Answered(p, Text(held[p].text))
     \/ ~IsFile(held[p]) /\ SaysAbsent(p) /\ Answered(p, Null)

ShowFails == \E p \in ToShow :
  /\ stage = "asking" /\ Git
  /\ \/ ~IsFile(held[p]) /\ ~SaysAbsent(p) /\ UNCHANGED faults
     \/ Fault
  /\ Stop /\ Fixed

(* The working tree: one path after the other, each by realpath, stat and  *)
(* readFile; a missing path is absent at each of them, a refused link at   *)
(* the first, what is no file at the second.                               *)
Reading(p, call) == stage = "asking" /\ ~Git /\ p \in want /\ at[p] = call

Resolve == \E p \in Paths :
  /\ Reading(p, "realpath") /\ \A q \in Paths : at[q] = "realpath"
  /\ LET seen == [window EXCEPT ![p] = {held[p]}] IN
     IF held[p].kind \in {"none", "refused"}
     THEN /\ got' = [got EXCEPT ![p] = Null] /\ want' = want \ {p}
          /\ window' = seen /\ UNCHANGED at
     ELSE at' = [at EXCEPT ![p] = "stat"] /\ window' = seen /\ UNCHANGED <<got, want>>
  /\ UNCHANGED <<held, listing, stage, ids, cache, moves, faults>> /\ Fixed

Stat == \E p \in Paths :
  /\ Reading(p, "stat")
  /\ IF IsFile(held[p])
     THEN /\ at' = [at EXCEPT ![p] = "readFile"]
          /\ UNCHANGED <<held, window, listing, stage, want, ids, got, cache, moves, faults>>
          /\ Fixed
     ELSE at' = Unread /\ Answered(p, Null)

ReadFile == \E p \in Paths :
  /\ Reading(p, "readFile") /\ at' = Unread
  /\ Answered(p, IF IsFile(held[p]) THEN Text(held[p].text) ELSE Null)

(* Any other error of the three is no absence.                             *)
DiskFails == want # {} /\ stage = "asking" /\ ~Git /\ Fault /\ Stop /\ Fixed

Done ==
  /\ stage = "asking" /\ want = {} /\ stage' = "idle"
  /\ cache' = [p \in Paths |-> IF got[p] = Unknown THEN cache[p] ELSE got[p]]
  /\ got' = NoAnswer
  /\ UNCHANGED <<held, window, listing, want, ids, at, moves, faults>> /\ Fixed
-----------------------------------------------------------------------------
(* The environment: paths of the side change while it is read.             *)
Edit == \E h \in [Paths -> Entries(side) \ {Other("refused")}] :
  /\ stage # "stopped" /\ moves < MaxMoves /\ moves' = moves + 1
  /\ held' = h /\ h # held
  /\ window' = [p \in Paths |-> window[p] \cup {h[p]}]
  /\ UNCHANGED <<listing, stage, want, ids, at, got, cache, faults>> /\ Fixed

Halt == /\ stage = "stopped" \/ (stage = "idle" /\ \A p \in Paths : cache[p] # Unknown)
        /\ UNCHANGED vars
Next == List \/ ListFails \/ Ask \/ Batch \/ Show \/ ShowFails \/ Resolve \/ Stat
        \/ ReadFile \/ DiskFails \/ Done \/ Edit \/ Halt
Spec == Init /\ [][Next]_vars
-----------------------------------------------------------------------------
(* An answer was true at some moment of the read: a text is one the side   *)
(* held at that path, an absence a moment when no file was there. Batches, *)
(* fallbacks and failures in between change neither.                       *)
Explains(a, seen) == \E e \in seen :
  IF a = Null THEN e.kind \in {"none", "directory", "refused"}
              ELSE IsFile(e) /\ a = Text(e.text)
AnswersWereHeld == \A p \in Paths :
  cache[p] # Unknown => Explains(cache[p], window[p])

(* One scan sees one content of a path, whatever happens to the side: what *)
(* a later step reads is what an earlier one judged.                       *)
OneAnswerPerPath ==
  [][\A p \in Paths : cache[p] # Unknown => cache'[p] = cache[p]]_vars

(* git-source.ts: "a listing that goes stale degrades to "absent" rather   *)
(* than to a crash". A conflicted path is an error of its own.             *)
StaleListingDegrades ==
  stage = "stopped" /\ faults = 0 => \E p \in want : held[p].kind = "conflict"
=============================================================================
