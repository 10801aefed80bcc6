----------------------------- MODULE OnlineCache -----------------------------
(***************************************************************************)
(* The on-disk cache of online answers (online/cache.ts) and the cached    *)
(* lookups of scan.ts, shared by the processes of one machine.             *)
(*                                                                         *)
(* A process reads the whole file once, at its first cached lookup, keeps  *)
(* the entries in memory and writes all of them back after every answer;   *)
(* nothing locks the file.  Between the truncation and the end of a write  *)
(* the file is torn, and stays so if the writer dies.  The registry        *)
(* publishes versions and may take a name down meanwhile.                  *)
(*                                                                         *)
(* Abstracted: an entry is the time of its answer and, for version times,  *)
(* the versions it dates; lookups are awaited one at a time, as enrichOnline *)
(* does; a bulk downloads lookup is one name (DownloadsLookup has the      *)
(* rest); time advances by whole units, at most MaxTime of them.           *)
(***************************************************************************)
EXTENDS Integers, FiniteSets

CONSTANTS
  Procs,     \* processes of this machine
  Names,     \* package names
  Versions,  \* versions that may be published
  Work,      \* what a process looks up: each a set of lookups
  TTL,       \* DOWNLOADS_TTL_MS
  MaxTime,   \* bound on the clock
  FileStates \* the states the file may start in

Kinds  == {"exists", "downloads", "created", "times"}
Lookup == [kind: Kinds, name: Names, vers: SUBSET Versions]
Entry  == [kind: Kinds \ {"exists"}, name: Names, vers: SUBSET Versions,
           at: 0..MaxTime]

ASSUME WorkAssumption == Work \subseteq SUBSET Lookup
ASSUME TimeAssumption == TTL \in Nat \ {0} /\ MaxTime \in Nat
ASSUME FileAssumption == FileStates \subseteq {"absent", "whole", "torn", "unusable"}

VARIABLES
  published,  \* versions the registry has, by name
  removed,    \* names it has taken down
  file,       \* "absent", "whole", "torn", or "unusable": neither read nor written
  disk,       \* the entries of a whole file
  pc,         \* where each process is
  warm,       \* the processes that have read the file
  mem,        \* the entries each of them holds
  todo,       \* what each process has still to look up
  job,        \* the lookup it is at, with what the registry had when it began
  last,       \* how its last lookup ended
  now

vars == <<published, removed, file, disk, pc, warm, mem, todo, job, last, now>>

None == [kind |-> "none"]
NoResult == [outcome |-> "none"]

Init ==
  /\ published = [n \in Names |-> {}] /\ removed = {}
  /\ file \in FileStates /\ disk = {}
  /\ pc = [p \in Procs |-> "idle"] /\ warm = {} /\ mem = [p \in Procs |-> {}]
  /\ todo \in [Procs -> Work]
  /\ job = [p \in Procs |-> None] /\ last = [p \in Procs |-> NoResult]
  /\ now = 0
-----------------------------------------------------------------------------
(* loadCache, get, set.                                                    *)

(* A torn file is an empty cache, not an error, and so is an unusable one. *)
Loaded(p) == IF p \in warm THEN mem[p]
             ELSE IF file = "whole" THEN disk ELSE {}

Alive(e) == e.kind = "created" \/ now < e.at + TTL

(* Mutant: a hit that does not carry the versions asked for.               *)
CarriesAnything(e, l) == TRUE
Carries(e, l) == l.kind = "times" => l.vers \subseteq e.vers

(* The live entries that answer l.                                         *)
Hits(es, l) ==
  {e \in es : e.kind = l.kind /\ e.name = l.name /\ Alive(e) /\ Carries(e, l)}

Cached(l) == l.kind # "exists"

Put(es, e) == {d \in es : ~(d.kind = e.kind /\ d.name = e.name)} \cup {e}

(* An entry found dead is dropped.                                         *)
Pruned(es, l) ==
  {e \in es : e.kind = l.kind /\ e.name = l.name => Alive(e)}

(* How a lookup ended: the versions it asked for that the registry had and *)
(* the answer lacks, and the age of the answer.                            *)
Answered(l, e) ==
  [outcome |-> "answered", kind |-> l.kind, gone |-> l.gone, age |-> now - e.at,
   hidden |-> IF l.kind = "times" THEN (l.vers \cap l.had) \ e.vers ELSE {}]
Absent(l) == [outcome |-> "absent", kind |-> l.kind]
Threw(l, heard) == [outcome |-> "threw", kind |-> l.kind, heard |-> heard]
-----------------------------------------------------------------------------
(* A lookup begins: the cache is loaded if it was not, and asked.  A       *)
(* downloads lookup saves even when every name was a hit.                  *)
Begin(p) == \E l \in todo[p] :
  LET began == [kind |-> l.kind, name |-> l.name, vers |-> l.vers,
                had |-> published[l.name], gone |-> l.name \in removed]
      es == Pruned(Loaded(p), l)
      hit == IF Cached(l) THEN Hits(es, l) ELSE {}
  IN
  /\ pc[p] = "idle"
  /\ todo' = [todo EXCEPT ![p] = @ \ {l}]
  /\ IF Cached(l) THEN mem' = [mem EXCEPT ![p] = es] /\ warm' = warm \cup {p}
                  ELSE UNCHANGED <<mem, warm>>
  /\ IF hit = {}
     THEN /\ pc' = [pc EXCEPT ![p] = "fetching"]
          /\ job' = [job EXCEPT ![p] = began]
          /\ UNCHANGED last
     ELSE \E e \in hit :
          /\ last' = [last EXCEPT ![p] = Answered(began, e)]
          /\ pc' = [pc EXCEPT ![p] = IF l.kind = "downloads" THEN "saving" ELSE "idle"]
          /\ job' = [job EXCEPT ![p] = IF l.kind = "downloads" THEN began ELSE None]
  /\ UNCHANGED <<published, removed, file, disk, now>>

(* The registry answers.  A name it took down has no packument: nothing is *)
(* stored.  Downloads counts outlive the package.                          *)
Fetched(p) ==
  LET l == job[p]
      e == [kind |-> l.kind, name |-> l.name, at |-> now,
            vers |-> IF l.kind = "times" THEN published[l.name] ELSE {}]
  IN
  /\ pc[p] = "fetching"
  /\ IF l.kind # "downloads" /\ l.name \in removed
     THEN /\ last' = [last EXCEPT ![p] = Absent(l)]
          /\ pc' = [pc EXCEPT ![p] = "idle"]
          /\ job' = [job EXCEPT ![p] = None]
          /\ UNCHANGED mem
     ELSE /\ last' = [last EXCEPT ![p] = Answered(l, e)]
          /\ IF Cached(l)
             THEN /\ pc' = [pc EXCEPT ![p] = "saving"]
                  /\ mem' = [mem EXCEPT ![p] = Put(@, e)]
                  /\ UNCHANGED job
             ELSE /\ pc' = [pc EXCEPT ![p] = "idle"]
                  /\ job' = [job EXCEPT ![p] = None]
                  /\ UNCHANGED mem
  /\ UNCHANGED <<published, removed, file, disk, warm, todo, now>>

FetchFails(p) ==
  /\ pc[p] = "fetching"
  /\ last' = [last EXCEPT ![p] = Threw(job[p], FALSE)]
  /\ pc' = [pc EXCEPT ![p] = "idle"] /\ job' = [job EXCEPT ![p] = None]
  /\ UNCHANGED <<published, removed, file, disk, warm, mem, todo, now>>

(* save: the file is truncated, then written.  It throws out of the lookup *)
(* when the file cannot be opened.                                         *)
Truncate(p) ==
  /\ pc[p] = "saving" /\ file # "unusable"
  /\ file' = "torn" /\ disk' = {}
  /\ pc' = [pc EXCEPT ![p] = "writing"]
  /\ UNCHANGED <<published, removed, warm, mem, todo, job, last, now>>

SaveFails(p) ==
  /\ pc[p] = "saving" /\ file = "unusable"
  /\ last' = [last EXCEPT ![p] = Threw(job[p], TRUE)]
  /\ pc' = [pc EXCEPT ![p] = "idle"] /\ job' = [job EXCEPT ![p] = None]
  /\ UNCHANGED <<published, removed, file, disk, warm, mem, todo, now>>

(* If another process wrote, or died writing, since the truncation, the    *)
(* two texts may not parse together.                                       *)
Write(p) ==
  /\ pc[p] = "writing"
  /\ \/ file' = "whole" /\ disk' = mem[p]
     \/ /\ file = "whole" \/ \E q \in Procs \ {p} : pc[q] \in {"writing", "gone"}
        /\ file' = "torn" /\ disk' = {}
  /\ pc' = [pc EXCEPT ![p] = "idle"] /\ job' = [job EXCEPT ![p] = None]
  /\ UNCHANGED <<published, removed, warm, mem, todo, last, now>>

Exit(p) ==
  /\ pc[p] = "idle" /\ todo[p] = {}
  /\ pc' = [pc EXCEPT ![p] = "gone"]
  /\ UNCHANGED <<published, removed, file, disk, warm, mem, todo, job, last, now>>

(* A process is killed at any point, in the middle of a write too.         *)
Crash(p) ==
  /\ pc[p] # "gone"
  /\ pc' = [pc EXCEPT ![p] = "gone"]
  /\ UNCHANGED <<published, removed, file, disk, warm, mem, todo, job, last, now>>

Publish == \E n \in Names, v \in Versions :
  /\ n \notin removed /\ v \notin published[n]
  /\ published' = [published EXCEPT ![n] = @ \cup {v}]
  /\ UNCHANGED <<removed, file, disk, pc, warm, mem, todo, job, last, now>>

TakeDown == \E n \in Names \ removed :
  /\ removed' = removed \cup {n}
  /\ UNCHANGED <<published, file, disk, pc, warm, mem, todo, job, last, now>>

Tick ==
  /\ now < MaxTime /\ now' = now + 1
  /\ UNCHANGED <<published, removed, file, disk, pc, warm, mem, todo, job, last>>

Step(p) == Begin(p) \/ Fetched(p) \/ FetchFails(p) \/ Truncate(p)
           \/ SaveFails(p) \/ Write(p) \/ Exit(p)
Gone == (\A p \in Procs : pc[p] = "gone") /\ UNCHANGED vars
Next == (\E p \in Procs : Step(p) \/ Crash(p)) \/ Publish \/ TakeDown \/ Tick \/ Gone
Spec == Init /\ [][Next]_vars
-----------------------------------------------------------------------------
(* Every variable stays in its type.                                       *)
Began == [kind: Kinds, name: Names, vers: SUBSET Versions, had: SUBSET Versions,
          gone: BOOLEAN]
TypeOK ==
  /\ published \in [Names -> SUBSET Versions] /\ removed \subseteq Names
  /\ file \in {"absent", "whole", "torn", "unusable"} /\ disk \subseteq Entry
  /\ pc \in [Procs -> {"idle", "fetching", "saving", "writing", "gone"}]
  /\ warm \subseteq Procs /\ mem \in [Procs -> SUBSET Entry]
  /\ todo \in [Procs -> SUBSET Lookup]
  /\ job \in [Procs -> Began \cup {None}] /\ now \in 0..MaxTime

(* No answer about downloads or version times is older than its lifetime,  *)
(* whoever fetched it and however often other processes wrote it back.     *)
ServedFresh ==
  \A p \in Procs : last[p].outcome = "answered" /\ last[p].kind \in {"downloads", "times"}
    => last[p].age < TTL

(* A version the registry had published when the lookup began is never     *)
(* reported unknown.                                                       *)
NoPublishedVersionHidden ==
  \A p \in Procs : last[p].outcome = "answered" => last[p].hidden = {}

(* A name is reported to exist only if the registry had not taken it down  *)
(* when it was asked.                                                      *)
ExistenceIsCurrent ==
  \A p \in Procs : last[p].outcome = "answered" /\ last[p].kind = "exists"
    => ~last[p].gone

(* What the cache and its lookups answer is fresh, complete and current.   *)
AnswersAreCurrent == ServedFresh /\ NoPublishedVersionHidden /\ ExistenceIsCurrent

(* An unusable cache file costs a fetch, never the answer it brought.      *)
AnswersSurviveTheCache ==
  \A p \in Procs : last[p].outcome = "threw" => ~last[p].heard
=============================================================================
