------------------------- MODULE WrittenFilesProofs -------------------------
(* What the files dep-guard writes promise: the answers of the cache, for  *)
(* any number of processes, names and versions, any lifetime and any       *)
(* clock; and the hook "dep-guard init" installs, for any directories that *)
(* core.hooksPath may name and any number of events.                       *)
EXTENDS MCWrittenFiles, TLAPS

-----------------------------------------------------------------------------
(* The cache of online answers.                                            *)

(* A lookup on its way asked about versions the registry still has and a   *)
(* name that, if it was gone then, is gone now: what the registry answers  *)
(* later is no older than the question.                                    *)
Asked == \A p \in Procs : pc[p] = "fetching" =>
  /\ job[p] \in Began
  /\ job[p].had \subseteq published[job[p].name]
  /\ job[p].gone => job[p].name \in removed

(* The three parts of AnswersAreCurrent, said of one answer.               *)
Good(r) == r.outcome = "answered" =>
  /\ r.hidden = {}
  /\ r.kind \in {"downloads", "times"} => r.age < TTL
  /\ r.kind = "exists" => ~r.gone

AllGood == DOMAIN last = Procs /\ \A p \in Procs : Good(last[p])

CacheInv == TypeOK /\ Asked /\ AllGood

LEMMA GoodIsCurrent == AllGood => AnswersAreCurrent
BY DEF AllGood, Good, AnswersAreCurrent, ServedFresh, NoPublishedVersionHidden,
       ExistenceIsCurrent

(* The clock and the lifetime are numbers.                                 *)
LEMMA Numbers == ASSUME now \in 0..MaxTime PROVE
  now \in Int /\ TTL \in Int /\ 0 < TTL /\ now - now < TTL
BY TimeAssumption

(* Nothing but an answer has an outcome that could be wrong.               *)
LEMMA NoAnswerIsGood == ASSUME NEW l, NEW b PROVE
  Good(NoResult) /\ Good(Absent(l)) /\ Good(Threw(l, b))
BY DEF Good, NoResult, Absent, Threw

(* A hit is alive and carries the versions asked for; existence is never   *)
(* a hit.                                                                  *)
LEMMA HitIsGood ==
  ASSUME now \in 0..MaxTime, NEW l, NEW es \in SUBSET Entry,
         NEW e \in Hits(es, l), Cached(l)
  PROVE  Good(Answered(l, e))
<1>1. e \in Entry /\ e.kind = l.kind /\ Alive(e) /\ Carries(e, l)
  BY DEF Hits
<1>2. e.at \in Int /\ e.kind \in Kinds \ {"exists"} /\ l.kind # "exists"
  BY <1>1 DEF Entry, Cached
<1>3. l.kind \in {"downloads", "times"} => now - e.at < TTL
  BY <1>1, <1>2, Numbers DEF Alive
<1>4. l.kind = "times" => l.vers \subseteq e.vers
  BY <1>1 DEF Carries
<1> QED
  BY <1>2, <1>3, <1>4 DEF Good, Answered

(* An answer that has just been fetched.                                   *)
LEMMA FetchedIsGood ==
  ASSUME now \in 0..MaxTime, NEW l, NEW e, e.at = now,
         l.kind = "exists" => ~l.gone,
         l.kind = "times" => l.vers \cap l.had \subseteq e.vers
  PROVE  Good(Answered(l, e))
BY Numbers DEF Good, Answered

LEMMA CacheInit == Init => CacheInv
<1> SUFFICES ASSUME Init PROVE CacheInv
  OBVIOUS
<1> USE DEF Init
<1>1. TypeOK
  BY WorkAssumption, TimeAssumption, FileAssumption DEF TypeOK
<1>2. Asked
  BY DEF Asked
<1>3. AllGood
  BY NoAnswerIsGood DEF AllGood
<1> QED BY <1>1, <1>2, <1>3 DEF CacheInv
-----------------------------------------------------------------------------
(* One lemma per kind of step: a lookup begins, and the registry answers.  *)
LEMMA BeginInv == ASSUME CacheInv, NEW p \in Procs, Begin(p) PROVE CacheInv'
<1> DEFINE began(l) == [kind |-> l.kind, name |-> l.name, vers |-> l.vers,
                        had |-> published[l.name], gone |-> l.name \in removed]
           es(l) == Pruned(Loaded(p), l)
           hit(l) == IF Cached(l) THEN Hits(es(l), l) ELSE {}
<1> USE DEF CacheInv
<1>1. PICK l \in todo[p] :
        /\ pc[p] = "idle"
        /\ todo' = [todo EXCEPT ![p] = @ \ {l}]
        /\ IF Cached(l) THEN mem' = [mem EXCEPT ![p] = es(l)] /\ warm' = warm \cup {p}
                        ELSE UNCHANGED <<mem, warm>>
        /\ IF hit(l) = {}
           THEN /\ pc' = [pc EXCEPT ![p] = "fetching"]
                /\ job' = [job EXCEPT ![p] = began(l)]
                /\ UNCHANGED last
           ELSE \E e \in hit(l) :
                /\ last' = [last EXCEPT ![p] = Answered(began(l), e)]
                /\ pc' = [pc EXCEPT ![p] = IF l.kind = "downloads" THEN "saving" ELSE "idle"]
                /\ job' = [job EXCEPT ![p] = IF l.kind = "downloads" THEN began(l) ELSE None]
        /\ UNCHANGED <<published, removed, file, disk, now>>
  BY DEF Begin
<1> HIDE DEF es, hit
<1>2. l \in Lookup
  BY DEF TypeOK
<1>3. /\ began(l) \in Began /\ began(l).had \subseteq published[began(l).name]
      /\ began(l).gone => began(l).name \in removed
      /\ began(l).kind = l.kind /\ began(l).vers = l.vers
  <2>1. /\ l.kind \in Kinds /\ l.name \in Names /\ l.vers \in SUBSET Versions
        /\ published[l.name] \in SUBSET Versions
        /\ (l.name \in removed) \in BOOLEAN
    BY <1>2 DEF Lookup, TypeOK
  <2>2. began(l) \in Began
    BY <2>1 DEF Began
  <2> QED BY <2>2
<1> HIDE DEF began
<1>4. es(l) \in SUBSET Entry
  BY DEF es, Pruned, Loaded, TypeOK
<1>5. mem' \in [Procs -> SUBSET Entry] /\ warm' \subseteq Procs
      /\ todo' \in [Procs -> SUBSET Lookup]
  BY <1>1, <1>4 DEF TypeOK
<1>6. pc' \in [Procs -> {"idle", "fetching", "saving", "writing", "gone"}]
      /\ job' \in [Procs -> Began \cup {None}]
  BY <1>1, <1>3 DEF TypeOK
<1>7. TypeOK'
  BY <1>1, <1>5, <1>6 DEF TypeOK
<1>8. Asked'
  BY <1>1, <1>3 DEF Asked, TypeOK
<1>9. AllGood'
  <2>1. CASE hit(l) = {}
    BY <1>1, <2>1 DEF AllGood, Good
  <2>2. CASE hit(l) # {}
    <3>1. PICK e \in hit(l) : last' = [last EXCEPT ![p] = Answered(began(l), e)]
      BY <1>1, <2>2
    <3>2. Cached(l) /\ e \in Hits(es(l), l)
      BY DEF hit
    <3>3. e \in Hits(es(l), began(l)) /\ Cached(began(l))
      BY <3>2 DEF Hits, Carries, Cached, began
    <3>4. Good(Answered(began(l), e))
      BY <3>3, <1>4, HitIsGood DEF TypeOK
    <3> QED BY <3>1, <3>4, <1>1 DEF AllGood, Good
  <2> QED BY <2>1, <2>2
<1> QED BY <1>7, <1>8, <1>9

LEMMA FetchedInv == ASSUME CacheInv, NEW p \in Procs, Fetched(p) PROVE CacheInv'
<1> DEFINE l == job[p]
           e == [kind |-> l.kind, name |-> l.name, at |-> now,
                 vers |-> IF l.kind = "times" THEN published[l.name] ELSE {}]
<1> USE DEF CacheInv
<1>1. pc[p] = "fetching" /\ l \in Began /\ l.had \subseteq published[l.name]
      /\ (l.gone => l.name \in removed)
  BY DEF Fetched, Asked
<1>2. UNCHANGED <<published, removed, file, disk, warm, todo, now>>
  BY DEF Fetched
<1>3. CASE l.kind # "downloads" /\ l.name \in removed
  <2>1. /\ last' = [last EXCEPT ![p] = Absent(l)]
        /\ pc' = [pc EXCEPT ![p] = "idle"] /\ job' = [job EXCEPT ![p] = None]
        /\ mem' = mem
    BY <1>3 DEF Fetched
  <2>2. TypeOK'
    BY <2>1, <1>2 DEF TypeOK
  <2>3. Asked'
    BY <2>1, <1>2 DEF Asked, TypeOK
  <2>4. AllGood'
    BY <2>1, <1>2, NoAnswerIsGood DEF AllGood, Good
  <2> QED BY <2>2, <2>3, <2>4
<1>4. CASE ~(l.kind # "downloads" /\ l.name \in removed)
  <2>1. last' = [last EXCEPT ![p] = Answered(l, e)]
    BY <1>4 DEF Fetched
  <2>2. \/ Cached(l) /\ pc' = [pc EXCEPT ![p] = "saving"]
           /\ mem' = [mem EXCEPT ![p] = Put(@, e)] /\ job' = job
        \/ pc' = [pc EXCEPT ![p] = "idle"] /\ job' = [job EXCEPT ![p] = None]
           /\ mem' = mem
    BY <1>4 DEF Fetched
  <2>3. Cached(l) => e \in Entry
    BY <1>1 DEF Cached, Began, Entry, TypeOK
  <2>4. Cached(l) => Put(mem[p], e) \in SUBSET Entry
    BY <2>3 DEF Put, TypeOK
  <2>5. mem' \in [Procs -> SUBSET Entry]
    BY <2>2, <2>4 DEF TypeOK
  <2>6. TypeOK'
    BY <2>2, <2>5, <1>2 DEF TypeOK
  <2>7. Asked'
    BY <2>2, <1>2 DEF Asked, TypeOK
  <2>8. Good(Answered(l, e))
    <3>1. l.kind = "exists" => ~l.gone
      BY <1>1, <1>4
    <3>2. l.kind = "times" => l.vers \cap l.had \subseteq e.vers
      BY <1>1
    <3>3. e.at = now /\ now \in 0..MaxTime
      BY DEF TypeOK
    <3> HIDE DEF l, e
    <3> QED BY <3>1, <3>2, <3>3, FetchedIsGood
  <2>9. AllGood'
    BY <2>1, <2>8, <1>2 DEF AllGood, Good
  <2> QED BY <2>6, <2>7, <2>9
<1> QED BY <1>3, <1>4

LEMMA SavingInv ==
  ASSUME CacheInv, NEW p \in Procs,
         FetchFails(p) \/ Truncate(p) \/ SaveFails(p) \/ Write(p) \/ Exit(p) \/ Crash(p)
  PROVE  CacheInv'
<1> USE DEF CacheInv
<1>1. CASE FetchFails(p) \/ SaveFails(p)
  <2>1. /\ \E b \in BOOLEAN : last' = [last EXCEPT ![p] = Threw(job[p], b)]
        /\ pc' = [pc EXCEPT ![p] = "idle"] /\ job' = [job EXCEPT ![p] = None]
        /\ UNCHANGED <<published, removed, file, disk, warm, mem, todo, now>>
    BY <1>1 DEF FetchFails, SaveFails
  <2>2. TypeOK'
    BY <2>1 DEF TypeOK
  <2>3. Asked'
    BY <2>1 DEF Asked, TypeOK
  <2>4. AllGood'
    BY <2>1, NoAnswerIsGood DEF AllGood, Good
  <2> QED BY <2>2, <2>3, <2>4
<1>2. CASE Truncate(p)
  <2>1. TypeOK'
    BY <1>2 DEF Truncate, TypeOK
  <2>2. Asked' /\ AllGood'
    BY <1>2 DEF Truncate, Asked, AllGood, Good, TypeOK
  <2> QED BY <2>1, <2>2
<1>3. CASE Write(p)
  <2>1. TypeOK'
    BY <1>3 DEF Write, TypeOK
  <2>2. Asked' /\ AllGood'
    BY <1>3 DEF Write, Asked, AllGood, Good, TypeOK
  <2> QED BY <2>1, <2>2
<1>4. CASE Exit(p) \/ Crash(p)
  <2>1. TypeOK'
    BY <1>4 DEF Exit, Crash, TypeOK
  <2>2. Asked' /\ AllGood'
    BY <1>4 DEF Exit, Crash, Asked, AllGood, Good, TypeOK
  <2> QED BY <2>1, <2>2
<1> QED BY <1>1, <1>2, <1>3, <1>4

(* The registry publishes and takes down, never the other way round.       *)
LEMMA OutsideInv == ASSUME CacheInv, Publish \/ TakeDown \/ Tick \/ UNCHANGED vars PROVE CacheInv'
<1> USE DEF CacheInv
<1>1. CASE Publish
  <2>1. PICK n \in Names, v \in Versions : published' = [published EXCEPT ![n] = @ \cup {v}]
    BY <1>1 DEF Publish
  <2>2. /\ UNCHANGED <<removed, file, disk, pc, warm, mem, todo, job, last, now>>
        /\ \A m \in Names : published[m] \subseteq published'[m]
        /\ published' \in [Names -> SUBSET Versions]
    BY <1>1, <2>1 DEF Publish, TypeOK
  <2>3. TypeOK' /\ AllGood'
    BY <2>2 DEF TypeOK, AllGood, Good
  <2>4. Asked'
    BY <2>2 DEF Asked, Began
  <2> QED BY <2>3, <2>4
<1>2. CASE TakeDown
  <2>1. TypeOK' /\ AllGood'
    BY <1>2 DEF TakeDown, TypeOK, AllGood, Good
  <2>2. Asked'
    BY <1>2 DEF TakeDown, Asked
  <2> QED BY <2>1, <2>2
<1>3. CASE Tick
  <2>1. now' \in 0..MaxTime
    BY <1>3, TimeAssumption DEF Tick, TypeOK
  <2>2. TypeOK' /\ AllGood' /\ Asked'
    BY <1>3, <2>1 DEF Tick, TypeOK, AllGood, Good, Asked
  <2> QED BY <2>2
<1>4. CASE UNCHANGED vars
  BY <1>4 DEF vars, TypeOK, Asked, AllGood, Good
<1> QED BY <1>1, <1>2, <1>3, <1>4

LEMMA CacheNext == CacheInv /\ [Next]_vars => CacheInv'
<1> SUFFICES ASSUME CacheInv, [Next]_vars PROVE CacheInv'
  OBVIOUS
<1>1. ASSUME NEW p \in Procs, Step(p) \/ Crash(p) PROVE CacheInv'
  BY <1>1, BeginInv, FetchedInv, SavingInv DEF Step
<1> QED BY <1>1, OutsideInv DEF Next, Gone

(* Every answer served, from the cache or from the registry, is within its *)
(* lifetime, knows every version asked for that the registry had when it   *)
(* was asked, and never says of a name already taken down that it exists:  *)
(* cache.ts and the cached lookups of scan.ts, however many processes      *)
(* share the file, are killed or tear it.                                  *)
THEOREM CacheServesTheTruth == Spec => []AnswersAreCurrent
<1>1. CacheInv => AnswersAreCurrent
  BY GoodIsCurrent DEF CacheInv
<1> QED BY CacheInit, CacheNext, <1>1, PTL DEF Spec

-----------------------------------------------------------------------------
(* The hook of "dep-guard init".                                           *)

Contents == {"absent", "empty", "ours", "foreign", "unreadable", "dispatcher"}
Files == [Hook!Artifacts -> [content : Contents, exec : BOOLEAN]]
Plans == [manager : Hook!Managers, path : Hook!Artifacts \ {".husky/_"}, dir : Hook!HooksDirs]
\* The hooks init writes are never in husky's generated directory.
Tracked == Hook!HooksDirs \ {".husky/_"}

(* The file of a plan is the one that decides for every directory the plan *)
(* is about, and is a hook only when its manager's is to be executable.    *)
PlanFits(p) ==
  /\ \A d \in Hook!SpokenFor(p.manager, p.dir) : Hook!HookFileOf(d) = p.path
  /\ Hook!isExecutableHook(p.manager) \/ p.path \notin Tracked

(* No plan is ever for husky's generated directory, and what husky or an   *)
(* older version put there is executable.                                  *)
HookTyped ==
  /\ hooksPath \in Hook!HooksDirs
  /\ hookFile \in Files
  /\ plan = Hook!NoPlan \/ (plan \in Plans /\ PlanFits(plan))
  /\ written \in BOOLEAN /\ foreignNew \subseteq Hook!Artifacts
  /\ promised \subseteq Hook!HooksDirs
  /\ hookFile[".husky/_"].content \in {"dispatcher", "ours"} => hookFile[".husky/_"].exec

(* While init is at work nothing is promised of the file of its plan, and  *)
(* that is not someone else's, or ours once written, unless it changed     *)
(* meanwhile.                                                              *)
AtWork ==
  /\ written => plan # Hook!NoPlan
  /\ plan # Hook!NoPlan => \A d \in promised : Hook!HookFileOf(d) # plan.path
  /\ plan # Hook!NoPlan /\ plan.path \notin foreignNew =>
       IF written THEN hookFile[plan.path].content = "ours"
       ELSE hookFile[plan.path].content \notin {"foreign", "dispatcher"}

(* What is promised of a directory: the file that decides for it is ours.  *)
Promised == \A d \in promised : hookFile[Hook!HookFileOf(d)].content = "ours"

(* A hook of ours that git cannot execute is one an init is still at, or   *)
(* one that an init was cut off from.                                      *)
Modes == \A a \in Tracked :
  hookFile[a].content = "ours" /\ ~hookFile[a].exec => a \in cutOff \/ (written /\ plan.path = a)

HookInv == HookTyped /\ AtWork /\ Promised /\ Modes

LEMMA NoPlanIsNone == Hook!NoPlan \notin Plans
BY DEF Hook!NoPlan, Plans, Hook!Managers

LEMMA DirsAreArtifacts ==
  /\ Hook!HooksDirs \subseteq Hook!Artifacts /\ Tracked \subseteq Hook!Artifacts
  /\ ".husky" \in Hook!Artifacts /\ ".husky/_" \in Hook!Artifacts
  /\ ".husky" \in Tracked /\ ".husky/_" \in Hook!HooksDirs
BY DEF Hook!HooksDirs, Hook!Artifacts, Tracked

LEMMA DecidingIsTracked ==
  ASSUME NEW d \in Hook!HooksDirs
  PROVE  Hook!HookFileOf(d) \in Tracked /\ (d # ".husky/_" => Hook!HookFileOf(d) = d)
BY DirsAreArtifacts DEF Hook!HookFileOf, Tracked

(* One file is replaced, the rest stay.                                    *)
LEMMA OneFile ==
  ASSUME hookFile \in Files, NEW a \in Hook!Artifacts, NEW h \in [content : Contents, exec : BOOLEAN],
         hookFile' = [hookFile EXCEPT ![a] = h]
  PROVE  /\ hookFile' \in Files /\ hookFile'[a] = h
         /\ \A b \in Hook!Artifacts : b # a => hookFile'[b] = hookFile[b]
BY DEF Files

(* The redirect: the artifact of every manager is the file that decides    *)
(* for the directories its init is about, never the generated one.         *)
LEMMA ArtifactFits ==
  ASSUME hooksPath \in Hook!HooksDirs, NEW m \in Hook!Managers
  PROVE  LET p == [manager |-> m, path |-> Hook!hookArtifactFor(m), dir |-> hooksPath]
         IN p \in Plans /\ PlanFits(p)
<1>1. m \in {"native", "husky", "lefthook", "precommit"}
  BY DEF Hook!Managers
<1>2. /\ m = "native" => Hook!hookArtifactFor(m) = Hook!HookFileOf(hooksPath)
      /\ m = "husky" => Hook!hookArtifactFor(m) = ".husky"
      /\ m = "lefthook" => Hook!hookArtifactFor(m) = "lefthook-local.yml"
      /\ m = "precommit" => Hook!hookArtifactFor(m) = ".pre-commit-config.yaml"
  BY DEF Hook!hookArtifactFor, Hook!resolveNativeHookArtifact, Hook!isHuskyGeneratedHooksDir, Hook!HookFileOf
<1>3. Hook!HookFileOf(hooksPath) \in Hook!Artifacts \ {".husky/_"}
  BY DecidingIsTracked, DirsAreArtifacts DEF Tracked
<1>4. {"lefthook-local.yml", ".pre-commit-config.yaml"} \subseteq Hook!Artifacts \ Hook!HooksDirs
  BY CustomAssumption DEF Hook!Artifacts, Hook!HooksDirs
<1>5. Hook!hookArtifactFor(m) \in Hook!Artifacts \ {".husky/_"}
  BY <1>1, <1>2, <1>3, <1>4, DirsAreArtifacts
<1>6. Hook!isExecutableHook(m) \/ Hook!hookArtifactFor(m) \notin Tracked
  BY <1>1, <1>2, <1>4 DEF Hook!isExecutableHook, Tracked
<1>7. \A d \in Hook!SpokenFor(m, hooksPath) : Hook!HookFileOf(d) = Hook!hookArtifactFor(m)
  BY <1>1, <1>2 DEF Hook!SpokenFor, Hook!HookFileOf
<1> QED BY <1>5, <1>6, <1>7 DEF Plans, PlanFits

LEMMA SpokenForDirs ==
  ASSUME NEW m, NEW d \in Hook!HooksDirs PROVE Hook!SpokenFor(m, d) \subseteq Hook!HooksDirs
BY DEF Hook!SpokenFor, Hook!HooksDirs

LEMMA HookInit == Hook!Init => HookInv
<1> SUFFICES ASSUME Hook!Init PROVE HookInv
  OBVIOUS
<1>1. PICK g \in {"absent", "dispatcher", "ours"}, c \in {"absent", "empty", "ours", "foreign"} :
        hookFile = [a \in Hook!Artifacts |->
                 IF a = ".husky/_" THEN [content |-> g, exec |-> g /= "absent"]
                 ELSE IF a = Hook!resolveNativeHookArtifact(hooksPath) THEN [content |-> c, exec |-> c \in {"ours", "foreign"}]
                 ELSE [content |-> "absent", exec |-> FALSE]]
  BY DEF Hook!Init
<1>2. hookFile \in Files
  BY <1>1 DEF Contents, Files
<1>3. hookFile[".husky/_"].content \in {"dispatcher", "ours"} => hookFile[".husky/_"].exec
  BY <1>1, DirsAreArtifacts
<1>4. HookTyped
  <2>1. /\ hooksPath \in Hook!HooksDirs /\ plan = Hook!NoPlan /\ written = FALSE
        /\ foreignNew = {} /\ promised = {}
    BY DEF Hook!Init
  <2> QED BY <1>2, <1>3, <2>1 DEF HookTyped
<1>5. AtWork /\ Promised
  BY DEF Hook!Init, AtWork, Promised
<1>6. Modes
  BY <1>1, DirsAreArtifacts DEF Modes, Tracked
<1> QED BY <1>4, <1>5, <1>6 DEF HookInv
-----------------------------------------------------------------------------
(* planInit: nothing on disk changes; what it calls installed is ours, and *)
(* a plan is for a file that is not ours, so nothing is promised of it.    *)
LEMMA PlanInv == ASSUME HookInv, Hook!Plan PROVE HookInv'
<1>1. PICK m \in Hook!Managers : Hook!AlreadyInstalled(m) \/ Hook!Conflict(m) \/ Hook!PlanWrite(m)
  BY DEF Hook!Plan
<1>2. plan = Hook!NoPlan /\ UNCHANGED <<hooksPath, hookFile, written, cutOff>> /\ ~written
  BY DEF Hook!Plan, HookInv, AtWork
<1> DEFINE art == Hook!hookArtifactFor(m)
           p == [manager |-> m, path |-> art, dir |-> hooksPath]
<1>3. p \in Plans /\ PlanFits(p)
  BY ArtifactFits DEF HookInv, HookTyped
<1>4. /\ art \in Hook!Artifacts
      /\ \A d \in Hook!SpokenFor(m, hooksPath) : Hook!HookFileOf(d) = art
  BY <1>3 DEF Plans, PlanFits
<1>5. Modes'
  BY <1>2 DEF HookInv, Modes
<1> HIDE DEF art, p
<1>6. CASE Hook!AlreadyInstalled(m) \/ Hook!Conflict(m)
  <2>1. UNCHANGED <<plan, foreignNew>>
    BY <1>6 DEF Hook!AlreadyInstalled, Hook!Conflict
  <2>2. promised' = promised
        \/ (promised' = promised \union Hook!SpokenFor(m, hooksPath) /\ hookFile[art].content = "ours")
    BY <1>6 DEF Hook!AlreadyInstalled, Hook!Conflict, Hook!readIfExists, art
  <2>3. HookTyped'
    BY <1>2, <2>1, <2>2, SpokenForDirs DEF HookInv, HookTyped, PlanFits
  <2>4. AtWork' /\ Promised'
    BY <1>2, <1>4, <2>1, <2>2 DEF HookInv, AtWork, Promised
  <2> QED BY <1>5, <2>3, <2>4 DEF HookInv
<1>7. CASE Hook!PlanWrite(m)
  <2>1. plan' = p /\ foreignNew' = {} /\ promised' = promised
    BY <1>7 DEF Hook!PlanWrite, p, art
  <2>2. hookFile[art].content \notin {"foreign", "dispatcher", "ours"}
    BY <1>7 DEF Hook!PlanWrite, Hook!IsForeign, Hook!readIfExists, art
  <2>3. HookTyped'
    BY <1>2, <1>3, <2>1 DEF HookInv, HookTyped, PlanFits
  <2>4. p.path = art
    BY DEF p
  <2>5. AtWork' /\ Promised'
    BY <1>2, <2>1, <2>2, <2>4 DEF HookInv, AtWork, Promised
  <2> QED BY <1>5, <2>3, <2>5 DEF HookInv
<1> QED BY <1>1, <1>6, <1>7

\* What a running init may count on.
LEMMA Running ==
  ASSUME HookInv, plan # Hook!NoPlan
  PROVE  /\ plan \in Plans /\ PlanFits(plan)
         /\ plan.path \in Hook!Artifacts /\ plan.path # ".husky/_" /\ hookFile \in Files
         /\ \A d \in promised : Hook!HookFileOf(d) \in Hook!Artifacts /\ Hook!HookFileOf(d) # plan.path
<1>1. plan \in Plans /\ PlanFits(plan) /\ hookFile \in Files /\ promised \subseteq Hook!HooksDirs
      /\ \A d \in promised : Hook!HookFileOf(d) # plan.path
  BY DEF HookInv, HookTyped, AtWork
<1>2. \A d \in promised : Hook!HookFileOf(d) \in Hook!Artifacts
  BY <1>1, DecidingIsTracked, DirsAreArtifacts
<1> QED BY <1>1, <1>2 DEF Plans

LEMMA WriteInv == ASSUME HookInv, Hook!Write PROVE HookInv'
<1>1. /\ plan # Hook!NoPlan /\ ~written /\ written' /\ written' \in BOOLEAN
      /\ UNCHANGED <<hooksPath, plan, foreignNew, promised, cutOff>>
      /\ hookFile' = [hookFile EXCEPT ![plan.path].content = "ours"]
  BY DEF Hook!Write
<1> DEFINE h == [hookFile[plan.path] EXCEPT !.content = "ours"]
<1>2. h \in [content : Contents, exec : BOOLEAN] /\ h.content = "ours"
  BY <1>1, Running DEF Files, Contents
<1>3. hookFile' = [hookFile EXCEPT ![plan.path] = h]
  BY <1>1, Running DEF Files
<1> HIDE DEF h
<1>4. /\ hookFile' \in Files /\ hookFile'[plan.path].content = "ours"
      /\ \A b \in Hook!Artifacts : b # plan.path => hookFile'[b] = hookFile[b]
  BY <1>1, <1>2, <1>3, Running, OneFile
<1>5. HookTyped'
  BY <1>1, <1>4, Running, DirsAreArtifacts DEF HookInv, HookTyped, PlanFits
<1>6. AtWork' /\ Promised'
  BY <1>1, <1>4, Running DEF HookInv, AtWork, Promised
<1>7. Modes'
  BY <1>1, <1>4, Running, DirsAreArtifacts DEF HookInv, Modes
<1> QED BY <1>5, <1>6, <1>7 DEF HookInv

(* applyInit ends without a hook that is known to run.                     *)
LEMMA FailInv == ASSUME HookInv, Hook!WriteFails \/ Hook!ChmodFails \/ Hook!Crash PROVE HookInv'
<1>1. /\ plan # Hook!NoPlan
      /\ plan' = Hook!NoPlan /\ written' = FALSE /\ foreignNew' = {} /\ UNCHANGED <<hooksPath, promised>>
  BY DEF Hook!WriteFails, Hook!ChmodFails, Hook!Crash, Hook!Done, HookInv, AtWork
<1> DEFINE h == [hookFile[plan.path] EXCEPT !.content = "empty"]
<1>2. h \in [content : Contents, exec : BOOLEAN] /\ h.content = "empty"
  BY <1>1, Running DEF Files, Contents
<1>3. \/ hookFile' = hookFile
      \/ hookFile' = [hookFile EXCEPT ![plan.path] = h]
  BY <1>1, Running DEF Hook!WriteFails, Hook!ChmodFails, Hook!Crash, Files
<1> HIDE DEF h
<1>4. /\ hookFile' \in Files
      /\ \A b \in Hook!Artifacts : b # plan.path => hookFile'[b] = hookFile[b]
      /\ hookFile'[plan.path] = hookFile[plan.path] \/ hookFile'[plan.path].content = "empty"
  BY <1>1, <1>2, <1>3, Running, OneFile
<1>5. HookTyped'
  <2>1. hookFile'[".husky/_"] = hookFile[".husky/_"]
    BY <1>1, <1>4, Running, DirsAreArtifacts
  <2> QED BY <1>1, <1>4, <2>1 DEF HookInv, HookTyped
<1>6. AtWork' /\ Promised'
  BY <1>1, <1>4, Running DEF HookInv, AtWork, Promised
<1>7. Modes'
  <2>1. cutOff \subseteq cutOff'
        /\ (written /\ plan.path \in Tracked => plan.path \in cutOff')
    BY <1>1, Running DEF Hook!WriteFails, Hook!ChmodFails, Hook!Crash, PlanFits
  <2> QED BY <1>1, <1>4, <2>1, DirsAreArtifacts DEF HookInv, Modes
<1> QED BY <1>5, <1>6, <1>7 DEF HookInv

(* The promise is made: the file is ours, unless someone wrote another in  *)
(* the meantime, and a hook has just been made executable.                 *)
LEMMA FinishInv == ASSUME HookInv, Hook!Finish PROVE HookInv'
<1>1. /\ plan # Hook!NoPlan /\ written
      /\ plan' = Hook!NoPlan /\ written' = FALSE /\ foreignNew' = {} /\ UNCHANGED hooksPath
      /\ cutOff' = cutOff \ {plan.path}
  BY DEF Hook!Finish, Hook!Done, HookInv, AtWork
<1> DEFINE h == [hookFile[plan.path] EXCEPT !.exec = TRUE]
<1>2. h \in [content : Contents, exec : BOOLEAN] /\ h.exec /\ h.content = hookFile[plan.path].content
  BY <1>1, Running DEF Files, Contents
<1>3. /\ Hook!isExecutableHook(plan.manager) => hookFile' = [hookFile EXCEPT ![plan.path] = h]
      /\ ~Hook!isExecutableHook(plan.manager) => hookFile' = hookFile
  BY <1>1, Running DEF Hook!Finish, Files
<1> HIDE DEF h
<1>4. /\ hookFile' \in Files /\ hookFile'[plan.path].content = hookFile[plan.path].content
      /\ \A b \in Hook!Artifacts : b # plan.path => hookFile'[b] = hookFile[b]
      /\ Hook!isExecutableHook(plan.manager) => hookFile'[plan.path].exec
  BY <1>1, <1>2, <1>3, Running, OneFile
<1>5. promised' = promised
      \/ (plan.path \notin foreignNew /\ promised' = promised \union Hook!SpokenFor(plan.manager, plan.dir))
  BY DEF Hook!Finish
<1>6. HookTyped'
  <2>1. plan.dir \in Hook!HooksDirs
    BY <1>1, Running DEF Plans
  <2>2. promised' \subseteq Hook!HooksDirs
    BY <1>5, <2>1, SpokenForDirs DEF HookInv, HookTyped
  <2>3. hookFile'[".husky/_"] = hookFile[".husky/_"]
    BY <1>1, <1>4, Running, DirsAreArtifacts
  <2> QED BY <1>1, <1>4, <2>2, <2>3 DEF HookInv, HookTyped
<1>7. AtWork'
  BY <1>1 DEF AtWork
<1>8. Promised'
  <2>1. \A d \in promised : hookFile'[Hook!HookFileOf(d)].content = "ours"
    BY <1>1, <1>4, Running DEF HookInv, Promised
  <2>2. plan.path \notin foreignNew =>
          \A d \in Hook!SpokenFor(plan.manager, plan.dir) : hookFile'[Hook!HookFileOf(d)].content = "ours"
    BY <1>1, <1>4, Running DEF HookInv, AtWork, PlanFits
  <2> QED BY <1>5, <2>1, <2>2 DEF Promised
<1>9. Modes'
  BY <1>1, <1>4, Running, DirsAreArtifacts DEF HookInv, Modes, PlanFits
<1> QED BY <1>6, <1>7, <1>8, <1>9 DEF HookInv
-----------------------------------------------------------------------------
(* A file the developer edits is spoken for no longer.                     *)
LEMMA OthersInv == ASSUME HookInv, Hook!DeveloperEdits \/ Hook!ConfiguresHooksPath PROVE HookInv'
<1>1. CASE Hook!DeveloperEdits
  <2>1. PICK a \in Hook!Artifacts, c \in {"absent", "empty", "foreign", "unreadable"}, x \in BOOLEAN :
          /\ hookFile' = [hookFile EXCEPT ![a] = [content |-> c, exec |-> x]]
          /\ foreignNew' = IF plan = Hook!NoPlan THEN {} ELSE foreignNew \union {a}
          /\ promised' = {d \in promised : Hook!HookFileOf(d) /= a}
          /\ cutOff' = cutOff \ {a}
    BY <1>1 DEF Hook!DeveloperEdits
  <2>2. UNCHANGED <<hooksPath, plan, written>>
    BY <1>1 DEF Hook!DeveloperEdits
  <2> DEFINE h == [content |-> c, exec |-> x]
  <2>3. h \in [content : Contents, exec : BOOLEAN] /\ h.content = c /\ hookFile \in Files
        /\ hookFile' = [hookFile EXCEPT ![a] = h]
    BY <2>1 DEF Contents, HookInv, HookTyped
  <2> HIDE DEF h
  <2>4. /\ hookFile' \in Files /\ hookFile'[a].content = c
        /\ \A b \in Hook!Artifacts : b # a => hookFile'[b] = hookFile[b]
    BY <2>3, OneFile
  <2>5. HookTyped'
    BY <2>1, <2>2, <2>4, DirsAreArtifacts DEF HookInv, HookTyped, PlanFits
  <2>6. AtWork'
    BY <2>1, <2>2, <2>4, Running DEF HookInv, AtWork
  <2>7. Promised'
    BY <2>1, <2>4, DecidingIsTracked, DirsAreArtifacts DEF HookInv, HookTyped, Promised
  <2>8. Modes'
    BY <2>1, <2>2, <2>4, DirsAreArtifacts DEF HookInv, Modes
  <2> QED BY <2>5, <2>6, <2>7, <2>8 DEF HookInv
<1>2. CASE Hook!ConfiguresHooksPath
  BY <1>2 DEF Hook!ConfiguresHooksPath, HookInv, HookTyped, AtWork, Promised, Modes, PlanFits
<1> QED BY <1>1, <1>2

(* husky and git clean only touch the generated directory, where no plan   *)
(* is and which no promise is about: what was promised of it is promised   *)
(* of the tracked file.                                                    *)
LEMMA GeneratedInv == ASSUME HookInv, Hook!HuskyInstalls \/ Hook!GitCleans PROVE HookInv'
<1>1. PICK h \in {[content |-> "dispatcher", exec |-> TRUE], [content |-> "absent", exec |-> FALSE]} :
        hookFile' = [hookFile EXCEPT ![".husky/_"] = h]
  BY DEF Hook!HuskyInstalls, Hook!GitCleans
<1>2. /\ hookFile' \in Files /\ hookFile'[".husky/_"] = h
      /\ \A b \in Hook!Artifacts : b # ".husky/_" => hookFile'[b] = hookFile[b]
  <2>1. h \in [content : Contents, exec : BOOLEAN]
    <3>1. /\ [content |-> "dispatcher", exec |-> TRUE] \in [content : Contents, exec : BOOLEAN]
          /\ [content |-> "absent", exec |-> FALSE] \in [content : Contents, exec : BOOLEAN]
      BY DEF Contents
    <3> QED BY <1>1, <3>1
  <2>2. hookFile \in Files
    BY DEF HookInv, HookTyped
  <2> QED BY <1>1, <2>1, <2>2, OneFile, DirsAreArtifacts
<1>3. /\ hooksPath' \in Hook!HooksDirs /\ UNCHANGED <<plan, written, promised, cutOff>>
      /\ foreignNew \subseteq foreignNew' \/ plan = Hook!NoPlan
      /\ foreignNew' \subseteq Hook!Artifacts
  <2>1. CASE Hook!HuskyInstalls
    BY <2>1, DirsAreArtifacts DEF Hook!HuskyInstalls, HookInv, HookTyped
  <2>2. CASE Hook!GitCleans
    BY <2>2 DEF Hook!GitCleans, HookInv, HookTyped
  <2> QED BY <2>1, <2>2
<1>4. HookTyped'
  BY <1>1, <1>2, <1>3 DEF HookInv, HookTyped, PlanFits
<1>5. AtWork'
  BY <1>2, <1>3, Running DEF HookInv, AtWork
<1>6. Promised'
  <2>1. \A d \in promised : Hook!HookFileOf(d) \in Hook!Artifacts /\ Hook!HookFileOf(d) # ".husky/_"
    BY DecidingIsTracked, DirsAreArtifacts DEF HookInv, HookTyped, Tracked
  <2> QED BY <1>2, <1>3, <2>1 DEF HookInv, Promised
<1>7. Modes'
  BY <1>2, <1>3, DirsAreArtifacts DEF HookInv, Modes, Tracked
<1> QED BY <1>4, <1>5, <1>6, <1>7 DEF HookInv

LEMMA HookNext == HookInv /\ [Hook!Next]_Hook!vars => HookInv'
<1> SUFFICES ASSUME HookInv, [Hook!Next]_Hook!vars PROVE HookInv'
  OBVIOUS
<1>1. CASE UNCHANGED Hook!vars
  BY <1>1 DEF Hook!vars, HookInv, HookTyped, AtWork, Promised, Modes, PlanFits
<1> QED BY <1>1, PlanInv, WriteInv, FailInv, FinishInv, OthersInv, GeneratedInv DEF Hook!Next
-----------------------------------------------------------------------------
(* Git's own directory: the hook there is ours, and executable but for the *)
(* cut-off ones, since no init is at a file something is promised of.      *)
LEMMA PromiseIsKept == HookInv => Hook!InstalledGateRuns
<1> SUFFICES ASSUME HookInv, Hook!GateIsPromised, hooksPath \notin cutOff PROVE Hook!GitRunsTheGate
  BY DEF Hook!InstalledGateRuns
<1>1. hooksPath \in promised /\ hooksPath \in Hook!HooksDirs /\ hookFile \in Files
      /\ hookFile[Hook!HookFileOf(hooksPath)].content = "ours"
  BY DEF Hook!GateIsPromised, HookInv, HookTyped, Promised
<1>2. CASE hooksPath = ".husky/_"
  <2>1. hookFile[".husky"].content = "ours" /\ hookFile[".husky/_"].exec
        /\ hookFile[".husky/_"].content \in {"dispatcher", "ours"}
    BY <1>1, <1>2 DEF Hook!GateIsPromised, HookInv, HookTyped, Hook!HookFileOf
  <2>2. CASE hookFile[".husky/_"].content = "dispatcher"
    <3>1. hookFile[".husky/_"] = [content |-> "dispatcher", exec |-> TRUE]
      BY <1>1, <2>1, <2>2, DirsAreArtifacts DEF Files
    <3> QED BY <1>2, <2>1, <3>1 DEF Hook!GitRunsTheGate
  <2> QED BY <1>2, <2>1, <2>2 DEF Hook!GitRunsTheGate, Hook!Runs
<1>3. CASE hooksPath # ".husky/_"
  <2>1. hooksPath \in Tracked /\ Hook!HookFileOf(hooksPath) = hooksPath
    BY <1>1, <1>3, DecidingIsTracked
  <2>2. ~(written /\ plan.path = hooksPath)
    BY <1>1, <2>1 DEF HookInv, AtWork
  <2> QED BY <1>1, <2>1, <2>2 DEF HookInv, Modes, Hook!GitRunsTheGate, Hook!Runs
<1> QED BY <1>2, <1>3

(* Only Write makes a file ours.                                           *)
LEMMA StepKeepsForeign == HookInv /\ [Hook!Next]_Hook!vars => [Hook!NothingForeignLost]_Hook!vars
<1> SUFFICES ASSUME HookInv, Hook!Next,
                    NEW a \in Hook!Artifacts, hookFile[a].content \in {"foreign", "dispatcher"},
                    hookFile'[a].content = "ours"
             PROVE  a \in foreignNew
  BY DEF Hook!NothingForeignLost
<1>1. CASE Hook!Write
  <2>1. plan # Hook!NoPlan /\ ~written /\ hookFile' = [hookFile EXCEPT ![plan.path].content = "ours"]
    BY <1>1 DEF Hook!Write
  <2>2. plan.path \in Hook!Artifacts
    BY <2>1, Running
  <2>3. a = plan.path
    BY <2>1, <2>2, Running DEF Files
  <2> QED BY <2>1, <2>2, <2>3 DEF HookInv, AtWork
<1>2. CASE Hook!Plan \/ Hook!ChmodFails \/ Hook!Crash \/ Hook!ConfiguresHooksPath
  BY <1>2 DEF Hook!Plan, Hook!ChmodFails, Hook!Crash, Hook!ConfiguresHooksPath
<1>3. CASE Hook!WriteFails \/ Hook!Finish
  <2>1. plan.path \in Hook!Artifacts
    BY <1>3, Running DEF Hook!WriteFails, Hook!Finish, HookInv, AtWork
  <2>2. \/ hookFile' = hookFile
        \/ hookFile' = [hookFile EXCEPT ![plan.path].content = "empty"]
        \/ hookFile' = [hookFile EXCEPT ![plan.path].exec = TRUE]
    BY <1>3 DEF Hook!WriteFails, Hook!Finish
  <2> QED BY <2>1, <2>2 DEF HookInv, HookTyped, Files
<1>4. CASE Hook!DeveloperEdits
  <2>1. PICK b \in Hook!Artifacts, c \in {"absent", "empty", "foreign", "unreadable"}, x \in BOOLEAN :
          hookFile' = [hookFile EXCEPT ![b] = [content |-> c, exec |-> x]]
    BY <1>4 DEF Hook!DeveloperEdits
  <2> QED BY <2>1 DEF HookInv, HookTyped, Files
<1>5. CASE Hook!HuskyInstalls \/ Hook!GitCleans
  <2>1. PICK h \in {[content |-> "dispatcher", exec |-> TRUE], [content |-> "absent", exec |-> FALSE]} :
          hookFile' = [hookFile EXCEPT ![".husky/_"] = h]
    BY <1>5 DEF Hook!HuskyInstalls, Hook!GitCleans
  <2> QED BY <2>1, DirsAreArtifacts DEF HookInv, HookTyped, Files
<1> QED BY <1>1, <1>2, <1>3, <1>4, <1>5 DEF Hook!Next

-----------------------------------------------------------------------------
(* As the two are run together: a step of the cache leaves the hook alone. *)
Kept == subject = "hook" => HookInv

LEMMA KeptInit == MCInit => Kept
BY HookInit DEF MCInit, Kept

LEMMA KeptNext == Kept /\ [MCNext]_<<subject, vars, hookVars>> => Kept'
<1> SUFFICES ASSUME Kept, [MCNext]_<<subject, vars, hookVars>> PROVE Kept'
  OBVIOUS
<1>1. UNCHANGED subject /\ (subject = "hook" => [Hook!Next]_(Hook!vars))
  BY DEF MCNext, CacheStep, HookStep, hookVars, Hook!vars
<1> QED BY <1>1, HookNext DEF Kept

(* For every hooks directory an init has called gated, in any order of     *)
(* later inits, failures, husky installs, git cleans and changes of        *)
(* core.hooksPath: when git reads that directory it runs the gate, unless  *)
(* an init wrote the hook and did not live to make it executable           *)
(* (init.ts:253-287, 509-514).                                             *)
THEOREM InstalledHookRuns == MCSpec => []InstalledGateRuns
<1>1. Kept => InstalledGateRuns
  BY PromiseIsKept DEF Kept, InstalledGateRuns
<1> QED BY KeptInit, KeptNext, <1>1, PTL DEF MCSpec

(* No hook of someone else's is overwritten but one that came after the    *)
(* plan was made, or that init could not read (init.ts:401-403).           *)
THEOREM ForeignHooksStay == MCSpec => ForeignIsKept
<1>1. Kept /\ [MCNext]_<<subject, vars, hookVars>>
        => [subject = "hook" => Hook!NothingForeignLost]_hookVars
  <2> SUFFICES ASSUME Kept, [MCNext]_<<subject, vars, hookVars>>, subject = "hook",
                      hookVars' # hookVars
               PROVE  Hook!NothingForeignLost
    OBVIOUS
  <2>1. Hook!Next
    BY DEF MCNext, CacheStep, HookStep
  <2>2. ~UNCHANGED Hook!vars
    BY DEF hookVars, Hook!vars
  <2> QED BY <2>1, <2>2, StepKeepsForeign DEF Kept
<1> QED BY KeptInit, KeptNext, <1>1, PTL DEF MCSpec, ForeignIsKept
=============================================================================
