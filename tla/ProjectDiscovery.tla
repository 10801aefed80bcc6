-------------------------- MODULE ProjectDiscovery --------------------------
(***************************************************************************)
(* Which manifests one scan reads, and which it only has to parse          *)
(* (git-source.ts, classifySide, loadState, settleParseFailures).  Every   *)
(* side is classified over its whole listing; a scan of a directory reads  *)
(* what is under it; a comparison side is loaded first, the judged side    *)
(* against it, and the parse failures of both are decided at the end.      *)
(*                                                                         *)
(* A tree has a status per file; members: what the workspace patterns of a *)
(* manifest cover, a symlinked directory included; refs: what the local    *)
(* specifiers of a manifest, or the link entries of an npm lockfile, name. *)
(* Nowhere stands for a target or a link that cannot be placed.            *)
(***************************************************************************)
EXTENDS Naturals, FiniteSets

CONSTANTS
  Npm, Python,   \* paths of package.json files, of pyproject.toml files
  NpmLocks, UvLocks,
  Dir,           \* Dir[f]: the directory of f; "" is the repository root
  Skipped,       \* manifests under a skipped directory name
  Vendored,      \* those under node_modules
  Prefix,        \* the files under the scanned directory
  Nowhere,
  Changes,       \* pairs: the comparison side's tree, the judged side's
  IgnoreSets     \* sets of paths ignorePaths can cover

Manifests == Npm \cup Python
Locks == NpmLocks \cup UvLocks
Files == Manifests \cup Locks

\* "shape": JSON that is no manifest; "v1": an npm lockfile with no packages map.
Statuses == {"absent", "ok", "bad", "shape", "v1", "link", "unreadable"}

ASSUME DiscoveryConstants ==
  /\ Vendored \subseteq Skipped /\ Skipped \subseteq Manifests /\ Prefix \subseteq Files
  /\ Locks \cap Manifests = {} /\ Npm \cap Python = {} /\ NpmLocks \cap UvLocks = {}
  /\ IsFiniteSet(Npm) /\ Nowhere \notin Files
  /\ \A m \in Vendored : Dir[m] # ""
  /\ \A t \in {c[1] : c \in Changes} \cup {c[2] : c \in Changes} :
       /\ t.status \in [Files -> Statuses]
       /\ t.members \in [Manifests -> SUBSET (Manifests \cup {Nowhere})]
       /\ t.refs \in [Npm \cup NpmLocks -> SUBSET (Npm \cup {Nowhere})]

VARIABLES tree, ignored, step, class

vars == <<tree, ignored, step, class>>

Sides == {"comparison", "judged"}

-----------------------------------------------------------------------------
(* Classification of one side. *)

Listed(t, files) == {f \in files : t.status[f] # "absent"}
LockDirs(t, locks) == {Dir[l] : l \in Listed(t, locks)}
UvRoots(t) == {m \in Listed(t, Python) \ Vendored : Dir[m] \in LockDirs(t, UvLocks)}

Inputs(t) == Listed(t, (Npm \ Vendored) \cup NpmLocks) \cup UvRoots(t)

(* What keeps an input from being read, or "none". *)
FailureKind(t, s, f) ==
  CASE t.status[f] = "link" -> "symlink"
    [] t.status[f] = "unreadable" -> "other"
    [] t.status[f] \in {"bad", "shape"} -> IF f \in NpmLocks THEN "other" ELSE "manifest"
    [] t.status[f] = "v1" /\ s = "judged" -> "other"
    [] OTHER -> "none"

Failing(t, s, files) == {f \in files : FailureKind(t, s, f) # "none"}

Parsed(t, files) == {f \in files : t.status[f] = "ok"}

(* Rules 2, 4 and uv's: the inputs whose member patterns count.  The       *)
(* workspaces field is read as JSON, from a manifest of the wrong shape too.*)
InstallRoots(t) ==
  {m \in Listed(t, Npm) \ Vendored :
     t.status[m] \in {"ok", "shape"} /\ (Dir[m] = "" \/ Dir[m] \in LockDirs(t, Locks))}
PromotingRoots(t) ==
  {m \in InstallRoots(t) : Dir[m] = "" \/ Dir[m] \in LockDirs(t, NpmLocks)}

Covered(t, roots) == Listed(t, (UNION {t.members[m] : m \in roots}) \ {Nowhere})

BesideLock(t, locks) == {m \in Listed(t, Manifests) \ Vendored : Dir[m] \in LockDirs(t, locks)}

(* A member walk that cannot finish, or a target that cannot be placed or  *)
(* names no listed manifest, stands in for every package.json.             *)
StandIn(t, members, refs) ==
  IF Nowhere \in members \/ ~ refs \subseteq Listed(t, Npm) THEN Listed(t, Npm) ELSE {}

Named(t, files) == UNION {t.refs[f] : f \in files}

(* The manifests that the specifiers and link entries of these files reach.*)
Targets(t, files) == Listed(t, Named(t, Parsed(t, files)) \ {Nowhere})

(* Rule 5: the targets of what these files name. *)
Follow(t, c, files) ==
  [c EXCEPT !.positions = @ \cup Targets(t, files),
            !.promoted = @ \cup Targets(t, files)
                           \cup StandIn(t, {}, Named(t, Parsed(t, files)))]

Rules(t, s) ==
  LET root == {m \in Npm : Dir[m] = ""}
      uv   == Parsed(t, UvRoots(t))
      promoted == root \cup Covered(t, PromotingRoots(t)) \cup BesideLock(t, NpmLocks)
      first == [positions |-> promoted \cup Covered(t, InstallRoots(t) \cup uv)
                                       \cup BesideLock(t, UvLocks),
                promoted  |-> promoted \cup StandIn(t, UNION {t.members[m] : m \in PromotingRoots(t)}, {}),
                failures  |-> Failing(t, s, Inputs(t)),
                followed  |-> {}]
  IN Follow(t, first, Inputs(t) \cap (Npm \cup NpmLocks))

(* The manifests under node_modules something named by now.                *)
Pending(t, c) == (Listed(t, Npm) \cap Vendored \cap c.promoted) \ c.followed

-----------------------------------------------------------------------------
(* Loading one side, for a scan of the files under P. *)

IsRoot(P) == P = Files

LookedAt(s, f) == f \notin Skipped \/ f \in class[s].positions

\* Mutant of Unread.
ManifestsOnly(s, P) ==
  LET c == class[s]
  IN {f \in c.failures \ P : FailureKind(tree[s], s, f) = "manifest" /\ LookedAt(s, f)
                              /\ (f \in c.positions \/ f \notin ignored)}

(* stoppingUnreadInputs: inputs outside P a scan of the root would stop on.*)
Unread(s, P) ==
  LET c == class[s]
      stopsRootScan(f) ==
        f \in c.positions \/ f \notin ignored
          \/ (s = "judged" /\ f \in class["comparison"].positions)
      kind(f) == FailureKind(tree[s], s, f)
  IN {f \in c.failures \ P :
        \/ kind(f) = "other"
        \/ kind(f) = "symlink" /\ s = "judged" /\ LookedAt(s, f)
        \/ kind(f) = "manifest" /\ LookedAt(s, f) /\ stopsRootScan(f)}

StandsIn(s, P) == ~IsRoot(P) /\ Unread(s, P) # {}

Selected(s, P) ==
  {m \in Listed(tree[s], Manifests) \cap P :
     m \notin Skipped \/ m \in class[s].promoted \/ (StandsIn(s, P) /\ m \notin Vendored)}

ReadFor(s, P) == Parsed(tree[s], Selected(s, P))

(* A project that is not read for names is still parsed.                   *)
ParseFailures(s, P) ==
  {m \in Selected(s, P) \cup (Listed(tree[s], Manifests) \cap P \cap class[s].positions) :
     tree[s].status[m] \in {"bad", "shape"}}

(* A read that throws, a symlink on the judged side, a lockfile that does  *)
(* not parse: loading ends there.                                          *)
LoadStoppers(s, P) ==
  {f \in Selected(s, P) \cup Listed(tree[s], NpmLocks \cap P) :
     \/ tree[s].status[f] = "unreadable"
     \/ tree[s].status[f] = "link" /\ s = "judged"
     \/ f \in NpmLocks /\ FailureKind(tree[s], s, f) = "other"}
  \cup {m \in Manifests \cap P \cap class[s].positions : tree[s].status[m] = "unreadable"}

Protected(s, P, m) == m \in class[s].positions \/ (StandsIn(s, P) /\ m \in P)

(* settleParseFailures. *)
Fatal(s, P) ==
  {m \in ParseFailures(s, P) :
     \/ Protected(s, P, m)
     \/ s = "judged" /\ Protected("comparison", P, m)
     \/ m \notin ignored}

Stoppers(s, P) == LoadStoppers(s, P) \cup Fatal(s, P)
Stops(P) == \E s \in Sides : Stoppers(s, P) # {}

-----------------------------------------------------------------------------
NoClass == [positions |-> {}, promoted |-> {}, failures |-> {}, followed |-> {}]

Init ==
  /\ \E c \in Changes : tree = [comparison |-> c[1], judged |-> c[2]]
  /\ ignored \in IgnoreSets
  /\ step = "comparison"
  /\ class = [s \in Sides |-> NoClass]

Classify(s) ==
  /\ step = s /\ class[s] = NoClass
  /\ class' = [class EXCEPT ![s] = Rules(tree[s], s)]
  /\ UNCHANGED <<tree, ignored, step>>

\* Mutant of FollowVendored.
OneRound(s) ==
  /\ step = s /\ class[s] # NoClass /\ class[s].followed = {}
  /\ Pending(tree[s], class[s]) # {}
  /\ LET t == tree[s]
         next == Pending(t, class[s])
         c == Follow(t, class[s], next)
     IN class' = [class EXCEPT ![s] = [c EXCEPT !.followed = Vendored,
                                                !.failures = @ \cup Failing(t, s, next)]]
  /\ UNCHANGED <<tree, ignored, step>>

(* One turn of the loop over node_modules manifests.                       *)
FollowVendored(s) ==
  /\ step = s /\ class[s] # NoClass
  /\ Pending(tree[s], class[s]) # {}
  /\ LET t == tree[s]
         next == Pending(t, class[s])
         c == Follow(t, class[s], next)
     IN class' = [class EXCEPT ![s] = [c EXCEPT !.followed = @ \cup next,
                                                !.failures = @ \cup Failing(t, s, next)]]
  /\ UNCHANGED <<tree, ignored, step>>

Loaded(s) ==
  /\ step = s /\ class[s] # NoClass
  /\ Pending(tree[s], class[s]) = {}
  /\ step' = IF s = "comparison" THEN "judged" ELSE "done"
  /\ UNCHANGED <<tree, ignored, class>>

Next ==
  \/ \E s \in Sides : Classify(s) \/ FollowVendored(s) \/ Loaded(s)
  \/ step = "done" /\ UNCHANGED vars

Spec == Init /\ [][Next]_vars
-----------------------------------------------------------------------------
(* Where chains of local specifiers start: outside node_modules, and at    *)
(* the workspace members, wherever those are.                              *)
Starting(t) ==
  Listed(t, (Npm \ Vendored) \cup NpmLocks) \cup (Npm \cap Covered(t, PromotingRoots(t)))

(* What a chain of placed local specifiers reaches from there: the closure,*)
(* stated without the rounds of the loop.                                  *)
Chained(t) ==
  LET close[k \in 0..Cardinality(Npm)] ==
        IF k = 0 THEN Targets(t, Starting(t)) ELSE close[k - 1] \cup Targets(t, close[k - 1])
  IN close[Cardinality(Npm)]

(* Every member, and the target of every such chain, is read whatever      *)
(* directory names are on its path, however many manifests of the chain    *)
(* are themselves under node_modules; what nothing names there is not read *)
(* (unless something could not be placed, which stands in for every        *)
(* package.json).                                                          *)
ReadIffNamed ==
  step = "done" =>
    \A s \in Sides :
      LET t == tree[s]
          read == ReadFor(s, Files)
          chained == Chained(t)
          named == chained \cup Covered(t, PromotingRoots(t))
          names == Named(t, Parsed(t, chained \cup Starting(t)))
          lost == ~ names \subseteq Listed(t, Npm) \/ Nowhere \in UNION {t.members[m] : m \in PromotingRoots(t)}
      IN /\ Parsed(t, named) \subseteq read
         /\ ~lost => read \cap Vendored \subseteq named

(* A scan of a directory is no weaker than a scan of the root: it reads    *)
(* what the root scan reads there, and when an input of the classification *)
(* outside it would have stopped the root scan and does not stop this one, *)
(* it reads every package.json under it outside node_modules; and every    *)
(* pyproject.toml too, unless that input is one nobody looked at, which    *)
(* the root scan reads only because something could not be placed.         *)
SubdirectoryNotWeaker ==
  step = "done" /\ ~Stops(Prefix) =>
    \A s \in Sides :
      LET missed == (class[s].failures \cap Stoppers(s, Files)) \ Prefix
          readsAll(files) == Parsed(tree[s], (files \cap Prefix) \ Vendored) \subseteq ReadFor(s, Prefix)
      IN /\ ~Stops(Files) => ReadFor(s, Files) \cap Prefix \subseteq ReadFor(s, Prefix)
         /\ missed # {} => readsAll(Npm)
         /\ (\E f \in missed : LookedAt(s, f)) => readsAll(Manifests)

(* "The classification inputs outside the scan prefix on one side that     *)
(* could not be read and that a scan of the repository root would have     *)
(* stopped on ... Each one raises classification-input-unread"             *)
(* (git-source.ts, stoppingUnreadInputs).                                  *)
RootStopIsSeen ==
  step = "done" /\ ~Stops(Prefix) =>
    \A s \in Sides : (class[s].failures \cap Stoppers(s, Files)) \ Prefix \subseteq Unread(s, Prefix)
=============================================================================
