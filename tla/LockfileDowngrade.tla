------------------------- MODULE LockfileDowngrade -------------------------
(***************************************************************************)
(* The lockfile downgrade rule of delta.ts over the life of a base branch: *)
(* pull requests are opened from the tip or from an older commit, judged   *)
(* against the --base side and against the trust base, and merged only     *)
(* when the rule does not refuse them.  acknowledgedLockfiles is read from *)
(* the trust base, never from the change itself.                           *)
(*                                                                         *)
(* A tree has a lockfile content per path <<directory, name>> and, per     *)
(* directory, whether there is a manifest and whether it declares a        *)
(* dependency a lockfile would record.  A content says what the readers    *)
(* make of it: see ContentOK.                                              *)
(***************************************************************************)
EXTENDS Naturals, FiniteSets

CONSTANTS
  Dirs, Root,    \* directories, and the repository root among them
  Up,            \* Up[d]: the parent directory of d, for d # Root
  Paths,         \* lockfile paths: pairs <<directory, name>>
  Rank,          \* Rank[p]: place of the name in LOCKFILE_CANDIDATES
  NpmNames,      \* the names the npm reader takes
  Options,       \* Options[p]: the contents p can have besides Absent
  ManifestKinds, \* ManifestKinds[d]: what a change can make of d's manifest
  Absent, None,
  FirstTree,     \* the tree the history starts from
  MaxEdits,      \* paths one pull request changes
  MaxMerges,     \* pull requests that are merged
  MaxAcks        \* entries acknowledgedLockfiles can hold

(* read: isReadLockfile; entries: it has at least one; loads: the scan     *)
(* builds a record of it at all (not a symlink or a device, whose blob is  *)
(* None); skipped: the text of its YAML documents that are not read.       *)
ContentOK(c) ==
  /\ c.read \in BOOLEAN /\ c.entries \in BOOLEAN /\ c.loads \in BOOLEAN
  /\ c.entries => c.read
  /\ c.read => c.loads
  /\ c.loads => c.blob # None

Contents(p) == Options[p] \cup {Absent}
Manifests == {"none", "bare", "declares"}
Tree == {t \in [lock: [Paths -> UNION {Contents(p) : p \in Paths}], manifest: [Dirs -> Manifests]] :
           \A p \in Paths : t.lock[p] \in Contents(p)}

(* What the constants are; whoever instantiates the module assumes it.  A  *)
(* blob id says what the file holds, and so what the readers make of it.   *)
DowngradeConstants ==
  /\ Root \in Dirs
  /\ \A d \in Dirs \ {Root} : Up[d] \in Dirs
  /\ \A p \in Paths : \A c \in Options[p] : ContentOK(c)
  /\ \A p \in Paths : \A c, d \in Options[p] : c.blob # None /\ c.blob = d.blob => c = d
  /\ \A d \in Dirs : ManifestKinds[d] \subseteq Manifests
  /\ FirstTree \in Tree

VARIABLES
  base,     \* the tip of the base branch: its tree and its acknowledgements
  older,    \* a commit of the base branch a stale pull request starts from
  pr,       \* the open pull request, or None
  vouched,  \* <<path, content>> unread when nothing was read beside them,
            \* or acknowledged (history)
  owed,     \* directories whose coverage nothing has excused (history)
  merges    \* pull requests merged so far (the bound)

vars == <<base, older, pr, vouched, owed, merges>>

-----------------------------------------------------------------------------
Present(t) == {p \in Paths : t.lock[p] # Absent}
ReadOn(t)  == {p \in Present(t) : t.lock[p].read}
Unread(t)  == Present(t) \ ReadOn(t)
BlobId(t, p) == IF p \in Present(t) THEN t.lock[p].blob ELSE None
DirOf(p) == p[1]

CoveringLockfiles(t) == {p \in ReadOn(t) : t.lock[p].entries}
CoveringDirs(t) == {DirOf(p) : p \in CoveringLockfiles(t)}

Above[d \in Dirs] == IF d = Root THEN {Root} ELSE {d} \cup Above[Up[d]]

NearestCoveringDir(d, dirs) ==
  IF Above[d] \cap dirs = {} THEN None
  ELSE CHOOSE c \in Above[d] \cap dirs : \A e \in Above[d] \cap dirs : e \in Above[c]

(* changedUnreadLockfiles: an unread file beside a read one, unless the    *)
(* same path was unread there before with the same known blob.             *)
\* Mutant of ChangedUnread.
NewPathsOnly(before, after, dirs) == {p \in Unread(after) : DirOf(p) \in dirs /\ p \notin Unread(before)}

ChangedUnread(before, after, dirs) ==
  {p \in Unread(after) :
     /\ DirOf(p) \in dirs
     /\ \/ p \notin Unread(before)
        \/ BlobId(after, p) = None
        \/ BlobId(before, p) # BlobId(after, p)}

Skipped(t, p) == IF p \in Present(t) THEN t.lock[p].skipped ELSE None

ChangedSkippedDocuments(before, after) ==
  {p \in Present(after) : Skipped(before, p) # Skipped(after, p)}

(* Every npm file that is not read, when the other side reads an npm file  *)
(* anywhere: the code asks neither where it is nor whether it changed.     *)
NpmNoLongerRead(before, after) ==
  IF \E p \in ReadOn(before) : p[2] \in NpmNames
  THEN {p \in Unread(after) : p[2] \in NpmNames /\ after.lock[p].loads} ELSE {}

UnreadChanged(before, after) ==
  NpmNoLongerRead(before, after)
  \cup ChangedUnread(before, after, CoveringDirs(before))
  \cup {p \in ChangedSkippedDocuments(before, after) : DirOf(p) \in CoveringDirs(before)}

(* Directories that covered a manifest and hold no read lockfile with      *)
(* entries any more.  One declared dependency among those manifests makes  *)
(* it a loss, and then the directories of all of them count.               *)
Uncovered(before, after, manifests) ==
  {NearestCoveringDir(d, CoveringDirs(before)) : d \in {e \in Dirs : after.manifest[e] \in manifests}}
    \ (CoveringDirs(after) \cup {None})
LostDirs(before, after) ==
  IF Uncovered(before, after, {"declares"}) = {} THEN {}
  ELSE Uncovered(before, after, {"bare", "declares"})

(* An acknowledgement is a path with a blob id; None stands for bytes that *)
(* cannot be named.                                                        *)
Entry(t, p) == IF BlobId(t, p) = None THEN None ELSE <<p, BlobId(t, p)>>

RequiredFor(before, after, d) ==
  LET head == {p \in Present(after) : DirOf(p) = d}
  IN IF head # {} THEN {Entry(after, p) : p \in head}
     ELSE {Entry(before, p) : p \in {q \in CoveringLockfiles(before) : DirOf(q) = d}}

Required(before, after) ==
  UNION {RequiredFor(before, after, d) : d \in LostDirs(before, after)}

(* The acknowledgements the message of a refusal asks for. *)
Needed(before, after, acks) ==
  ({Entry(after, p) : p \in UnreadChanged(before, after)} \cup Required(before, after)) \ acks

Refused(before, after, acks) ==
  \/ ~ {Entry(after, p) : p \in UnreadChanged(before, after)} \subseteq acks
  \/ LostDirs(before, after) # {} /\ ~ (Required(before, after) \subseteq acks)

\* Mutant of RefusedByAny.
NothingPrinted(sides, after, acks) ==
  \E s \in sides : UnreadChanged(s, after) # {} \/ LostDirs(s, after) # {}

RefusedByAny(sides, after, acks) == \E s \in sides : Refused(s, after, acks)

-----------------------------------------------------------------------------
(* What a scan that is not refused says about unread files. *)

Loaded(t) == {p \in Present(t) : t.lock[p].loads}

(* The primary lockfile: the first read one, else the first present.       *)
Before(p, q) == \/ DirOf(p) = Root /\ DirOf(q) # Root
                \/ DirOf(p) = DirOf(q) /\ Rank[p] <= Rank[q]
Primary(t) ==
  LET from == IF ReadOn(t) # {} THEN ReadOn(t) ELSE Loaded(t)
  IN IF from = {} THEN None ELSE CHOOSE p \in from : \A q \in from : Before(p, q)

LockfileNotRead(t) == {p \in Unread(t) : DirOf(p) # Root \/ Primary(t) = None}
UnreadSibling(t) == IF ReadOn(t) = {} THEN {} ELSE {p \in Unread(t) : DirOf(p) = Root}
OwnDiagnostics(t) ==
  {p \in Unread(t) : p = Primary(t) \/ (p[2] \in NpmNames /\ t.lock[p].loads)}
NestedChanged(before, after) ==
  {p \in Unread(after) : /\ DirOf(p) # Root
                         /\ \/ BlobId(after, p) = None
                            \/ BlobId(before, p) # BlobId(after, p)}

Named(before, after) ==
  LockfileNotRead(after) \cup UnreadSibling(after) \cup OwnDiagnostics(after)
  \cup NestedChanged(before, after)

-----------------------------------------------------------------------------
Sides(p) == {p.from, base.tree}

AcksOf(t) == {Entry(t, p) : p \in Present(t)} \ {None}

Init ==
  /\ base = [tree |-> FirstTree, acks |-> {}]
  /\ older = FirstTree
  /\ pr = None
  /\ vouched = {<<p, FirstTree.lock[p]>> : p \in Unread(FirstTree)}
  /\ owed = CoveringDirs(FirstTree)
  /\ merges = 0

(* A change of lockfiles, of what the manifests declare, or both. *)
Changed(t, paths, contents, manifests) ==
  [t EXCEPT !.lock = [p \in Paths |-> IF p \in paths THEN contents[p] ELSE t.lock[p]],
            !.manifest = manifests]

Open ==
  /\ pr = None
  /\ \E from \in {base.tree, older} :
     \E paths \in {S \in SUBSET Paths : Cardinality(S) <= MaxEdits} :
     \E contents \in [paths -> (UNION {Options[p] : p \in paths}) \cup {Absent}] :
     \E d \in Dirs : \E m \in ManifestKinds[d] \cup {from.manifest[d]} :
       /\ \A p \in paths : contents[p] \in Options[p] \cup {Absent}
       /\ pr' = [from |-> from,
                 head |-> Changed(from, paths, contents, [from.manifest EXCEPT ![d] = m])]
  /\ UNCHANGED <<base, older, vouched, owed, merges>>

(* A maintainer lands acknowledgements in a change of their own: entries   *)
(* of the open pull request's lockfiles, or of the base branch's.          *)
Acknowledge ==
  /\ pr # None
  /\ \E e \in AcksOf(pr.head) \cup AcksOf(base.tree) :
       /\ Cardinality(base.acks \cup {e}) <= MaxAcks
       /\ base' = [base EXCEPT !.acks = @ \cup {e}]
  /\ UNCHANGED <<older, pr, vouched, owed, merges>>

Close == pr # None /\ pr' = None /\ UNCHANGED <<base, older, vouched, owed, merges>>

Merge ==
  /\ pr # None /\ merges < MaxMerges
  /\ ~RefusedByAny(Sides(pr), pr.head, base.acks)
  /\ merges' = merges + 1
  /\ LET covered == CoveringDirs(base.tree)
         lost == LostDirs(base.tree, pr.head)
     IN /\ vouched' = vouched
             \cup {<<p, pr.head.lock[p]>> : p \in {q \in Unread(pr.head) :
                     DirOf(q) \notin covered \/ Entry(pr.head, q) \in base.acks}}
        /\ owed' = (owed \cup CoveringDirs(pr.head))
             \ {d \in covered \ CoveringDirs(pr.head) :
                  d \notin lost \/ RequiredFor(base.tree, pr.head, d) \subseteq base.acks}
  /\ older' = base.tree
  /\ base' = [base EXCEPT !.tree = pr.head]
  /\ pr' = None

Next == Open \/ Acknowledge \/ Close \/ Merge

Spec == Init /\ [][Next]_vars

-----------------------------------------------------------------------------
(* Over any sequence of merged changes, unread bytes beside a lockfile     *)
(* that is read were there before anything was read in that directory, or  *)
(* somebody acknowledged exactly them: no order of small changes, and no   *)
(* stale branch, brings others in (delta.ts, refuseLockfileDowngrade).     *)
UnreadBytesAreVouched ==
  \A p \in Unread(base.tree) :
    DirOf(p) \in CoveringDirs(base.tree) => <<p, base.tree.lock[p]>> \in vouched

(* A directory that had coverage keeps it for as long as a manifest it is  *)
(* the nearest for declares dependencies, unless the bytes that replace it *)
(* or that were removed were acknowledged.                                 *)
OwedCoverageIsKept == owed \subseteq CoveringDirs(base.tree)

(* What lockfiles no longer tell is known to have been looked at.          *)
CoverageIsVouched == UnreadBytesAreVouched /\ OwedCoverageIsKept

(* The remedy a refusal prints works: once the entries it asks for, on     *)
(* each side, are acknowledged, the same change is let through.            *)
RemedyWorks ==
  pr # None =>
    LET needed == UNION {Needed(s, pr.head, base.acks) : s \in Sides(pr)}
    IN None \notin needed => ~RefusedByAny(Sides(pr), pr.head, base.acks \cup needed)

(* "A lockfile this tool does not read (yarn, bun, a v1 npm file) below    *)
(* the root is still not judged" (docs/INVARIANTS.md): a change that       *)
(* touches no lockfile and no manifest is never refused.                   *)
NoChangeIsNeverRefused ==
  pr # None /\ pr.head = pr.from /\ pr.from = base.tree =>
    ~RefusedByAny(Sides(pr), pr.head, base.acks)

(* "lockfile-not-read names every lockfile this tool does not read"        *)
(* (docs/INVARIANTS.md); here the name may come from any diagnostic.       *)
EveryUnreadIsNamed ==
  pr # None /\ ~RefusedByAny(Sides(pr), pr.head, base.acks) =>
    \A p \in Unread(pr.head) : p \in Named(pr.from, pr.head)
=============================================================================
