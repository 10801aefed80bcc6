-------------------------- MODULE WorkspacePatterns --------------------------
(***************************************************************************)
(* Which directories a list of workspace patterns names, decided in two    *)
(* ways that git-source.ts needs to agree: by walking the tree of one side *)
(* (discoverWorkspaceDirs, expandPattern), which is how members are read,  *)
(* and by matching a path against the patterns (workspaceCoverage,         *)
(* workspacePatternsReachBelow), which is how projects are classified,     *)
(* links confirmed and unfollowed links refused.  A path is a sequence of  *)
(* names and a pattern a sequence of segments, both by their text.         *)
(***************************************************************************)
EXTENDS Naturals, Sequences, FiniteSets, SequencesExt

CONSTANTS
  Segments,         \* texts of pattern segments, the names of directories among them
  Sees,             \* matchWildcard: which segment text matches which text
  Hidden,           \* texts that start with a dot
  Unexpandable,     \* texts with glob syntax beyond "*" and "**"
  Fold,             \* lower case of a text
  Patterns,         \* raw patterns: an odd run of "!" negates
  MaxPatterns,
  Dirs,             \* real directories of the tree, by path
  Links,            \* symlinks of the working tree, each with the directory it leads to
  Orders,           \* orders in which a listing may give names
  MaxDepth          \* MAX_WORKSPACE_PATTERN_DEPTH

NodeModules == "node_modules"

(* What the constants are; whoever instantiates the module assumes it.     *)
WorkspacePatternsConstants ==
  /\ Hidden \subseteq Segments /\ Unexpandable \subseteq Segments
  /\ Fold \in [Segments -> Segments]
  /\ Sees \subseteq Segments \X Segments
  /\ \A p \in Patterns : p.negated \in BOOLEAN /\ p.segments \in Seq(Segments)
  /\ \A s, t \in Segments : <<s, t>> \in Sees => <<Fold[s], Fold[t]>> \in Sees
  /\ \A s \in Segments : <<s, s>> \in Sees
  /\ Dirs \subseteq Seq(Segments) /\ <<>> \in Dirs
  /\ \A d \in Dirs : d # <<>> => Front(d) \in Dirs
  /\ DOMAIN Links \cap Dirs = {} /\ \A l \in DOMAIN Links : Links[l] \in Dirs
  /\ \A o \in Orders : o \in Seq(Segments) /\ \A d \in Dirs : ToSet(d) \subseteq ToSet(o)

VARIABLES
  side,        \* "tree" follows links, "git" and "git-folded" have none
  judged,      \* FALSE on a comparison side, which is always a git side
  stage,
  patterns,    \* one list as written
  order,
  todo,        \* positive patterns left to resolve
  stack,       \* the walk of expandPattern: places left, the next one last
  visited,     \* real directories a "**" has walked, by pattern position
  results,     \* paths the pattern being walked names
  found,       \* paths the patterns before it named
  unread       \* some pattern could not be expanded

list == <<side, judged, patterns, order>>
vars == <<list, stage, todo, stack, visited, results, found, unread>>

-----------------------------------------------------------------------------
(* The entries of a list that are in S, in order.                          *)
Among(s, S) ==
  LET at == {i \in DOMAIN s : s[i] \in S}
  IN  [k \in 1..Cardinality(at) |-> s[CHOOSE i \in at : Cardinality({j \in at : j <= i}) = k]]

(* Matching.                                                               *)
SegmentMatches(segment, name) ==
  (name \in Hidden => segment \in Hidden) /\ <<segment, name>> \in Sees

Advance(S, segment, path) ==
  UNION { IF segment = "**"
          THEN {k \in j..Len(path) : \A i \in j + 1 .. k : path[i] \notin Hidden}
          ELSE {j + 1 : i \in {i \in {j} : j < Len(path) /\ SegmentMatches(segment, path[j + 1])}}
        : j \in S }

(* How many names of the path each number of segments can take.            *)
Positions(pattern, path) ==
  LET taken[k \in 0..Len(pattern)] ==
        IF k = 0 THEN {0} ELSE Advance(taken[k - 1], pattern[k], path)
  IN taken

MatchNpmGlob(pattern, path) == Len(path) \in Positions(pattern, path)[Len(pattern)]

PatternReach(p) ==
  IF Contains(p, "..") THEN "outside" ELSE IF Contains(p, ".") THEN "dot" ELSE "inside"

Exact(p) == PatternReach(p) = "inside" /\ ToSet(p) \cap Unexpandable = {}

(* A positive pattern cancels the earlier exclusions its text matches; as  *)
(* in npm, the exclusion after a cancelled one is not tried.               *)
Cancel(negs, pattern) ==
  FoldLeft(LAMBDA acc, n :
      IF acc.skip THEN [kept |-> Append(acc.kept, n), skip |-> FALSE]
      ELSE IF MatchNpmGlob(n, pattern) THEN [acc EXCEPT !.skip = TRUE]
      ELSE [acc EXCEPT !.kept = Append(@, n)],
    [kept |-> <<>>, skip |-> FALSE], negs).kept

Partition(given) ==
  LET negs == FoldLeft(LAMBDA acc, p :
                IF ~p.negated THEN Cancel(acc, p.segments)
                ELSE IF Exact(p.segments) THEN Append(acc, p.segments) ELSE acc,
              <<>>, given)
      kept == Among(given, {p \in ToSet(given) : ~p.negated /\
                              \A i \in DOMAIN negs : ~MatchNpmGlob(negs[i], p.segments)})
  IN [positives |-> [i \in DOMAIN kept |-> kept[i].segments], negs |-> negs]

NeverAMember(path) == path = <<>> \/ Contains(path, NodeModules)

Excluded(negs, path) == \E i \in DOMAIN negs : MatchNpmGlob(negs[i], path)

(* workspaceCoverage(...).exact                                            *)
WorkspaceCoverage(given, path) ==
  LET parts == Partition(given)
  IN /\ ~NeverAMember(path) /\ ~Excluded(parts.negs, path)
     /\ \E i \in DOMAIN parts.positives :
          LET p == parts.positives[i] IN p # <<>> /\ Exact(p) /\ MatchNpmGlob(p, path)

\* Mutant of ReachBelow: a trailing "**" goes no further.
ReachBelowSegments(given, path) ==
  /\ ~NeverAMember(path)
  /\ \E i \in DOMAIN Partition(given).positives :
       LET p == Partition(given).positives[i]
       IN Exact(p) /\ \E n \in 1..Len(p) - 1 : MatchNpmGlob(SubSeq(p, 1, n), path)

(* workspacePatternsReachBelow without its inexact patterns.               *)
ReachBelow(given, path) ==
  /\ ~NeverAMember(path)
  /\ \E i \in DOMAIN Partition(given).positives :
       LET p == Partition(given).positives[i]
       IN Exact(p) /\ \E n \in 1..Len(p) :
            (n < Len(p) \/ p[n] = "**") /\ MatchNpmGlob(SubSeq(p, 1, n), path)

-----------------------------------------------------------------------------
(* The tree of a side.                                                     *)
FollowsLinks == side = "tree"

IgnoresCase == side = "git-folded"

(* identifyDir: where a path really is.                                    *)
Step(at, name) ==
  LET next == Append(at, name)
  IN IF FollowsLinks /\ next \in DOMAIN Links THEN Links[next] ELSE next

Identity(path) ==
  LET at[n \in 0..Len(path)] == IF n = 0 THEN <<>> ELSE Step(at[n - 1], path[n])
  IN at[Len(path)]

ListChildDirs(path) ==
  LET places == IF FollowsLinks THEN Dirs \cup DOMAIN Links ELSE Dirs
  IN Among(order, {name \in Segments : Append(Identity(path), name) \in places})

Init ==
  /\ side \in {"tree", "git", "git-folded"}
  /\ judged \in {TRUE, side = "tree"}
  /\ order \in Orders
  /\ stage = "writing" /\ patterns = <<>>
  /\ todo = <<>> /\ stack = <<>> /\ visited = {} /\ results = {} /\ found = {}
  /\ unread = FALSE

Write(p) ==
  /\ stage = "writing" /\ Len(patterns) < MaxPatterns
  /\ patterns' = Append(patterns, p)
  /\ UNCHANGED <<side, judged, order, stage, todo, stack, visited, results, found, unread>>

Begin ==
  /\ stage = "writing"
  /\ stage' = "resolving"
  /\ todo' = Partition(patterns).positives
  /\ UNCHANGED <<list, stack, visited, results, found, unread>>

(* Paths the walk of one pattern names, less the root, node_modules and    *)
(* what an exclusion names by that spelling.                               *)
Named(paths) ==
  {d \in paths : ~NeverAMember(d) /\ ~Excluded(Partition(patterns).negs, d)}

Frame(pattern, path, index) == [pattern |-> pattern, path |-> path, index |-> index]

HasWildcard(segment) == segment = "**" \/ \E s \in Segments : s # segment /\ <<segment, s>> \in Sees

Literal(pattern) == \A i \in DOMAIN pattern : ~HasWildcard(pattern[i])

FirstGlob(pattern) ==
  CHOOSE i \in DOMAIN pattern :
    /\ pattern[i] \in Unexpandable \/ HasWildcard(pattern[i])
    /\ \A j \in 1..i - 1 : pattern[j] \notin Unexpandable /\ ~HasWildcard(pattern[j])

(* resolvePositive: the root and a "." segment add nothing, a pattern this *)
(* module cannot expand refuses unless it provably names nothing, and a    *)
(* literal one stands as written where case counts.                        *)
Refuses(p) ==
  \/ PatternReach(p) = "outside"
  \/ /\ PatternReach(p) = "inside" /\ ~Exact(p)
     /\ ListChildDirs(SubSeq(p, 1, FirstGlob(p) - 1)) # <<>>

(* The spellings a literal pattern has on a side that ignores case, or the *)
(* pattern as written when there are none.                                 *)
Spelled(p) ==
  LET same == {d \in Dirs : Len(d) = Len(p) /\ \A i \in DOMAIN p : Fold[d[i]] = Fold[p[i]]}
  IN IF ~IgnoresCase \/ same = {} THEN {p} ELSE same

(* A judged side stops at a pattern it cannot expand; on a comparison side *)
(* that pattern names nothing.                                             *)
GivesUp ==
  /\ unread' = TRUE
  /\ todo' = IF judged THEN <<>> ELSE Tail(todo)
  /\ stage' = "resolving" /\ stack' = <<>> /\ results' = {} /\ visited' = {}
  /\ UNCHANGED <<list, found>>

Resolve ==
  LET p == Head(todo)
  IN /\ stage = "resolving" /\ todo # <<>>
     /\ IF Refuses(p) THEN GivesUp
        ELSE /\ UNCHANGED <<list, visited, results, unread>>
             /\ IF p # <<>> /\ Exact(p) /\ ~Literal(p)
                THEN stage' = "walking" /\ stack' = <<Frame(p, <<>>, 1)>> /\ UNCHANGED <<todo, found>>
                ELSE /\ found' = found \cup IF p = <<>> \/ ~Exact(p) THEN {} ELSE Named(Spelled(p))
                     /\ todo' = Tail(todo) /\ UNCHANGED <<stage, stack>>

Places(f, names) == [i \in DOMAIN names |-> Frame(f.pattern, Append(f.path, names[i]), f.index + 1)]

(* The names one segment goes on to.                                       *)
Goes(segment, names) ==
  IF HasWildcard(segment)
  THEN Among(names, {n \in Segments \ {NodeModules} : (n \in Hidden => segment \in Hidden)
                       /\ IF IgnoresCase THEN <<Fold[segment], Fold[n]>> \in Sees ELSE <<segment, n>> \in Sees})
  ELSE IF IgnoresCase THEN Among(names, {n \in Segments : Fold[n] = Fold[segment]})
  ELSE <<segment>>

\* Mutant of AnyDepth: "**" goes down into hidden directories.
AnyDepthHidden(f) ==
  LET names == Among(ListChildDirs(f.path), Segments \ {NodeModules})
      below == [i \in DOMAIN names |-> Frame(f.pattern, Append(f.path, names[i]), f.index)]
  IN Reverse(<<Frame(f.pattern, f.path, f.index + 1)>> \o below)

(* "**" stands for nothing first, and then goes down into every directory  *)
(* that is not hidden.                                                     *)
AnyDepth(f) ==
  LET names == Among(ListChildDirs(f.path), Segments \ ({NodeModules} \cup Hidden))
      below == [i \in DOMAIN names |-> Frame(f.pattern, Append(f.path, names[i]), f.index)]
  IN Reverse(<<Frame(f.pattern, f.path, f.index + 1)>> \o below)

Reach(f) ==
  /\ f.index > Len(f.pattern)
  /\ results' = results \cup {f.path}
  /\ stack' = Front(stack) /\ UNCHANGED visited

(* A "**" walks each real directory once per position, so a link that      *)
(* loops back ends the walk.                                               *)
Descend(f) ==
  LET key == <<Identity(f.path), f.index>>
  IN /\ f.index <= Len(f.pattern)
     /\ UNCHANGED results
     /\ IF f.pattern[f.index] # "**"
        THEN stack' = Front(stack) \o Reverse(Places(f, Goes(f.pattern[f.index], ListChildDirs(f.path))))
             /\ UNCHANGED visited
        ELSE /\ visited' = visited \cup {key}
             /\ stack' = Front(stack) \o (IF key \in visited THEN <<>> ELSE AnyDepth(f))

(* The last place of a walk hands its results over.                        *)
Walk ==
  LET f == Last(stack)
  IN /\ stack # <<>>
     /\ IF f.index <= Len(f.pattern) /\ Len(f.path) > MaxDepth THEN GivesUp
        ELSE /\ Reach(f) \/ Descend(f)
             /\ UNCHANGED <<list, stage, todo, found, unread>>

Collect ==
  /\ stage = "walking" /\ stack = <<>>
  /\ stage' = "resolving"
  /\ found' = found \cup Named(results)
  /\ results' = {} /\ visited' = {} /\ todo' = Tail(todo)
  /\ UNCHANGED <<list, stack, unread>>

Next == (\E p \in Patterns : Write(p)) \/ Begin \/ Resolve \/ Walk \/ Collect

Spec == Init /\ [][Next]_vars

-----------------------------------------------------------------------------
Expanded == stage = "resolving" /\ todo = <<>>

Excludes == Partition(patterns).negs # <<>>

(* The walk and the matching agree.  What the walk names, the matching     *)
(* covers, and every directory the matching covers is a member under its   *)
(* own path or a link to it, however the tree, its links and the order of  *)
(* the listings run; case that is ignored only adds members, and a pattern *)
(* left unread is known to be.  A link under an exclusion is left to       *)
(* ExclusionIsOfTheSpelling.                                               *)
WalkAgreesWithMatching ==
  Expanded =>
    /\ \A d \in found : IgnoresCase \/ WorkspaceCoverage(patterns, d)
    /\ unread \/ (FollowsLinks /\ Excludes)
         \/ \A d \in Dirs : WorkspaceCoverage(patterns, d) => \E m \in found : Identity(m) = d

(* A symlinked directory the walk of a working tree goes through is one    *)
(* workspacePatternsReachBelow fails closed on when a git side, which      *)
(* cannot follow it, meets it: no member lies below a place the patterns   *)
(* are said not to reach.                                                  *)
MembersAreReachedThrough ==
  Expanded /\ ~IgnoresCase =>
    \A d \in found : \A n \in 1..Len(d) - 1 : ReachBelow(patterns, SubSeq(d, 1, n))

(* What discoverWorkspaceDirs says it resolves: the directories the        *)
(* positive patterns match, minus those an exclusion matches.              *)
ExclusionIsOfTheSpelling ==
  Expanded /\ ~unread =>
    \A d \in Dirs : WorkspaceCoverage(patterns, d) => \E m \in found : Identity(m) = d
=============================================================================
