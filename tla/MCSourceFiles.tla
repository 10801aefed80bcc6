--------------------------- MODULE MCSourceFiles ---------------------------
(***************************************************************************)
(* What is done with the files of a side, in one run.  A behaviour is      *)
(* about one subject, chosen at the start: the findings a path filter      *)
(* leaves (PathFilter), the reads of a side (SourceReads), the walk of one *)
(* glob (GreedyGlob), the workspace patterns of an input                   *)
(* (WorkspacePatterns), or the members behind links (SymlinkedMembers).    *)
(* The variables of the others stay as they are.                           *)
(***************************************************************************)
EXTENDS PathFilter, TLC

CONSTANTS Paths, Texts, MaxMoves, MaxFaults,                                \* SourceReads
          GlobStar, Symbols, Letters, SymbolSees, MaxPattern, MaxText,      \* GreedyGlob
          SegmentTexts, SegmentSees, HiddenTexts, GlobTexts, LowerCase, RawPatterns, LongestList,
          RealDirs, DirLinks, Listings, DeepestWalk,                        \* WorkspacePatterns
          MemberDirs, PatternSets, LinkPairs, Absolute, Unreadable, Nowhere,
          HopLimit, VisitLimit, SideVisitLimit, LongestPath                 \* SymlinkedMembers

VARIABLES subject,
          side, onDisk, held, window, listing, reading, want, ids, at, got,
          cache, moves, faults,                                             \* SourceReads
          pattern, text, patternIndex, textIndex, star, matched,            \* GreedyGlob
          seenAs, judged, phase, patterns, order, unresolved, places,
          visited, results, found, unread,                                  \* WorkspacePatterns
          links, inputs, marked, input, stack, visits, sideVisits, reasons  \* SymlinkedMembers
readVars == <<side, onDisk, held, window, listing, reading, want, ids, at, got, cache, moves, faults>>
globVars == <<pattern, text, patternIndex, textIndex, star, matched>>
patternVars == <<seenAs, judged, phase, patterns, order, unresolved, places, visited, results, found, unread>>
memberVars == <<links, inputs, marked, input, stack, visits, sideVisits, reasons>>

------------------------------------------------------------------------------
(* Two families of scans: every graph of reasons over four manifests with  *)
(* at most one reason missing on the reference side, and no findings; and  *)
(* a few graphs with one, two or three findings, in either order.          *)
M == {"root", "a", "b", "c"}
L == {"root.lock", "a.lock"}
MCAnchors == ("root.lock" :> "root") @@ ("a.lock" :> "a")
MCCovers == [ea |-> {"a", "a.lock"}, dir |-> {"a", "b", "a.lock"},
             lock |-> {"root.lock"}, c |-> {"c"}]

From(m) == [rule |-> "reference-target", input |-> m]
Member == [rule |-> "install-root-member", input |-> "root"]
Own == [rule |-> "beside-lockfile", input |-> "a.lock"]
Rooted1 == [rule |-> "root", input |-> "root"]
Without(g, m, r) == [g EXCEPT ![m] = @ \ {r}]
Graphs == {[root |-> {Rooted1}, a |-> x, b |-> y, c |-> z] :
  x \in SUBSET {Member, From("b"), Own}, y \in SUBSET {Member, From("a")},
  z \in SUBSET {From("a"), From("b")}}
References(g) == {g} \cup {Without(g, m, r) : m \in {"a", "b", "c"},
                           r \in {Member, Own, From("a"), From("b"), From("c")}}
NoChange == [refers |-> TRUE, under |-> M, blind |-> FALSE, raws |-> <<>>, records |-> {},
          lockOf |-> [m \in M |-> None], nested |-> {"a.lock"}, whollyNew |-> None,
          entries |-> {"dir", "c"}, accepted |-> {}]
OfGraphs == {[judged |-> p[1], reference |-> p[2]] @@ NoChange :
               p \in UNION {{g} \X References(g) : g \in Graphs}}

Found(rule, pkg, path, lock, signal) ==
  [rule |-> rule, pkg |-> pkg, path |-> path, lock |-> lock, signal |-> signal]
Pool == <<Found("typosquat", "p", "a", "root.lock", ""),
          Found("typosquat", "p", "b", "root.lock", ""),
          Found("typosquat", "p", "root.lock", "root.lock", ""),
          Found("lockfile-tamper", "p", "a", "root.lock", ""),
          Found("lockfile-tamper", "q", "b", "root.lock", ""),
          Found("install-script", "p", "root.lock", "root.lock", "added"),
          Found("install-script", "q", "root.lock", "root.lock", "flag-acquired"),
          Found("install-script", "p", "a.lock", "a.lock", "added")>>
Picks == {<<i>> : i \in DOMAIN Pool}
  \cup {p \in [1..2 -> DOMAIN Pool] : p[1] # p[2]}
  \cup {<<1, 2, 3>>, <<3, 2, 1>>, <<1, 3, 7>>, <<6, 7, 8>>, <<8, 7, 6>>, <<3, 1, 6>>}
Scripts(p) == {p[i] : i \in DOMAIN p} \cap {6, 7, 8}
Installed == [root |-> {Rooted1}, a |-> {Member}, b |-> {From("a")}, c |-> {}]
Stray == [root |-> {Rooted1}, a |-> {}, b |-> {From("a")}, c |-> {}]
Sides == {<<Installed, Installed, TRUE>>, <<Installed, Installed, FALSE>>, <<Stray, Stray, TRUE>>,
          <<Installed, Without(Installed, "a", Member), TRUE>>}
ToRoot == [m \in M |-> IF m = "c" THEN None ELSE "root.lock"]
Cases == {t \in Picks \X {{"dir", "ea"}, {"ea", "lock"}, {"c"}} \X {None, "root.lock"}
               \X {{}, {<<"install-script", "p", "root.lock", "added">>}} :
            /\ t[3] # None => Scripts(t[1]) # {}
            /\ t[4] # {} => 6 \in Scripts(t[1])}
OfFindings ==
  {[judged |-> s[1], reference |-> s[2], refers |-> s[3], entries |-> t[2], whollyNew |-> t[3],
    raws |-> [i \in DOMAIN t[1] |-> Pool[t[1][i]]], accepted |-> t[4],
    records |-> {<<"root.lock", "p">>}, lockOf |-> ToRoot] @@ NoChange :
     s \in Sides, t \in Cases}
Unread == {[judged |-> Installed, reference |-> Installed, blind |-> TRUE,
            under |-> {"a", "b"}, raws |-> <<Pool[1], Pool[2]>>] @@ NoChange}
MCInputs == OfGraphs \cup OfFindings \cup Unread
FirstScan == CHOOSE i \in Unread : TRUE

------------------------------------------------------------------------------
(* Paths and texts of the reads are interchangeable.                       *)
AnyOrder == Permutations(Paths) \cup Permutations(Texts)

Reads == INSTANCE SourceReads WITH stage <- reading

ASSUME ReadsAssumption == Reads!SourceReadsConstants

------------------------------------------------------------------------------
(* "a" and "b" see themselves, as a character or a literal segment does;   *)
(* "any" sees both, as a segment with a wildcard in it does.               *)
MCSymbolSees == {<<"a", "a">>, <<"b", "b">>, <<"any", "a">>, <<"any", "b">>}

Glob == INSTANCE GreedyGlob WITH Star <- GlobStar, Sees <- SymbolSees, result <- matched

ASSUME GlobAssumption == Glob!GreedyGlobConstants

------------------------------------------------------------------------------
(* A tree with hidden, vendored and differently cased directories, and two *)
(* links, one of them to a directory above it.                             *)
DirNames == {"a", "A", "b", ".h", "node_modules"}
MCSegmentTexts == DirNames \cup {"*", "**", "..", ".", "[a]"}
MCSegmentSees == {<<s, s>> : s \in MCSegmentTexts} \cup ({"*"} \X MCSegmentTexts)
MCLowerCase == [s \in MCSegmentTexts |-> IF s = "A" THEN "a" ELSE s]

Plain(segments) == [negated |-> FALSE, segments |-> segments]
Not(segments) == [negated |-> TRUE, segments |-> segments]

MCRawPatterns == {
  Plain(<<"**">>), Plain(<<"*", "b">>), Plain(<<"**", "b">>), Plain(<<"a", "**">>),
  Plain(<<"A", "*">>), Plain(<<"a", "b">>), Plain(<<".h", "*">>), Plain(<<"node_modules", "**">>), Plain(<<"node_modules", "b">>),
  Plain(<<"*", "[a]">>), Plain(<<"..", "a">>), Plain(<<".", "b">>), Plain(<<>>),
  Not(<<"b", "**">>), Not(<<"**", "b">>), Not(<<"..", "b">>) }

MCRealDirs == {<<>>, <<"a">>, <<"a", "b">>, <<"a", "b", "a">>, <<".h">>, <<".h", "b">>,
             <<"node_modules">>, <<"node_modules", "b">>,
             <<"node_modules", "b", "a">>, <<"node_modules", "b", "a", "a">>}
MCDirLinks == <<"b">> :> <<"a">> @@ <<"a", "A">> :> <<>>

MCListings == {<<"A", "a", "b", ".h", "node_modules">>, <<"b", "node_modules", ".h", "a", "A">>}

Workspace == INSTANCE WorkspacePatterns WITH
  Segments <- SegmentTexts, Sees <- SegmentSees, Hidden <- HiddenTexts, Unexpandable <- GlobTexts,
  Fold <- LowerCase, Patterns <- RawPatterns, MaxPatterns <- LongestList,
  Dirs <- RealDirs, Links <- DirLinks, Orders <- Listings, MaxDepth <- DeepestWalk,
  side <- seenAs, stage <- phase, todo <- unresolved, stack <- places

------------------------------------------------------------------------------
(* Three manifests and three links with every text each, of which one may  *)
(* change: chains, loops, links over links and to nothing.                 *)
MCMemberDirs == {<<"a">>, <<"b">>, <<"a", "b">>}
LinkPaths == {<<"l">>, <<"a", "l">>, <<"b", "m">>}
LinkTexts == {<<"a">>, <<"b">>, <<"..", ".", "b">>, <<"l">>, <<"a", "..">>, Absolute, Unreadable}
NoLink == <<"absent">>

LinkMaps == [LinkPaths -> LinkTexts \cup {NoLink}]
LinksOf(map) == [l \in {l \in LinkPaths : map[l] # NoLink} |-> map[l]]
NewTexts == {<<"a">>, <<"a", "..">>, Unreadable, NoLink}
MCLinkPairs == {<<LinksOf(m), LinksOf([m EXCEPT ![l] = t])>> : m \in LinkMaps, l \in LinkPaths, t \in NewTexts}

Set(under, depths) == [under |-> under, depths |-> depths, any |-> FALSE]
AnyDepth(under) == [under |-> under, depths |-> {}, any |-> TRUE]
MCPatternSets == {<<Set(<<>>, {1})>>, <<AnyDepth(<<"l">>)>>, <<Set(<<"l", "l", "a", "l">>, {0})>>,
                  <<AnyDepth(<<>>)>>, <<Set(<<"a">>, {1}), Set(<<"l">>, {1, 2})>>}

Linked == INSTANCE SymlinkedMembers WITH
  Manifests <- MemberDirs, Inputs <- PatternSets, Pairs <- LinkPairs,
  MaxHops <- HopLimit, MaxVisits <- VisitLimit, MaxSideVisits <- SideVisitLimit,
  MaxPath <- LongestPath, side <- marked

ASSUME WalksAssumption == Workspace!WorkspacePatternsConstants /\ Linked!SymlinkedMembersConstants

------------------------------------------------------------------------------
Idle == "idle"
NoGlob == pattern = Idle /\ text = Idle /\ patternIndex = Idle /\ textIndex = Idle /\ star = Idle /\ matched = Idle
NoPatterns == /\ seenAs = Idle /\ judged = Idle /\ phase = Idle /\ patterns = Idle /\ order = Idle /\ unresolved = Idle
              /\ places = Idle /\ visited = Idle /\ results = Idle /\ found = Idle /\ unread = Idle
NoMembers == /\ links = Idle /\ inputs = Idle /\ marked = Idle /\ input = Idle
             /\ stack = Idle /\ visits = Idle /\ sideVisits = Idle /\ reasons = Idle
\* An empty working tree of which nothing is read, and a scan not begun.
NoReads == Reads!Init /\ side = "disk" /\ held = [p \in Paths |-> Reads!Other("none")]
NoScan == Init /\ scan = FirstScan

MCInit ==
  \/ subject = "filter"   /\ Init   /\ NoReads    /\ NoGlob         /\ NoPatterns /\ NoMembers
  \/ subject = "reads"    /\ NoScan /\ Reads!Init /\ NoGlob         /\ NoPatterns /\ NoMembers
  \/ subject = "glob"     /\ NoScan /\ NoReads    /\ Glob!Init      /\ NoPatterns /\ NoMembers
  \/ subject = "patterns" /\ NoScan /\ NoReads    /\ Workspace!Init /\ NoGlob     /\ NoMembers
  \/ subject = "members"  /\ NoScan /\ NoReads    /\ Linked!Init    /\ NoGlob     /\ NoPatterns

FilterStep == subject = "filter" /\ Next /\ UNCHANGED <<subject, readVars, globVars, patternVars, memberVars>>
ReadStep == subject = "reads" /\ Reads!Next /\ UNCHANGED <<subject, vars, globVars, patternVars, memberVars>>
GlobStep == subject = "glob" /\ Glob!Next /\ UNCHANGED <<subject, vars, readVars, patternVars, memberVars>>
PatternStep == subject = "patterns" /\ Workspace!Next /\ UNCHANGED <<subject, vars, readVars, globVars, memberVars>>
MemberStep == subject = "members" /\ Linked!Next /\ UNCHANGED <<subject, vars, readVars, globVars, patternVars>>

\* The filter and the reads say themselves when they are over; a walk or a
\* match that is over just stops.
Rest == /\ subject \in {"glob", "patterns", "members"}
        /\ UNCHANGED <<subject, vars, readVars, globVars, patternVars, memberVars>>

MCNext == FilterStep \/ ReadStep \/ GlobStep \/ PatternStep \/ MemberStep \/ Rest

MCSpec == MCInit /\ [][MCNext]_<<subject, vars, readVars, globVars, patternVars, memberVars>>

------------------------------------------------------------------------------
(* The properties, each of its subject; see the modules for what they say. *)
(* Those of PathFilter and OneAnswerPerPath hold of the others as well,    *)
(* where nothing is filtered and nothing is read.                          *)
AnswersWereHeld == subject = "reads" => Reads!AnswersWereHeld
OneAnswerPerPath == Reads!OneAnswerPerPath
GreedyIsGlob == subject = "glob" => Glob!GreedyIsGlob
WalkAgreesWithMatching == subject = "patterns" => Workspace!WalkAgreesWithMatching
MembersAreReachedThrough == subject = "patterns" => Workspace!MembersAreReachedThrough
NoMemberMissed == subject = "members" => Linked!NoMemberMissed
RetargetIsSeen == subject = "members" => Linked!RetargetIsSeen
=============================================================================
