----------------------------- MODULE MCProjects -----------------------------
(***************************************************************************)
(* What is said of the projects of a repository, in one run.  A behaviour  *)
(* is about one subject, chosen at the start: which manifests are projects *)
(* and are read (ProjectDiscovery), the requirements files that include    *)
(* one another (RequirementIncludes), or the workspace packages a lockfile *)
(* claims to link (WorkspaceLinks).  The variables of the others stay as   *)
(* they are.                                                               *)
(***************************************************************************)
EXTENDS ProjectDiscovery, Sequences, SequencesExt, TLC

CONSTANTS IncludeFiles, Recognised, Scanned, Present, MaxDepth, IncludeGraphs,  \* RequirementIncludes
          LinkMembers, LinkNames, LinkTrees,                                    \* WorkspaceLinks
          NoFile, NoName, NoManifest, Broken, NoTree

VARIABLES subject,
          graph, walk, queue, line, known, found, read, noted,   \* RequirementIncludes
          trusted, head, judged, exempt, notes                   \* WorkspaceLinks
includeVars == <<graph, walk, queue, line, known, found, read, noted>>
linkVars == <<trusted, head, judged, exempt, notes>>

------------------------------------------------------------------------------
(* A root, an application with a build directory and a vendored package    *)
(* (the scanned directory), and a library with the same and a lockfile.    *)
MCNpm == {"r", "a", "ab", "an", "c", "cb", "cn"}
MCPython == {"cp", "ap"}
MCFiles == MCNpm \cup MCPython \cup {"cl", "cu"}
MCDir == [f \in MCFiles |->
  CASE f = "r" -> "" [] f = "a" -> "app" [] f = "ab" -> "app/build" [] f = "an" -> "app/node_modules/x"
    [] f = "ap" -> "app/build" [] f = "cb" -> "lib/build" [] f = "cn" -> "lib/node_modules/x" [] OTHER -> "lib"]

Quiet == [status |-> [f \in MCFiles |-> IF f = "cu" THEN "absent" ELSE "ok"],
          members |-> [m \in MCNpm \cup MCPython |-> {}],
          refs |-> [f \in MCNpm \cup {"cl"} |-> {}]]

WithRef(t, pair) == [t EXCEPT !.refs = [@ EXCEPT ![pair[1]] = @ \cup {pair[2]}]]
WithMember(t, pair) == [t EXCEPT !.members = [@ EXCEPT ![pair[1]] = {pair[2]}]]
WithStatus(t, pair) == [t EXCEPT !.status = [@ EXCEPT ![pair[1]] = pair[2]]]

RefPairs ==
  {<<"c", "a">>} \cup ((({"a", "c", "cn", "an", "cl"} \X {"ab", "cb", "an", "cn"})
    \ {<<"an", "an">>, <<"cn", "cn">>, <<"an", "ab">>, <<"cl", "ab">>}))
LostPairs == {"r", "cn"} \X {Nowhere}
MemberPairs == {<<"r", "cb">>, <<"r", "cn">>, <<"c", "ab">>}
Faults == ({"a", "ab", "c", "cb", "cn"} \X {"absent", "bad", "link"})
            \cup {<<"c", "shape">>, <<"r", "unreadable">>, <<"cn", "unreadable">>, <<"cb", "unreadable">>,
                  <<"cl", "absent">>, <<"cl", "bad">>, <<"cl", "v1">>, <<"cl", "link">>, <<"cu", "ok">>, <<"cp", "bad">>}

Shaped == {Quiet} \cup {WithRef(Quiet, p) : p \in RefPairs}
Chains == {WithRef(t, p) : t \in Shaped, p \in RefPairs}
Long == WithRef(WithRef(WithRef(Quiet, <<"c", "cn">>), <<"cn", "an">>), <<"an", "cb">>)
Refs == Shaped \cup Chains \cup {Long}
MemberShapes == {Quiet} \cup {WithMember(Quiet, p) : p \in MemberPairs}
                        \cup {WithMember(WithRef(Quiet, <<"cn", "an">>), <<"r", "cn">>)}
Lost == {WithRef(Quiet, p) : p \in LostPairs}

Shapes == Refs \cup MemberShapes \cup Lost
MCChanges ==
  {<<t, t>> : t \in Shapes}
  \cup {<<t, WithStatus(t, p)>> : t \in Shapes, p \in Faults}
  \cup {<<WithStatus(t, p), t>> : t \in Shapes, p \in Faults}
  \cup {<<t, WithStatus(Quiet, p)>> : t \in Shapes, p \in Faults}

MCIgnored == {{}, {"c", "cb", "ab"}}

(* Enough for a run about something else.                                  *)
OneChange == {<<Quiet, Quiet>>}

------------------------------------------------------------------------------
(* One scanned file, one listed under a skipped directory name, four that  *)
(* only an include reaches, one that is missing; include chains of 3.      *)
IncludeLine(to, c, l) == [to |-> to, constraint |-> c, link |-> l]
PlainLines == {IncludeLine(f, FALSE, FALSE) : f \in {"scanned", "skipped", "a", "b", "c", "missing"}}
AnyLine == PlainLines \cup {IncludeLine("nowhere", FALSE, FALSE), IncludeLine("a", TRUE, FALSE), IncludeLine("a", FALSE, TRUE)}

NoLine == {<<>>}
To(S) == {<<IncludeLine(f, FALSE, FALSE)>> : f \in S}
OneLine == {<<l>> : l \in AnyLine}
TwoLines == {<<l, m>> : l \in AnyLine, m \in AnyLine}

MCGraphs ==
  {("scanned" :> s) @@ ("skipped" :> k) @@ ("a" :> a) @@ ("b" :> b) @@ ("c" :> c) @@ ("d" :> <<>>)
     @@ ("missing" :> <<>>) :
     s \in TwoLines, k \in NoLine \cup To({"a", "c", "missing"}), a \in NoLine \cup OneLine,
     b \in NoLine \cup To({"a", "c", "skipped"}), c \in NoLine \cup To({"d"})}

MCIncludeFiles == {"scanned", "skipped", "a", "b", "c", "d", "missing"}
MCPresent == MCIncludeFiles \ {"missing"}

Includes == INSTANCE RequirementIncludes WITH Files <- IncludeFiles, Graphs <- IncludeGraphs

------------------------------------------------------------------------------
(* No lockfile, no claim, or up to two of the claims that can meet.        *)
Locked ==
  {NoFile, {}, {<<"y", "b">>}, {<<"x", "a">>, <<"y", "b">>}, {<<"x", "a">>, <<"y", "outside">>}}
    \cup {{<<"x", d>>} : d \in {"a", "b", "unrecorded", "outside"}}
Shrinkwraps == {NoFile, {<<"x", "b">>}, {<<"y", "outside">>}}
MCLinkTrees ==
  [field : (SUBSET {"a", "b"}) \cup {NoManifest, Broken}, packageManager : {"none", "npm", "pnpm"},
   lock : {[f \in {"npm-shrinkwrap.json", "package-lock.json"} |-> IF f = "package-lock.json" THEN l ELSE s] :
             l \in Locked, s \in Shrinkwraps},
   pnpmLock : BOOLEAN,
   name : {[m \in {"a", "b"} |-> IF m = "a" THEN p ELSE q] : p \in {NoName, "x"}, q \in {"x", "y"}}]

Claims == INSTANCE WorkspaceLinks WITH Members <- LinkMembers, Names <- LinkNames, Trees <- LinkTrees

ASSUME IncludesAssumption == Includes!IncludesConstants
ASSUME ClaimsAssumption == Claims!WorkspaceLinksConstants

------------------------------------------------------------------------------
Idle == "idle"
NoProjects == tree = Idle /\ ignored = Idle /\ step = Idle /\ class = Idle
NoIncludes == /\ graph = Idle /\ walk = Idle /\ queue = Idle /\ line = Idle
              /\ known = Idle /\ found = Idle /\ read = Idle /\ noted = Idle
NoClaims == trusted = Idle /\ head = Idle /\ judged = Idle /\ exempt = Idle /\ notes = Idle

MCInit ==
  \/ subject = "projects" /\ Init          /\ NoIncludes /\ NoClaims
  \/ subject = "includes" /\ Includes!Init /\ NoProjects /\ NoClaims
  \/ subject = "claims"   /\ Claims!Init   /\ NoProjects /\ NoIncludes

ProjectStep == subject = "projects" /\ Next /\ UNCHANGED <<subject, includeVars, linkVars>>
IncludeStep == subject = "includes" /\ Includes!Next /\ UNCHANGED <<subject, vars, linkVars>>
ClaimStep == subject = "claims" /\ Claims!Next /\ UNCHANGED <<subject, vars, includeVars>>

MCNext == ProjectStep \/ IncludeStep \/ ClaimStep

MCSpec == MCInit /\ [][MCNext]_<<subject, vars, includeVars, linkVars>>

------------------------------------------------------------------------------
(* The properties, each of its subject; see the modules for what they say. *)
(* Those of ProjectDiscovery are of a scan that is done, so of no other.   *)
DepthCutsOnlyTheDeep == subject = "includes" => Includes!DepthCutsOnlyTheDeep
ConstraintOnlyThroughC == subject = "includes" => Includes!ConstraintOnlyThroughC
ExemptIsLinked == subject = "claims" => Claims!ExemptIsLinked
=============================================================================
