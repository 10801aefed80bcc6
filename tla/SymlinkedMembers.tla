-------------------------- MODULE SymlinkedMembers --------------------------
(***************************************************************************)
(* Workspace members behind symlinks (git-source.ts, walkPhysicalPath and  *)
(* markSymlinkedMembers).  A package manager expands a pattern through a   *)
(* linked directory, a file listing never enters one, so each side follows *)
(* its listed links itself, within limits, and what it cannot follow fails *)
(* closed: a reason on every manifest.  A reason that the reference side   *)
(* has too is excused, so its key has to say what was followed.            *)
(***************************************************************************)
EXTENDS Naturals, Sequences, SequencesExt

CONSTANTS
  Manifests,        \* real directories that hold a listed package.json
  Inputs,           \* each: a sequence of the pattern sets a side's inputs have
  Pairs,            \* the links of the reference side and the judged side: path to text
  Absolute, Unreadable, Nowhere,
  MaxHops, MaxVisits, MaxSideVisits,
  MaxPath           \* length of the virtual paths the properties look at

NodeModules == "node_modules"
Sides == {"reference", "judged"}

Way == Seq(STRING)
Dotted == {"", ".", ".."}

(* A side's links are those of a tree: no link or manifest lies behind one. *)
IsLinkMap(map) ==
  /\ IsFiniteSet(DOMAIN map)
  /\ \A l \in DOMAIN map :
       /\ l \in Way \ {<<>>} /\ map[l] \in Way \cup {Absolute, Unreadable}
       /\ ToSet(l) \cap Dotted = {}
       /\ \A k \in (DOMAIN map \ {l}) \cup Manifests : ~IsPrefix(l, k)

(* What the constants are; whoever instantiates the module assumes it.     *)
SymlinkedMembersConstants ==
  /\ MaxHops \in Nat /\ MaxVisits \in Nat /\ MaxSideVisits \in Nat /\ MaxPath \in Nat
  /\ \A m \in Manifests : m \in Way /\ ToSet(m) \cap Dotted = {}
  /\ Inputs \subseteq Seq([under : Way, depths : SUBSET Nat, any : BOOLEAN]) \ {<<>>}
  /\ \A p \in Pairs, s \in 1..2 : IsLinkMap(p[s])
  /\ Nowhere \notin Way

VARIABLES
  links,       \* the links of each side
  inputs,
  side, input, \* the side and the input being walked
  stack,       \* links left to visit, the next one last
  visits, sideVisits,
  reasons      \* per side: <<manifest, key>>

vars == <<links, inputs, side, input, stack, visits, sideVisits, reasons>>

-----------------------------------------------------------------------------
(* One input's patterns: the paths under a directory, at some depths or at *)
(* any.                                                                    *)
Covered(p, path) ==
  /\ path # <<>> /\ ~Contains(path, NodeModules)
  /\ IsPrefix(p.under, path)
  /\ p.any \/ Len(path) - Len(p.under) \in p.depths

ReachesBelow(p, path) ==
  /\ path # <<>> /\ ~Contains(path, NodeModules)
  /\ \/ IsStrictPrefix(path, p.under)
     \/ /\ IsPrefix(p.under, path)
        /\ p.any \/ \E d \in p.depths : Len(path) - Len(p.under) < d

(* walkPhysicalPath: one segment at a time from a real directory, a link's *)
(* text in its place.                                                      *)
Traces == Seq(Way \X (Way \cup {Absolute, Unreadable}))
Walks == [at : Way, pending : Way, read : Traces] \cup [at : {Nowhere}, pending : {<<>>}, read : Traces]
Going(at, pending, read) == [at |-> at, pending |-> pending, read |-> read]
Lost(read) == Going(Nowhere, <<>>, read)

Segment(map, w) ==
  LET segment == Head(w.pending)  rest == Tail(w.pending)  here == Append(w.at, segment)
  IN IF segment \in {"", "."} THEN Going(w.at, rest, w.read)
     ELSE IF segment = ".." THEN IF w.at = <<>> THEN Lost(w.read) ELSE Going(Front(w.at), rest, w.read)
     ELSE IF here \notin DOMAIN map THEN Going(here, rest, w.read)
     ELSE IF Len(w.read) >= MaxHops THEN Lost(w.read)
     ELSE LET trace == Append(w.read, <<here, map[here]>>)
          IN IF map[here] \in {Absolute, Unreadable} THEN Lost(trace)
             ELSE Going(w.at, map[here] \o rest, trace)

Walked(map, from) ==
  LET walk[w \in Walks] == IF w.pending = <<>> THEN w ELSE walk[Segment(map, w)]
  IN walk[from]

Physical(map, from, path) == Walked(map, Going(from, path, <<>>))

WalkLink(s, path) == Physical(links[s], Front(path), <<Last(path)>>)

(* What an unreadable link leaves in a key carries the side: it is not     *)
(* known to be the same link on the other one.                             *)
TraceKey(s, trace) ==
  {IF t[2] = Unreadable THEN <<t[1], s>> ELSE t : t \in ToSet(trace)}

(* allListedSymlinks: those outside node_modules.                          *)
FollowedLinks(s) == {l \in DOMAIN links[s] : ~Contains(l, NodeModules)}

ListedDirectory(s, real) ==
  real = <<>> \/ \E f \in {Append(m, "package.json") : m \in Manifests} \cup DOMAIN links[s] :
                    IsStrictPrefix(real, f)

\* The links below a directory, in the order of the listing, which is any.
Frames(s, virtual, target, chain, reals) ==
  LET below == SetToSeq({l \in FollowedLinks(s) : IsStrictPrefix(target, l)})
  IN [i \in DOMAIN below |->
       [virtual |-> virtual \o SubSeq(below[i], Len(target) + 1, Len(below[i])),
        link |-> below[i], chain |-> chain, reals |-> reals]]

Init ==
  /\ links \in {[reference |-> p[1], judged |-> p[2]] : p \in Pairs}
  /\ inputs \in Inputs
  /\ side = "reference" /\ input = 1
  /\ stack = Reverse(Frames(side, <<>>, <<>>, <<>>, <<>>))
  /\ visits = 0 /\ sideVisits = 0
  /\ reasons = [s \in Sides |-> {}]

Patterns == inputs[input]

FailClosed(key) == {<<m, key>> : m \in Manifests}

Add(found) == reasons' = [reasons EXCEPT ![side] = @ \cup found]

\* Mutant of OffThePatterns: a link is followed only where it is covered.
NotCovered(f) == ~Covered(Patterns, f.virtual)

(* The link is neither covered nor passed through.                         *)
OffThePatterns(f) == ~ReachesBelow(Patterns, f.virtual) /\ ~Covered(Patterns, f.virtual)

Pass ==
  /\ stack # <<>> /\ OffThePatterns(Last(stack))
  /\ stack' = Front(stack)
  /\ UNCHANGED <<links, inputs, side, input, visits, sideVisits, reasons>>

\* Mutant of FanOut: the reason does not say on which side.
FanOutAnywhere(s) == FailClosed(<<"fan-out", input, Patterns>>)

(* Past a limit the input fails closed once, under this side's serial: no  *)
(* other side can excuse it.                                               *)
FanOut(s) == FailClosed(<<"fan-out", input, Patterns, s>>)

Stop ==
  /\ stack # <<>> /\ ~OffThePatterns(Last(stack))
  /\ visits >= MaxVisits \/ sideVisits >= MaxSideVisits
  /\ Add(FanOut(side))
  /\ stack' = <<>>
  /\ UNCHANGED <<links, inputs, side, input, visits, sideVisits>>

(* Members R/<sub> of a link to R, each at the path a package manager sees.*)
MembersThrough(f, target, trace) ==
  LET at(m) == f.virtual \o SubSeq(m, Len(target) + 1, Len(m))
  IN {<<m, <<"member", input, at(m), TraceKey(side, trace)>>>> :
        m \in {m \in Manifests : IsPrefix(target, m) /\ Covered(Patterns, at(m))}}

Unfollowed(f, trace) ==
  FailClosed(<<"unfollowed", input, f.virtual, Patterns, TraceKey(side, trace)>>)

Visit ==
  LET f == Last(stack)
      walk == WalkLink(side, f.link)
      trace == f.chain \o walk.read
      target == walk.at
  IN /\ stack # <<>> /\ ~OffThePatterns(f)
     /\ visits < MaxVisits /\ sideVisits < MaxSideVisits
     /\ visits' = visits + 1 /\ sideVisits' = sideVisits + 1
     /\ IF target = Nowhere \/ Len(trace) > MaxHops \/ \E i \in DOMAIN f.reals : IsPrefix(target, f.reals[i])
        THEN Add(Unfollowed(f, trace)) /\ stack' = Front(stack)
        ELSE IF ~ListedDirectory(side, target)
        THEN stack' = Front(stack) /\ UNCHANGED reasons
        ELSE /\ Add(MembersThrough(f, target, trace))
             /\ stack' = Front(stack) \o Reverse(Frames(side, f.virtual, target, trace, Append(f.reals, target)))
     /\ UNCHANGED <<links, inputs, side, input>>

NextInput ==
  /\ stack = <<>> /\ input < Len(inputs)
  /\ input' = input + 1 /\ visits' = 0
  /\ stack' = Reverse(Frames(side, <<>>, <<>>, <<>>, <<>>))
  /\ UNCHANGED <<links, inputs, side, sideVisits, reasons>>

NextSide ==
  /\ stack = <<>> /\ input = Len(inputs) /\ side = "reference"
  /\ side' = "judged" /\ input' = 1 /\ visits' = 0 /\ sideVisits' = 0
  /\ stack' = Reverse(Frames("judged", <<>>, <<>>, <<>>, <<>>))
  /\ UNCHANGED <<links, inputs, reasons>>

Next == Pass \/ Stop \/ Visit \/ NextInput \/ NextSide

Spec == Init /\ [][Next]_vars

-----------------------------------------------------------------------------
Finished == stack = <<>> /\ input = Len(inputs) /\ side = "judged"

Names == (UNION {ToSet(m) : m \in Manifests}) \cup (UNION {ToSet(l) : l \in DOMAIN links["reference"] \cup DOMAIN links["judged"]})
VirtualPaths == BoundedSeq(Names, MaxPath)

(* The manifest a package manager installs for a path on a side, and the   *)
(* links it goes through: the operating system opens the path.             *)
Opened(s, path) == Physical(links[s], <<>>, path)
BehindLink(s, path) ==
  LET o == Opened(s, path) IN o.read # <<>> /\ o.at \in Manifests
PastVendored(s, path) ==
  \E t \in ToSet(Opened(s, path).read) : Contains(t[1], NodeModules)

ReasonsOn(s, m, i) == {r \in reasons[s] : r[1] = m /\ r[2][2] = i}

(* No member behind a link is left out: whatever the links, chains of them *)
(* and loops, and wherever a limit cuts a walk short, every manifest a     *)
(* pattern reaches through a link is marked for that input, or the input   *)
(* failed closed on it.  Links listed under node_modules are left to       *)
(* NestedLinksAreCandidates.                                               *)
NoMemberMissed ==
  Finished =>
    \A s \in Sides, i \in DOMAIN inputs, path \in VirtualPaths :
      Covered(inputs[i], path) /\ BehindLink(s, path) /\ ~PastVendored(s, path)
        => ReasonsOn(s, Opened(s, path).at, i) # {}

(* The path enters a directory again that it is already inside of.         *)
EndsInLink(s, path) == Len(Opened(s, path).read) > Len(Opened(s, Front(path)).read)
LoopsBack(s, path) ==
  \E j \in 2..Len(path) : \E i \in 1..j - 1 :
    LET inner == SubSeq(path, 1, j)  outer == SubSeq(path, 1, i)
    IN /\ EndsInLink(s, outer) /\ EndsInLink(s, inner)
       /\ IsPrefix(Opened(s, inner).at, Opened(s, outer).at)

Retargeted(i, path) ==
  /\ Covered(inputs[i], path) /\ BehindLink("judged", path) /\ ~PastVendored("judged", path)
  /\ Opened("reference", path).at # Opened("judged", path).at

Excused(i, path) == ReasonsOn("judged", Opened("judged", path).at, i) \subseteq reasons["reference"]

(* A link a pull request points at another manifest is not excused: that   *)
(* manifest has a reason the reference side does not have on it.  A path   *)
(* that loops back is left to RetargetPastLoopIsSeen.                      *)
RetargetIsSeen ==
  Finished =>
    \A i \in DOMAIN inputs, path \in VirtualPaths :
      Retargeted(i, path) /\ Excused(i, path) => LoopsBack("judged", path)

(* What markSymlinkedMembers says of every link it does not follow: only   *)
(* the same links on the reference side excuse it.                         *)
RetargetPastLoopIsSeen ==
  Finished =>
    \A i \in DOMAIN inputs, path \in VirtualPaths : Retargeted(i, path) => ~Excused(i, path)

(* What markSymlinkedMembers says of the links below a followed one: every *)
(* listed symlink under it is a further candidate.                         *)
NestedLinksAreCandidates ==
  Finished =>
    \A s \in Sides, i \in DOMAIN inputs, path \in VirtualPaths :
      Covered(inputs[i], path) /\ BehindLink(s, path)
        => ReasonsOn(s, Opened(s, path).at, i) # {}
=============================================================================
