-------------------------- MODULE SourceFilesProofs --------------------------
(***************************************************************************)
(* What is proved of the files of a side:                                  *)
(*   - the loop over excused projects computes its greatest fixed point    *)
(*     within its bound, in whichever order it visits the paths, for every *)
(*     finite set of manifests and every graph of reasons; and what        *)
(*     follows for the findings a path filter drops;                       *)
(*   - the reads make nothing up and answer once, for every set of paths   *)
(*     and texts and any number of edits and failures;                     *)
(*   - the greedy walk of a glob decides what the glob means, for every    *)
(*     pattern, text and alphabet;                                         *)
(*   - the walk of a list of workspace patterns names the directories that *)
(*     matching covers, for every tree, links, list of patterns, order of  *)
(*     the listings and bound on the depth;                                *)
(*   - the walk behind links leaves no member out and sees a link that     *)
(*     leads elsewhere than before, for any links, patterns and limits.    *)
(* Each has its own invariant; a step of the run about another subject     *)
(* leaves the variables of the invariant alone.                            *)
(***************************************************************************)
EXTENDS MCSourceFiles, FiniteSetTheorems, WellFoundedInduction, TLAPS

(* A run of the module is one of each component, stuttering where it is    *)
(* about another subject.                                                  *)
LEMMA ComponentsRun == MCSpec => Spec /\ Reads!Spec
<1>1. MCInit => Init /\ Reads!Init
  BY DEF MCInit, NoScan, NoReads
<1>2. [MCNext]_<<subject, vars, readVars, globVars, patternVars, memberVars>>
        => [Next]_vars /\ [Reads!Next]_(Reads!vars)
  BY DEF MCNext, FilterStep, ReadStep, GlobStep, PatternStep, MemberStep, Rest, Reads!vars, readVars
<1> QED BY <1>1, <1>2, PTL DEF MCSpec, Spec, Reads!Spec

------------------------------------------------------------------------------
Unsettled == IF settled THEN 0 ELSE 1

(* The set shrinks from above and never below a closed set; whatever this  *)
(* pass has visited holds as long as it removed nothing; each pass that is *)
(* repeated has removed a path.                                            *)
Looping ==
  /\ excused \subseteq {m \in Projects : Absent(m) = {}}
  /\ ~scan.refers => excused = {}
  /\ scan.refers => \A S \in SUBSET Projects : Closed(S) => S \subseteq excused
  /\ todo \subseteq excused
  /\ settled => \A m \in excused \ todo : \A r \in scan.judged[m] : SourceExcused(m, r)
  /\ pass + Cardinality(excused) + Unsettled <= Cardinality(Projects)

Inv ==
  /\ stage \in {"start", "excuse", "nested", "filter", "collapse", "done"}
  /\ pass \in Nat /\ settled \in BOOLEAN
  /\ stage = "start" => pass = 0
  /\ stage = "excuse" => Looping
  /\ Judged => excused = Excusable /\ settled

LEMMA ProjectsFinite == IsFiniteSet(Projects) /\ Cardinality(Projects) \in Nat
<1>1. IsFiniteSet(Projects)
  BY FinitePaths, FS_Subset DEF Projects
<1>2. QED BY <1>1, FS_CardinalityType

LEMMA InitInv == Init => Inv
<1> SUFFICES ASSUME Init PROVE Inv
  OBVIOUS
<1>1. stage = "start" /\ pass = 0 /\ settled = FALSE
  BY DEF Init
<1>2. QED BY <1>1 DEF Inv, Judged

(* A union of closed sets is closed.                                       *)
LEMMA ExcusableClosed == Closed(Excusable) /\ Excusable \subseteq Projects
<1>1. CASE ~scan.refers
  BY <1>1 DEF Excusable, Closed, ClosedBut
<1>2. CASE scan.refers
  <2>1. Excusable = UNION {S \in SUBSET Projects : Closed(S)}
    BY <1>2 DEF Excusable
  <2>2. ASSUME NEW m \in Excusable, NEW r \in scan.judged[m] \ {}
        PROVE  /\ r \notin Absent(m)
               /\ r.rule \in Rooted \/ r.input = m \/ r.input \notin Projects
                  \/ r.input \in Excusable
    <3>1. PICK S \in SUBSET Projects : Closed(S) /\ m \in S
      BY <2>1
    <3>2. S \subseteq Excusable
      BY <2>1, <3>1
    <3>3. QED BY <3>1, <3>2 DEF Closed, ClosedBut
  <2>3. QED BY <2>1, <2>2 DEF Closed, ClosedBut
<1>3. QED BY <1>1, <1>2

LEMMA StartLoop == Inv /\ Excuse => Looping'
<1> SUFFICES ASSUME Inv, Excuse PROVE Looping'
  OBVIOUS
<1>1. /\ scan' = scan /\ pass' = 0 /\ todo' = excused' /\ settled' = TRUE
      /\ excused' = IF scan.refers THEN {m \in Projects : Absent(m) = {}} ELSE {}
  BY DEF Excuse, Inv
<1>2. Projects' = Projects /\ (\A m : Absent(m)' = Absent(m))
  BY <1>1 DEF Projects, IsProject, Absent
<1>3. excused' \subseteq Projects
  BY <1>1
<1>4. scan.refers => \A S \in SUBSET Projects : Closed(S) => S \subseteq excused'
  <2> SUFFICES ASSUME scan.refers, NEW S \in SUBSET Projects, Closed(S), NEW m \in S
               PROVE  m \in excused'
    OBVIOUS
  <2>1. Absent(m) \subseteq scan.judged[m]
    BY DEF Absent
  <2>2. QED BY <1>1, <2>1 DEF Closed, ClosedBut
<1>5. (\A S \in SUBSET Projects : Closed(S) <=> Closed(S)')
  BY <1>1, <1>2 DEF Closed, ClosedBut
<1>6. Cardinality(excused') <= Cardinality(Projects) /\ Cardinality(excused') \in Nat
  BY <1>3, ProjectsFinite, FS_Subset, FS_CardinalityType
<1>7. Unsettled' = 0
  BY <1>1 DEF Unsettled
<1>8. QED BY <1>1, <1>2, <1>4, <1>5, <1>6, <1>7, ProjectsFinite DEF Looping

LEMMA VisitLoop == Inv /\ Visit => Looping'
<1> SUFFICES ASSUME Inv, Visit PROVE Looping'
  OBVIOUS
<1>1. PICK m \in todo :
        /\ todo' = todo \ {m}
        /\ IF \E r \in scan.judged[m] : ~SourceExcused(m, r)
           THEN excused' = excused \ {m} /\ settled' = FALSE
           ELSE UNCHANGED <<excused, settled>>
  BY DEF Visit
<1>2. Looping /\ scan' = scan /\ pass' = pass /\ pass \in Nat /\ settled \in BOOLEAN
  BY DEF Visit, Inv
<1>3. Projects' = Projects /\ (\A x : Absent(x)' = Absent(x))
      /\ (\A S \in SUBSET Projects : Closed(S) <=> Closed(S)')
  BY <1>2 DEF Projects, IsProject, Absent, Closed, ClosedBut
<1>4. excused \subseteq Projects /\ m \in excused
  BY <1>1, <1>2 DEF Looping
<1>5. IsFiniteSet(excused) /\ Cardinality(excused) \in Nat
  BY <1>4, ProjectsFinite, FS_Subset, FS_CardinalityType
<1>6. CASE \E r \in scan.judged[m] : ~SourceExcused(m, r)
  <2>1. PICK r \in scan.judged[m] : ~SourceExcused(m, r)
    BY <1>6
  <2>2. excused' = excused \ {m} /\ settled' = FALSE /\ Unsettled' = 1
    BY <1>1, <1>6 DEF Unsettled
  <2>3. scan.refers => \A S \in SUBSET Projects : Closed(S) => S \subseteq excused'
    <3> SUFFICES ASSUME scan.refers, NEW S \in SUBSET Projects, Closed(S)
                 PROVE  m \notin S
      BY <1>2, <2>2 DEF Looping
    <3>1. S \subseteq excused
      BY <1>2 DEF Looping
    <3>2. QED BY <2>1, <3>1 DEF Closed, ClosedBut, SourceExcused
  <2>4. Cardinality(excused') = Cardinality(excused) - 1
    BY <1>4, <1>5, <2>2, FS_RemoveElement
  <2>5. pass' + Cardinality(excused') + Unsettled' <= Cardinality(Projects)
    <3>1. Unsettled \in {0, 1} /\ pass + Cardinality(excused) + Unsettled <= Cardinality(Projects)
      BY <1>2 DEF Looping, Unsettled
    <3>2. QED BY <1>2, <1>5, <2>2, <2>4, <3>1, ProjectsFinite
  <2>6. QED BY <1>1, <1>2, <1>3, <2>2, <2>3, <2>5 DEF Looping
<1>7. CASE ~\E r \in scan.judged[m] : ~SourceExcused(m, r)
  <2>1. excused' = excused /\ settled' = settled /\ Unsettled' = Unsettled
    BY <1>1, <1>7 DEF Unsettled
  <2>2. \A x, r : SourceExcused(x, r)' <=> SourceExcused(x, r)
    BY <1>2, <1>3, <2>1 DEF SourceExcused
  <2>3. settled => \A x \in excused \ todo' : \A r \in scan.judged[x] : SourceExcused(x, r)
    BY <1>1, <1>2, <1>7 DEF Looping
  <2>4. QED BY <1>1, <1>2, <1>3, <2>1, <2>2, <2>3 DEF Looping
<1>8. QED BY <1>6, <1>7

LEMMA RepeatLoop == Inv /\ Repeat => Looping' /\ pass' \in Nat
<1> SUFFICES ASSUME Inv, Repeat PROVE Looping' /\ pass' \in Nat
  OBVIOUS
<1>1. /\ Looping /\ ~settled /\ scan' = scan /\ pass' = pass + 1 /\ pass \in Nat
      /\ excused' = excused /\ todo' = excused /\ settled' = TRUE
  BY DEF Repeat, Inv
<1>2. Projects' = Projects /\ (\A x : Absent(x)' = Absent(x))
      /\ (\A S \in SUBSET Projects : Closed(S) <=> Closed(S)')
  BY <1>1 DEF Projects, IsProject, Absent, Closed, ClosedBut
<1>3. IsFiniteSet(excused) /\ Cardinality(excused) \in Nat
  <2>1. excused \subseteq Projects
    BY <1>1 DEF Looping
  <2>2. QED BY <2>1, ProjectsFinite, FS_Subset, FS_CardinalityType
<1>4. pass' + Cardinality(excused') + Unsettled' <= Cardinality(Projects)
  BY <1>1, <1>3, ProjectsFinite DEF Looping, Unsettled
<1>5. QED BY <1>1, <1>2, <1>4 DEF Looping

(* The loop stops settled, and then on a closed set: the largest.          *)
LEMMA SettleFixpoint == Inv /\ Settle => excused' = Excusable' /\ settled'
<1> SUFFICES ASSUME Inv, Settle PROVE excused' = Excusable' /\ settled'
  OBVIOUS
<1>1. /\ Looping /\ todo = {} /\ (settled \/ ~MayRepeat(pass)) /\ scan' = scan
      /\ settled' = settled /\ excused' = IF settled THEN excused ELSE {}
      /\ pass \in Nat /\ settled \in BOOLEAN
  BY DEF Settle, Inv
<1>2. excused \subseteq Projects
  BY <1>1 DEF Looping
<1>3. Cardinality(excused) \in Nat
  BY <1>2, ProjectsFinite, FS_Subset, FS_CardinalityType
<1>4. settled
  BY <1>1, <1>3, ProjectsFinite DEF Looping, Unsettled, MayRepeat
<1>5. Closed(excused)
  BY <1>1, <1>4 DEF Looping, Closed, ClosedBut, SourceExcused
<1>6. excused = Excusable
  <2>1. CASE scan.refers
    <3>1. Excusable \subseteq excused
      BY <1>1, <2>1, ExcusableClosed DEF Looping
    <3>2. excused \subseteq Excusable
      BY <1>2, <1>5, <2>1 DEF Excusable
    <3>3. QED BY <3>1, <3>2
  <2>2. CASE ~scan.refers
    BY <1>1, <2>2 DEF Looping, Excusable
  <2>3. QED BY <2>1, <2>2
<1>7. Excusable' = Excusable
  BY <1>1 DEF Excusable, Projects, IsProject, Absent, Closed, ClosedBut
<1>8. QED BY <1>1, <1>4, <1>6, <1>7

LEMMA SameScan == scan' = scan => Excusable' = Excusable
BY DEF Excusable, Projects, IsProject, Absent, Closed, ClosedBut

LEMMA NextInv == Inv /\ [Next]_vars => Inv'
<1> SUFFICES ASSUME Inv, [Next]_vars PROVE Inv'
  OBVIOUS
<1>1. CASE Excuse
  BY <1>1, StartLoop DEF Excuse, Inv, Judged
<1>2. CASE Visit
  <2>1. stage' = "excuse" /\ pass' = pass /\ settled' \in BOOLEAN
    BY <1>2 DEF Visit, Inv
  <2>2. QED BY <1>2, <2>1, VisitLoop DEF Inv, Judged
<1>3. CASE Repeat
  BY <1>3, RepeatLoop DEF Repeat, Inv, Judged
<1>4. CASE Settle
  BY <1>4, SettleFixpoint DEF Settle, Inv, Judged
<1>5. CASE Nested
  BY <1>5, SameScan DEF Nested, loop, Inv, Judged
<1>6. CASE Filter
  BY <1>6, SameScan DEF Filter, loop, Inv, Judged
<1>7. CASE Collapse
  BY <1>7, SameScan DEF Collapse, loop, Inv, Judged
<1>8. CASE Accept
  BY <1>8 DEF Accept, loop, Inv, Judged
<1>9. CASE UNCHANGED vars
  <2>1. UNCHANGED <<scan, stage, pass, todo, settled, excused>>
    BY <1>9 DEF vars, loop
  <2>2. Looping' <=> Looping
    BY <2>1 DEF Looping, Projects, IsProject, Absent, Closed, ClosedBut, SourceExcused, Unsettled
  <2>3. QED BY <2>1, <2>2, SameScan DEF Inv, Judged
<1>10. QED
  BY <1>1, <1>2, <1>3, <1>4, <1>5, <1>6, <1>7, <1>8, <1>9 DEF Next, Over

LEMMA InvAlways == MCSpec => []Inv
BY ComponentsRun, InitInv, NextInv, PTL DEF Spec

(* excusedProjects arrives at the greatest fixed point, whatever the order *)
(* of its Map and however the reasons refer to each other.                 *)
THEOREM LoopIsGreatestFixpoint == MCSpec => []ExcusedIsGreatest
<1>1. Inv => ExcusedIsGreatest
  BY DEF Inv, ExcusedIsGreatest
<1>2. QED BY InvAlways, <1>1, PTL

(* One pass per path is enough: the loop never runs out of passes.         *)
THEOREM LoopSettles == MCSpec => []NeverGivesUp
<1>1. Inv => NeverGivesUp
  BY DEF Inv, NeverGivesUp
<1>2. QED BY InvAlways, <1>1, PTL
-----------------------------------------------------------------------------
(* A finding is dropped by what applyPathFilters saw of it.                *)
DroppedByRule == stage \in {"collapse", "done"} =>
  \A i \in result.ignored : Dropped(scan.raws[i], scan.entries)

LEMMA SameDrop ==
  ASSUME scan' = scan, excused' = excused
  PROVE  \A r, e : Dropped(r, e)' <=> Dropped(r, e)
BY DEF Dropped, Overrides, Place, AnchorOf, Missing, Absent, SourceExcused, Projects,
       IsProject, Matches

LEMMA DropInv == DroppedByRule /\ [Next]_vars => DroppedByRule'
<1> SUFFICES ASSUME DroppedByRule, [Next]_vars PROVE DroppedByRule'
  OBVIOUS
<1>1. CASE stage' \notin {"collapse", "done"}
  BY <1>1 DEF DroppedByRule
<1>2. CASE Filter
  <2>1. scan' = scan /\ excused' = excused
    BY <1>2 DEF Filter, loop
  <2>2. \A i \in result'.ignored : Dropped(scan.raws[i], scan.entries)
    BY <1>2 DEF Filter
  <2>3. QED BY <2>1, <2>2, SameDrop DEF DroppedByRule
<1>3. CASE Collapse
  <2>1. scan' = scan /\ excused' = excused /\ stage = "collapse"
        /\ result'.ignored = result.ignored
    BY <1>3 DEF Collapse, loop
  <2>2. QED BY <2>1, SameDrop DEF DroppedByRule
<1>4. CASE UNCHANGED vars
  <2>1. scan' = scan /\ excused' = excused /\ stage' = stage /\ result' = result
    BY <1>4 DEF vars, loop
  <2>2. QED BY <2>1, SameDrop DEF DroppedByRule
<1>5. QED
  BY <1>1, <1>2, <1>3, <1>4 DEF Next, Excuse, Visit, Repeat, Settle, Nested, Accept, Over

(* A path with nothing missing is excusable: adding it to the excused set  *)
(* leaves that closed.                                                     *)
LEMMA NothingMissing ==
  ASSUME Inv, Judged, scan.refers, NEW m \in Projects, Missing(m, {}) = {}
  PROVE  m \in Excusable
<1> DEFINE S == Excusable \cup {m}
<1>1. excused = Excusable
  BY DEF Inv
<1>2. Closed(S)
  BY <1>1, ExcusableClosed DEF Closed, ClosedBut, Missing, SourceExcused
<1>3. S \in SUBSET Projects
  BY ExcusableClosed
<1>4. QED BY <1>2, <1>3 DEF Excusable

(* ignorePaths cannot cover a path the change wires into the install, for  *)
(* every graph of reasons and every finding, merged, strayed or not.       *)
THEOREM NothingWiredIsDropped == MCSpec => []WiredIsKept
<1>1. Inv /\ DroppedByRule => WiredIsKept
  <2> SUFFICES ASSUME Inv, DroppedByRule, Done, scan.refers, NEW i \in result.ignored,
                      NEW m \in About(scan.raws[i]) \cap Projects
               PROVE  m \in Excusable /\ scan.raws[i].rule # "lockfile-tamper"
    BY DEF WiredIsKept
  <2> DEFINE r == scan.raws[i]
  <2>1. ~Overrides(r) /\ Judged /\ IsProject(m)
    BY DEF DroppedByRule, Dropped, Done, Judged, Projects
  <2>2. AnchorOf(Place(r)) = m
    <3>1. CASE m = AnchorOf(r.path)
      BY <2>1, <3>1 DEF Place
    <3>2. CASE \E k \in Locks \cap {r.lock} : m = Anchors[k] /\ <<k, r.pkg>> \in scan.records
                                              /\ ~IsProject(AnchorOf(r.path))
      <4>1. r.lock \in Locks /\ r.lock # None
        BY <3>2, FinitePaths DEF Files
      <4>2. Place(r) = r.lock /\ m = Anchors[r.lock]
        BY <3>2, <4>1 DEF Place
      <4>3. QED BY <4>1, <4>2 DEF AnchorOf
    <3>3. QED BY <3>1, <3>2 DEF About
  <2>3. Missing(m, {}) = {} /\ r.rule # "lockfile-tamper"
    BY <2>1, <2>2 DEF Overrides
  <2>4. QED BY <2>1, <2>3, NothingMissing
<1>2. Init => DroppedByRule
  BY DEF Init, DroppedByRule
<1>3. QED BY <1>1, <1>2, DropInv, InvAlways, ComponentsRun, PTL DEF Spec
-----------------------------------------------------------------------------
(* FiltersAreHonest.  applyPathFilters splits what the checks found; the   *)
(* sets here are that split, in terms of the scan, the excused projects    *)
(* and the baseline alone.                                                 *)

DropSet  == {i \in Ran : Dropped(scan.raws[i], scan.entries)}
HideSet  == {i \in Ran \ DropSet : Fingerprint(scan.raws[i]) \in baseline}
LeftSet  == Ran \ (DropSet \cup HideSet)
MergeSet == {l \in LeftSet : MergeInto(l, LeftSet) # {}}
Into(i)  == {l \in MergeSet : i \in MergeInto(l, LeftSet)}
Kept     == LeftSet \ MergeSet
ScriptSet  == {i \in Kept : Scripted(scan.raws[i])}
ScriptPkgs == {scan.raws[i].pkg : i \in ScriptSet}
Collapses  == scan.whollyNew # None /\ ~(Cardinality(ScriptPkgs) < 2)
MadeSet == {m \in Projects \cap scan.under : scan.refers /\ Matches(m, scan.entries) # {}
                                 /\ Missing(m, {}) # {}}

(* What a run has to say at each of its last stages.                       *)
Filtered ==
  /\ result.ignored = DropSet /\ result.made = MadeSet
  /\ result.second = [i \in {i \in Kept : Into(i) # {}} |-> Largest(Into(i))]
  /\ \A e \in result.unmatched : \A i \in Ran :
       e \in scan.entries /\ e \notin Credited(Place(scan.raws[i]))

Reported ==
  /\ stage = "collapse" => result.reported = Kept /\ result.collapsed = {}
  /\ stage = "done" =>
       /\ result.reported = (IF Collapses THEN Kept \ ScriptSet ELSE Kept)
       /\ result.collapsed = (IF Collapses /\ ~Accepted(ScriptPkgs) THEN ScriptPkgs ELSE {})

Honest ==
  /\ scan \in Inputs /\ DOMAIN result = DOMAIN Nothing
  /\ stage \in {"filter", "collapse", "done"} => \A f \in result.nested : f \in scan.nested /\ NestedIgnored(f)
  /\ stage = "filter" => result.collapsed = {}
  /\ stage \in {"collapse", "done"} => Filtered
  /\ Reported

LEMMA SplitFixed ==
  ASSUME scan' = scan, excused' = excused, baseline' = baseline
  PROVE  /\ DropSet' = DropSet /\ LeftSet' = LeftSet /\ MergeSet' = MergeSet /\ Kept' = Kept
         /\ \A i : Into(i)' = Into(i)
         /\ ScriptSet' = ScriptSet /\ ScriptPkgs' = ScriptPkgs /\ MadeSet' = MadeSet
         /\ (Collapses' <=> Collapses) /\ (Accepted(ScriptPkgs)' <=> Accepted(ScriptPkgs))
<1>1. /\ \A r, e : Dropped(r, e)' <=> Dropped(r, e)
      /\ \A f : NestedIgnored(f)' <=> NestedIgnored(f)
      /\ \A r : Place(r)' = Place(r)
  BY DEF Dropped, Overrides, Place, AnchorOf, Missing, Absent, SourceExcused, Projects,
         IsProject, Matches, NestedIgnored
<1>2. DropSet' = DropSet /\ HideSet' = HideSet /\ LeftSet' = LeftSet
  BY <1>1 DEF DropSet, HideSet, LeftSet, Ran
<1>3. MergeSet' = MergeSet /\ (\A i : Into(i)' = Into(i)) /\ Kept' = Kept
  BY <1>2 DEF MergeSet, Into, Kept, MergeInto, Repeats
<1>4. /\ ScriptSet' = ScriptSet /\ ScriptPkgs' = ScriptPkgs
      /\ (Collapses' <=> Collapses) /\ (Accepted(ScriptPkgs)' <=> Accepted(ScriptPkgs))
  BY <1>3 DEF ScriptSet, ScriptPkgs, Collapses, Accepted, CollapsedFingerprint
<1>5. MadeSet' = MadeSet
  BY DEF MadeSet, Missing, Absent, SourceExcused, Projects, IsProject, Matches
<1> QED BY <1>2, <1>3, <1>4, <1>5

LEMMA FilteredFixed ==
  ASSUME scan' = scan, excused' = excused, baseline' = baseline
  PROVE  /\ \A f : NestedIgnored(f)' <=> NestedIgnored(f)
         /\ result' = result => (Filtered' <=> Filtered)
<1>1. /\ \A f : NestedIgnored(f)' <=> NestedIgnored(f)
      /\ \A r : Place(r)' = Place(r)
      /\ \A f : Credited(f)' = Credited(f)
  BY DEF Place, AnchorOf, Missing, Absent, SourceExcused, Projects, IsProject, Matches,
         NestedIgnored, Credited
<1>2. result' = result => (Filtered' <=> Filtered)
  BY <1>1, SplitFixed DEF Filtered, Ran
<1> QED BY <1>1, <1>2

LEMMA HonestInit == Init => Honest
<1> SUFFICES ASSUME Init PROVE Honest
  OBVIOUS
<1>1. scan \in Inputs /\ stage = "start" /\ result = Nothing
  BY DEF Init
<1> QED BY <1>1 DEF Honest, Reported

LEMMA HonestLoop == Honest /\ (Excuse \/ Visit \/ Repeat \/ Settle \/ Accept) => Honest'
<1> SUFFICES ASSUME Honest, Excuse \/ Visit \/ Repeat \/ Settle \/ Accept PROVE Honest'
  OBVIOUS
<1>1. scan' = scan /\ stage' \notin {"filter", "collapse", "done"}
  BY DEF Excuse, Visit, Repeat, Settle, Accept
<1>2. result' = result \/ result' = Nothing
  BY DEF Excuse, Visit, Repeat, Settle, Accept
<1> QED BY <1>1, <1>2 DEF Honest, Reported

LEMMA HonestNested == Honest /\ Nested => Honest'
<1> SUFFICES ASSUME Honest, Nested PROVE Honest'
  OBVIOUS
<1>1. /\ scan' = scan /\ excused' = excused /\ baseline' = baseline /\ stage' = "filter"
      /\ result' = [Nothing EXCEPT !.nested = {f \in scan.nested : NestedIgnored(f)}]
  BY DEF Nested, loop
<1>2. /\ DOMAIN result' = DOMAIN Nothing /\ result'.collapsed = {}
      /\ result'.nested = {f \in scan.nested : NestedIgnored(f)}
  BY <1>1 DEF Nothing
<1>3. \A f \in result'.nested : f \in scan.nested /\ NestedIgnored(f)'
  BY <1>1, <1>2, FilteredFixed
<1> QED BY <1>1, <1>2, <1>3 DEF Honest, Reported

LEMMA HonestFilter == Honest /\ Filter => Honest'
<1> SUFFICES ASSUME Honest, Filter PROVE Honest'
  OBVIOUS
<1> DEFINE placed == {Place(scan.raws[i]) : i \in Ran} \cup scan.nested
           stale == IF Ran = {} THEN {}
                    ELSE scan.entries \ (UNION {Credited(f) : f \in placed \cup MadeSet})
           second == [i \in {i \in Kept : Into(i) # {}} |-> Largest(Into(i))]
           keptSet == {i \in Ran \ DropSet : Matches(Place(scan.raws[i]), scan.entries) # {}}
<1>1. /\ scan' = scan /\ excused' = excused /\ baseline' = baseline /\ stage = "filter"
      /\ stage' = "collapse"
  BY DEF Filter, loop
<1>2. result' = [result EXCEPT !.ignored = DropSet, !.suppressed = HideSet, !.kept = keptSet,
                               !.reported = Kept, !.second = second, !.made = MadeSet,
                               !.unmatched = stale]
  BY DEF Filter, Ran, DropSet, HideSet, LeftSet, MergeSet, Into, Kept, MadeSet, Survivors
<1> HIDE DEF stale, second, keptSet
<1>3. /\ DOMAIN result' = DOMAIN Nothing /\ result'.ignored = DropSet
      /\ result'.reported = Kept /\ result'.second = second /\ result'.made = MadeSet
      /\ result'.unmatched = stale /\ result'.nested = result.nested
      /\ result'.collapsed = result.collapsed
  BY <1>2 DEF Honest, Nothing
<1>4. \A e \in stale : \A i \in Ran : e \in scan.entries /\ e \notin Credited(Place(scan.raws[i]))
  BY DEF stale
<1>5. /\ \A e \in result'.unmatched : \A i \in Ran :
            e \in scan.entries /\ e \notin Credited(Place(scan.raws[i]))
  BY <1>3, <1>4
<1>6. /\ \A r : Place(r)' = Place(r) /\ Credited(r)' = Credited(r)
  BY <1>1 DEF Place, AnchorOf, Projects, IsProject, Matches, Credited
<1>7. Filtered'
  BY <1>1, <1>3, <1>5, <1>6, SplitFixed DEF Filtered, second, Ran
<1>8. Reported'
  BY <1>1, <1>3, SplitFixed DEF Reported, Honest
<1>9. \A f \in result'.nested : f \in scan.nested /\ NestedIgnored(f)'
  BY <1>1, <1>3, FilteredFixed DEF Honest
<1> QED BY <1>1, <1>3, <1>7, <1>8, <1>9 DEF Honest

LEMMA HonestCollapse == Honest /\ Collapse => Honest'
<1> SUFFICES ASSUME Honest, Collapse PROVE Honest'
  OBVIOUS
<1>1. /\ scan' = scan /\ excused' = excused /\ baseline' = baseline /\ stage = "collapse"
      /\ stage' = "done"
  BY DEF Collapse, loop
<1>2. result.reported = Kept /\ result.collapsed = {} /\ DOMAIN result = DOMAIN Nothing
  BY <1>1 DEF Honest, Reported
<1>3. result' = (IF ~Collapses THEN result
                 ELSE [result EXCEPT !.reported = Kept \ ScriptSet,
                         !.collapsed = IF Accepted(ScriptPkgs) THEN {} ELSE ScriptPkgs])
  BY <1>2 DEF Collapse, Collapses, ScriptSet, ScriptPkgs
<1>4. /\ DOMAIN result' = DOMAIN Nothing /\ result'.ignored = result.ignored
      /\ result'.second = result.second /\ result'.made = result.made
      /\ result'.unmatched = result.unmatched /\ result'.nested = result.nested
      /\ result'.reported = (IF Collapses THEN Kept \ ScriptSet ELSE Kept)
      /\ result'.collapsed = (IF Collapses /\ ~Accepted(ScriptPkgs) THEN ScriptPkgs ELSE {})
  BY <1>2, <1>3 DEF Nothing
<1>5. /\ \A r : Place(r)' = Place(r) /\ Credited(r)' = Credited(r)
  BY <1>1 DEF Place, AnchorOf, Projects, IsProject, Matches, Credited
<1>6. Filtered
  BY <1>1 DEF Honest
<1>7. Filtered'
  BY <1>1, <1>4, <1>5, <1>6, SplitFixed DEF Filtered, Ran
<1>8. Reported'
  BY <1>1, <1>4, SplitFixed DEF Reported
<1>9. \A f \in result'.nested : f \in scan.nested /\ NestedIgnored(f)'
  BY <1>1, <1>4, FilteredFixed DEF Honest
<1> QED BY <1>1, <1>4, <1>7, <1>8, <1>9 DEF Honest

LEMMA HonestStep == Honest /\ [Next]_vars => Honest'
<1> SUFFICES ASSUME Honest, [Next]_vars PROVE Honest'
  OBVIOUS
<1>1. CASE UNCHANGED vars
  <2>1. /\ scan' = scan /\ excused' = excused /\ baseline' = baseline /\ stage' = stage
        /\ result' = result
    BY <1>1 DEF vars, loop
  <2>2. Reported' <=> Reported
    BY <2>1, SplitFixed DEF Reported
  <2> QED BY <2>1, <2>2, FilteredFixed DEF Honest
<1> QED BY <1>1, HonestLoop, HonestNested, HonestFilter, HonestCollapse DEF Next, Over

(* Every set of positions has a first and a last.                          *)
LEMMA Minimum ==
  ASSUME NEW S \in SUBSET Nat, S # {}
  PROVE  \E i \in S : \A j \in S : i <= j
<1> DEFINE R == OpToRel(<, Nat)
<1>1. \A x, y \in Nat : x < y => <<x, y>> \in R
  BY DEF OpToRel
<1>2. IsWellFoundedOn(R, Nat)
  BY NatLessThanWellFounded
<1> HIDE DEF R
<1>3. PICK i \in S : \A j \in S : ~ (<<j, i>> \in R)
  BY <1>2, WFMin
<1>4. \A j \in S : i \in Nat /\ j \in Nat /\ ~ (j < i)
  BY <1>1, <1>3
<1> QED BY <1>4

LEMMA Maximum ==
  ASSUME NEW n \in Nat, NEW S \in SUBSET (0 .. n), S # {}
  PROVE  \E i \in S : \A j \in S : i >= j
<1> DEFINE D == {n - i : i \in S}
<1>0. PICK x \in S : TRUE
  OBVIOUS
<1>1. D \in SUBSET Nat /\ n - x \in D
  BY <1>0
<1>2. PICK d \in D : \A e \in D : d <= e
  BY <1>1, Minimum
<1>3. PICK i \in S : d = n - i
  BY <1>2
<1>4. ASSUME NEW j \in S PROVE i >= j
  <2>1. n - j \in D /\ i \in Nat /\ j \in Nat
    OBVIOUS
  <2>2. n - i <= n - j
    BY <1>2, <1>3, <2>1
  <2> QED BY <2>1, <2>2
<1> QED BY <1>4

LEMMA ChosenPosition ==
  ASSUME Honest, NEW S \in SUBSET Ran, S # {}
  PROVE  Least(S) \in S /\ Largest(S) \in S
<1>1. scan.raws \in Seq(Raw)
  BY InputAssumption DEF Honest, Input
<1>2. Ran = 1 .. Len(scan.raws) /\ Len(scan.raws) \in Nat
  BY <1>1 DEF Ran
<1>3. S \in SUBSET Nat /\ S \in SUBSET (0 .. Len(scan.raws))
  BY <1>2
<1>4. (\E i \in S : \A j \in S : i <= j) /\ (\E i \in S : \A j \in S : i >= j)
  BY <1>2, <1>3, Minimum, Maximum
<1> QED BY <1>4 DEF Least, Largest

(* A lockfile finding that is merged away goes into a manifest finding     *)
(* that stays, and whichever finding speaks for them has its fingerprint.  *)
LEMMA MergedIsShown ==
  ASSUME Honest, NEW l \in MergeSet
  PROVE  \E i \in Kept : /\ ~Scripted(scan.raws[i]) /\ Into(i) # {}
                         /\ Fingerprint(scan.raws[Largest(Into(i))]) = Fingerprint(scan.raws[l])
<1> DEFINE is == {i \in LeftSet : Repeats(scan.raws[i], scan.raws[l])}
<1>1. l \in LeftSet /\ MergeInto(l, LeftSet) # {} /\ LeftSet \subseteq Ran
  BY DEF MergeSet, LeftSet
<1>2. is # {} /\ MergeInto(l, LeftSet) = {Least(is)}
  BY <1>1 DEF MergeInto
<1>3. is \in SUBSET Ran
  BY <1>1
<1> HIDE DEF is
<1>4. Least(is) \in is
  BY <1>2, <1>3, ChosenPosition
<1> DEFINE i == Least(is)
<1>5. i \in LeftSet /\ Repeats(scan.raws[i], scan.raws[l])
  BY <1>4 DEF is
<1> HIDE DEF i
<1>6. /\ scan.raws \in Seq(Raw) /\ scan.lockOf \in [Manifests -> Locks \cup {None}]
  BY InputAssumption DEF Honest, Input
<1>7. \A x \in Ran : scan.raws[x] \in Raw
  BY <1>6 DEF Ran
<1>8. i \in Ran /\ scan.raws[i].path \in Manifests /\ scan.raws[i].rule \in NameRules
  BY <1>1, <1>5 DEF Repeats
<1>9. MergeInto(i, LeftSet) = {}
  <2> SUFFICES ASSUME NEW x \in LeftSet, Repeats(scan.raws[x], scan.raws[i]) PROVE FALSE
    BY DEF MergeInto
  <2>1. scan.raws[x].path \in Manifests /\ scan.lockOf[scan.raws[x].path] = scan.raws[i].path
    BY DEF Repeats
  <2> QED BY <1>6, <1>8, <2>1, FinitePaths DEF Files
<1>10. i \in Kept /\ l \in Into(i)
  BY <1>2, <1>5, <1>9 DEF Kept, MergeSet, Into, i
<1>11. ~Scripted(scan.raws[i])
  BY <1>8 DEF Scripted, NameRules
<1>12. Into(i) \in SUBSET Ran /\ Into(i) # {}
  BY <1>1, <1>10 DEF Into, MergeSet
<1>13. Largest(Into(i)) \in Into(i)
  BY <1>12, ChosenPosition
<1>14. ASSUME NEW k \in Into(i) PROVE Repeats(scan.raws[i], scan.raws[k])
  <2> DEFINE ks == {j \in LeftSet : Repeats(scan.raws[j], scan.raws[k])}
  <2>1. i \in MergeInto(k, LeftSet)
    BY DEF Into
  <2>2. ks # {} /\ i = Least(ks) /\ ks \in SUBSET Ran
    BY <1>1, <2>1 DEF MergeInto
  <2> HIDE DEF ks
  <2>3. i \in ks
    BY <2>2, ChosenPosition
  <2> QED BY <2>3 DEF ks
<1>15. ASSUME NEW k \in Into(i)
       PROVE  Fingerprint(scan.raws[k]) = Fingerprint(scan.raws[l])
  <2>1. k \in Ran /\ l \in Ran /\ scan.raws[k] \in Raw /\ scan.raws[l] \in Raw
    BY <1>1, <1>7, <1>12
  <2>2. Repeats(scan.raws[i], scan.raws[k]) /\ Repeats(scan.raws[i], scan.raws[l])
    BY <1>14, <1>10
  <2>3. scan.raws[k].signal = "" /\ scan.raws[l].signal = ""
    BY <2>1, <2>2 DEF Repeats, Raw
  <2> QED BY <2>2, <2>3 DEF Repeats, Fingerprint
<1> QED BY <1>10, <1>11, <1>12, <1>13, <1>15

(* What is left once the run is over: shown, or in the baseline.           *)
LEMMA SwallowsNothing == Honest => NothingSwallowed
<1> SUFFICES ASSUME Honest, Done, NEW i \in Ran \ result.ignored
             PROVE  \/ Fingerprint(scan.raws[i]) \in baseline \cup Shown
                    \/ i \in ScriptedLeft /\ CollapsedFingerprint({scan.raws[j].pkg : j \in ScriptedLeft})
                                                \in baseline \cup Shown
  BY DEF NothingSwallowed
<1>1. /\ result.ignored = DropSet
      /\ result.second = [k \in {k \in Kept : Into(k) # {}} |-> Largest(Into(k))]
      /\ result.reported = (IF Collapses THEN Kept \ ScriptSet ELSE Kept)
      /\ result.collapsed = (IF Collapses /\ ~Accepted(ScriptPkgs) THEN ScriptPkgs ELSE {})
  BY DEF Honest, Filtered, Reported, Done
<1>2. CASE i \notin LeftSet
  BY <1>1, <1>2 DEF LeftSet, HideSet
<1>3. CASE i \in MergeSet
  <2>1. PICK k \in Kept : /\ ~Scripted(scan.raws[k]) /\ Into(k) # {}
                          /\ Fingerprint(scan.raws[Largest(Into(k))]) = Fingerprint(scan.raws[i])
    BY <1>3, MergedIsShown
  <2>2. k \in DOMAIN result.second /\ result.second[k] = Largest(Into(k))
    BY <1>1, <2>1
  <2> QED BY <2>1, <2>2 DEF Shown
<1>4. CASE i \in Kept /\ ~(Collapses /\ i \in ScriptSet)
  BY <1>1, <1>4 DEF Shown
<1>5. CASE i \in ScriptSet /\ Collapses
  <2>1. ScriptedLeft = ScriptSet
    <3>1. \A j \in MergeSet : ~Scripted(scan.raws[j])
      BY DEF MergeSet, MergeInto, Repeats, Scripted, NameRules
    <3>2. \A j : j \in Ran \ DropSet /\ Fingerprint(scan.raws[j]) \notin baseline <=> j \in LeftSet
      BY DEF LeftSet, HideSet
    <3> QED BY <1>1, <3>1, <3>2 DEF ScriptedLeft, ScriptSet, Kept
  <2>2. {scan.raws[j].pkg : j \in ScriptedLeft} = ScriptPkgs /\ ScriptPkgs # {}
    BY <1>5, <2>1 DEF ScriptPkgs
  <2>3. CASE Accepted(ScriptPkgs)
    BY <1>5, <2>1, <2>2, <2>3 DEF Accepted
  <2>4. CASE ~Accepted(ScriptPkgs)
    BY <1>1, <1>5, <2>1, <2>2, <2>4 DEF Shown
  <2> QED BY <2>3, <2>4
<1>6. i \in LeftSet => i \in MergeSet \/ i \in Kept
  BY DEF Kept
<1> QED BY <1>2, <1>3, <1>4, <1>5, <1>6

LEMMA AcceptedStaysQuiet == Honest => AcceptedIsQuiet
<1> SUFFICES ASSUME Honest, Done PROVE Shown \cap baseline = {}
  BY DEF AcceptedIsQuiet
<1>1. /\ result.second = [k \in {k \in Kept : Into(k) # {}} |-> Largest(Into(k))]
      /\ result.reported = (IF Collapses THEN Kept \ ScriptSet ELSE Kept)
      /\ result.collapsed = (IF Collapses /\ ~Accepted(ScriptPkgs) THEN ScriptPkgs ELSE {})
  BY DEF Honest, Filtered, Reported, Done
<1>2. \A i \in LeftSet : Fingerprint(scan.raws[i]) \notin baseline
  BY DEF LeftSet, HideSet
<1>3. \A i \in result.reported : Fingerprint(scan.raws[i]) \notin baseline
  BY <1>1, <1>2 DEF Kept
<1>4. ASSUME NEW i \in DOMAIN result.second
      PROVE  Fingerprint(scan.raws[result.second[i]]) \notin baseline
  <2>1. i \in Kept /\ Into(i) # {} /\ result.second[i] = Largest(Into(i))
    BY <1>1
  <2>2. Into(i) \in SUBSET Ran /\ Into(i) \subseteq LeftSet
    BY DEF Into, MergeSet, LeftSet
  <2>3. Largest(Into(i)) \in LeftSet
    BY <2>1, <2>2, ChosenPosition
  <2> QED BY <1>2, <2>1, <2>3
<1>5. \A p \in {result.collapsed} \ {{}} : CollapsedFingerprint(p) \notin baseline
  BY <1>1 DEF Accepted
<1> QED BY <1>3, <1>4, <1>5 DEF Shown

LEMMA NestedIsExcused == Honest /\ Inv => NestedFollowsRule
<1> SUFFICES ASSUME Honest, Inv, Judged, stage # "nested", scan.refers, NEW f \in result.nested
             PROVE  \E S \in SUBSET Projects :
                      ClosedBut(S, {OwnReason(f)}) /\ (AnchorOf(f) \in S \/ ~IsProject(AnchorOf(f)))
  BY DEF NestedFollowsRule
<1> DEFINE m == AnchorOf(f)
           S == Excusable \cup (Projects \cap {m})
<1>1. NestedIgnored(f) /\ f \in scan.nested /\ scan.nested \subseteq Locks
  BY InputAssumption DEF Honest, Judged, Input, Inv
<1>2. Missing(m, {OwnReason(f)}) = {}
  BY <1>1 DEF NestedIgnored
<1>3. excused = Excusable /\ Closed(Excusable) /\ Excusable \subseteq Projects
  BY ExcusableClosed DEF Inv
<1>4. ClosedBut(S, {OwnReason(f)})
  BY <1>2, <1>3 DEF Closed, ClosedBut, Missing, SourceExcused
<1>5. m \in Manifests
  BY <1>1, AnchorAssumption DEF AnchorOf
<1>6. m \in S \/ ~IsProject(m)
  BY <1>5 DEF Projects
<1> QED BY <1>3, <1>4, <1>6

(* An ignored path is named exactly when the reference side does not       *)
(* excuse its project.                                                     *)
LEMMA NamesMadeProjects == Honest /\ Inv => MadeProjectsNamed
<1> SUFFICES ASSUME Honest, Inv, Done, scan.refers
             PROVE  result.made
                      = {m \in (Projects \cap scan.under) \ Excusable : Matches(m, scan.entries) # {}}
  BY DEF MadeProjectsNamed
<1>1. result.made = MadeSet /\ excused = Excusable
  BY DEF Honest, Filtered, Done, Inv, Judged
<1>2. ASSUME NEW m \in Projects, m \in Excusable PROVE Missing(m, {}) = {}
  BY <1>1, <1>2, ExcusableClosed DEF Closed, ClosedBut, Missing, SourceExcused
<1>3. ASSUME NEW m \in Projects, Missing(m, {}) = {} PROVE m \in Excusable
  BY <1>3, NothingMissing DEF Done, Judged
<1> QED BY <1>1, <1>2, <1>3 DEF MadeSet

LEMMA StraysPullNothing == Honest => StrayCannotHide
<1> SUFFICES ASSUME Honest, Done, scan.refers, NEW i \in result.ignored,
                    ~IsProject(AnchorOf(scan.raws[i].path)), scan.raws[i].lock # None,
                    <<scan.raws[i].lock, scan.raws[i].pkg>> \in scan.records
             PROVE  \E e \in scan.entries : scan.raws[i].lock \in Covers[e]
  BY DEF StrayCannotHide
<1>1. Dropped(scan.raws[i], scan.entries)
  BY DEF Honest, Filtered, Done, DropSet
<1>2. Place(scan.raws[i]) = scan.raws[i].lock
  BY DEF Place
<1> QED BY <1>1, <1>2 DEF Dropped, Matches

LEMMA UnmatchedIsIdle == Honest => UnmatchedDropsNothing
<1> SUFFICES ASSUME Honest, Done, NEW e \in result.unmatched, NEW i \in Ran,
                    Dropped(scan.raws[i], {e})
             PROVE  FALSE
  BY DEF UnmatchedDropsNothing
<1>1. e \in scan.entries /\ e \notin Credited(Place(scan.raws[i]))
  BY DEF Honest, Filtered, Done
<1> QED BY <1>1 DEF Dropped, Matches, Credited

(* What applyPathFilters, the baseline, the merge and the collapse do to a *)
(* scan's findings, for every scan: nothing is swallowed, what is accepted *)
(* stays quiet, an ignored path that becomes a project is named, and an    *)
(* entry said to match nothing would have dropped nothing.                 *)
THEOREM FilteringIsHonest == MCSpec => []FiltersAreHonest
<1>1. Inv /\ Honest => FiltersAreHonest
  BY SwallowsNothing, AcceptedStaysQuiet, NestedIsExcused, NamesMadeProjects,
     StraysPullNothing, UnmatchedIsIdle DEF FiltersAreHonest
<1> QED BY <1>1, InvAlways, HonestInit, HonestStep, ComponentsRun, PTL DEF Spec
------------------------------------------------------------------------------
(* What the requests rely on: the window reaches from the listing to now,  *)
(* a path that is asked for has no answer yet, and only listed files are   *)
(* left to the batch.                                                      *)
ReadsTyped ==
  /\ side \in Reads!Sides
  /\ held \in [Paths -> Reads!Entries(side)] /\ listing \in [Paths -> Reads!Entries(side)]
  /\ DOMAIN window = Paths
  /\ reading \in {"list", "idle", "asking", "stopped"}
  /\ ids \subseteq want /\ want \subseteq Paths
  /\ got \in [Paths -> Reads!Answer] /\ cache \in [Paths -> Reads!Answer]
ReadsTracked == \A p \in Paths :
  /\ held[p] \in window[p]
  /\ Reads!Git /\ reading \in {"idle", "asking"} => listing[p] \in window[p]
ReadsFresh == \A p \in Paths :
  /\ reading = "list" => cache[p] = Reads!Unknown /\ got[p] = Reads!Unknown
  /\ p \in want => cache[p] = Reads!Unknown /\ got[p] = Reads!Unknown
  /\ got[p] # Reads!Unknown => cache[p] = Reads!Unknown
  /\ p \in ids => Reads!Git /\ Reads!IsFile(listing[p])
NothingWanted == reading \in {"list", "idle"} => want = {}
AllHeld(f) == \A p \in Paths : f[p] # Reads!Unknown => Reads!Explains(f[p], window[p])
ReadsInv == ReadsTyped /\ ReadsTracked /\ ReadsFresh /\ NothingWanted /\ AllHeld(got) /\ AllHeld(cache)

(* What an entry answers is explained by any window that holds it.         *)
LEMMA Explained == ASSUME NEW seen, NEW e \in seen PROVE
  /\ Reads!IsFile(e) => Reads!Explains(Reads!Text(e.text), seen)
  /\ e.kind \in {"none", "directory", "refused"} => Reads!Explains(Reads!Null, seen)
<1>1. Reads!Text(e.text) # Reads!Null
  BY DEF Reads!Text, Reads!Null
<1> QED BY <1>1 DEF Reads!Explains

(* A wider window explains what a narrower one did.                        *)
LEMMA Wider == ASSUME NEW S, NEW T, S \subseteq T, NEW a, Reads!Explains(a, S) PROVE Reads!Explains(a, T)
BY DEF Reads!Explains

(* An entry is of a kind its side can hold.                                *)
LEMMA Kinds == ASSUME NEW s \in Reads!Sides, NEW e \in Reads!Entries(s) PROVE
  /\ Reads!IsFile(e) => e.text \in Texts /\ Reads!Text(e.text) \in Reads!Answer /\ Reads!Text(e.text) # Reads!Unknown
  /\ ~Reads!IsFile(e) => \/ e.kind = "none"
                         \/ s = "index" /\ e.kind = "conflict"
                         \/ s = "disk" /\ e.kind \in {"directory", "refused"}
BY DEF Reads!Sides, Reads!Entries, Reads!IsFile, Reads!File, Reads!Other, Reads!Text, Reads!Answer, Reads!Unknown

LEMMA NullIsNoText == Reads!Null \in Reads!Answer /\ Reads!Null # Reads!Unknown /\ Reads!Unknown \in Reads!Answer
BY DEF Reads!Null, Reads!Unknown, Reads!Answer

(* The invariant holds at first.                                           *)
LEMMA ReadsInitInv == Reads!Init => ReadsInv
<1> SUFFICES ASSUME Reads!Init PROVE ReadsInv
  OBVIOUS
<1> USE DEF Reads!Init, Reads!NoAnswer
<1>1. ReadsTyped
  BY NullIsNoText DEF ReadsTyped
<1>2. ReadsTracked
  BY DEF ReadsTracked
<1>3. ReadsFresh /\ NothingWanted
  BY DEF ReadsFresh, NothingWanted
<1>4. AllHeld(got) /\ AllHeld(cache)
  BY DEF AllHeld
<1> QED BY <1>1, <1>2, <1>3, <1>4 DEF ReadsInv

(* One answer more leaves the invariant, if a window explains it.          *)
LEMMA AnsweredInv ==
  ASSUME ReadsInv, NEW p \in want, NEW a \in Reads!Answer, a # Reads!Unknown, reading = "asking", p \notin ids,
         Reads!Explains(a, window[p]), Reads!Answered(p, a)
  PROVE ReadsInv'
<1> USE DEF Reads!Answered, Reads!Fixed
<1>1. ReadsTyped'
  BY DEF ReadsInv, ReadsTyped
<1>2. ReadsTracked'
  BY DEF ReadsInv, ReadsTracked, Reads!Git
<1>3. ReadsFresh'
  BY DEF ReadsInv, ReadsTyped, ReadsFresh, Reads!Git
<1>4. NothingWanted' /\ AllHeld(cache)'
  BY DEF ReadsInv, NothingWanted, AllHeld
<1>5. AllHeld(got)'
  BY DEF ReadsInv, ReadsTyped, AllHeld
<1> QED BY <1>1, <1>2, <1>3, <1>4, <1>5 DEF ReadsInv

LEMMA ReadsStopInv == ASSUME ReadsInv, Reads!Stop, Reads!Fixed PROVE ReadsInv'
BY DEF ReadsInv, Reads!Stop, Reads!Fixed, ReadsTyped, ReadsTracked, ReadsFresh, NothingWanted, AllHeld, Reads!Git

(* Every step keeps the invariant.                                         *)
LEMMA ReadsStepInv == ReadsInv /\ [Reads!Next]_(Reads!vars) => ReadsInv'
<1> SUFFICES ASSUME ReadsInv, [Reads!Next]_(Reads!vars) PROVE ReadsInv'
  OBVIOUS
<1>1. CASE Reads!List
  <2> USE <1>1 DEF Reads!List, Reads!Fixed
  <2>1. ReadsTyped' /\ ReadsTracked'
    BY DEF ReadsInv, ReadsTyped, ReadsTracked, Reads!Git
  <2>2. ReadsFresh' /\ NothingWanted'
    BY DEF ReadsInv, ReadsTyped, ReadsFresh, NothingWanted, Reads!Git
  <2>3. AllHeld(got)' /\ AllHeld(cache)'
    BY DEF ReadsInv, ReadsFresh, AllHeld
  <2> QED BY <2>1, <2>2, <2>3 DEF ReadsInv
<1>2. CASE Reads!ListFails
  BY <1>2, ReadsStopInv DEF Reads!ListFails
<1>3. CASE Reads!Ask
  <2> PICK S \in (SUBSET Paths) \ {{}}, many \in BOOLEAN :
        /\ reading = "idle" /\ reading' = "asking"
        /\ \A p \in S : Reads!Uncached(p)
        /\ LET unlisted == {p \in S : Reads!Git /\ listing[p].kind = "none"} IN
           /\ got' = [p \in Paths |-> IF p \in unlisted THEN Reads!Null ELSE Reads!Unknown]
           /\ want' = S \ unlisted
           /\ ids' = {p \in S : Reads!Git /\ many /\ Reads!IsFile(listing[p])}
        /\ UNCHANGED <<held, window, listing, at, cache, moves, faults>> /\ Reads!Fixed
    BY <1>3 DEF Reads!Ask
  <2>1. ReadsTyped'
    BY NullIsNoText DEF ReadsInv, ReadsTyped, Reads!Fixed, Reads!IsFile
  <2>2. ReadsTracked' /\ NothingWanted' /\ AllHeld(cache)'
    BY DEF ReadsInv, ReadsTracked, NothingWanted, AllHeld, Reads!Git, Reads!Fixed
  <2>3. ReadsFresh'
    BY NullIsNoText DEF ReadsInv, ReadsFresh, Reads!Uncached, Reads!Git, Reads!Fixed
  <2>4. AllHeld(got)'
    BY Explained DEF ReadsInv, ReadsTracked, AllHeld, Reads!Fixed
  <2> QED BY <2>1, <2>2, <2>3, <2>4 DEF ReadsInv
<1>4. CASE Reads!Batch
  <2> PICK D \in SUBSET ids :
        /\ reading = "asking"
        /\ got' = [p \in Paths |-> IF p \in D THEN Reads!Text(listing[p].text) ELSE got[p]]
        /\ want' = want \ D /\ ids' = {} /\ want = ids
        /\ UNCHANGED <<held, window, listing, reading, at, cache, moves>> /\ Reads!Fixed
    BY <1>4 DEF Reads!Batch
  <2>0. \A p \in D : /\ p \in Paths /\ Reads!Git /\ Reads!IsFile(listing[p]) /\ listing[p] \in window[p]
                     /\ Reads!Text(listing[p].text) \in Reads!Answer
    BY Kinds DEF ReadsInv, ReadsTyped, ReadsFresh, ReadsTracked
  <2>1. ReadsTyped'
    BY <2>0 DEF ReadsInv, ReadsTyped, Reads!Fixed
  <2>2. ReadsTracked' /\ NothingWanted' /\ AllHeld(cache)'
    BY DEF ReadsInv, ReadsTracked, NothingWanted, AllHeld, Reads!Git, Reads!Fixed
  <2>3. ReadsFresh'
    BY DEF ReadsInv, ReadsFresh, Reads!Git, Reads!Fixed
  <2>4. AllHeld(got)'
    BY <2>0, Explained DEF ReadsInv, AllHeld, Reads!Fixed
  <2> QED BY <2>1, <2>2, <2>3, <2>4 DEF ReadsInv
<1>5. CASE Reads!Show
  <2> PICK p \in Reads!ToShow :
        /\ reading = "asking" /\ Reads!Git
        /\ \/ Reads!IsFile(held[p]) /\ Reads!Answered(p, Reads!Text(held[p].text))
           \/ ~Reads!IsFile(held[p]) /\ Reads!SaysAbsent(p) /\ Reads!Answered(p, Reads!Null)
    BY <1>5 DEF Reads!Show
  <2>1. p \in want /\ p \notin ids /\ p \in Paths /\ held[p] \in window[p]
    BY DEF Reads!ToShow, ReadsInv, ReadsTyped, ReadsTracked
  <2>2. CASE Reads!IsFile(held[p]) /\ Reads!Answered(p, Reads!Text(held[p].text))
    BY <2>1, <2>2, Kinds, Explained, AnsweredInv DEF ReadsInv, ReadsTyped
  <2>3. CASE ~Reads!IsFile(held[p]) /\ Reads!SaysAbsent(p) /\ Reads!Answered(p, Reads!Null)
    <3>1. held[p].kind # "conflict"
      <4> SUFFICES ASSUME held[p].kind = "conflict" PROVE FALSE
        OBVIOUS
      <4>1. side # "ref"
        BY <2>1, <2>3, Kinds DEF ReadsInv, ReadsTyped
      <4>2. Reads!Message(p) = "in the index, but not at stage 0"
        BY <4>1 DEF Reads!Message
      <4> QED BY <2>3, <4>2 DEF Reads!SaysAbsent
    <3>2. held[p].kind = "none"
      BY <2>1, <2>3, <3>1, Kinds DEF ReadsInv, ReadsTyped, Reads!Git
    <3> QED BY <2>1, <2>3, <3>2, NullIsNoText, Explained, AnsweredInv
  <2> QED BY <2>2, <2>3
<1>6. CASE Reads!ShowFails
  BY <1>6, ReadsStopInv DEF Reads!ShowFails
<1>7. CASE Reads!Resolve
  <2> PICK p \in Paths :
        /\ Reads!Reading(p, "realpath")
        /\ LET seen == [window EXCEPT ![p] = {held[p]}] IN
           IF held[p].kind \in {"none", "refused"}
           THEN /\ got' = [got EXCEPT ![p] = Reads!Null] /\ want' = want \ {p}
                /\ window' = seen /\ UNCHANGED at
           ELSE at' = [at EXCEPT ![p] = "stat"] /\ window' = seen /\ UNCHANGED <<got, want>>
        /\ UNCHANGED <<held, listing, reading, ids, cache, moves, faults>> /\ Reads!Fixed
    BY <1>7 DEF Reads!Resolve
  <2>0. /\ p \in want /\ ~Reads!Git /\ reading = "asking" /\ ids = {}
        /\ got[p] = Reads!Unknown /\ cache[p] = Reads!Unknown
        /\ window' = [window EXCEPT ![p] = {held[p]}]
        /\ UNCHANGED <<held, listing, reading, ids, cache, side>>
    BY DEF Reads!Reading, ReadsInv, ReadsTyped, ReadsFresh, Reads!Fixed
  <2>1. CASE held[p].kind \in {"none", "refused"}
    <3>0. got' = [got EXCEPT ![p] = Reads!Null] /\ want' = want \ {p}
      BY <2>1
    <3>1. ReadsTyped' /\ ReadsTracked' /\ NothingWanted'
      BY <2>0, <3>0, NullIsNoText DEF ReadsInv, ReadsTyped, ReadsTracked, NothingWanted, Reads!Git
    <3>2. ReadsFresh'
      BY <2>0, <3>0 DEF ReadsInv, ReadsTyped, ReadsFresh, Reads!Git
    <3>3. AllHeld(cache)' /\ AllHeld(got)'
      BY <2>0, <2>1, <3>0, Explained DEF ReadsInv, ReadsTyped, AllHeld
    <3> QED BY <3>1, <3>2, <3>3 DEF ReadsInv
  <2>2. CASE held[p].kind \notin {"none", "refused"}
    <3>0. UNCHANGED <<got, want>>
      BY <2>2
    <3>1. ReadsTyped' /\ ReadsTracked' /\ NothingWanted'
      BY <2>0, <3>0 DEF ReadsInv, ReadsTyped, ReadsTracked, NothingWanted, Reads!Git
    <3>2. ReadsFresh'
      BY <2>0, <3>0 DEF ReadsInv, ReadsFresh, Reads!Git
    <3>3. AllHeld(cache)' /\ AllHeld(got)'
      BY <2>0, <3>0 DEF ReadsInv, ReadsTyped, AllHeld
    <3> QED BY <3>1, <3>2, <3>3 DEF ReadsInv
  <2> QED BY <2>1, <2>2
<1>8. CASE Reads!Stat
  <2> PICK p \in Paths :
        /\ Reads!Reading(p, "stat")
        /\ \/ Reads!IsFile(held[p])
              /\ UNCHANGED <<held, window, listing, reading, want, ids, got, cache>> /\ Reads!Fixed
           \/ ~Reads!IsFile(held[p]) /\ Reads!Answered(p, Reads!Null)
    BY <1>8 DEF Reads!Stat
  <2>1. p \in want /\ ~Reads!Git /\ reading = "asking" /\ ids = {} /\ held[p] \in window[p]
    BY DEF Reads!Reading, ReadsInv, ReadsTyped, ReadsFresh, ReadsTracked
  <2>2. CASE Reads!IsFile(held[p]) /\ UNCHANGED <<held, window, listing, reading, want, ids, got, cache>> /\ Reads!Fixed
    BY <2>2 DEF ReadsInv, ReadsTyped, ReadsTracked, ReadsFresh, NothingWanted, AllHeld, Reads!Git, Reads!Fixed
  <2>3. CASE ~Reads!IsFile(held[p]) /\ Reads!Answered(p, Reads!Null)
    <3>1. held[p].kind \in {"none", "directory", "refused"}
      BY <2>1, <2>3, Kinds DEF ReadsInv, ReadsTyped, Reads!Git
    <3> QED BY <2>1, <2>3, <3>1, NullIsNoText, Explained, AnsweredInv
  <2> QED BY <2>2, <2>3
<1>9. CASE Reads!ReadFile
  <2> PICK p \in Paths :
        /\ Reads!Reading(p, "readFile")
        /\ Reads!Answered(p, IF Reads!IsFile(held[p]) THEN Reads!Text(held[p].text) ELSE Reads!Null)
    BY <1>9 DEF Reads!ReadFile
  <2>1. p \in want /\ ~Reads!Git /\ reading = "asking" /\ ids = {} /\ held[p] \in window[p]
    BY DEF Reads!Reading, ReadsInv, ReadsTyped, ReadsFresh, ReadsTracked
  <2>2. CASE Reads!IsFile(held[p])
    BY <2>1, <2>2, Kinds, Explained, AnsweredInv DEF ReadsInv, ReadsTyped
  <2>3. CASE ~Reads!IsFile(held[p])
    <3>1. held[p].kind \in {"none", "directory", "refused"}
      BY <2>1, <2>3, Kinds DEF ReadsInv, ReadsTyped, Reads!Git
    <3> QED BY <2>1, <2>3, <3>1, NullIsNoText, Explained, AnsweredInv
  <2> QED BY <2>2, <2>3
<1>10. CASE Reads!DiskFails
  BY <1>10, ReadsStopInv DEF Reads!DiskFails
<1>11. CASE Reads!Done
  <2> USE <1>11 DEF Reads!Done, Reads!Fixed
  <2>1. ReadsTyped'
    BY NullIsNoText DEF ReadsInv, ReadsTyped, Reads!NoAnswer
  <2>2. ReadsTracked' /\ NothingWanted'
    BY DEF ReadsInv, ReadsTracked, NothingWanted, Reads!Git
  <2>3. ReadsFresh' /\ AllHeld(got)'
    BY DEF ReadsInv, ReadsTyped, ReadsFresh, AllHeld, Reads!NoAnswer, Reads!Git
  <2>4. AllHeld(cache)'
    BY DEF ReadsInv, ReadsTyped, AllHeld
  <2> QED BY <2>1, <2>2, <2>3, <2>4 DEF ReadsInv
<1>12. CASE Reads!Edit
  <2> PICK h \in [Paths -> Reads!Entries(side) \ {Reads!Other("refused")}] :
        /\ held' = h
        /\ window' = [p \in Paths |-> window[p] \cup {h[p]}]
        /\ UNCHANGED <<listing, reading, want, ids, at, got, cache, faults>> /\ Reads!Fixed
    BY <1>12 DEF Reads!Edit
  <2>1. ReadsTyped' /\ ReadsTracked'
    BY DEF ReadsInv, ReadsTyped, ReadsTracked, Reads!Git, Reads!Fixed
  <2>2. ReadsFresh' /\ NothingWanted'
    BY DEF ReadsInv, ReadsFresh, NothingWanted, Reads!Git, Reads!Fixed
  <2>3. AllHeld(got)' /\ AllHeld(cache)'
    BY Wider DEF ReadsInv, AllHeld
  <2> QED BY <2>1, <2>2, <2>3 DEF ReadsInv
<1>13. CASE UNCHANGED Reads!vars
  BY <1>13 DEF ReadsInv, ReadsTyped, ReadsTracked, ReadsFresh, NothingWanted, AllHeld, Reads!Git, Reads!vars
<1> QED BY <1>1, <1>2, <1>3, <1>4, <1>5, <1>6, <1>7, <1>8, <1>9, <1>10, <1>11, <1>12, <1>13
        DEF Reads!Next, Reads!Halt

(* An answer the scan was given, a text or an absence, is what the side    *)
(* held at that path at a moment between the listing, or the start of the  *)
(* read, and now: read, readMany and their fallbacks make nothing up.      *)
THEOREM NothingIsMadeUp == MCSpec => []AnswersWereHeld
<1>1. ReadsInv => AnswersWereHeld
  BY DEF ReadsInv, AllHeld, AnswersWereHeld, Reads!AnswersWereHeld
<1> QED BY <1>1, ReadsInitInv, ReadsStepInv, ComponentsRun, PTL DEF Reads!Spec

(* cachingSource gives one answer per path, an absence included.           *)
THEOREM AnswersStay == MCSpec => OneAnswerPerPath
<1>1. ReadsInv /\ [Reads!Next]_(Reads!vars) => [\A p \in Paths : cache[p] # Reads!Unknown => cache'[p] = cache[p]]_(Reads!vars)
  <2> SUFFICES ASSUME ReadsInv, Reads!Next PROVE \A p \in Paths : cache[p] # Reads!Unknown => cache'[p] = cache[p]
    OBVIOUS
  <2>1. CASE Reads!Done
    BY <2>1 DEF Reads!Done, ReadsInv, ReadsTyped, ReadsFresh
  <2>2. CASE ~Reads!Done
    BY <2>2 DEF Reads!Next, Reads!List, Reads!ListFails, Reads!Ask, Reads!Batch, Reads!Show, Reads!ShowFails, Reads!Resolve, Reads!Stat, Reads!ReadFile,
                Reads!DiskFails, Reads!Edit, Reads!Halt, Reads!Stop, Reads!Answered, Reads!vars
  <2> QED BY <2>1, <2>2
<1> QED BY <1>1, ReadsInitInv, ReadsStepInv, ComponentsRun, PTL DEF Reads!Spec, Reads!OneAnswerPerPath, OneAnswerPerPath

------------------------------------------------------------------------------
(* The walk's indices, and where its last star stands.                     *)
GlobTyped ==
  /\ pattern \in Seq(Symbols \cup {GlobStar}) /\ text \in Seq(Letters)
  /\ patternIndex \in 0..Len(pattern) /\ textIndex \in 0..Len(text)
  /\ star \in [at : 0..patternIndex, swallowed : 0..Len(text)]
  /\ star # Glob!NoStar => star.at \in 1..Len(pattern) /\ pattern[star.at] = GlobStar
  /\ patternIndex - star.at = textIndex - star.swallowed

(* The first i parts of p can take the first j letters of t.               *)
Takes(p, t, i, j) ==
  \E cut \in [0..i -> 0..j] :
    /\ cut[0] = 0 /\ cut[i] = j
    /\ \A k \in 1..i : IF p[k] = GlobStar THEN cut[k - 1] <= cut[k]
                       ELSE cut[k] = cut[k - 1] + 1 /\ <<p[k], t[cut[k]]>> \in SymbolSees

(* However the text can be cut, the last star takes at least what it has   *)
(* swallowed, and the parts after it exactly one letter each.              *)
Earliest ==
  \A cut \in Glob!Cuts : /\ cut[star.at] >= star.swallowed
                         /\ star = Glob!NoStar => cut[star.at] = star.swallowed
                         /\ cut[patternIndex] - cut[star.at] = patternIndex - star.at

GlobInv ==
  \/ /\ matched = "running" /\ GlobTyped /\ Earliest
     /\ Takes(pattern, text, patternIndex, textIndex)
     /\ Takes(pattern, text, star.at, star.swallowed)
  \/ /\ matched \in {"yes", "no"} /\ (matched = "yes" <=> Glob!Globs)

(* One part more takes one letter more, or, a star, none or one.           *)
LEMMA TakesMore ==
  ASSUME NEW p, NEW t, NEW i \in Nat, NEW j \in Nat, Takes(p, t, i, j), NEW k \in {j, j + 1},
         p[i + 1] # GlobStar => k = j + 1 /\ <<p[i + 1], t[k]>> \in SymbolSees
  PROVE  Takes(p, t, i + 1, k)
<1>1. PICK cut \in [0..i -> 0..j] :
        /\ cut[0] = 0 /\ cut[i] = j
        /\ \A n \in 1..i : IF p[n] = GlobStar THEN cut[n - 1] <= cut[n]
                           ELSE cut[n] = cut[n - 1] + 1 /\ <<p[n], t[cut[n]]>> \in SymbolSees
  BY DEF Takes
<1> DEFINE more == [n \in 0..(i + 1) |-> IF n = i + 1 THEN k ELSE cut[n]]
<1>2. more \in [0..(i + 1) -> 0..k] /\ more[0] = 0 /\ more[i + 1] = k
  BY <1>1
<1>3. ASSUME NEW n \in 1..(i + 1)
      PROVE  IF p[n] = GlobStar THEN more[n - 1] <= more[n]
             ELSE more[n] = more[n - 1] + 1 /\ <<p[n], t[more[n]]>> \in SymbolSees
  <2>1. CASE n = i + 1
    <3>1. more[n] = k /\ more[n - 1] = j /\ k \in Int /\ j <= k
      BY <1>1, <2>1
    <3>2. p[n] # GlobStar => k = j + 1 /\ <<p[n], t[k]>> \in SymbolSees
      BY <2>1
    <3> HIDE DEF more
    <3> QED BY <3>1, <3>2
  <2>2. CASE n # i + 1
    <3>1. n \in 1..i /\ more[n] = cut[n] /\ more[n - 1] = cut[n - 1]
      BY <2>2
    <3> QED BY <3>1, <1>1
  <2> QED BY <2>1, <2>2
<1> HIDE DEF more
<1> QED BY <1>2, <1>3 DEF Takes

(* The last star takes one letter more.                                    *)
LEMMA StarTakesMore ==
  ASSUME NEW p, NEW t, NEW i \in Nat \ {0}, NEW j \in Nat, Takes(p, t, i, j), p[i] = GlobStar
  PROVE  Takes(p, t, i, j + 1)
<1>1. PICK cut \in [0..i -> 0..j] :
        /\ cut[0] = 0 /\ cut[i] = j
        /\ \A n \in 1..i : IF p[n] = GlobStar THEN cut[n - 1] <= cut[n]
                           ELSE cut[n] = cut[n - 1] + 1 /\ <<p[n], t[cut[n]]>> \in SymbolSees
  BY DEF Takes
<1> DEFINE more == [n \in 0..i |-> IF n = i THEN j + 1 ELSE cut[n]]
<1>2. more \in [0..i -> 0..(j + 1)] /\ more[0] = 0 /\ more[i] = j + 1
  BY <1>1
<1>3. ASSUME NEW n \in 1..i
      PROVE  IF p[n] = GlobStar THEN more[n - 1] <= more[n]
             ELSE more[n] = more[n - 1] + 1 /\ <<p[n], t[more[n]]>> \in SymbolSees
  <2>1. CASE n = i
    <3>1. more[n] = j + 1 /\ more[n - 1] = cut[n - 1] /\ cut[n - 1] \in 0..j
      BY <1>1, <2>1
    <3> QED BY <3>1, <2>1
  <2>2. CASE n # i
    <3>1. more[n] = cut[n] /\ more[n - 1] = cut[n - 1]
      BY <2>2
    <3> QED BY <3>1, <1>1
  <2> QED BY <2>1, <2>2
<1> HIDE DEF more
<1> QED BY <1>2, <1>3 DEF Takes

(* What one part of the pattern takes of a cut.                            *)
LEMMA CutStep ==
  ASSUME NEW cut \in Glob!Cuts, Len(pattern) \in Nat, Len(text) \in Nat,
         NEW i \in 0..Len(pattern)
  PROVE  /\ cut[i] \in 0..Len(text)
         /\ i < Len(pattern) =>
              /\ cut[i + 1] \in 0..Len(text)
              /\ pattern[i + 1] = GlobStar => cut[i] <= cut[i + 1]
              /\ pattern[i + 1] # GlobStar =>
                   cut[i + 1] = cut[i] + 1 /\ <<pattern[i + 1], text[cut[i + 1]]>> \in SymbolSees
<1>1. cut \in [0..Len(pattern) -> 0..Len(text)]
  BY DEF Glob!Cuts
<1>2. ASSUME NEW k \in 1..Len(pattern), k = i + 1
      PROVE  IF pattern[k] = GlobStar THEN cut[i] <= cut[k]
             ELSE cut[k] = cut[i] + 1 /\ <<pattern[k], text[cut[k]]>> \in SymbolSees
  <2>1. k - 1 = i
    BY <1>2
  <2>2. IF pattern[k] = GlobStar THEN cut[k - 1] <= cut[k]
        ELSE cut[k] = cut[k - 1] + 1 /\ <<pattern[k], text[cut[k]]>> \in SymbolSees
    BY DEF Glob!Cuts
  <2> QED BY <2>1, <2>2
<1>3. i < Len(pattern) => i + 1 \in 1..Len(pattern) /\ i + 1 \in 0..Len(pattern)
  OBVIOUS
<1> QED BY <1>1, <1>2, <1>3

(* What is left of a cut after all the text is taken are stars.            *)
LEMMA RestIsStars ==
  ASSUME NEW cut \in Glob!Cuts, NEW i \in 0..Len(pattern), cut[i] = Len(text),
         Len(pattern) \in Nat, Len(text) \in Nat
  PROVE  \A k \in (i + 1)..Len(pattern) : pattern[k] = GlobStar
<1>0. /\ cut \in [0..Len(pattern) -> 0..Len(text)]
      /\ \A k \in 1..Len(pattern) :
           IF pattern[k] = GlobStar THEN cut[k - 1] <= cut[k]
           ELSE cut[k] = cut[k - 1] + 1 /\ <<pattern[k], text[cut[k]]>> \in SymbolSees
  BY DEF Glob!Cuts
<1>1. \A k \in i..Len(pattern) : cut[k] = Len(text)
  <2> DEFINE less == {k \in i..Len(pattern) : cut[k] # Len(text)}
  <2> SUFFICES ASSUME less # {} PROVE FALSE
    OBVIOUS
  <2>1. PICK k \in less : \A n \in less : k <= n
    <3>1. less \in SUBSET Nat
      OBVIOUS
    <3> HIDE DEF less
    <3> QED BY <3>1, Minimum
  <2>2. k - 1 \in i..Len(pattern) /\ k \in 1..Len(pattern) /\ k - 1 \in 0..Len(pattern)
    BY <2>1
  <2>3. cut[k - 1] = Len(text)
    BY <2>1, <2>2
  <2>4. cut[k] \in 0..Len(text)
    BY <1>0, <2>2
  <2>5. cut[k - 1] <= cut[k] \/ cut[k] = cut[k - 1] + 1
    BY <1>0, <2>2
  <2> QED BY <2>1, <2>3, <2>4, <2>5
<1>2. ASSUME NEW k \in (i + 1)..Len(pattern) PROVE pattern[k] = GlobStar
  <2>1. k \in i..Len(pattern) /\ k - 1 \in i..Len(pattern) /\ k \in 1..Len(pattern)
    OBVIOUS
  <2>2. cut[k] = Len(text) /\ cut[k - 1] = Len(text)
    BY <1>1, <2>1
  <2>3. cut[k] # cut[k - 1] + 1
    BY <2>2
  <2> QED BY <2>1, <2>3, <1>0
<1> QED BY <1>2

(* Where stars are all that is left, a cut of the whole text is one.       *)
LEMMA StarsTakeNothing ==
  ASSUME Len(pattern) \in Nat, Len(text) \in Nat, NEW i \in 0..Len(pattern),
         Takes(pattern, text, i, Len(text)),
         \A k \in (i + 1)..Len(pattern) : pattern[k] = GlobStar
  PROVE  Glob!Globs
<1>1. PICK cut \in [0..i -> 0..Len(text)] :
        /\ cut[0] = 0 /\ cut[i] = Len(text)
        /\ \A n \in 1..i : IF pattern[n] = GlobStar THEN cut[n - 1] <= cut[n]
                           ELSE cut[n] = cut[n - 1] + 1 /\ <<pattern[n], text[cut[n]]>> \in SymbolSees
  BY DEF Takes
<1> DEFINE full == [n \in 0..Len(pattern) |-> IF n > i THEN Len(text) ELSE cut[n]]
<1>2. full \in [0..Len(pattern) -> 0..Len(text)] /\ full[0] = 0 /\ full[Len(pattern)] = Len(text)
  BY <1>1
<1>3. ASSUME NEW n \in 1..Len(pattern)
      PROVE  IF pattern[n] = GlobStar THEN full[n - 1] <= full[n]
             ELSE full[n] = full[n - 1] + 1 /\ <<pattern[n], text[full[n]]>> \in SymbolSees
  <2>1. CASE n > i
    <3>1. full[n] = Len(text) /\ full[n - 1] \in 0..Len(text) /\ pattern[n] = GlobStar
      BY <1>1, <2>1
    <3> QED BY <3>1
  <2>2. CASE ~(n > i)
    <3>1. full[n] = cut[n] /\ full[n - 1] = cut[n - 1] /\ n \in 1..i
      BY <2>2
    <3> QED BY <3>1, <1>1
  <2> QED BY <2>1, <2>2
<1> HIDE DEF full
<1> QED BY <1>2, <1>3 DEF Glob!Globs, Glob!Cuts

LEMMA GlobInitInv == Glob!Init => GlobInv
<1> SUFFICES ASSUME Glob!Init PROVE GlobInv
  OBVIOUS
<1>1. patternIndex = 0 /\ textIndex = 0 /\ star = [at |-> 0, swallowed |-> 0] /\ matched = "running"
  BY DEF Glob!Init, Glob!NoStar
<1>0. pattern \in Seq(Symbols \cup {GlobStar}) /\ text \in Seq(Letters)
  BY GlobAssumption DEF Glob!Init, Glob!BoundedSeq, Glob!SeqOf, Glob!GreedyGlobConstants
<1>2. GlobTyped
  BY <1>0, <1>1 DEF GlobTyped, Glob!NoStar
<1>3. Earliest
  BY <1>1 DEF Earliest, Glob!Cuts
<1>4. Takes(pattern, text, 0, 0)
  <2> DEFINE cut == [n \in 0..0 |-> 0]
  <2>1. cut \in [0..0 -> 0..0] /\ cut[0] = 0 /\ 1..0 = {}
    OBVIOUS
  <2> HIDE DEF cut
  <2> QED BY <2>1 DEF Takes
<1> QED BY <1>1, <1>2, <1>3, <1>4 DEF GlobInv

LEMMA GlobStepInv == GlobInv /\ [Glob!Next]_(Glob!vars) => GlobInv'
<1> SUFFICES ASSUME GlobInv, [Glob!Next]_(Glob!vars) PROVE GlobInv'
  OBVIOUS
<1>0. ASSUME GlobTyped
      PROVE  /\ Len(pattern) \in Nat /\ Len(text) \in Nat
             /\ patternIndex \in 0..Len(pattern) /\ textIndex \in 0..Len(text)
             /\ star.at \in 0..patternIndex /\ star.swallowed \in 0..textIndex
             /\ star = [at |-> star.at, swallowed |-> star.swallowed]
  BY <1>0 DEF GlobTyped
<1>a. ASSUME GlobTyped, NEW cut \in Glob!Cuts
      PROVE  /\ cut[patternIndex] \in Int /\ cut[star.at] \in Int
             /\ patternIndex < Len(pattern) =>
                  /\ cut[patternIndex + 1] \in Int
                  /\ pattern[patternIndex + 1] = GlobStar => cut[patternIndex] <= cut[patternIndex + 1]
                  /\ pattern[patternIndex + 1] # GlobStar => cut[patternIndex + 1] = cut[patternIndex] + 1
  <2>0. Len(pattern) \in Nat /\ Len(text) \in Nat /\ patternIndex \in 0..Len(pattern)
    BY <1>a, <1>0
  <2>1. star.at \in 0..Len(pattern)
    BY <1>a, <1>0
  <2>2. cut[star.at] \in 0..Len(text)
    BY <2>0, <2>1, CutStep
  <2>3. /\ cut[patternIndex] \in 0..Len(text)
        /\ patternIndex < Len(pattern) =>
             /\ cut[patternIndex + 1] \in 0..Len(text)
             /\ pattern[patternIndex + 1] = GlobStar => cut[patternIndex] <= cut[patternIndex + 1]
             /\ pattern[patternIndex + 1] # GlobStar => cut[patternIndex + 1] = cut[patternIndex] + 1
    BY <2>0, CutStep
  <2> QED BY <2>0, <2>2, <2>3
<1>1. CASE Glob!OpenStar
  <2> USE <1>1 DEF Glob!OpenStar, Glob!Running, Glob!AtStar
  <2>0. GlobTyped /\ Earliest /\ Takes(pattern, text, patternIndex, textIndex)
    BY DEF GlobInv
  <2>1. GlobTyped'
    BY <2>0, <1>0 DEF GlobTyped, Glob!NoStar
  <2>2. Earliest'
    <3> SUFFICES ASSUME NEW cut \in Glob!Cuts'
                 PROVE  /\ cut[star'.at] >= star'.swallowed
                        /\ star' # Glob!NoStar
                        /\ cut[patternIndex'] - cut[star'.at] = patternIndex' - star'.at
      BY DEF Earliest, Glob!NoStar
    <3>1. cut \in Glob!Cuts
      BY DEF Glob!Cuts
    <3>2. /\ cut[star.at] >= star.swallowed
          /\ cut[patternIndex] - cut[star.at] = patternIndex - star.at
      BY <3>1, <2>0 DEF Earliest
    <3>3. /\ cut[patternIndex] <= cut[patternIndex + 1] /\ cut[patternIndex + 1] \in Int
          /\ cut[patternIndex] \in Int /\ cut[star.at] \in Int
      BY <3>1, <2>0, <1>a
    <3>4. cut[patternIndex + 1] >= textIndex
      BY <3>2, <3>3, <2>0, <1>0 DEF GlobTyped
    <3>5. star'.at = patternIndex + 1 /\ star'.swallowed = textIndex /\ patternIndex' = patternIndex + 1
      OBVIOUS
    <3>6. star'.at # 0
      BY <3>5, <2>0, <1>0
    <3> QED BY <3>4, <3>3, <3>5, <3>6, <2>0, <1>0 DEF Glob!NoStar
  <2>3. Takes(pattern, text, patternIndex + 1, textIndex)
    <3>1. patternIndex \in Nat /\ textIndex \in Nat /\ pattern[patternIndex + 1] = GlobStar
      BY <2>0, <1>0
    <3> QED BY <2>0, <3>1, TakesMore
  <2> QED BY <2>0, <2>1, <2>2, <2>3 DEF GlobInv
<1>2. CASE Glob!Consume
  <2> USE <1>2 DEF Glob!Consume, Glob!Running, Glob!AtMatch, Glob!AtStar
  <2>0. /\ GlobTyped /\ Earliest /\ Takes(pattern, text, patternIndex, textIndex)
        /\ Takes(pattern, text, star.at, star.swallowed)
    BY DEF GlobInv
  <2>1. GlobTyped'
    BY <2>0, <1>0 DEF GlobTyped, Glob!NoStar
  <2>2. Earliest'
    <3> SUFFICES ASSUME NEW cut \in Glob!Cuts'
                 PROVE  /\ cut[star'.at] >= star'.swallowed
                        /\ star' = Glob!NoStar => cut[star'.at] = star'.swallowed
                        /\ cut[patternIndex'] - cut[star'.at] = patternIndex' - star'.at
      BY DEF Earliest, Glob!NoStar
    <3>1. cut \in Glob!Cuts
      BY DEF Glob!Cuts
    <3>2. /\ cut[star.at] >= star.swallowed
          /\ star = Glob!NoStar => cut[star.at] = star.swallowed
          /\ cut[patternIndex] - cut[star.at] = patternIndex - star.at
      BY <3>1, <2>0 DEF Earliest
    <3>3. /\ cut[patternIndex + 1] = cut[patternIndex] + 1
          /\ cut[patternIndex] \in Int /\ cut[star.at] \in Int
      BY <3>1, <2>0, <1>a
    <3> QED BY <3>2, <3>3, <2>0, <1>0
  <2>3. Takes(pattern, text, patternIndex + 1, textIndex + 1)
    <3>1. /\ patternIndex \in Nat /\ textIndex \in Nat /\ textIndex + 1 \in {textIndex, textIndex + 1}
          /\ <<pattern[patternIndex + 1], text[textIndex + 1]>> \in SymbolSees
      BY <2>0, <1>0
    <3> QED BY <2>0, <3>1, TakesMore
  <2> QED BY <2>0, <2>1, <2>2, <2>3 DEF GlobInv
<1>3. ASSUME GlobTyped, Earliest, NEW cut \in Glob!Cuts, Glob!Running, ~Glob!AtStar, ~Glob!AtMatch
      PROVE  cut[star.at] >= star.swallowed + 1 /\ star # Glob!NoStar
  <2> USE <1>3
  <2>1. /\ cut[star.at] >= star.swallowed
        /\ star = Glob!NoStar => cut[star.at] = star.swallowed
        /\ cut[patternIndex] - cut[star.at] = patternIndex - star.at
        /\ cut \in [0..Len(pattern) -> 0..Len(text)] /\ cut[Len(pattern)] = Len(text)
    BY DEF Earliest, Glob!Cuts
  <2>2. cut[patternIndex] \in Int /\ cut[star.at] \in Int
    BY <2>1, <1>0
  <2>3. cut[patternIndex] # textIndex
    <3> SUFFICES ASSUME cut[patternIndex] = textIndex PROVE FALSE
      OBVIOUS
    <3>1. patternIndex < Len(pattern)
      BY <2>1, <1>0 DEF Glob!Running
    <3>2. pattern[patternIndex + 1] # GlobStar
      BY <3>1 DEF Glob!AtStar
    <3>3. cut[patternIndex + 1] = textIndex + 1 /\ <<pattern[patternIndex + 1], text[textIndex + 1]>> \in SymbolSees
      BY <3>1, <3>2, <1>0, CutStep
    <3> QED BY <3>1, <3>3 DEF Glob!AtMatch
  <2>4. patternIndex - star.at = textIndex - star.swallowed
    BY DEF GlobTyped
  <2>5. cut[star.at] # star.swallowed
    BY <2>1, <2>2, <2>3, <2>4, <1>0
  <2> QED BY <2>1, <2>2, <2>5, <1>0
<1>4. CASE Glob!Swallow
  <2> USE <1>4 DEF Glob!Swallow, Glob!Running
  <2>0. GlobTyped /\ Earliest /\ Takes(pattern, text, star.at, star.swallowed)
    BY DEF GlobInv
  <2>a. star'.at = star.at /\ star'.swallowed = star.swallowed + 1 /\ star' = [at |-> star.at, swallowed |-> star.swallowed + 1]
    BY <2>0, <1>0
  <2>1. GlobTyped'
    BY <2>0, <2>a, <1>0 DEF GlobTyped, Glob!NoStar
  <2>2. Earliest'
    <3> SUFFICES ASSUME NEW cut \in Glob!Cuts'
                 PROVE  /\ cut[star'.at] >= star'.swallowed
                        /\ star' # Glob!NoStar
                        /\ cut[patternIndex'] - cut[star'.at] = patternIndex' - star'.at
      BY DEF Earliest, Glob!NoStar
    <3>1. cut \in Glob!Cuts
      BY DEF Glob!Cuts
    <3>2. cut[star.at] >= star.swallowed + 1
      BY <3>1, <2>0, <1>3
    <3>3. cut[star.at] \in Int
      BY <3>1, <2>0, <1>a
    <3>4. star'.swallowed # 0
      BY <2>0, <2>a, <1>0
    <3> QED BY <2>a, <3>2, <3>3, <3>4, <2>0, <1>0 DEF Glob!NoStar
  <2>3. Takes(pattern, text, star.at, star.swallowed + 1)
    <3>1. star.at \in Nat \ {0} /\ pattern[star.at] = GlobStar
      BY <2>0, <1>0 DEF GlobTyped
    <3> QED BY <3>1, <2>0, <1>0, StarTakesMore
  <2> QED BY <2>0, <2>1, <2>2, <2>3, <2>a DEF GlobInv
<1>5. CASE Glob!Fail
  <2> USE <1>5 DEF Glob!Fail
  <2>1. GlobTyped /\ Earliest
    BY DEF GlobInv, Glob!Running
  <2>2. ~Glob!Globs
    BY <2>1, <1>3 DEF Glob!Globs
  <2>3. ~Glob!Globs'
    BY <2>2 DEF Glob!Globs, Glob!Cuts
  <2> QED BY <2>3 DEF GlobInv
<1>6. CASE Glob!Finish
  <2> USE <1>6 DEF Glob!Finish
  <2>1. GlobTyped /\ Earliest /\ Takes(pattern, text, patternIndex, Len(text))
    BY DEF GlobInv
  <2> DEFINE OnlyStars == \A i \in patternIndex + 1 .. Len(pattern) : pattern[i] = GlobStar
  <2>2. OnlyStars => Glob!Globs
    BY <2>1, <1>0, StarsTakeNothing
  <2>3. ASSUME NEW cut \in Glob!Cuts PROVE OnlyStars
    <3>1. /\ cut[star.at] >= star.swallowed
          /\ cut[patternIndex] - cut[star.at] = patternIndex - star.at
          /\ cut \in [0..Len(pattern) -> 0..Len(text)]
      BY <2>1 DEF Earliest, Glob!Cuts
    <3>2. cut[patternIndex] \in 0..Len(text) /\ cut[star.at] \in Int
      BY <3>1, <2>1, <1>0
    <3>3. patternIndex - star.at = textIndex - star.swallowed
      BY <2>1 DEF GlobTyped
    <3>4. cut[patternIndex] = Len(text)
      BY <3>1, <3>2, <3>3, <2>1, <1>0
    <3> QED BY <3>4, <2>1, <1>0, RestIsStars
  <2>4. OnlyStars <=> Glob!Globs
    BY <2>2, <2>3 DEF Glob!Globs
  <2>5. Glob!Globs' <=> Glob!Globs
    BY DEF Glob!Globs, Glob!Cuts
  <2>6. matched' = IF OnlyStars THEN "yes" ELSE "no"
    OBVIOUS
  <2> HIDE DEF OnlyStars
  <2> QED BY <2>4, <2>5, <2>6 DEF GlobInv
<1>7. CASE UNCHANGED Glob!vars
  <2> USE <1>7 DEF Glob!vars
  <2>1. GlobTyped' = GlobTyped
    BY DEF GlobTyped, Glob!NoStar
  <2>2. Glob!Cuts' = Glob!Cuts
    BY DEF Glob!Cuts
  <2>3. Earliest' = Earliest /\ Glob!Globs' = Glob!Globs
    BY <2>2 DEF Earliest, Glob!NoStar, Glob!Globs
  <2> QED BY <2>1, <2>3 DEF GlobInv
<1> QED BY <1>1, <1>2, <1>4, <1>5, <1>6, <1>7 DEF Glob!Next

(* The same of the run, which is about a glob or never starts the walk.    *)
GlobSubject == subject = "glob" => GlobInv

LEMMA GlobSubjectAlways == MCSpec => []GlobSubject
<1>1. MCInit => GlobSubject
  BY GlobInitInv DEF MCInit, GlobSubject
<1>2. GlobSubject /\ [MCNext]_<<subject, vars, readVars, globVars, patternVars, memberVars>>
        => GlobSubject'
  <2> SUFFICES ASSUME GlobSubject, subject' = "glob",
                      [MCNext]_<<subject, vars, readVars, globVars, patternVars, memberVars>>
               PROVE  GlobInv'
    BY DEF GlobSubject
  <2>1. subject = "glob" /\ [Glob!Next]_(Glob!vars)
    BY DEF MCNext, FilterStep, ReadStep, GlobStep, PatternStep, MemberStep, Rest, Glob!vars, globVars
  <2> QED BY <2>1, GlobStepInv DEF GlobSubject
<1> QED BY <1>1, <1>2, PTL DEF MCSpec

(* Remembering only the last star, matchWildcard and matchGlobPath answer  *)
(* what the glob means, for every pattern and every text: an earlier star  *)
(* never has to give back what it took.                                    *)
THEOREM GreedyIsEnough == MCSpec => []GreedyIsGlob
<1>1. GlobSubject => GreedyIsGlob
  BY DEF GlobSubject, GlobInv, GreedyIsGlob, Glob!GreedyIsGlob
<1> QED BY <1>1, GlobSubjectAlways, PTL

------------------------------------------------------------------------------
(* What holds of the first of some numbers, and of one if of the one       *)
(* before, holds of all.                                                   *)
GoesOn(S, lo, hi) == \A i \in lo..(hi - 1) : i \in S => i + 1 \in S

LEMMA Induction ==
  ASSUME NEW lo \in Int, NEW hi \in Int, NEW S, lo \in S, GoesOn(S, lo, hi)
  PROVE  lo..hi \subseteq S
<1> USE DEF GoesOn
<1> DEFINE left == {k \in 0..(hi - lo) : lo + k \notin S}
<1>1. CASE left = {}
  <2>1. ASSUME NEW i \in lo..hi PROVE i \in S
    <3>1. i - lo \in 0..(hi - lo) /\ lo + (i - lo) = i
      OBVIOUS
    <3> QED BY <1>1, <3>1
  <2> QED BY <2>1
<1> SUFFICES ASSUME left # {} PROVE FALSE
  BY <1>1
<1>2. PICK k \in left : \A l \in left : k <= l
  <2>1. left \in SUBSET Nat
    OBVIOUS
  <2> HIDE DEF left
  <2> QED BY <2>1, Minimum
<1>3. k \in 0..(hi - lo) /\ lo + k \notin S /\ k # 0
  BY <1>2
<1>4. k - 1 \notin left
  <2>1. ~(k <= k - 1)
    BY <1>3
  <2> QED BY <1>2, <2>1
<1>5. lo + (k - 1) \in S /\ lo + (k - 1) \in lo..(hi - 1) /\ lo + (k - 1) + 1 = lo + k
  BY <1>3, <1>4
<1> QED BY <1>3, <1>5

(* f goes from its first value on by steps.                                *)
Follows(f, lo, hi, base, step) == f[lo] = base /\ \A i \in (lo + 1)..hi : f[i] = step[i][f[i - 1]]

(* A function can be defined by recursion over lo..hi.                     *)
LEMMA Recursion ==
  ASSUME NEW lo \in Int, NEW hi \in Int, lo <= hi,
         NEW V, NEW base \in V, NEW step \in [(lo + 1)..hi -> [V -> V]]
  PROVE  \E f \in [lo..hi -> V] : Follows(f, lo, hi, base, step)
<1> DEFINE Solved(m) == \E f \in [lo..m -> V] : Follows(f, lo, m, base, step)
           S == {m \in lo..hi : Solved(m)}
<1>1. lo \in S
  <2> DEFINE f == [i \in lo..lo |-> base]
  <2>1. f \in [lo..lo -> V] /\ f[lo] = base /\ (lo + 1)..lo = {}
    OBVIOUS
  <2> HIDE DEF f
  <2>2. Follows(f, lo, lo, base, step)
    BY <2>1 DEF Follows
  <2>3. Solved(lo)
    BY <2>1, <2>2
  <2> QED BY <2>3
<1>2. ASSUME NEW k \in lo..(hi - 1), k \in S PROVE k + 1 \in S
  <2> DEFINE m == k + 1
  <2>1. k \in Int /\ k >= lo /\ m \in lo..hi /\ m \in (lo + 1)..hi
    OBVIOUS
  <2>2. PICK f \in [lo..k -> V] : Follows(f, lo, k, base, step)
    BY <1>2
  <2> DEFINE g == [i \in lo..m |-> IF i = m THEN step[m][f[k]] ELSE f[i]]
  <2>3. f[k] \in V /\ step[m] \in [V -> V]
    BY <2>1, <2>2
  <2>4. g \in [lo..m -> V] /\ g[lo] = base
    <3>1. g[lo] = f[lo]
      BY <2>1
    <3>2. f[lo] = base
      BY <2>2 DEF Follows
    <3>3. \A i \in lo..m : i # m => i \in lo..k
      BY <2>1
    <3> QED BY <2>2, <2>3, <3>1, <3>2, <3>3
  <2>5. ASSUME NEW i \in (lo + 1)..m PROVE g[i] = step[i][g[i - 1]]
    <3>1. g[i - 1] = f[i - 1]
      BY <2>1
    <3>2. CASE i = m
      <4>1. i - 1 = k /\ i \in lo..m
        BY <2>1, <3>2
      <4> QED BY <3>1, <3>2, <4>1
    <3>3. CASE i # m
      <4>1. i \in (lo + 1)..k /\ g[i] = f[i]
        BY <2>1, <3>3
      <4>2. f[i] = step[i][f[i - 1]]
        BY <2>2, <4>1 DEF Follows
      <4> QED BY <4>1, <4>2, <3>1
    <3> QED BY <3>2, <3>3
  <2> HIDE DEF g
  <2>6. Follows(g, lo, m, base, step)
    BY <2>4, <2>5 DEF Follows
  <2>7. Solved(m)
    BY <2>4, <2>6
  <2> QED BY <2>1, <2>7
<1> HIDE DEF S
<1>3. GoesOn(S, lo, hi)
  BY <1>2 DEF GoesOn
<1>4. lo..hi \subseteq S
  BY <1>1, <1>3, Induction
<1>5. hi \in S
  BY <1>4
<1> QED BY <1>5 DEF S

Entries(s) == {s[i] : i \in DOMAIN s}

LEMMA SameCount == ASSUME NEW S PROVE Workspace!Cardinality(S) = Cardinality(S)
BY DEF Workspace!Cardinality, Cardinality

LEMMA AmongKeeps ==
  ASSUME NEW X, NEW s \in Seq(X), NEW S
  PROVE  Workspace!Among(s, S) \in Seq(X \cap S) /\ Entries(Workspace!Among(s, S)) = Entries(s) \cap S
<1> DEFINE kept == {i \in DOMAIN s : s[i] \in S}
           Upto(i) == {j \in kept : j <= i}
           rank == [i \in kept |-> Workspace!Cardinality(Upto(i))]
           c == Workspace!Cardinality(kept)
           chosen == [k \in 1 .. c |-> CHOOSE i \in kept : Workspace!Cardinality(Upto(i)) = k]
           t == [k \in 1 .. c |-> s[chosen[k]]]
<1>1. Workspace!Among(s, S) = t
  BY DEF Workspace!Among
<1>2. kept \subseteq 1 .. Len(s) /\ Len(s) \in Nat /\ DOMAIN s = 1 .. Len(s)
  OBVIOUS
<1>3. IsFiniteSet(kept) /\ c \in Nat
  <2>1. IsFiniteSet(1 .. Len(s))
    BY <1>2, FS_Interval, SameCount
  <2> HIDE DEF kept
  <2> QED BY <1>2, <2>1, FS_Subset, FS_CardinalityType, SameCount
<1>4. ASSUME NEW i \in kept PROVE IsFiniteSet(Upto(i)) /\ Workspace!Cardinality(Upto(i)) \in 1 .. c
  <2>1. Upto(i) \in SUBSET kept /\ i \in Upto(i)
    BY <1>2
  <2> HIDE DEF Upto, kept
  <2>2. /\ IsFiniteSet(Upto(i)) /\ Workspace!Cardinality(Upto(i)) <= Workspace!Cardinality(kept)
        /\ Workspace!Cardinality(Upto(i)) \in Nat
    BY <1>3, <2>1, FS_Subset, FS_CardinalityType, SameCount
  <2>3. Workspace!Cardinality(Upto(i)) # 0
    BY <2>1, <2>2, FS_EmptySet, SameCount
  <2> QED BY <2>2, <2>3, <1>3
<1>5. ASSUME NEW i \in kept, NEW j \in kept, i < j PROVE Workspace!Cardinality(Upto(i)) < Workspace!Cardinality(Upto(j))
  <2>1. Upto(i) \in SUBSET Upto(j) /\ j \in Upto(j) /\ j \notin Upto(i)
    BY <1>2, <1>5
  <2>2. Upto(i) # Upto(j)
    BY <2>1
  <2> HIDE DEF Upto, kept
  <2>3. IsFiniteSet(Upto(j)) /\ Workspace!Cardinality(Upto(i)) \in Nat /\ Workspace!Cardinality(Upto(j)) \in Nat
    BY <1>4, <1>3
  <2>4. Workspace!Cardinality(Upto(i)) <= Workspace!Cardinality(Upto(j)) /\ Workspace!Cardinality(Upto(i)) # Workspace!Cardinality(Upto(j))
    BY <2>1, <2>2, <2>3, FS_Subset, SameCount
  <2> QED BY <2>3, <2>4
<1>6. rank \in Injection(kept, 1 .. c)
  <2>1. rank \in [kept -> 1 .. c]
    BY <1>4
  <2>2. \A i, j \in kept : rank[i] = rank[j] => i = j
    <3> SUFFICES ASSUME NEW i \in kept, NEW j \in kept, rank[i] = rank[j], i # j PROVE FALSE
      OBVIOUS
    <3>1. i < j \/ j < i
      BY <1>2
    <3>2. rank[i] = Workspace!Cardinality(Upto(i)) /\ rank[j] = Workspace!Cardinality(Upto(j))
      OBVIOUS
    <3> HIDE DEF Upto, kept, rank
    <3>3. rank[i] \in 1 .. c /\ rank[j] \in 1 .. c
      BY <2>1
    <3>4. Workspace!Cardinality(Upto(i)) < Workspace!Cardinality(Upto(j)) \/ Workspace!Cardinality(Upto(j)) < Workspace!Cardinality(Upto(i))
      BY <1>5, <3>1
    <3>5. rank[i] < rank[j] \/ rank[j] < rank[i]
      BY <3>2, <3>4
    <3>6. rank[i] \in Int /\ rank[j] \in Int
      BY <1>3, <3>3
    <3> QED BY <3>5, <3>6
  <2> QED BY <2>1, <2>2 DEF Injection, IsInjective
<1>7. ASSUME NEW k \in 1 .. c PROVE \E i \in kept : Workspace!Cardinality(Upto(i)) = k
  <2> HIDE DEF Upto, kept, c, rank
  <2>1. IsFiniteSet(1 .. c) /\ Workspace!Cardinality(1 .. c) = c
    BY <1>3, FS_Interval, SameCount
  <2>2. rank \in Surjection(kept, 1 .. c)
    BY <1>6, <2>1, FS_Injection, SameCount DEF c
  <2>3. \E i \in kept : rank[i] = k
    BY <2>2 DEF Surjection
  <2> QED BY <2>3 DEF rank
<1>8. \A k \in 1 .. c : chosen[k] \in kept /\ Workspace!Cardinality(Upto(chosen[k])) = k
  BY <1>7
<1>9. \A i \in kept : s[i] \in X \cap S
  BY <1>2
<1>10. t \in [1 .. c -> X \cap S]
  <2>1. \A k \in 1 .. c : s[chosen[k]] \in X \cap S
    BY <1>8, <1>9
  <2> HIDE DEF kept, chosen, Upto, c
  <2> QED BY <2>1
<1>11. t \in Seq(X \cap S)
  <2> HIDE DEF t, c
  <2> QED BY <1>3, <1>10
<1>12. \A i \in kept : i = chosen[Workspace!Cardinality(Upto(i))]
  <2> SUFFICES ASSUME NEW i \in kept PROVE i = chosen[Workspace!Cardinality(Upto(i))]
    OBVIOUS
  <2> DEFINE k == Workspace!Cardinality(Upto(i))
  <2>1. k \in 1 .. c
    BY <1>4
  <2>2. chosen[k] \in kept /\ Workspace!Cardinality(Upto(chosen[k])) = k
    BY <1>8, <2>1
  <2>3. rank[i] = k /\ rank[chosen[k]] = k
    BY <2>2
  <2> HIDE DEF k, kept, chosen, rank, Upto
  <2> QED BY <1>6, <2>2, <2>3 DEF Injection, IsInjective, k
<1>13. Entries(t) = {s[i] : i \in kept}
  <2>1. Entries(t) = {s[chosen[k]] : k \in 1 .. c}
    BY DEF Entries
  <2> HIDE DEF kept, chosen, Upto
  <2> QED BY <1>4, <1>8, <1>12, <2>1
<1>14. {s[i] : i \in kept} = Entries(s) \cap S
  BY DEF Entries
<1> QED BY <1>1, <1>11, <1>13, <1>14

------------------------------------------------------------------------------
(* What is known of the constants of the walk.                             *)
SegmentLists == Seq(SegmentTexts)

(* One segment takes the names of a path after the first j up to the m-th. *)
NoneHidden(d, j, m) == \A i \in j + 1..m : d[i] \notin HiddenTexts
Swallows(segment, d, j, m) == segment = "**" /\ m \in j..Len(d) /\ NoneHidden(d, j, m)
TakesOne(segment, d, j, m) ==
  segment # "**" /\ j < Len(d) /\ m = j + 1 /\ Workspace!SegmentMatches(segment, d[m])
Eats(segment, d, j, m) == Swallows(segment, d, j, m) \/ TakesOne(segment, d, j, m)

LEMMA AdvanceIs ==
  ASSUME NEW S, NEW segment, NEW d, NEW m
  PROVE  m \in Workspace!Advance(S, segment, d) <=> \E j \in S : Eats(segment, d, j, m)
<1> DEFINE Of(j) == IF segment = "**"
                    THEN {k \in j..Len(d) : \A i \in j + 1 .. k : d[i] \notin HiddenTexts}
                    ELSE {j + 1 : i \in {i \in {j} : j < Len(d) /\ Workspace!SegmentMatches(segment, d[j + 1])}}
<1>1. Workspace!Advance(S, segment, d) = UNION {Of(j) : j \in S}
  BY DEF Workspace!Advance
<1>2. ASSUME NEW j \in S PROVE m \in Of(j) <=> Eats(segment, d, j, m)
  BY DEF Eats, Swallows, TakesOne, NoneHidden
<1> HIDE DEF Of
<1> QED BY <1>1, <1>2

LEMMA AdvanceStays ==
  ASSUME NEW segment, NEW d, Len(d) \in Nat, NEW S \in SUBSET (0..Len(d))
  PROVE  Workspace!Advance(S, segment, d) \in SUBSET (0..Len(d))
<1> SUFFICES ASSUME NEW m \in Workspace!Advance(S, segment, d) PROVE m \in 0..Len(d)
  OBVIOUS
<1>1. PICK j \in S : Eats(segment, d, j, m)
  BY AdvanceIs
<1> QED BY <1>1 DEF Eats, Swallows, TakesOne

(* How many names of d the first segments of p can take.                   *)
Taken(p, d) == Workspace!Positions(p, d)

IsTaken(f, p, d) ==
  /\ f[0] = {0} /\ \A k \in 0..Len(p) : f[k] \in SUBSET (0..Len(d))
  /\ \A k \in 1..Len(p) : f[k] = Workspace!Advance(f[k - 1], p[k], d)

LEMMA PositionsAre ==
  ASSUME NEW p, Len(p) \in Nat, NEW d, Len(d) \in Nat
  PROVE  IsTaken(Taken(p, d), p, d)
<1> DEFINE n == Len(p)
           V == SUBSET (0..Len(d))
           Body(t) == [k \in 0..n |-> IF k = 0 THEN {0} ELSE Workspace!Advance(t[k - 1], p[k], d)]
           steps == [k \in 1..n |-> [S \in V |-> Workspace!Advance(S, p[k], d)]]
           t0 == CHOOSE t : t = Body(t)
<1>1. steps \in [1..n -> [V -> V]]
  <2>1. ASSUME NEW k \in 1..n, NEW S \in V PROVE Workspace!Advance(S, p[k], d) \in V
    BY AdvanceStays
  <2> QED BY <2>1
<1>2. PICK f \in [0..n -> V] : Follows(f, 0, n, {0}, steps)
  <2>1. n \in Nat /\ 0 <= n /\ 0 \in Int /\ n \in Int /\ {0} \in V /\ (0 + 1)..n = 1..n
    OBVIOUS
  <2> HIDE DEF n, V, steps
  <2> QED BY <1>1, <2>1, Recursion
<1>3. f = Body(f)
  <2>1. ASSUME NEW k \in 1..n PROVE f[k] = Workspace!Advance(f[k - 1], p[k], d)
    <3>1. k - 1 \in 0..n /\ f[k - 1] \in V
      <4>1. k - 1 \in 0..n
        OBVIOUS
      <4> HIDE DEF n, V
      <4> QED BY <1>2, <4>1
    <3>2. f[k] = steps[k][f[k - 1]]
      <4> HIDE DEF steps, V
      <4> QED BY <1>2 DEF Follows
    <3> QED BY <3>1, <3>2
  <2>2. f[0] = {0} /\ f \in [0..n -> V]
    BY <1>2 DEF Follows
  <2> HIDE DEF V
  <2> QED BY <2>1, <2>2
<1>4. t0 = Body(t0)
  BY <1>3
<1>5. Taken(p, d) = t0
  BY DEF Taken, Workspace!Positions
<1> HIDE DEF t0, V, steps
<1> DEFINE e(k) == IF k = 0 THEN {0} ELSE Workspace!Advance(t0[k - 1], p[k], d)
<1>6. t0[0] = {0} /\ \A k \in 1..n : t0[k] = Workspace!Advance(t0[k - 1], p[k], d)
  <2>1. t0 = [k \in 0..n |-> e(k)]
    BY <1>4
  <2>2. ASSUME NEW k \in 0..n PROVE t0[k] = e(k)
    <3> HIDE DEF e
    <3> QED BY <2>1
  <2>3. \A k \in 1..n : k \in 0..n /\ k # 0
    OBVIOUS
  <2> QED BY <2>2, <2>3
<1> DEFINE S == {k \in 0..n : t0[k] \in SUBSET (0..Len(d))}
<1>7. 0 \in S
  BY <1>6
<1>8. GoesOn(S, 0, n)
  <2> SUFFICES ASSUME NEW k \in 0..n - 1, k \in S PROVE k + 1 \in S
    BY DEF GoesOn
  <2>1. k + 1 \in 1..n /\ (k + 1) - 1 = k /\ t0[k] \in SUBSET (0..Len(d))
    OBVIOUS
  <2>2. t0[k + 1] = Workspace!Advance(t0[k], p[k + 1], d)
    BY <1>6, <2>1
  <2> QED BY <2>1, <2>2, AdvanceStays
<1>9. 0..n \subseteq S
  <2> HIDE DEF S
  <2> QED BY <1>7, <1>8, Induction
<1> QED BY <1>5, <1>6, <1>9 DEF IsTaken

(* A name count taken by k + 1 segments is one reached from one taken by k. *)
LEMMA TakenStep ==
  ASSUME NEW p, Len(p) \in Nat, NEW d, Len(d) \in Nat, NEW k \in 1..Len(p), NEW m
  PROVE  m \in Taken(p, d)[k] <=> \E j \in Taken(p, d)[k - 1] : Eats(p[k], d, j, m)
BY PositionsAre, AdvanceIs DEF IsTaken

(* The first segments take what they take by themselves.                   *)
LEMMA TakenByFewer ==
  ASSUME NEW p \in SegmentLists, NEW d \in SegmentLists, NEW n \in 0..Len(p), NEW k \in 0..n
  PROVE  Taken(SubSeq(p, 1, n), d)[k] = Taken(p, d)[k]
<1> DEFINE q == SubSeq(p, 1, n)
           S == {i \in 0..n : Taken(q, d)[i] = Taken(p, d)[i]}
<1>1. q \in SegmentLists /\ Len(q) = n /\ \A i \in 1..n : q[i] = p[i]
  BY DEF SegmentLists
<1>2. Len(p) \in Nat /\ Len(d) \in Nat
  BY DEF SegmentLists
<1> HIDE DEF q
<1>3. IsTaken(Taken(q, d), q, d) /\ IsTaken(Taken(p, d), p, d)
  BY <1>1, <1>2, PositionsAre
<1>4. 0 \in S
  <2>1. 0 \in 0..n
    BY <1>2
  <2>2. Taken(q, d)[0] = Taken(p, d)[0]
    BY <1>3 DEF IsTaken
  <2> QED BY <2>1, <2>2
<1>5. GoesOn(S, 0, n)
  <2> SUFFICES ASSUME NEW i \in 0..n - 1, i \in S PROVE i + 1 \in S
    BY DEF GoesOn
  <2>1. i + 1 \in 1..n /\ i + 1 \in 1..Len(p) /\ (i + 1) - 1 = i
    BY <1>2
  <2>2. /\ Taken(q, d)[i + 1] = Workspace!Advance(Taken(q, d)[i], q[i + 1], d)
        /\ Taken(p, d)[i + 1] = Workspace!Advance(Taken(p, d)[i], p[i + 1], d)
    BY <1>1, <1>3, <2>1 DEF IsTaken
  <2> QED BY <1>1, <2>1, <2>2
<1>6. 0..n \subseteq S
  <2> HIDE DEF S
  <2> QED BY <1>4, <1>5, Induction
<1> QED BY <1>6 DEF q

(* What can be taken of the first names of a path does not depend on the   *)
(* rest of it.                                                             *)
LEMMA EatsOfPrefix ==
  ASSUME NEW d \in SegmentLists, NEW n \in 0..Len(d), NEW e, e = SubSeq(d, 1, n),
         NEW segment, NEW j \in Nat, NEW m \in 0..n
  PROVE  Eats(segment, e, j, m) <=> Eats(segment, d, j, m)
<1>1. Len(e) = n /\ (\A i \in 1..n : e[i] = d[i]) /\ Len(d) \in Nat
  BY DEF SegmentLists
<1>2. NoneHidden(e, j, m) <=> NoneHidden(d, j, m)
  BY <1>1 DEF NoneHidden
<1>3. Swallows(segment, e, j, m) <=> Swallows(segment, d, j, m)
  BY <1>1, <1>2 DEF Swallows
<1>4. TakesOne(segment, e, j, m) <=> TakesOne(segment, d, j, m)
  BY <1>1 DEF TakesOne
<1> QED BY <1>3, <1>4 DEF Eats

LEMMA TakenOfPrefix ==
  ASSUME NEW p \in SegmentLists, NEW d \in SegmentLists, NEW n \in 0..Len(d), NEW k \in 0..Len(p)
  PROVE  Taken(p, SubSeq(d, 1, n))[k] = Taken(p, d)[k] \cap (0..n)
<1> DEFINE e == SubSeq(d, 1, n)
           S == {i \in 0..Len(p) : Taken(p, e)[i] = Taken(p, d)[i] \cap (0..n)}
<1>1. e \in SegmentLists /\ Len(e) = n /\ Len(d) \in Nat /\ Len(p) \in Nat /\ Len(e) \in Nat /\ e = SubSeq(d, 1, n)
  BY DEF SegmentLists
<1> HIDE DEF e
<1>3. IsTaken(Taken(p, e), p, e) /\ IsTaken(Taken(p, d), p, d)
  BY <1>1, PositionsAre
<1>4. 0 \in S
  BY <1>3 DEF IsTaken
<1>5. GoesOn(S, 0, Len(p))
  <2> SUFFICES ASSUME NEW i \in 0..Len(p) - 1, i \in S PROVE i + 1 \in S
    BY DEF GoesOn
  <2>1. i + 1 \in 1..Len(p) /\ (i + 1) - 1 = i /\ Taken(p, e)[i] = Taken(p, d)[i] \cap (0..n) /\ i \in 0..Len(p) /\ i + 1 \in 0..Len(p)
    BY <1>1
  <2>2. Taken(p, e)[i + 1] \subseteq 0..n /\ Taken(p, d)[i] \subseteq 0..Len(d)
    BY <1>1, <1>3, <2>1 DEF IsTaken
  <2>3. ASSUME NEW m \in 0..n PROVE m \in Taken(p, e)[i + 1] <=> m \in Taken(p, d)[i + 1]
    <3>1. m \in Taken(p, e)[i + 1] <=> \E j \in Taken(p, e)[i] : Eats(p[i + 1], e, j, m)
      BY <1>1, <2>1, TakenStep
    <3>2. m \in Taken(p, d)[i + 1] <=> \E j \in Taken(p, d)[i] : Eats(p[i + 1], d, j, m)
      BY <1>1, <2>1, TakenStep
    <3>3. ASSUME NEW j \in Taken(p, d)[i], Eats(p[i + 1], d, j, m) PROVE j \in 0..n
      <4>1. j \in Nat
        BY <2>2
      <4>2. j <= m
        BY <3>3, <4>1 DEF Eats, Swallows, TakesOne
      <4> QED BY <4>1, <4>2
    <3>4. ASSUME NEW j \in 0..n PROVE Eats(p[i + 1], e, j, m) <=> Eats(p[i + 1], d, j, m)
      <4>1. j \in Nat
        BY <1>1
      <4> QED BY <1>1, <4>1, EatsOfPrefix
    <3> QED BY <2>1, <3>1, <3>2, <3>3, <3>4
  <2> QED BY <2>1, <2>2, <2>3
<1>6. 0..Len(p) \subseteq S
  <2> HIDE DEF S
  <2> QED BY <1>1, <1>4, <1>5, Induction
<1> QED BY <1>6 DEF e

------------------------------------------------------------------------------
(* Some of the segments before the last take the first n names, or the     *)
(* last that takes more is a "**".                                         *)
PassesBy(p, d, k, n) == \E m \in 1..k : n \in Taken(p, d)[m] /\ (m < k \/ p[m] = "**")

LEMMA EveryPrefixIsPassed ==
  ASSUME NEW p \in SegmentLists, NEW d \in SegmentLists, NEW n \in Nat \ {0}, n < Len(d),
         Len(d) \in Taken(p, d)[Len(p)]
  PROVE  PassesBy(p, d, Len(p), n)
<1> DEFINE S == {k \in 0..Len(p) : \A j \in Taken(p, d)[k] : n < j => PassesBy(p, d, k, n)}
<1>0. Len(p) \in Nat /\ Len(d) \in Nat
  BY DEF SegmentLists
<1>1. IsTaken(Taken(p, d), p, d)
  BY <1>0, PositionsAre
<1>2. 0 \in S
  <2>1. Taken(p, d)[0] = {0} /\ ~(n < 0) /\ 0 \in 0..Len(p)
    BY <1>0, <1>1 DEF IsTaken
  <2> QED BY <2>1
<1>3. GoesOn(S, 0, Len(p))
  <2> SUFFICES ASSUME NEW i \in 0..Len(p) - 1, i \in S PROVE i + 1 \in S
    BY DEF GoesOn
  <2> DEFINE k == i + 1
  <2>1. k \in 1..Len(p) /\ k \in 0..Len(p) /\ k - 1 = i /\ i \in 0..Len(p) /\ i \in Nat /\ i < k /\ k \in Nat
    BY <1>0
  <2> HIDE DEF k
  <2> SUFFICES ASSUME NEW j \in Taken(p, d)[k], n < j PROVE PassesBy(p, d, k, n)
    BY <2>1 DEF k
  <2>2. PICK h \in Taken(p, d)[i] : Eats(p[k], d, h, j)
    BY <1>0, <2>1, TakenStep
  <2>3. h \in 0..Len(d) /\ j \in 0..Len(d)
    BY <1>1, <2>1, <2>2 DEF IsTaken
  <2>4. CASE n < h
    <3>1. PassesBy(p, d, i, n)
      BY <2>2, <2>4
    <3>2. PICK m \in 1..i : n \in Taken(p, d)[m]
      BY <3>1 DEF PassesBy
    <3>3. m \in 1..k /\ m < k
      BY <2>1
    <3> QED BY <3>2, <3>3 DEF PassesBy
  <2>5. CASE n = h
    <3>1. i # 0
      BY <1>1, <2>2, <2>5 DEF IsTaken
    <3>2. i \in 1..k
      BY <2>1, <3>1
    <3> QED BY <2>1, <2>2, <2>5, <3>2 DEF PassesBy
  <2>6. CASE h < n
    <3>1. Swallows(p[k], d, h, j)
      <4>1. ~TakesOne(p[k], d, h, j)
        BY <2>3, <2>6 DEF TakesOne
      <4> QED BY <2>2, <4>1 DEF Eats
    <3>2. Swallows(p[k], d, h, n)
      <4>1. \A x \in h + 1..n : x \in h + 1..j
        BY <2>3
      <4>2. n \in h..Len(d)
        BY <1>0, <2>3, <2>6
      <4> QED BY <3>1, <4>1, <4>2 DEF Swallows, NoneHidden
    <3>3. n \in Taken(p, d)[k]
      BY <1>0, <2>1, <2>2, <3>2, TakenStep DEF Eats
    <3>4. k \in 1..k /\ p[k] = "**"
      BY <2>1, <3>1 DEF Swallows
    <3> QED BY <3>3, <3>4 DEF PassesBy
  <2> QED BY <2>3, <2>4, <2>5, <2>6
<1>4. 0..Len(p) \subseteq S
  <2> HIDE DEF S
  <2> QED BY <1>0, <1>2, <1>3, Induction
<1>5. Len(p) \in S
  BY <1>0, <1>4
<1> QED BY <1>5

(* A pattern, cut where the first names of a path are taken.               *)
LEMMA MatchOfPrefixes ==
  ASSUME NEW p \in SegmentLists, NEW d \in SegmentLists, NEW m \in 0..Len(p), NEW n \in 0..Len(d)
  PROVE  Workspace!MatchNpmGlob(SubSeq(p, 1, m), SubSeq(d, 1, n)) <=> n \in Taken(p, d)[m]
<1> DEFINE e == SubSeq(d, 1, n)
           q == SubSeq(p, 1, m)
<1>1. e \in SegmentLists /\ Len(e) = n /\ Len(q) = m
  BY DEF SegmentLists
<1>2. Len(p) \in Nat /\ m \in 0..m
  BY DEF SegmentLists
<1>3. Taken(q, e)[m] = Taken(p, e)[m]
  BY <1>1, <1>2, TakenByFewer
<1>4. Taken(p, e)[m] = Taken(p, d)[m] \cap (0..n)
  BY TakenOfPrefix
<1>5. Workspace!MatchNpmGlob(q, e) <=> Len(e) \in Taken(q, e)[Len(q)]
  BY DEF Workspace!MatchNpmGlob, Taken
<1>6. n \in 0..n
  BY DEF SegmentLists
<1> HIDE DEF e, q
<1>7. Workspace!MatchNpmGlob(q, e) <=> n \in Taken(p, d)[m]
  BY <1>1, <1>3, <1>4, <1>5, <1>6
<1> QED BY <1>7 DEF e, q

LEMMA MatchIs ==
  ASSUME NEW p, NEW d
  PROVE  Workspace!MatchNpmGlob(p, d) <=> Len(d) \in Taken(p, d)[Len(p)]
BY DEF Workspace!MatchNpmGlob, Taken

(* Patterns are lists of segments.                                         *)
Positives(given) == Workspace!Partition(given).positives

LEMMA PositivesTyped ==
  ASSUME NEW given \in Seq(RawPatterns)
  PROVE  Positives(given) \in Seq(SegmentLists)
<1> DEFINE negs == Workspace!Partition(given).negs
           S == {p \in Workspace!ToSet(given) : ~p.negated /\
                   \A i \in DOMAIN negs : ~Workspace!MatchNpmGlob(negs[i], p.segments)}
           some == Workspace!Among(given, S)
<1>1. Positives(given) = [i \in DOMAIN some |-> some[i].segments]
  BY DEF Positives, Workspace!Partition
<1>2. some \in Seq(RawPatterns \cap S)
  <2> HIDE DEF S
  <2> QED BY AmongKeeps
<1> HIDE DEF S, some
<1>3. \A p \in RawPatterns : p.segments \in SegmentLists
  BY WalksAssumption DEF Workspace!WorkspacePatternsConstants, SegmentLists
<1>4. DOMAIN some = 1..Len(some) /\ Len(some) \in Nat /\ \A i \in DOMAIN some : some[i] \in RawPatterns
  BY <1>2
<1>5. [i \in DOMAIN some |-> some[i].segments] \in [1..Len(some) -> SegmentLists]
  BY <1>3, <1>4
<1> QED BY <1>1, <1>4, <1>5

(* What the patterns cover, they reach below every directory on the way.   *)
LEMMA CoveredIsReached ==
  ASSUME NEW given \in Seq(RawPatterns), NEW d \in SegmentLists, Workspace!WorkspaceCoverage(given, d),
         NEW n \in 1..Len(d) - 1
  PROVE  Workspace!ReachBelow(given, SubSeq(d, 1, n))
<1> DEFINE ps == Positives(given)
           e == SubSeq(d, 1, n)
<1>1. PICK i \in DOMAIN ps : Workspace!Exact(ps[i]) /\ Workspace!MatchNpmGlob(ps[i], d)
  BY DEF Workspace!WorkspaceCoverage, Positives
<1>2. ps[i] \in SegmentLists
  BY PositivesTyped
<1>3. ~Workspace!NeverAMember(e)
  <2>1. ~Workspace!NeverAMember(d)
    BY DEF Workspace!WorkspaceCoverage
  <2>2. Len(e) = n /\ n \in 1..Len(d) /\ \A j \in 1..n : e[j] = d[j] /\ j \in 1..Len(d)
    BY DEF SegmentLists
  <2> HIDE DEF e
  <2>3. e # <<>>
    BY <2>2
  <2> QED BY <2>1, <2>2, <2>3 DEF Workspace!NeverAMember, Workspace!Contains
<1>4. n \in Nat \ {0} /\ n < Len(d) /\ Len(d) \in Nat /\ Len(ps[i]) \in Nat /\ n \in 0..Len(d)
  BY <1>2 DEF SegmentLists
<1>5. PICK m \in 1..Len(ps[i]) : n \in Taken(ps[i], d)[m] /\ (m < Len(ps[i]) \/ ps[i][m] = "**")
  BY <1>1, <1>2, <1>4, MatchIs, EveryPrefixIsPassed DEF PassesBy
<1>6. m \in 0..Len(ps[i])
  BY <1>4
<1>7. Workspace!MatchNpmGlob(SubSeq(ps[i], 1, m), e)
  BY <1>2, <1>4, <1>5, <1>6, MatchOfPrefixes
<1> HIDE DEF e
<1> QED BY <1>1, <1>3, <1>5, <1>7 DEF Workspace!ReachBelow, Positives, e

------------------------------------------------------------------------------
(* Where a path really is on a side: Identity, of the side.                *)
Onward(seen, here, name) ==
  LET there == Append(here, name)
  IN IF seen = "tree" /\ there \in DOMAIN DirLinks THEN DirLinks[there] ELSE there

WhereIs(seen, path) ==
  LET along[n \in 0..Len(path)] == IF n = 0 THEN <<>> ELSE Onward(seen, along[n - 1], path[n])
  IN along[Len(path)]

LEMMA IdentityIsPlace == ASSUME NEW q PROVE Workspace!Identity(q) = WhereIs(seenAs, q)
BY DEF Workspace!Identity, Workspace!Step, Workspace!FollowsLinks, WhereIs, Onward

IsAlong(f, seen, q) ==
  /\ f[0] = <<>> /\ \A k \in 0..Len(q) : f[k] \in SegmentLists
  /\ \A k \in 1..Len(q) : f[k] = Onward(seen, f[k - 1], q[k])

LEMMA OnwardTyped ==
  ASSUME NEW seen, NEW here \in SegmentLists, NEW name \in SegmentTexts
  PROVE  Onward(seen, here, name) \in SegmentLists
<1>1. Append(here, name) \in SegmentLists
  BY DEF SegmentLists
<1>2. \A l \in DOMAIN DirLinks : DirLinks[l] \in SegmentLists
  BY WalksAssumption DEF Workspace!WorkspacePatternsConstants, SegmentLists
<1> QED BY <1>1, <1>2 DEF Onward

LEMMA PlaceIs ==
  ASSUME NEW seen, NEW q \in SegmentLists
  PROVE  \E f : IsAlong(f, seen, q) /\ WhereIs(seen, q) = f[Len(q)]
<1> DEFINE n == Len(q)
           Body(t) == [k \in 0..n |-> IF k = 0 THEN <<>> ELSE Onward(seen, t[k - 1], q[k])]
           steps == [k \in 1..n |-> [v \in SegmentLists |-> Onward(seen, v, q[k])]]
           t0 == CHOOSE t : t = Body(t)
<1>0. n \in Nat /\ \A k \in 1..n : q[k] \in SegmentTexts
  BY DEF SegmentLists
<1>1. steps \in [1..n -> [SegmentLists -> SegmentLists]]
  <2>1. ASSUME NEW k \in 1..n, NEW v \in SegmentLists PROVE Onward(seen, v, q[k]) \in SegmentLists
    BY <1>0, OnwardTyped
  <2> QED BY <2>1
<1>2. PICK f \in [0..n -> SegmentLists] : Follows(f, 0, n, <<>>, steps)
  <2>1. n \in Nat /\ 0 <= n /\ 0 \in Int /\ n \in Int /\ <<>> \in SegmentLists /\ (0 + 1)..n = 1..n
    BY <1>0 DEF SegmentLists
  <2> HIDE DEF n, steps
  <2> QED BY <1>1, <2>1, Recursion
<1>3. ASSUME NEW k \in 1..n PROVE f[k] = Onward(seen, f[k - 1], q[k])
  <2>1. k - 1 \in 0..n
    BY <1>0
  <2>2. f[k - 1] \in SegmentLists
    <3> HIDE DEF n
    <3> QED BY <1>2, <2>1
  <2>3. f[k] = steps[k][f[k - 1]]
    <3> HIDE DEF steps
    <3> QED BY <1>2 DEF Follows
  <2> QED BY <2>2, <2>3
<1>4. f[0] = <<>>
  BY <1>2 DEF Follows
<1>5. f = Body(f)
  BY <1>2, <1>3, <1>4
<1>6. t0 = Body(t0)
  BY <1>5
<1>7. WhereIs(seen, q) = t0[Len(q)]
  BY DEF WhereIs
<1> DEFINE e(k) == IF k = 0 THEN <<>> ELSE Onward(seen, t0[k - 1], q[k])
<1>8. t0 = [k \in 0..n |-> e(k)]
  BY <1>6
<1> HIDE DEF t0, steps, Body
<1>9. t0[0] = <<>> /\ \A k \in 1..n : t0[k] = Onward(seen, t0[k - 1], q[k])
  <2>2. ASSUME NEW k \in 0..n PROVE t0[k] = e(k)
    <3> HIDE DEF e
    <3> QED BY <1>8
  <2>3. 0 \in 0..n /\ \A k \in 1..n : k \in 0..n /\ k # 0
    BY <1>0
  <2> QED BY <2>2, <2>3
<1> DEFINE S == {k \in 0..n : t0[k] \in SegmentLists}
<1>10. 0 \in S
  <2>1. 0 \in 0..n
    BY <1>0
  <2>2. t0[0] \in SegmentLists
    BY <1>9 DEF SegmentLists
  <2> QED BY <2>1, <2>2
<1>11. GoesOn(S, 0, n)
  <2> SUFFICES ASSUME NEW k \in 0..n - 1, k \in S PROVE k + 1 \in S
    BY DEF GoesOn
  <2>1. k + 1 \in 1..n /\ k + 1 \in 0..n /\ (k + 1) - 1 = k
    BY <1>0
  <2>2. t0[k + 1] = Onward(seen, t0[k], q[k + 1]) /\ t0[k] \in SegmentLists /\ q[k + 1] \in SegmentTexts
    BY <1>0, <1>9, <2>1
  <2> QED BY <2>1, <2>2, OnwardTyped
<1>12. 0..n \subseteq S
  <2> HIDE DEF S, n
  <2> QED BY <1>0, <1>10, <1>11, Induction
<1>13. IsAlong(t0, seen, q)
  BY <1>9, <1>12 DEF IsAlong
<1> QED BY <1>7, <1>13

LEMMA SameAlong ==
  ASSUME NEW seen, NEW q \in SegmentLists, NEW r \in SegmentLists, Len(q) <= Len(r), \A k \in 1..Len(q) : q[k] = r[k],
         NEW f, IsAlong(f, seen, q), NEW g, IsAlong(g, seen, r)
  PROVE  f[Len(q)] = g[Len(q)]
<1> DEFINE S == {k \in 0..Len(q) : f[k] = g[k]}
<1>0. Len(q) \in Nat /\ Len(r) \in Nat
  BY DEF SegmentLists
<1>1. 0 \in S
  BY <1>0 DEF IsAlong
<1>2. GoesOn(S, 0, Len(q))
  <2> SUFFICES ASSUME NEW k \in 0..Len(q) - 1, k \in S PROVE k + 1 \in S
    BY DEF GoesOn
  <2>1. k + 1 \in 1..Len(q) /\ k + 1 \in 1..Len(r) /\ k + 1 \in 0..Len(q) /\ (k + 1) - 1 = k /\ f[k] = g[k]
    BY <1>0
  <2>2. f[k + 1] = Onward(seen, f[k], q[k + 1]) /\ g[k + 1] = Onward(seen, g[k], r[k + 1])
    BY <2>1 DEF IsAlong
  <2> QED BY <2>1, <2>2
<1>3. 0..Len(q) \subseteq S
  <2> HIDE DEF S
  <2> QED BY <1>0, <1>1, <1>2, Induction
<1> QED BY <1>0, <1>3

LEMMA PlaceStep ==
  ASSUME NEW seen, NEW q \in SegmentLists, NEW name \in SegmentTexts
  PROVE  /\ WhereIs(seen, q) \in SegmentLists /\ Append(q, name) \in SegmentLists
         /\ WhereIs(seen, Append(q, name)) = Onward(seen, WhereIs(seen, q), name)
<1> DEFINE r == Append(q, name)
<1>1. r \in SegmentLists /\ Len(r) = Len(q) + 1 /\ Len(q) \in Nat /\ r[Len(r)] = name /\ \A k \in 1..Len(q) : q[k] = r[k]
  BY DEF SegmentLists
<1>2. PICK f : IsAlong(f, seen, q) /\ WhereIs(seen, q) = f[Len(q)]
  BY PlaceIs
<1> HIDE DEF r
<1>3. PICK g : IsAlong(g, seen, r) /\ WhereIs(seen, r) = g[Len(r)]
  BY <1>1, PlaceIs
<1>4. f[Len(q)] = g[Len(q)]
  <2>1. Len(q) <= Len(r)
    BY <1>1
  <2> QED BY <1>1, <1>2, <1>3, <2>1, SameAlong
<1>5. Len(r) \in 1..Len(r) /\ Len(r) - 1 = Len(q) /\ Len(q) \in 0..Len(q)
  BY <1>1
<1>6. g[Len(r)] = Onward(seen, g[Len(q)], name)
  BY <1>1, <1>3, <1>5 DEF IsAlong
<1>7. f[Len(q)] \in SegmentLists
  BY <1>2, <1>5 DEF IsAlong
<1> QED BY <1>1, <1>2, <1>3, <1>4, <1>6, <1>7 DEF r

LEMMA PlaceOfRoot == ASSUME NEW seen PROVE WhereIs(seen, <<>>) = <<>>
<1>1. <<>> \in SegmentLists /\ Len(<<>>) = 0
  BY DEF SegmentLists
<1> QED BY <1>1, PlaceIs DEF IsAlong

(* The first names of a directory of the tree are a directory of it, and   *)
(* none of them is a link.                                                 *)
LEMMA DirsTyped ==
  /\ RealDirs \subseteq SegmentLists /\ <<>> \in RealDirs /\ RealDirs \cap DOMAIN DirLinks = {}
  /\ \A d \in RealDirs : d # <<>> => SubSeq(d, 1, Len(d) - 1) \in RealDirs
BY WalksAssumption DEF Workspace!WorkspacePatternsConstants, SegmentLists, Workspace!Front

LEMMA DirsAbove ==
  ASSUME NEW d \in RealDirs, NEW n \in 0..Len(d)
  PROVE  SubSeq(d, 1, n) \in RealDirs
<1>0. d \in SegmentLists /\ Len(d) \in Nat
  BY DirsTyped DEF SegmentLists
<1> DEFINE Up(k) == SubSeq(d, 1, Len(d) - k)
           S == {k \in 0..Len(d) : Up(k) \in RealDirs}
<1>1. 0 \in S
  <2>1. Up(0) = d /\ 0 \in 0..Len(d)
    BY <1>0 DEF SegmentLists
  <2> HIDE DEF Up
  <2> QED BY <2>1
<1>2. GoesOn(S, 0, Len(d))
  <2> SUFFICES ASSUME NEW k \in 0..Len(d) - 1, k \in S PROVE k + 1 \in S
    BY DEF GoesOn
  <2>1. Up(k) \in RealDirs /\ k + 1 \in 0..Len(d)
    BY <1>0
  <2>2. /\ Len(Up(k)) = Len(d) - k /\ Len(Up(k)) # 0
        /\ SubSeq(Up(k), 1, Len(Up(k)) - 1) = Up(k + 1)
    BY <1>0 DEF SegmentLists
  <2> HIDE DEF Up
  <2>3. Up(k) # <<>>
    BY <2>2
  <2>4. Up(k + 1) \in RealDirs
    BY <2>1, <2>2, <2>3, DirsTyped
  <2> QED BY <2>1, <2>4
<1>3. 0..Len(d) \subseteq S
  <2> HIDE DEF S
  <2> QED BY <1>0, <1>1, <1>2, Induction
<1>4. Len(d) - n \in 0..Len(d)
  BY <1>0
<1>5. Up(Len(d) - n) = SubSeq(d, 1, n)
  <2>1. Len(d) - (Len(d) - n) = n
    BY <1>0
  <2> QED BY <2>1
<1>6. Up(Len(d) - n) \in RealDirs
  <2> HIDE DEF Up
  <2> QED BY <1>3, <1>4
<1> QED BY <1>5, <1>6

(* A directory of the tree is where it says it is.                         *)
LEMMA PlaceOfDir ==
  ASSUME NEW seen, NEW d \in RealDirs
  PROVE  WhereIs(seen, d) = d
<1>0. d \in SegmentLists /\ Len(d) \in Nat
  BY DirsTyped DEF SegmentLists
<1> DEFINE S == {k \in 0..Len(d) : WhereIs(seen, SubSeq(d, 1, k)) = SubSeq(d, 1, k)}
<1>1. 0 \in S
  <2>1. SubSeq(d, 1, 0) = <<>> /\ 0 \in 0..Len(d)
    BY <1>0 DEF SegmentLists
  <2>2. WhereIs(seen, SubSeq(d, 1, 0)) = SubSeq(d, 1, 0)
    BY <2>1, PlaceOfRoot
  <2> QED BY <2>1, <2>2
<1>2. GoesOn(S, 0, Len(d))
  <2> SUFFICES ASSUME NEW k \in 0..Len(d) - 1, k \in S PROVE k + 1 \in S
    BY DEF GoesOn
  <2> DEFINE e == SubSeq(d, 1, k)
  <2>1. k + 1 \in 0..Len(d) /\ k + 1 \in 1..Len(d) /\ WhereIs(seen, e) = e
    BY <1>0
  <2>2. e \in SegmentLists /\ d[k + 1] \in SegmentTexts /\ SubSeq(d, 1, k + 1) = Append(e, d[k + 1])
    BY <1>0, <2>1 DEF SegmentLists
  <2>3. Append(e, d[k + 1]) \in RealDirs
    BY <2>1, <2>2, DirsAbove
  <2> HIDE DEF e
  <2>4. WhereIs(seen, Append(e, d[k + 1])) = Onward(seen, e, d[k + 1])
    BY <2>1, <2>2, PlaceStep
  <2>5. Onward(seen, e, d[k + 1]) = Append(e, d[k + 1])
    BY <2>3, DirsTyped DEF Onward
  <2> QED BY <2>1, <2>2, <2>4, <2>5 DEF e
<1>3. 0..Len(d) \subseteq S
  <2> HIDE DEF S
  <2> QED BY <1>0, <1>1, <1>2, Induction
<1>4. Len(d) \in S /\ SubSeq(d, 1, Len(d)) = d
  BY <1>0, <1>3 DEF SegmentLists
<1> QED BY <1>4

------------------------------------------------------------------------------
Frames == [pattern : SegmentLists, path : SegmentLists, index : Nat \ {0}]

(* The places a walk has left after one of them.                           *)
LEMMA StackOf ==
  ASSUME NEW F, NEW s \in Seq(F), s # <<>>
  PROVE  /\ Workspace!Front(s) \in Seq(F) /\ Workspace!Last(s) \in F
         /\ Entries(s) = Entries(Workspace!Front(s)) \cup {Workspace!Last(s)}
<1> DEFINE r == Workspace!Front(s)
<1>0. Len(s) \in Nat \ {0}
  <2>1. Len(s) \in Nat
    OBVIOUS
  <2>2. Len(s) # 0
    OBVIOUS
  <2> QED BY <2>1, <2>2
<1>1. r \in Seq(F) /\ Len(r) = Len(s) - 1 /\ (\A i \in 1..Len(s) - 1 : r[i] = s[i]) /\ Len(s) \in Nat \ {0}
  <2>1. r = SubSeq(s, 1, Len(s) - 1)
    BY DEF Workspace!Front
  <2>2. \A i \in 1..Len(s) - 1 : i \in 1..Len(s)
    BY <1>0
  <2>3. SubSeq(s, 1, Len(s) - 1) \in Seq(F)
    BY <1>0, <2>2
  <2>4. Len(SubSeq(s, 1, Len(s) - 1)) = Len(s) - 1
    BY <1>0
  <2>5. \A i \in 1..Len(s) - 1 : SubSeq(s, 1, Len(s) - 1)[i] = s[i]
    BY <1>0
  <2> HIDE DEF r
  <2> QED BY <1>0, <2>1, <2>3, <2>4, <2>5
<1> HIDE DEF r
<1>2. Workspace!Last(s) = s[Len(s)] /\ Len(s) \in 1..Len(s)
  BY <1>1 DEF Workspace!Last
<1>3. DOMAIN r = 1..Len(s) - 1 /\ DOMAIN s = 1..Len(s)
  BY <1>1
<1>4. Entries(s) = Entries(r) \cup {s[Len(s)]}
  <2>1. ASSUME NEW i \in 1..Len(s) PROVE s[i] \in Entries(r) \cup {s[Len(s)]}
    <3>1. CASE i = Len(s)
      BY <3>1
    <3>2. CASE i # Len(s)
      <4>1. i \in 1..Len(s) - 1
        BY <1>1, <3>2
      <4> QED BY <1>1, <1>3, <4>1 DEF Entries
    <3> QED BY <3>1, <3>2
  <2>2. ASSUME NEW i \in 1..Len(s) - 1 PROVE r[i] \in Entries(s)
    <3>1. i \in 1..Len(s) /\ r[i] = s[i]
      BY <1>1
    <3> QED BY <1>3, <3>1 DEF Entries
  <2>3. s[Len(s)] \in Entries(s)
    BY <1>2, <1>3 DEF Entries
  <2> QED BY <1>3, <2>1, <2>2, <2>3 DEF Entries
<1>5. Workspace!Last(s) \in F
  BY <1>2
<1> QED BY <1>1, <1>2, <1>4, <1>5 DEF r

LEMMA EntriesOfReverse ==
  ASSUME NEW F, NEW s \in Seq(F)
  PROVE  Workspace!Reverse(s) \in Seq(F) /\ Entries(Workspace!Reverse(s)) = Entries(s)
<1> DEFINE n == Len(s)
           r == Workspace!Reverse(s)
<1>1. n \in Nat /\ DOMAIN s = 1..n /\ \A i \in 1..n : s[i] \in F
  OBVIOUS
<1>2. r = [i \in 1..n |-> s[(n - i) + 1]]
  BY DEF Workspace!Reverse
<1> HIDE DEF r, n
<1>3. \A i \in 1..n : (n - i) + 1 \in 1..n /\ (n - ((n - i) + 1)) + 1 = i
  BY <1>1
<1>4. r \in [1..n -> F]
  BY <1>1, <1>2, <1>3
<1>5. r \in Seq(F)
  BY <1>1, <1>4
<1>6. \A i \in 1..n : r[i] = s[(n - i) + 1]
  BY <1>2
<1>7. \A i \in 1..n : s[i] = r[(n - i) + 1]
  BY <1>3, <1>6
<1>8. DOMAIN r = 1..n
  BY <1>2
<1>9. Entries(r) = Entries(s)
  BY <1>1, <1>3, <1>6, <1>7, <1>8 DEF Entries
<1> QED BY <1>5, <1>9 DEF r

LEMMA EntriesOfBoth ==
  ASSUME NEW F, NEW s \in Seq(F), NEW t \in Seq(F)
  PROVE  s \o t \in Seq(F) /\ Entries(s \o t) = Entries(s) \cup Entries(t)
<1> DEFINE r == s \o t
<1>1. /\ r \in Seq(F) /\ Len(r) = Len(s) + Len(t) /\ Len(s) \in Nat /\ Len(t) \in Nat
      /\ DOMAIN r = 1..Len(r) /\ DOMAIN s = 1..Len(s) /\ DOMAIN t = 1..Len(t)
  OBVIOUS
<1>2. (\A i \in 1..Len(s) : r[i] = s[i]) /\ \A i \in 1..Len(t) : r[Len(s) + i] = t[i]
  OBVIOUS
<1> HIDE DEF r
<1>3. ASSUME NEW i \in 1..Len(r) PROVE r[i] \in Entries(s) \cup Entries(t)
  <2>1. CASE i \in 1..Len(s)
    BY <1>1, <1>2, <2>1 DEF Entries
  <2>2. CASE i \notin 1..Len(s)
    <3>1. i - Len(s) \in 1..Len(t) /\ i = Len(s) + (i - Len(s))
      BY <1>1, <2>2
    <3>2. r[i] = t[i - Len(s)]
      BY <1>2, <3>1
    <3> QED BY <1>1, <3>1, <3>2 DEF Entries
  <2> QED BY <2>1, <2>2
<1>4. ASSUME NEW i \in 1..Len(s) PROVE s[i] \in Entries(r)
  <2>1. i \in 1..Len(r)
    BY <1>1
  <2> QED BY <1>1, <1>2, <2>1 DEF Entries
<1>5. ASSUME NEW i \in 1..Len(t) PROVE t[i] \in Entries(r)
  <2>1. Len(s) + i \in 1..Len(r)
    BY <1>1
  <2> QED BY <1>1, <1>2, <2>1 DEF Entries
<1>6. Entries(r) = Entries(s) \cup Entries(t)
  BY <1>1, <1>3, <1>4, <1>5 DEF Entries
<1> QED BY <1>1, <1>6 DEF r

(* The directories listed at a place.                                      *)
Children(seen, q) ==
  {n \in SegmentTexts : \/ Append(WhereIs(seen, q), n) \in RealDirs
                        \/ seen = "tree" /\ Append(WhereIs(seen, q), n) \in DOMAIN DirLinks}

LEMMA Listing ==
  ASSUME order \in Seq(SegmentTexts), NEW q
  PROVE  /\ Workspace!ListChildDirs(q) \in Seq(SegmentTexts)
         /\ Entries(Workspace!ListChildDirs(q)) = Entries(order) \cap Children(seenAs, q)
<1> DEFINE there == IF Workspace!FollowsLinks THEN RealDirs \cup DOMAIN DirLinks ELSE RealDirs
           C == {n \in SegmentTexts : Append(Workspace!Identity(q), n) \in there}
<1>1. Workspace!ListChildDirs(q) = Workspace!Among(order, C)
  BY DEF Workspace!ListChildDirs
<1>2. C = Children(seenAs, q)
  BY IdentityIsPlace DEF Children, Workspace!FollowsLinks
<1> HIDE DEF C
<1>3. Workspace!Among(order, C) \in Seq(SegmentTexts \cap C) /\ Entries(Workspace!Among(order, C)) = Entries(order) \cap C
  BY AmongKeeps
<1>4. Workspace!Among(order, C) \in Seq(SegmentTexts)
  BY <1>3
<1> QED BY <1>1, <1>2, <1>3, <1>4

LEMMA SameEntries == ASSUME NEW s PROVE Workspace!ToSet(s) = Entries(s)
BY DEF Workspace!ToSet, Entries

Modules == Workspace!NodeModules

(* The names a segment goes on to are names it takes, where case counts,   *)
(* and all of them that are listed.                                        *)
LEMMA GoesTo ==
  ASSUME NEW segment \in SegmentTexts, segment # "**", NEW names \in Seq(SegmentTexts)
  PROVE  /\ Workspace!Goes(segment, names) \in Seq(SegmentTexts)
         /\ \A n \in Entries(Workspace!Goes(segment, names)) :
              /\ seenAs # "git-folded" => Workspace!SegmentMatches(segment, n)
              /\ seenAs = "tree" /\ n = Modules => segment = Modules /\ ~Workspace!HasWildcard(segment)
         /\ \A n \in Entries(names) :
              n # Modules /\ Workspace!SegmentMatches(segment, n) => n \in Entries(Workspace!Goes(segment, names))
<1> DEFINE goes == Workspace!Goes(segment, names)
<1>0. /\ \A s, t \in SegmentTexts : <<s, t>> \in SegmentSees => <<LowerCase[s], LowerCase[t]>> \in SegmentSees
      /\ \A s \in SegmentTexts : <<s, s>> \in SegmentSees
  BY WalksAssumption DEF Workspace!WorkspacePatternsConstants
<1>1. CASE Workspace!HasWildcard(segment)
  <2> DEFINE S == {n \in SegmentTexts \ {Modules} : (n \in HiddenTexts => segment \in HiddenTexts)
                     /\ IF Workspace!IgnoresCase THEN <<LowerCase[segment], LowerCase[n]>> \in SegmentSees
                        ELSE <<segment, n>> \in SegmentSees}
  <2>1. goes = Workspace!Among(names, S)
    BY <1>1 DEF Workspace!Goes, Modules
  <2>2. ASSUME NEW n \in S PROVE n # Modules /\ (seenAs # "git-folded" => Workspace!SegmentMatches(segment, n))
    BY <2>2 DEF Workspace!IgnoresCase, Workspace!SegmentMatches
  <2>3. ASSUME NEW n \in SegmentTexts, n # Modules, Workspace!SegmentMatches(segment, n) PROVE n \in S
    BY <1>0, <2>3 DEF Workspace!SegmentMatches
  <2> HIDE DEF S, goes
  <2>4. Workspace!Among(names, S) \in Seq(SegmentTexts \cap S) /\ Entries(Workspace!Among(names, S)) = Entries(names) \cap S
    BY AmongKeeps
  <2>5. goes \in Seq(SegmentTexts) /\ Entries(goes) = Entries(names) \cap S
    BY <2>1, <2>4
  <2>6. Entries(names) \subseteq SegmentTexts
    BY DEF Entries
  <2> QED BY <2>2, <2>3, <2>5, <2>6 DEF goes
<1>2. CASE ~Workspace!HasWildcard(segment) /\ Workspace!IgnoresCase
  <2> DEFINE S == {n \in SegmentTexts : LowerCase[n] = LowerCase[segment]}
  <2>1. goes = Workspace!Among(names, S)
    BY <1>2 DEF Workspace!Goes
  <2>2. seenAs = "git-folded"
    BY <1>2 DEF Workspace!IgnoresCase
  <2>3. ASSUME NEW n \in SegmentTexts, Workspace!SegmentMatches(segment, n) PROVE n \in S
    <3>1. n = segment
      BY <1>2, <2>3 DEF Workspace!SegmentMatches, Workspace!HasWildcard
    <3> QED BY <3>1
  <2> HIDE DEF S, goes
  <2>4. Workspace!Among(names, S) \in Seq(SegmentTexts \cap S) /\ Entries(Workspace!Among(names, S)) = Entries(names) \cap S
    BY AmongKeeps
  <2>5. goes \in Seq(SegmentTexts) /\ Entries(goes) = Entries(names) \cap S
    BY <2>1, <2>4
  <2>6. Entries(names) \subseteq SegmentTexts
    BY DEF Entries
  <2> QED BY <2>2, <2>3, <2>5, <2>6 DEF goes
<1>3. CASE ~Workspace!HasWildcard(segment) /\ ~Workspace!IgnoresCase
  <2>1. goes = <<segment>>
    BY <1>3 DEF Workspace!Goes
  <2>2. goes \in Seq(SegmentTexts) /\ Entries(goes) = {segment}
    BY <2>1 DEF Entries
  <2>3. Workspace!SegmentMatches(segment, segment)
    BY <1>0 DEF Workspace!SegmentMatches
  <2>4. ASSUME NEW n \in SegmentTexts, Workspace!SegmentMatches(segment, n) PROVE n = segment
    BY <1>3, <2>4 DEF Workspace!SegmentMatches, Workspace!HasWildcard
  <2>6. Entries(names) \subseteq SegmentTexts
    BY DEF Entries
  <2> HIDE DEF goes
  <2> QED BY <1>3, <2>2, <2>3, <2>4, <2>6 DEF goes
<1> QED BY <1>1, <1>2, <1>3

------------------------------------------------------------------------------
PlaceAt(p, q, i) == [pattern |-> p, path |-> q, index |-> i]

(* The matching has come to this place with the segments before, or stays  *)
(* in the "**" it is at.                                                   *)
OnRoute(p, q, i) ==
  \/ Len(q) \in Taken(p, q)[i - 1]
  \/ i <= Len(p) /\ p[i] = "**" /\ Len(q) \in Taken(p, q)[i]

LEMMA Longer ==
  ASSUME NEW q \in SegmentLists, NEW n \in SegmentTexts, NEW e, e = Append(q, n)
  PROVE  /\ e \in SegmentLists /\ Len(e) = Len(q) + 1 /\ Len(q) \in Nat /\ e[Len(e)] = n
         /\ SubSeq(e, 1, Len(q)) = q /\ Len(q) \in 0..Len(e)
BY DEF SegmentLists

LEMMA TakenGrows ==
  ASSUME NEW p \in SegmentLists, NEW e \in SegmentLists, NEW n \in 0..Len(e), NEW k \in 0..Len(p)
  PROVE  \A m \in Taken(p, SubSeq(e, 1, n))[k] : m \in Taken(p, e)[k]
BY TakenOfPrefix

LEMMA LongerPath ==
  ASSUME NEW p \in SegmentLists, NEW q \in SegmentLists, NEW n \in SegmentTexts, NEW e, e = Append(q, n), NEW k \in 0..Len(p)
  PROVE  \A m \in Taken(p, q)[k] : m \in Taken(p, e)[k]
<1> DEFINE l == Len(q)
<1>1. e \in SegmentLists /\ SubSeq(e, 1, l) = q /\ l \in 0..Len(e)
  BY Longer
<1> HIDE DEF l
<1>2. \A m \in Taken(p, SubSeq(e, 1, l))[k] : m \in Taken(p, e)[k]
  BY <1>1, TakenGrows
<1> QED BY <1>1, <1>2

LEMMA OneSegmentOn ==
  ASSUME NEW p \in SegmentLists, NEW q \in SegmentLists, NEW i \in 1..Len(p), p[i] # "**", OnRoute(p, q, i),
         NEW n \in SegmentTexts, Workspace!SegmentMatches(p[i], n)
  PROVE  OnRoute(p, Append(q, n), i + 1)
<1> DEFINE e == Append(q, n)
<1>0. Len(p) \in Nat /\ i - 1 \in 0..Len(p) /\ (i + 1) - 1 = i
  BY DEF SegmentLists
<1>1. e \in SegmentLists /\ Len(e) = Len(q) + 1 /\ Len(q) \in Nat /\ e[Len(e)] = n
  BY Longer
<1>2. Len(q) \in Taken(p, e)[i - 1]
  BY <1>0, LongerPath DEF OnRoute
<1> HIDE DEF e
<1>3. TakesOne(p[i], e, Len(q), Len(e))
  BY <1>1 DEF TakesOne
<1>4. Len(e) \in Nat
  BY <1>1
<1>5. Len(e) \in Taken(p, e)[i]
  BY <1>0, <1>2, <1>3, <1>4, TakenStep DEF Eats
<1> QED BY <1>0, <1>5 DEF OnRoute, e

LEMMA NothingOn ==
  ASSUME NEW p \in SegmentLists, NEW q \in SegmentLists, NEW i \in 1..Len(p), p[i] = "**", OnRoute(p, q, i)
  PROVE  OnRoute(p, q, i + 1) /\ Len(q) \in Taken(p, q)[i]
<1>0. Len(p) \in Nat /\ Len(q) \in Nat /\ (i + 1) - 1 = i
  BY DEF SegmentLists
<1>1. Len(q) \in Taken(p, q)[i]
  <2>1. CASE Len(q) \in Taken(p, q)[i - 1]
    <3>1. Swallows(p[i], q, Len(q), Len(q))
      BY <1>0 DEF Swallows, NoneHidden
    <3> QED BY <1>0, <2>1, <3>1, TakenStep DEF Eats
  <2> QED BY <2>1 DEF OnRoute
<1> QED BY <1>0, <1>1 DEF OnRoute

LEMMA AnyDepthOn ==
  ASSUME NEW p \in SegmentLists, NEW q \in SegmentLists, NEW i \in 1..Len(p), p[i] = "**", OnRoute(p, q, i),
         NEW n \in SegmentTexts, n \notin HiddenTexts
  PROVE  OnRoute(p, Append(q, n), i)
<1> DEFINE e == Append(q, n)
<1>0. Len(p) \in Nat /\ i \in 0..Len(p) /\ i - 1 \in 0..Len(p)
  BY DEF SegmentLists
<1>1. e \in SegmentLists /\ Len(e) = Len(q) + 1 /\ Len(q) \in Nat /\ e[Len(e)] = n
  BY Longer
<1>2. Len(q) \in Taken(p, e)[i]
  BY <1>0, NothingOn, LongerPath
<1> HIDE DEF e
<1>3. Len(e) \in Nat
  BY <1>1
<1>4. PICK j \in Taken(p, e)[i - 1] : Eats(p[i], e, j, Len(q))
  BY <1>0, <1>2, <1>3, TakenStep
<1>5. j \in Nat
  BY <1>0, <1>3, PositionsAre DEF IsTaken
<1>6. Swallows(p[i], e, j, Len(q))
  BY <1>4 DEF Eats, TakesOne
<1>7. Swallows(p[i], e, j, Len(e))
  <2>1. j <= Len(q)
    BY <1>6 DEF Swallows
  <2>2. ASSUME NEW x \in j + 1..Len(e) PROVE e[x] \notin HiddenTexts
    <3>1. CASE x = Len(e)
      BY <1>1, <3>1
    <3>2. CASE x # Len(e)
      <4>1. x \in j + 1..Len(q)
        BY <1>1, <1>5, <3>2
      <4> QED BY <1>6, <4>1 DEF Swallows, NoneHidden
    <3> QED BY <3>1, <3>2
  <2> QED BY <1>1, <1>5, <1>6, <2>1, <2>2 DEF Swallows, NoneHidden
<1>8. Len(e) \in Taken(p, e)[i]
  BY <1>0, <1>3, <1>4, <1>7, TakenStep DEF Eats
<1> QED BY <1>0, <1>8 DEF OnRoute, e

(* A pattern without a wildcard matches itself and nothing else.           *)
LEMMA LiteralSegment ==
  ASSUME NEW p \in SegmentLists, Workspace!Literal(p), NEW k \in 1..Len(p), NEW n \in SegmentTexts
  PROVE  p[k] # "**" /\ (Workspace!SegmentMatches(p[k], n) <=> n = p[k])
<1>1. ~Workspace!HasWildcard(p[k]) /\ p[k] \in SegmentTexts
  BY DEF Workspace!Literal, SegmentLists
<1>2. <<p[k], p[k]>> \in SegmentSees
  BY <1>1, WalksAssumption DEF Workspace!WorkspacePatternsConstants
<1> QED BY <1>1, <1>2 DEF Workspace!HasWildcard, Workspace!SegmentMatches

LEMMA LiteralTakes ==
  ASSUME NEW p \in SegmentLists, Workspace!Literal(p), NEW d \in SegmentLists, NEW k \in 0..Len(p)
  PROVE  \A m : m \in Taken(p, d)[k] <=> m = k /\ m \in 0..Len(d) /\ \A i \in 1..k : d[i] = p[i]
<1> DEFINE Same(i) == \A x \in 1..i : d[x] = p[x]
           S == {i \in 0..Len(p) : \A m : m \in Taken(p, d)[i] <=> m = i /\ m \in 0..Len(d) /\ Same(i)}
<1>0. Len(p) \in Nat /\ Len(d) \in Nat
  BY DEF SegmentLists
<1>1. 0 \in S
  <2>1. Taken(p, d)[0] = {0} /\ 0 \in 0..Len(p) /\ 0 \in 0..Len(d)
    BY <1>0, PositionsAre DEF IsTaken
  <2>2. Same(0)
    OBVIOUS
  <2> QED BY <2>1, <2>2
<1>2. GoesOn(S, 0, Len(p))
  <2> SUFFICES ASSUME NEW i \in 0..Len(p) - 1, i \in S PROVE i + 1 \in S
    BY DEF GoesOn
  <2>1. i + 1 \in 1..Len(p) /\ i + 1 \in 0..Len(p) /\ (i + 1) - 1 = i
    BY <1>0
  <2>2. \A m : m \in Taken(p, d)[i] <=> m = i /\ m \in 0..Len(d) /\ Same(i)
    OBVIOUS
  <2>3. ASSUME NEW m PROVE m \in Taken(p, d)[i + 1] <=> m = i + 1 /\ m \in 0..Len(d) /\ Same(i + 1)
    <3>1. m \in Taken(p, d)[i + 1] <=> \E j \in Taken(p, d)[i] : Eats(p[i + 1], d, j, m)
      BY <1>0, <2>1, TakenStep
    <3>2. p[i + 1] # "**"
      <4>1. p[i + 1] \in SegmentTexts
        BY <2>1 DEF SegmentLists
      <4> QED BY <2>1, <4>1, LiteralSegment
    <3>3. (\E j \in Taken(p, d)[i] : Eats(p[i + 1], d, j, m)) <=> Same(i) /\ TakesOne(p[i + 1], d, i, m)
      <4> HIDE DEF Same
      <4>1. ASSUME TakesOne(p[i + 1], d, i, m) PROVE i \in 0..Len(d)
        BY <1>0, <4>1 DEF TakesOne
      <4> QED BY <2>2, <3>2, <4>1 DEF Eats, Swallows
    <3>4. TakesOne(p[i + 1], d, i, m) <=> m = i + 1 /\ m \in 0..Len(d) /\ d[m] = p[i + 1]
      <4>1. ASSUME m = i + 1, i < Len(d) PROVE d[m] \in SegmentTexts
        <5>1. m \in 1..Len(d)
          BY <1>0, <4>1
        <5> QED BY <5>1 DEF SegmentLists
      <4>2. ASSUME m = i + 1, i < Len(d) PROVE Workspace!SegmentMatches(p[i + 1], d[m]) <=> d[m] = p[i + 1]
        BY <2>1, <4>1, <4>2, LiteralSegment
      <4>3. m = i + 1 => (i < Len(d) <=> m \in 0..Len(d))
        BY <1>0
      <4> QED BY <3>2, <4>2, <4>3 DEF TakesOne
    <3>5. Same(i + 1) <=> Same(i) /\ d[i + 1] = p[i + 1]
      <4>1. \A x \in 1..i + 1 : x \in 1..i \/ x = i + 1
        OBVIOUS
      <4>2. \A x \in 1..i : x \in 1..i + 1
        OBVIOUS
      <4>3. i + 1 \in 1..i + 1
        BY <1>0
      <4> QED BY <4>1, <4>2, <4>3
    <3> HIDE DEF Same
    <3> QED BY <3>1, <3>3, <3>4, <3>5
  <2> HIDE DEF Same
  <2> QED BY <2>1, <2>3
<1>3. 0..Len(p) \subseteq S
  <2> HIDE DEF S
  <2> QED BY <1>0, <1>1, <1>2, Induction
<1> QED BY <1>3

LEMMA LiteralMatch ==
  ASSUME NEW p \in SegmentLists, Workspace!Literal(p), NEW d \in SegmentLists
  PROVE  Workspace!MatchNpmGlob(p, d) <=> d = p
<1>0. Len(p) \in Nat /\ Len(d) \in Nat /\ Len(p) \in 0..Len(p)
  BY DEF SegmentLists
<1>1. Workspace!MatchNpmGlob(p, d) <=> Len(d) = Len(p) /\ Len(d) \in 0..Len(d) /\ \A i \in 1..Len(p) : d[i] = p[i]
  BY <1>0, MatchIs, LiteralTakes
<1>2. Len(d) = Len(p) /\ (\A i \in 1..Len(p) : d[i] = p[i]) => d = p
  BY DEF SegmentLists
<1> QED BY <1>0, <1>1, <1>2

------------------------------------------------------------------------------
WalkTyped ==
  /\ seenAs \in {"tree", "git", "git-folded"} /\ phase \in {"writing", "resolving", "walking"}
  /\ patterns \in Seq(RawPatterns) /\ order \in Listings
  /\ unresolved \in Seq(SegmentLists) /\ places \in Seq(Frames)
  /\ results \subseteq SegmentLists /\ found \subseteq SegmentLists /\ unread \in BOOLEAN
  /\ phase = "writing" => found = {}
  /\ phase # "writing" => Entries(unresolved) \subseteq Entries(Positives(patterns))
  /\ phase # "walking" => places = <<>> /\ results = {} /\ visited = {}
  /\ phase = "walking" => /\ unresolved # <<>> /\ Head(unresolved) # <<>>
                          /\ Workspace!Exact(Head(unresolved))
  /\ \A f \in Entries(places) : f.pattern = Head(unresolved) /\ f.index <= Len(f.pattern) + 1

(* One step of a walk: the place it takes, and what is left afterwards.    *)
Top == Workspace!Last(places)
Below == Entries(Workspace!Front(places))
Key(f) == <<WhereIs(seenAs, f.path), f.index>>
InSegments(f) == f.index <= Len(f.pattern)

ReachesEnd(f) ==
  /\ ~InSegments(f) /\ results' = results \cup {f.path} /\ visited' = visited
  /\ Entries(places') = Below

(* The names a segment that is not "**" goes on to from a place.           *)
GoesWith(f, G) ==
  /\ \A n \in G : /\ n \in SegmentTexts
                  /\ seenAs # "git-folded" => Workspace!SegmentMatches(f.pattern[f.index], n)
                  /\ seenAs = "tree" /\ n = Modules =>
                       f.pattern[f.index] = Modules /\ ~Workspace!HasWildcard(Modules)
  /\ \A n \in Entries(order) \cap Children(seenAs, f.path) :
       n # Modules /\ Workspace!SegmentMatches(f.pattern[f.index], n) => n \in G

TakesNames(f, G) ==
  /\ InSegments(f) /\ f.pattern[f.index] # "**" /\ GoesWith(f, G)
  /\ results' = results /\ visited' = visited
  /\ Entries(places') = Below \cup {PlaceAt(f.pattern, Append(f.path, n), f.index + 1) : n \in G}

Deeper(f) == (Entries(order) \cap Children(seenAs, f.path)) \ ({Modules} \cup HiddenTexts)

GoesAnyDepth(f) ==
  /\ InSegments(f) /\ f.pattern[f.index] = "**" /\ Key(f) \notin visited
  /\ results' = results /\ visited' = visited \cup {Key(f)}
  /\ Entries(places') = Below \cup {PlaceAt(f.pattern, f.path, f.index + 1)}
                              \cup {PlaceAt(f.pattern, Append(f.path, n), f.index) : n \in Deeper(f)}

HasBeenHere(f) ==
  /\ InSegments(f) /\ f.pattern[f.index] = "**" /\ Key(f) \in visited
  /\ results' = results /\ visited' = visited /\ Entries(places') = Below

Stays == UNCHANGED <<seenAs, judged, patterns, order, phase, unresolved, found, unread>>

WalksOn(f) ==
  \/ ReachesEnd(f) \/ HasBeenHere(f) \/ GoesAnyDepth(f)
  \/ \E G : TakesNames(f, G)

LEMMA OrderTyped ==
  ASSUME order \in Listings
  PROVE  order \in Seq(SegmentTexts) /\ \A d \in RealDirs : Entries(d) \subseteq Entries(order)
BY WalksAssumption, SameEntries DEF Workspace!WorkspacePatternsConstants

LEMMA TopTyped ==
  ASSUME WalkTyped, places # <<>>
  PROVE  /\ Top \in Frames /\ Top.pattern \in SegmentLists /\ Top.path \in SegmentLists /\ Top.index \in Nat \ {0}
         /\ Entries(places) = Below \cup {Top} /\ Workspace!Front(places) \in Seq(Frames)
         /\ Top.pattern = Head(unresolved) /\ Top.index <= Len(Top.pattern) + 1 /\ Len(Top.pattern) \in Nat
         /\ phase = "walking"
<1>1. /\ Workspace!Front(places) \in Seq(Frames) /\ Top \in Frames /\ Entries(places) = Below \cup {Top}
  BY StackOf DEF WalkTyped, Top, Below
<1>2. Top.pattern \in SegmentLists /\ Top.path \in SegmentLists /\ Top.index \in Nat \ {0}
  BY <1>1 DEF Frames
<1>3. Len(Top.pattern) \in Nat
  BY <1>2 DEF SegmentLists
<1> QED BY <1>1, <1>2, <1>3 DEF WalkTyped

LEMMA DescendIs ==
  ASSUME WalkTyped, places # <<>>, Workspace!Descend(Top)
  PROVE  places' \in Seq(Frames) /\ WalksOn(Top)
<1> DEFINE f == Top
           p == f.pattern
           q == f.path
           i == f.index
           names == Workspace!ListChildDirs(q)
           rest == Workspace!Front(places)
<1>1. /\ p \in SegmentLists /\ q \in SegmentLists /\ i \in Nat \ {0} /\ rest \in Seq(Frames) /\ Len(p) \in Nat
      /\ Below = Entries(rest)
  BY TopTyped DEF Below
<1>2. names \in Seq(SegmentTexts) /\ Entries(names) = Entries(order) \cap Children(seenAs, q)
  <2>1. order \in Seq(SegmentTexts)
    BY OrderTyped DEF WalkTyped
  <2> QED BY <2>1, Listing
<1>3. InSegments(f) /\ i \in 1..Len(p) /\ p[i] \in SegmentTexts /\ results' = results
  <2>1. i <= Len(p) /\ results' = results
    BY DEF Workspace!Descend
  <2>2. i \in 1..Len(p)
    BY <1>1, <2>1
  <2> QED BY <1>1, <2>1, <2>2 DEF InSegments, SegmentLists
<1>4. ASSUME NEW n \in SegmentTexts
      PROVE  PlaceAt(p, Append(q, n), i + 1) \in Frames /\ PlaceAt(p, Append(q, n), i) \in Frames
  <2>1. Append(q, n) \in SegmentLists
    BY <1>1, Longer
  <2>2. i + 1 \in Nat \ {0}
    BY <1>1
  <2> QED BY <1>1, <2>1, <2>2 DEF PlaceAt, Frames
<1>5. Workspace!Identity(q) = WhereIs(seenAs, q)
  BY IdentityIsPlace
<1>6. CASE p[i] # "**"
  <2> DEFINE goes == Workspace!Goes(p[i], names)
             on == Workspace!Places(f, goes)
             G == Entries(goes)
  <2>1. places' = rest \o Workspace!Reverse(on) /\ visited' = visited
    BY <1>6 DEF Workspace!Descend
  <2>2. goes \in Seq(SegmentTexts) /\ GoesWith(f, G)
    <3> DEFINE seg == p[i]
    <3>1. seg \in SegmentTexts /\ seg # "**" /\ names \in Seq(SegmentTexts)
      BY <1>2, <1>3, <1>6
    <3> HIDE DEF seg, names
    <3>2. /\ Workspace!Goes(seg, names) \in Seq(SegmentTexts)
          /\ \A n \in Entries(Workspace!Goes(seg, names)) :
               /\ seenAs # "git-folded" => Workspace!SegmentMatches(seg, n)
               /\ seenAs = "tree" /\ n = Modules => seg = Modules /\ ~Workspace!HasWildcard(seg)
          /\ \A n \in Entries(names) :
               n # Modules /\ Workspace!SegmentMatches(seg, n) => n \in Entries(Workspace!Goes(seg, names))
      BY <3>1, GoesTo
    <3>3. \A n \in Entries(Workspace!Goes(seg, names)) : n \in SegmentTexts
      BY <3>2 DEF Entries
    <3>4. goes = Workspace!Goes(seg, names) /\ seg = f.pattern[f.index]
      BY DEF seg
    <3> HIDE DEF goes
    <3>5. GoesWith(f, G)
      BY <1>2, <3>2, <3>3, <3>4 DEF GoesWith
    <3> QED BY <3>2, <3>4, <3>5
  <2>3. on = [k \in DOMAIN goes |-> PlaceAt(p, Append(q, goes[k]), i + 1)]
    BY DEF Workspace!Places, Workspace!Frame, PlaceAt
  <2> HIDE DEF goes, on, f, p, q, i, rest, names
  <2>4. DOMAIN goes = 1..Len(goes) /\ Len(goes) \in Nat /\ \A k \in DOMAIN goes : goes[k] \in SegmentTexts
    BY <2>2
  <2>5. on \in Seq(Frames) /\ Entries(on) = {PlaceAt(p, Append(q, n), i + 1) : n \in G}
    <3>1. \A k \in DOMAIN goes : on[k] = PlaceAt(p, Append(q, goes[k]), i + 1) /\ on[k] \in Frames
      BY <1>4, <2>3, <2>4
    <3>2. DOMAIN on = DOMAIN goes /\ on \in [1..Len(goes) -> Frames]
      BY <2>3, <2>4, <3>1
    <3>3. on \in Seq(Frames)
      BY <2>4, <3>2
    <3>4. Entries(on) = {PlaceAt(p, Append(q, n), i + 1) : n \in G}
      BY <3>1, <3>2 DEF Entries
    <3> QED BY <3>3, <3>4
  <2>6. places' \in Seq(Frames) /\ Entries(places') = Below \cup Entries(on)
    BY <1>1, <2>1, <2>5, EntriesOfReverse, EntriesOfBoth
  <2>7. TakesNames(f, G)
    BY <1>3, <1>6, <2>1, <2>2, <2>5, <2>6 DEF TakesNames, p, q, i
  <2> QED BY <2>6, <2>7 DEF WalksOn, f
<1>7. CASE p[i] = "**"
  <2> DEFINE deep == Workspace!Among(names, SegmentTexts \ ({Modules} \cup HiddenTexts))
             below == [k \in DOMAIN deep |-> PlaceAt(p, Append(q, deep[k]), i)]
             on == <<PlaceAt(p, q, i + 1)>> \o below
  <2>1. visited' = visited \cup {Key(f)}
        /\ places' = rest \o (IF Key(f) \in visited THEN <<>> ELSE Workspace!Reverse(on))
    BY <1>5, <1>7 DEF Workspace!Descend, Workspace!AnyDepth, Workspace!Frame, PlaceAt, Key, Modules
  <2> HIDE DEF f, p, q, i, rest, names
  <2>2. deep \in Seq(SegmentTexts) /\ Entries(deep) = Deeper(f)
    <3> DEFINE S == SegmentTexts \ ({Modules} \cup HiddenTexts)
    <3> HIDE DEF S
    <3>1. Workspace!Among(names, S) \in Seq(SegmentTexts \cap S) /\ Entries(Workspace!Among(names, S)) = Entries(names) \cap S
      BY <1>2, AmongKeeps
    <3>2. Entries(names) \cap S = Deeper(f)
      <4>1. Entries(names) = Entries(order) \cap Children(seenAs, f.path)
        BY <1>2 DEF q
      <4>2. Entries(names) \subseteq SegmentTexts
        BY <1>2 DEF Entries
      <4> QED BY <4>1, <4>2 DEF Deeper, S
    <3>3. Workspace!Among(names, S) \in Seq(SegmentTexts)
      BY <3>1
    <3> QED BY <3>1, <3>2, <3>3 DEF S
  <2> HIDE DEF deep
  <2>3. DOMAIN deep = 1..Len(deep) /\ Len(deep) \in Nat /\ \A k \in DOMAIN deep : deep[k] \in SegmentTexts
    BY <2>2
  <2>4. below \in Seq(Frames) /\ Entries(below) = {PlaceAt(p, Append(q, n), i) : n \in Deeper(f)}
    <3>1. \A k \in DOMAIN deep : below[k] = PlaceAt(p, Append(q, deep[k]), i) /\ below[k] \in Frames
      BY <1>4, <2>3
    <3>2. DOMAIN below = DOMAIN deep /\ below \in [1..Len(deep) -> Frames]
      BY <2>3, <3>1
    <3>3. below \in Seq(Frames)
      BY <2>3, <3>2
    <3> HIDE DEF below
    <3>4. Entries(below) = {PlaceAt(p, Append(q, n), i) : n \in Entries(deep)}
      BY <3>1, <3>2 DEF Entries
    <3> QED BY <2>2, <3>3, <3>4
  <2> HIDE DEF below
  <2>5. PlaceAt(p, q, i + 1) \in Frames
    <3>1. i + 1 \in Nat \ {0}
      BY <1>1
    <3> QED BY <1>1, <3>1 DEF PlaceAt, Frames
  <2>6. on \in Seq(Frames) /\ Entries(on) = {PlaceAt(p, q, i + 1)} \cup Entries(below)
    <3> DEFINE one == <<PlaceAt(p, q, i + 1)>>
    <3>1. one \in Seq(Frames) /\ Entries(one) = {PlaceAt(p, q, i + 1)}
      BY <2>5 DEF Entries
    <3> HIDE DEF one
    <3>2. one \o below \in Seq(Frames) /\ Entries(one \o below) = Entries(one) \cup Entries(below)
      BY <2>4, <3>1, EntriesOfBoth
    <3> QED BY <3>1, <3>2 DEF one
  <2> HIDE DEF on
  <2>7. CASE Key(f) \in visited
    <3>1. places' = rest \o <<>> /\ visited' = visited
      BY <2>1, <2>7
    <3>2. places' \in Seq(Frames) /\ Entries(places') = Below
      BY <1>1, <3>1
    <3>3. HasBeenHere(f)
      BY <1>3, <1>7, <2>7, <3>1, <3>2 DEF HasBeenHere, p, i
    <3> QED BY <3>2, <3>3 DEF WalksOn, f
  <2>8. CASE Key(f) \notin visited
    <3>1. places' = rest \o Workspace!Reverse(on)
      BY <2>1, <2>8
    <3>2. places' \in Seq(Frames) /\ Entries(places') = Below \cup Entries(on)
      BY <1>1, <2>6, <3>1, EntriesOfReverse, EntriesOfBoth
    <3>3. GoesAnyDepth(f)
      BY <1>3, <1>7, <2>1, <2>4, <2>6, <2>8, <3>2 DEF GoesAnyDepth, p, q, i
    <3> QED BY <3>2, <3>3 DEF WalksOn, f
  <2> QED BY <2>7, <2>8
<1> QED BY <1>6, <1>7

LEMMA WalkIs ==
  ASSUME WalkTyped, Workspace!Walk
  PROVE  /\ places # <<>>
         /\ Workspace!GivesUp \/ (Stays /\ places' \in Seq(Frames) /\ WalksOn(Top))
<1>1. places # <<>>
  BY DEF Workspace!Walk
<1>2. Workspace!GivesUp \/ (Stays /\ (Workspace!Reach(Top) \/ Workspace!Descend(Top)))
  BY DEF Workspace!Walk, Top, Stays, Workspace!list
<1>3. ASSUME Workspace!Reach(Top) PROVE places' \in Seq(Frames) /\ WalksOn(Top)
  <2>1. places' = Workspace!Front(places) /\ visited' = visited /\ results' = results \cup {Top.path} /\ Top.index > Len(Top.pattern)
    BY <1>3 DEF Workspace!Reach
  <2>2. ~InSegments(Top)
    BY <1>1, <2>1, TopTyped DEF InSegments
  <2>3. ReachesEnd(Top)
    BY <2>1, <2>2 DEF ReachesEnd, Below
  <2> QED BY <1>1, <2>1, <2>3, TopTyped DEF WalksOn
<1> QED BY <1>1, <1>2, <1>3, DescendIs

------------------------------------------------------------------------------
LEMMA FirstAndRest ==
  ASSUME NEW X, NEW s \in Seq(X), s # <<>>
  PROVE  Head(s) \in X /\ Tail(s) \in Seq(X) /\ Entries(s) = {Head(s)} \cup Entries(Tail(s))
<1> DEFINE t == Tail(s)
<1>1. Len(s) \in Nat \ {0} /\ DOMAIN s = 1..Len(s)
  <2>1. Len(s) # 0
    OBVIOUS
  <2> QED BY <2>1
<1>2. t \in Seq(X) /\ Len(t) = Len(s) - 1 /\ DOMAIN t = 1..Len(t) /\ \A i \in 1..Len(t) : t[i] = s[i + 1]
  OBVIOUS
<1>3. Head(s) = s[1] /\ s[1] \in X
  BY <1>1
<1> HIDE DEF t
<1>4. ASSUME NEW i \in 1..Len(s) PROVE s[i] \in {s[1]} \cup Entries(t)
  <2>1. CASE i = 1
    BY <2>1
  <2>2. CASE i # 1
    <3>1. i - 1 \in 1..Len(t) /\ (i - 1) + 1 = i
      BY <1>1, <1>2, <2>2
    <3> QED BY <1>2, <3>1 DEF Entries
  <2> QED BY <2>1, <2>2
<1>5. ASSUME NEW i \in 1..Len(t) PROVE t[i] \in Entries(s)
  <2>1. i + 1 \in 1..Len(s)
    BY <1>1, <1>2
  <2> QED BY <1>1, <1>2, <2>1 DEF Entries
<1>6. s[1] \in Entries(s)
  <2>1. 1 \in 1..Len(s)
    BY <1>1
  <2> QED BY <1>1, <2>1 DEF Entries
<1>7. Entries(s) = {s[1]} \cup Entries(t)
  BY <1>1, <1>2, <1>4, <1>5, <1>6 DEF Entries
<1> QED BY <1>2, <1>3, <1>7 DEF t

LEMMA NoEntries == Entries(<<>>) = {}
BY DEF Entries

LEMMA WalkTypedInit == Workspace!Init => WalkTyped
<1> SUFFICES ASSUME Workspace!Init PROVE WalkTyped
  OBVIOUS
<1>1. Entries(places) = {}
  BY NoEntries DEF Workspace!Init
<1>2. unread \in BOOLEAN /\ patterns \in Seq(RawPatterns) /\ unresolved \in Seq(SegmentLists) /\ places \in Seq(Frames)
  <2>1. unread = FALSE /\ patterns = <<>> /\ unresolved = <<>> /\ places = <<>>
    BY DEF Workspace!Init
  <2>2. unread \in BOOLEAN
    BY <2>1, Zenon
  <2>3. <<>> \in Seq(RawPatterns) /\ <<>> \in Seq(SegmentLists) /\ <<>> \in Seq(Frames)
    OBVIOUS
  <2> QED BY <2>1, <2>2, <2>3, Zenon
<1> QED BY <1>1, <1>2 DEF Workspace!Init, WalkTyped

LEMMA GivesUpTyped ==
  ASSUME WalkTyped, phase # "writing", unresolved # <<>>, Workspace!GivesUp
  PROVE  WalkTyped'
<1>1. unresolved' \in Seq(SegmentLists) /\ Entries(unresolved') \subseteq Entries(unresolved)
  <2>1. Tail(unresolved) \in Seq(SegmentLists) /\ Entries(Tail(unresolved)) \subseteq Entries(unresolved)
    BY FirstAndRest DEF WalkTyped
  <2>2. <<>> \in Seq(SegmentLists) /\ Entries(<<>>) \subseteq Entries(unresolved)
    BY NoEntries
  <2>3. unresolved' = <<>> \/ unresolved' = Tail(unresolved)
    BY DEF Workspace!GivesUp
  <2> QED BY <2>1, <2>2, <2>3
<1>2. Entries(places') = {} /\ places' = <<>>
  BY NoEntries DEF Workspace!GivesUp
<1> QED BY <1>1, <1>2 DEF Workspace!GivesUp, Workspace!list, WalkTyped

LEMMA ResolveIs ==
  ASSUME WalkTyped, Workspace!Resolve
  PROVE  LET p == Head(unresolved) IN
         /\ phase = "resolving" /\ unresolved # <<>> /\ p \in SegmentLists
         /\ \/ Workspace!GivesUp
            \/ /\ UNCHANGED <<seenAs, judged, patterns, order, visited, results, unread>>
               /\ \/ /\ p # <<>> /\ Workspace!Exact(p) /\ phase' = "walking" /\ places' = <<PlaceAt(p, <<>>, 1)>>
                     /\ UNCHANGED <<unresolved, found>>
                  \/ /\ p # <<>> /\ Workspace!Exact(p) /\ Workspace!Literal(p)
                     /\ found' = found \cup Workspace!Named(Workspace!Spelled(p))
                     /\ unresolved' = Tail(unresolved) /\ UNCHANGED <<phase, places>>
                  \/ /\ p = <<>> \/ ~Workspace!Exact(p)
                     /\ found' = found \cup {} /\ unresolved' = Tail(unresolved) /\ UNCHANGED <<phase, places>>
<1>1. phase = "resolving" /\ unresolved # <<>>
  BY DEF Workspace!Resolve
<1>2. Head(unresolved) \in SegmentLists
  BY <1>1, FirstAndRest DEF WalkTyped
<1>3. Workspace!Frame(Head(unresolved), <<>>, 1) = PlaceAt(Head(unresolved), <<>>, 1)
  BY DEF Workspace!Frame, PlaceAt
<1>4. Workspace!Named({}) = {}
  BY DEF Workspace!Named
<1> QED BY <1>1, <1>2, <1>3, <1>4 DEF Workspace!Resolve, Workspace!list

LEMMA SpelledTyped ==
  ASSUME NEW p \in SegmentLists
  PROVE  Workspace!Named(Workspace!Spelled(p)) \subseteq SegmentLists
BY DirsTyped DEF Workspace!Named, Workspace!Spelled

LEMMA StartOfWalk ==
  ASSUME NEW p \in SegmentLists
  PROVE  <<PlaceAt(p, <<>>, 1)>> \in Seq(Frames) /\ Entries(<<PlaceAt(p, <<>>, 1)>>) = {PlaceAt(p, <<>>, 1)}
<1>1. PlaceAt(p, <<>>, 1) \in Frames
  BY DEF PlaceAt, Frames, SegmentLists
<1> QED BY <1>1 DEF Entries

LEMMA WalkTypedStep == WalkTyped /\ [Workspace!Next]_(Workspace!vars) => WalkTyped'
<1> SUFFICES ASSUME WalkTyped, [Workspace!Next]_(Workspace!vars) PROVE WalkTyped'
  OBVIOUS
<1>1. ASSUME NEW p \in RawPatterns, Workspace!Write(p) PROVE WalkTyped'
  <2>1. patterns' \in Seq(RawPatterns)
    BY <1>1 DEF Workspace!Write, WalkTyped
  <2> QED BY <1>1, <2>1 DEF Workspace!Write, WalkTyped
<1>2. CASE Workspace!Begin
  <2>1. unresolved' = Positives(patterns) /\ patterns' = patterns /\ phase = "writing" /\ phase' = "resolving"
    BY <1>2 DEF Workspace!Begin, Workspace!list, Positives
  <2>2. unresolved' \in Seq(SegmentLists) /\ Entries(unresolved') \subseteq Entries(Positives(patterns'))
    BY <2>1, PositivesTyped DEF WalkTyped
  <2>3. Entries(places') = {} /\ places' = places
    BY <1>2, <2>1, NoEntries DEF Workspace!Begin, WalkTyped
  <2> QED BY <1>2, <2>1, <2>2, <2>3 DEF Workspace!Begin, Workspace!list, WalkTyped
<1>3. CASE Workspace!Resolve
  <2> DEFINE p == Head(unresolved)
  <2>1. phase = "resolving" /\ unresolved # <<>> /\ p \in SegmentLists
    BY <1>3, ResolveIs
  <2>2. Tail(unresolved) \in Seq(SegmentLists) /\ Entries(Tail(unresolved)) \subseteq Entries(unresolved)
    BY <2>1, FirstAndRest DEF WalkTyped
  <2>3. CASE Workspace!GivesUp
    BY <2>1, <2>3, GivesUpTyped
  <2>4. CASE /\ UNCHANGED <<seenAs, judged, patterns, order, visited, results, unread>>
             /\ p # <<>> /\ Workspace!Exact(p) /\ phase' = "walking" /\ places' = <<PlaceAt(p, <<>>, 1)>>
             /\ UNCHANGED <<unresolved, found>>
    <3>1. places' \in Seq(Frames) /\ Entries(places') = {PlaceAt(p, <<>>, 1)}
      BY <2>1, <2>4, StartOfWalk
    <3>2. Len(p) \in Nat
      BY <2>1 DEF SegmentLists
    <3>3. \A f \in Entries(places') : f.pattern = p /\ f.index <= Len(f.pattern) + 1
      BY <3>1, <3>2 DEF PlaceAt
    <3> QED BY <2>1, <2>4, <3>1, <3>3 DEF WalkTyped
  <2>5. CASE /\ UNCHANGED <<seenAs, judged, patterns, order, visited, results, unread>>
             /\ found' \in {found \cup Workspace!Named(Workspace!Spelled(p)), found \cup {}}
             /\ unresolved' = Tail(unresolved) /\ UNCHANGED <<phase, places>>
    <3>1. found' \subseteq SegmentLists
      BY <2>1, <2>5, SpelledTyped DEF WalkTyped
    <3>2. Entries(places') = {} /\ places' = places
      BY <2>1, <2>5, NoEntries DEF WalkTyped
    <3> QED BY <2>1, <2>2, <2>5, <3>1, <3>2 DEF WalkTyped
  <2> QED BY <1>3, <2>3, <2>4, <2>5, ResolveIs
<1>4. CASE Workspace!Walk
  <2> DEFINE f == Top
  <2>1. /\ places # <<>> /\ phase = "walking" /\ f \in Frames /\ Entries(places) = Below \cup {f}
        /\ f.path \in SegmentLists /\ f.index \in Nat \ {0} /\ Len(f.pattern) \in Nat
        /\ f.pattern = Head(unresolved)
    BY <1>4, WalkIs, TopTyped
  <2>2. CASE Workspace!GivesUp
    <3>1. unresolved # <<>>
      BY <2>1 DEF WalkTyped
    <3> QED BY <2>1, <2>2, <3>1, GivesUpTyped
  <2>3. CASE Stays /\ places' \in Seq(Frames) /\ WalksOn(f)
    <3>1. results' \subseteq SegmentLists
      BY <2>1, <2>3 DEF WalksOn, ReachesEnd, HasBeenHere, GoesAnyDepth, TakesNames, WalkTyped
    <3>2. ASSUME NEW g \in Entries(places') PROVE g.pattern = Head(unresolved) /\ g.index <= Len(g.pattern) + 1
      <4>1. CASE g \in Below
        BY <2>1, <4>1 DEF WalkTyped
      <4>2. CASE g \notin Below
        <5>1. g.pattern = f.pattern /\ g.index \in {f.index, f.index + 1} /\ InSegments(f)
          BY <2>3, <3>2, <4>2 DEF WalksOn, ReachesEnd, HasBeenHere, GoesAnyDepth, TakesNames, PlaceAt
        <5> QED BY <2>1, <5>1 DEF InSegments
      <4> QED BY <4>1, <4>2
    <3> HIDE DEF f
    <3> QED BY <2>1, <2>3, <3>1, <3>2 DEF Stays, WalkTyped
  <2> QED BY <1>4, <2>2, <2>3, WalkIs
<1>5. CASE Workspace!Collect
  <2>1. /\ phase = "walking" /\ phase' = "resolving" /\ places = <<>> /\ places' = places /\ results' = {} /\ visited' = {}
        /\ found' = found \cup Workspace!Named(results) /\ unresolved' = Tail(unresolved)
        /\ UNCHANGED <<seenAs, patterns, order, unread>>
    BY <1>5 DEF Workspace!Collect, Workspace!list
  <2>2. Tail(unresolved) \in Seq(SegmentLists) /\ Entries(Tail(unresolved)) \subseteq Entries(unresolved)
    BY <2>1, FirstAndRest DEF WalkTyped
  <2>3. found' \subseteq SegmentLists
    BY <2>1 DEF Workspace!Named, WalkTyped
  <2>4. Entries(places') = {}
    BY <2>1, NoEntries
  <2> QED BY <2>1, <2>2, <2>3, <2>4 DEF WalkTyped
<1>6. CASE UNCHANGED Workspace!vars
  BY <1>6 DEF Workspace!vars, Workspace!list, WalkTyped
<1> QED BY <1>1, <1>2, <1>3, <1>4, <1>5, <1>6 DEF Workspace!Next

------------------------------------------------------------------------------
CaseCounts == seenAs # "git-folded"

(* Where case counts, what is left of a walk is on its pattern's route,    *)
(* and what it has named and found, the patterns match and cover.          *)
WalkSound == CaseCounts =>
  /\ \A f \in Entries(places) : OnRoute(f.pattern, f.path, f.index)
  /\ \A r \in results : Workspace!MatchNpmGlob(Head(unresolved), r)
  /\ \A d \in found : Workspace!WorkspaceCoverage(patterns, d)

LEMMA WalkSoundInit == Workspace!Init => WalkSound
BY NoEntries DEF Workspace!Init, WalkSound

LEMMA CoverageOfNamed ==
  ASSUME NEW p \in Entries(Positives(patterns)), p # <<>>, Workspace!Exact(p),
         NEW S, \A r \in S : Workspace!MatchNpmGlob(p, r), NEW d \in Workspace!Named(S)
  PROVE  Workspace!WorkspaceCoverage(patterns, d)
<1>1. PICK i \in DOMAIN Positives(patterns) : Positives(patterns)[i] = p
  BY DEF Entries
<1>2. d \in S /\ ~Workspace!NeverAMember(d) /\ ~Workspace!Excluded(Workspace!Partition(patterns).negs, d)
  BY DEF Workspace!Named
<1> QED BY <1>1, <1>2 DEF Workspace!WorkspaceCoverage, Positives

LEMMA HeadIsPositive ==
  ASSUME WalkTyped, phase # "writing", unresolved # <<>>
  PROVE  Head(unresolved) \in Entries(Positives(patterns)) /\ Head(unresolved) \in SegmentLists
BY FirstAndRest DEF WalkTyped

LEMMA StepOnRoute ==
  ASSUME WalkTyped, CaseCounts, NEW f \in Frames, f.index <= Len(f.pattern) + 1, OnRoute(f.pattern, f.path, f.index),
         WalksOn(f), NEW g \in Entries(places'), g \notin Below
  PROVE  OnRoute(g.pattern, g.path, g.index)
<1>1. /\ f.pattern \in SegmentLists /\ f.path \in SegmentLists /\ f.index \in Nat \ {0} /\ InSegments(f)
  BY DEF Frames, WalksOn, ReachesEnd, HasBeenHere, GoesAnyDepth, TakesNames
<1>2. f.index \in 1..Len(f.pattern)
  BY <1>1 DEF InSegments, SegmentLists
<1>3. ASSUME GoesAnyDepth(f) PROVE OnRoute(g.pattern, g.path, g.index)
  <2>1. f.pattern[f.index] = "**"
    BY <1>3 DEF GoesAnyDepth
  <2>2. CASE g = PlaceAt(f.pattern, f.path, f.index + 1)
    BY <1>1, <1>2, <2>1, <2>2, NothingOn DEF PlaceAt
  <2>3. CASE g # PlaceAt(f.pattern, f.path, f.index + 1)
    <3>1. PICK n \in Deeper(f) : g = PlaceAt(f.pattern, Append(f.path, n), f.index)
      BY <1>3, <2>3 DEF GoesAnyDepth
    <3>2. n \in SegmentTexts /\ n \notin HiddenTexts
      BY DEF Deeper, Children
    <3>3. OnRoute(f.pattern, Append(f.path, n), f.index)
      BY <1>1, <1>2, <2>1, <3>2, AnyDepthOn
    <3> QED BY <3>1, <3>3 DEF PlaceAt
  <2> QED BY <2>2, <2>3
<1>4. ASSUME NEW G, TakesNames(f, G) PROVE OnRoute(g.pattern, g.path, g.index)
  <2>1. PICK n \in G : g = PlaceAt(f.pattern, Append(f.path, n), f.index + 1)
    BY <1>4 DEF TakesNames
  <2>2. n \in SegmentTexts /\ Workspace!SegmentMatches(f.pattern[f.index], n) /\ f.pattern[f.index] # "**"
    BY <1>4 DEF TakesNames, GoesWith, CaseCounts
  <2>3. OnRoute(f.pattern, Append(f.path, n), f.index + 1)
    BY <1>1, <1>2, <2>2, OneSegmentOn
  <2> QED BY <2>1, <2>3 DEF PlaceAt
<1>5. ~ReachesEnd(f) /\ ~HasBeenHere(f)
  BY DEF ReachesEnd, HasBeenHere
<1> QED BY <1>3, <1>4, <1>5 DEF WalksOn

LEMMA WalkSoundWalk == WalkTyped /\ WalkSound /\ Workspace!Walk => WalkSound'
<1> SUFFICES ASSUME WalkTyped, WalkSound, Workspace!Walk PROVE WalkSound'
  OBVIOUS
<1> DEFINE f == Top
<1>1. /\ places # <<>> /\ f \in Frames /\ Entries(places) = Below \cup {f}
      /\ f.path \in SegmentLists /\ f.index \in Nat \ {0} /\ Len(f.pattern) \in Nat
      /\ f.pattern = Head(unresolved) /\ f.index <= Len(f.pattern) + 1
  BY WalkIs, TopTyped
<1>2. CASE Workspace!GivesUp
  <2>1. Entries(places') = {} /\ results' = {} /\ UNCHANGED <<seenAs, patterns, found>>
    BY <1>2, NoEntries DEF Workspace!GivesUp, Workspace!list
  <2> QED BY <2>1 DEF WalkSound, CaseCounts
<1>3. CASE Stays /\ WalksOn(f)
  <2> SUFFICES ASSUME CaseCounts'
               PROVE  /\ \A g \in Entries(places') : OnRoute(g.pattern, g.path, g.index)
                      /\ \A r \in results' : Workspace!MatchNpmGlob(Head(unresolved), r)
                      /\ \A d \in found : Workspace!WorkspaceCoverage(patterns, d)
    BY <1>3 DEF WalkSound, Stays
  <2>1. CaseCounts
    BY <1>3 DEF CaseCounts, Stays
  <2>2. /\ \A g \in Entries(places) : OnRoute(g.pattern, g.path, g.index)
        /\ \A r \in results : Workspace!MatchNpmGlob(Head(unresolved), r)
        /\ \A d \in found : Workspace!WorkspaceCoverage(patterns, d)
    BY <2>1 DEF WalkSound
  <2>3. OnRoute(f.pattern, f.path, f.index) /\ \A g \in Below : OnRoute(g.pattern, g.path, g.index)
    BY <1>1, <2>2
  <2> HIDE DEF f
  <2>4. \A g \in Entries(places') : OnRoute(g.pattern, g.path, g.index)
    BY <1>1, <1>3, <2>1, <2>3, StepOnRoute
  <2>5. ASSUME NEW r \in results' PROVE Workspace!MatchNpmGlob(Head(unresolved), r)
    <3>1. CASE r \in results
      BY <2>2, <3>1
    <3>2. CASE r \notin results
      <4>1. ReachesEnd(f) /\ r = f.path
        BY <1>3, <2>5, <3>2 DEF WalksOn, ReachesEnd, HasBeenHere, GoesAnyDepth, TakesNames
      <4>2. f.index - 1 = Len(f.pattern)
        BY <1>1, <4>1 DEF ReachesEnd, InSegments
      <4>3. Len(r) \in Taken(f.pattern, r)[Len(f.pattern)]
        BY <2>3, <4>1, <4>2 DEF OnRoute, ReachesEnd, InSegments
      <4> QED BY <1>1, <4>3, MatchIs
    <3> QED BY <3>1, <3>2
  <2> QED BY <2>2, <2>4, <2>5
<1> QED BY <1>2, <1>3, WalkIs

LEMMA WalkSoundStep == WalkTyped /\ WalkSound /\ [Workspace!Next]_(Workspace!vars) => WalkSound'
<1> SUFFICES ASSUME WalkTyped, WalkSound, [Workspace!Next]_(Workspace!vars) PROVE WalkSound'
  OBVIOUS
<1>1. ASSUME NEW p \in RawPatterns, Workspace!Write(p) PROVE WalkSound'
  <2>1. phase = "writing" /\ UNCHANGED <<seenAs, places, results, found, unresolved>>
    BY <1>1 DEF Workspace!Write
  <2>2. Entries(places) = {} /\ results = {} /\ found = {}
    BY <2>1, NoEntries DEF WalkTyped
  <2> QED BY <2>1, <2>2 DEF WalkSound
<1>2. CASE Workspace!Begin
  <2>1. phase = "writing" /\ UNCHANGED <<seenAs, places, results, found>>
    BY <1>2 DEF Workspace!Begin, Workspace!list
  <2>2. Entries(places) = {} /\ results = {} /\ found = {}
    BY <2>1, NoEntries DEF WalkTyped
  <2> QED BY <2>1, <2>2 DEF WalkSound
<1>3. CASE Workspace!Resolve
  <2> DEFINE p == Head(unresolved)
  <2>1. phase = "resolving" /\ unresolved # <<>> /\ p \in SegmentLists /\ p \in Entries(Positives(patterns))
    BY <1>3, ResolveIs, HeadIsPositive
  <2>2. Entries(places) = {} /\ results = {}
    BY <2>1, NoEntries DEF WalkTyped
  <2>3. CASE Workspace!GivesUp
    <3>1. Entries(places') = {} /\ results' = {} /\ UNCHANGED <<seenAs, patterns, found>>
      BY <2>3, NoEntries DEF Workspace!GivesUp, Workspace!list
    <3> QED BY <3>1 DEF WalkSound, CaseCounts
  <2>4. CASE /\ UNCHANGED <<seenAs, judged, patterns, order, visited, results, unread>>
             /\ places' = <<PlaceAt(p, <<>>, 1)>> /\ UNCHANGED <<unresolved, found>>
    <3>1. Entries(places') = {PlaceAt(p, <<>>, 1)}
      BY <2>1, <2>4, StartOfWalk
    <3>2. OnRoute(p, <<>>, 1)
      <4>1. Len(p) \in Nat /\ Len(<<>>) = 0 /\ 1 - 1 = 0 /\ Len(<<>>) \in Nat
        BY <2>1 DEF SegmentLists
      <4>2. Taken(p, <<>>)[0] = {0}
        BY <4>1, PositionsAre DEF IsTaken
      <4> QED BY <4>1, <4>2 DEF OnRoute
    <3>3. \A f \in Entries(places') : OnRoute(f.pattern, f.path, f.index)
      BY <3>1, <3>2 DEF PlaceAt
    <3> QED BY <2>2, <2>4, <3>3 DEF WalkSound, CaseCounts
  <2>5. CASE /\ UNCHANGED <<seenAs, judged, patterns, order, visited, results, unread>>
             /\ p # <<>> /\ Workspace!Exact(p) /\ Workspace!Literal(p)
             /\ found' = found \cup Workspace!Named(Workspace!Spelled(p))
             /\ UNCHANGED <<phase, places>>
    <3>1. ASSUME CaseCounts PROVE \A d \in Workspace!Named(Workspace!Spelled(p)) : Workspace!WorkspaceCoverage(patterns, d)
      <4>1. Workspace!Spelled(p) = {p}
        BY <3>1 DEF CaseCounts, Workspace!Spelled, Workspace!IgnoresCase
      <4>2. Workspace!MatchNpmGlob(p, p)
        BY <2>1, <2>5, LiteralMatch
      <4>3. \A r \in {p} : Workspace!MatchNpmGlob(p, r)
        BY <4>2
      <4> HIDE DEF p
      <4> QED BY <2>1, <2>5, <4>1, <4>3, CoverageOfNamed
    <3> HIDE DEF p
    <3> QED BY <2>2, <2>5, <3>1 DEF WalkSound, CaseCounts
  <2>6. CASE /\ UNCHANGED <<seenAs, judged, patterns, order, visited, results, unread>>
             /\ found' = found \cup {} /\ UNCHANGED <<phase, places>>
    BY <2>2, <2>6 DEF WalkSound, CaseCounts
  <2> QED BY <1>3, <2>3, <2>4, <2>5, <2>6, ResolveIs
<1>4. CASE Workspace!Walk
  BY <1>4, WalkSoundWalk
<1>5. CASE Workspace!Collect
  <2> DEFINE p == Head(unresolved)
  <2>1. /\ phase = "walking" /\ places' = places /\ places = <<>> /\ results' = {}
        /\ found' = found \cup Workspace!Named(results) /\ UNCHANGED <<seenAs, patterns>>
    BY <1>5 DEF Workspace!Collect, Workspace!list
  <2>2. p \in Entries(Positives(patterns)) /\ p # <<>> /\ Workspace!Exact(p)
    BY <2>1, HeadIsPositive DEF WalkTyped
  <2>3. CaseCounts => \A r \in results : Workspace!MatchNpmGlob(p, r)
    BY DEF WalkSound
  <2> HIDE DEF p
  <2>4. CaseCounts => \A d \in Workspace!Named(results) : Workspace!WorkspaceCoverage(patterns, d)
    BY <2>2, <2>3, CoverageOfNamed
  <2> QED BY <2>1, <2>4, NoEntries DEF WalkSound, CaseCounts
<1>6. CASE UNCHANGED Workspace!vars
  BY <1>6 DEF Workspace!vars, Workspace!list, WalkSound, CaseCounts
<1> QED BY <1>1, <1>2, <1>3, <1>4, <1>5, <1>6 DEF Workspace!Next

LEMMA FoundIsReached == WalkTyped /\ WalkSound => Workspace!MembersAreReachedThrough
<1> SUFFICES ASSUME WalkTyped, WalkSound, ~Workspace!IgnoresCase, NEW d \in found, NEW n \in 1..Len(d) - 1
             PROVE  Workspace!ReachBelow(patterns, SubSeq(d, 1, n))
  BY DEF Workspace!MembersAreReachedThrough
<1>1. Workspace!WorkspaceCoverage(patterns, d) /\ d \in SegmentLists /\ patterns \in Seq(RawPatterns)
  BY DEF WalkSound, CaseCounts, Workspace!IgnoresCase, WalkTyped
<1> QED BY <1>1, CoveredIsReached

------------------------------------------------------------------------------
(* How a pattern can be cut over a path: the names taken by each number of *)
(* segments.                                                               *)
Cutting(p, d, k, m) ==
  {c \in [0..k -> 0..Len(d)] : c[0] = 0 /\ c[k] = m /\ \A i \in 1..k : Eats(p[i], d, c[i - 1], c[i])}

Cuts(p, d) == Cutting(p, d, Len(p), Len(d))

LEMMA CutExists ==
  ASSUME NEW p \in SegmentLists, NEW d \in SegmentLists, Workspace!MatchNpmGlob(p, d)
  PROVE  \E c : c \in Cuts(p, d)
<1> DEFINE S == {k \in 0..Len(p) : \A m \in Taken(p, d)[k] : Cutting(p, d, k, m) # {}}
<1>0. Len(p) \in Nat /\ Len(d) \in Nat
  BY DEF SegmentLists
<1>1. IsTaken(Taken(p, d), p, d)
  BY <1>0, PositionsAre
<1>2. 0 \in S
  <2>1. Taken(p, d)[0] = {0} /\ 0 \in 0..Len(p) /\ 0 \in 0..Len(d)
    BY <1>0, <1>1 DEF IsTaken
  <2> DEFINE c == [i \in 0..0 |-> 0]
  <2>2. c \in [0..0 -> 0..Len(d)] /\ c[0] = 0 /\ 1..0 = {}
    BY <2>1
  <2>3. c \in Cutting(p, d, 0, 0)
    BY <2>2 DEF Cutting
  <2> QED BY <2>1, <2>3
<1>3. GoesOn(S, 0, Len(p))
  <2> SUFFICES ASSUME NEW k \in 0..Len(p) - 1, k \in S PROVE k + 1 \in S
    BY DEF GoesOn
  <2> DEFINE l == k + 1
  <2>1. l \in 1..Len(p) /\ l \in 0..Len(p) /\ l - 1 = k /\ k \in 0..Len(p) /\ k \in Nat /\ l = k + 1
    BY <1>0
  <2> HIDE DEF l
  <2>2. ASSUME NEW m \in Taken(p, d)[l] PROVE Cutting(p, d, l, m) # {}
    <3>1. PICK j \in Taken(p, d)[k] : Eats(p[l], d, j, m)
      BY <1>0, <2>1, TakenStep
    <3>2. PICK c \in Cutting(p, d, k, j) : TRUE
      <4>1. Cutting(p, d, k, j) # {}
        OBVIOUS
      <4> QED BY <4>1
    <3>3. m \in 0..Len(d)
      BY <1>1, <2>1 DEF IsTaken
    <3>4. c \in [0..k -> 0..Len(d)] /\ c[0] = 0 /\ c[k] = j /\ \A i \in 1..k : Eats(p[i], d, c[i - 1], c[i])
      BY DEF Cutting
    <3> DEFINE e == [i \in 0..l |-> IF i = l THEN m ELSE c[i]]
    <3>5. \A i \in 0..l : i # l => i \in 0..k
      BY <2>1
    <3>6. e \in [0..l -> 0..Len(d)]
      BY <3>3, <3>4, <3>5
    <3>7. e[0] = 0 /\ e[l] = m
      BY <2>1, <3>4
    <3>8. ASSUME NEW i \in 1..l PROVE Eats(p[i], d, e[i - 1], e[i])
      <4>1. i - 1 \in 0..l /\ i - 1 # l /\ e[i - 1] = c[i - 1] /\ i \in 0..l
        BY <2>1
      <4>2. CASE i = l
        BY <2>1, <3>1, <3>4, <4>1, <4>2
      <4>3. CASE i # l
        <5>1. i \in 1..k /\ e[i] = c[i]
          BY <2>1, <4>1, <4>3
        <5> QED BY <3>4, <4>1, <5>1
      <4> QED BY <4>2, <4>3
    <3> HIDE DEF e
    <3>9. e \in Cutting(p, d, l, m)
      BY <3>6, <3>7, <3>8 DEF Cutting
    <3> QED BY <3>9
  <2>3. l \in S
    BY <2>1, <2>2
  <2> QED BY <2>1, <2>3
<1>4. 0..Len(p) \subseteq S
  <2> HIDE DEF S
  <2> QED BY <1>0, <1>2, <1>3, Induction
<1>5. Len(p) \in S
  BY <1>0, <1>4
<1>6. Len(d) \in Taken(p, d)[Len(p)]
  BY MatchIs
<1>7. Cutting(p, d, Len(p), Len(d)) # {}
  BY <1>5, <1>6
<1> QED BY <1>7 DEF Cuts

LEMMA CutTyped ==
  ASSUME NEW p \in SegmentLists, NEW d \in SegmentLists, NEW c \in Cuts(p, d)
  PROVE  /\ Len(p) \in Nat /\ Len(d) \in Nat /\ c[0] = 0 /\ c[Len(p)] = Len(d)
         /\ \A i \in 0..Len(p) : c[i] \in 0..Len(d)
         /\ \A i \in 1..Len(p) : Eats(p[i], d, c[i - 1], c[i])
BY DEF Cuts, Cutting, SegmentLists

(* A place of the walk on a cut: the index and the names before it.        *)
OnCut(p, c, m, i) ==
  \/ m = c[i - 1]
  \/ i <= Len(p) /\ p[i] = "**" /\ m \in c[i - 1]..c[i]

IsOn(s, p, d, c, f, m) ==
  m \in 0..Len(d) /\ WhereIs(s, f.path) = SubSeq(d, 1, m) /\ OnCut(p, c, m, f.index)

Wanted == {d \in RealDirs : ~Workspace!NeverAMember(d)}

(* On its way to a directory, the walk is at one that is listed.           *)
LEMMA NextName ==
  ASSUME WalkTyped, NEW d \in Wanted, NEW q \in SegmentLists, NEW m \in 0..Len(d) - 1,
         WhereIs(seenAs, q) = SubSeq(d, 1, m), NEW n, n = d[m + 1]
  PROVE  /\ n \in Entries(order) \cap Children(seenAs, q) /\ n # Modules
         /\ WhereIs(seenAs, Append(q, n)) = SubSeq(d, 1, m + 1)
<1>1. d \in RealDirs /\ d \in SegmentLists /\ Len(d) \in Nat /\ m + 1 \in 1..Len(d) /\ m + 1 \in 0..Len(d)
  BY DirsTyped DEF Wanted, SegmentLists
<1>2. n \in SegmentTexts /\ n \in Entries(d)
  BY <1>1 DEF SegmentLists, Entries
<1>3. n \in Entries(order)
  BY <1>1, <1>2, OrderTyped DEF WalkTyped
<1>4. n # Modules
  <2>1. ~Workspace!Contains(d, Workspace!NodeModules)
    BY DEF Wanted, Workspace!NeverAMember
  <2> QED BY <1>1, <2>1 DEF Workspace!Contains, Modules
<1>5. Append(SubSeq(d, 1, m), n) = SubSeq(d, 1, m + 1)
  BY <1>1 DEF SegmentLists
<1>6. SubSeq(d, 1, m + 1) \in RealDirs
  BY <1>1, DirsAbove
<1>7. Append(WhereIs(seenAs, q), n) \in RealDirs
  BY <1>5, <1>6
<1>8. Onward(seenAs, WhereIs(seenAs, q), n) = Append(WhereIs(seenAs, q), n)
  BY <1>7, DirsTyped DEF Onward
<1>9. WhereIs(seenAs, Append(q, n)) = Onward(seenAs, WhereIs(seenAs, q), n)
  BY <1>2, PlaceStep
<1>10. WhereIs(seenAs, Append(q, n)) = SubSeq(d, 1, m + 1)
  BY <1>5, <1>8, <1>9
<1> QED BY <1>2, <1>3, <1>4, <1>7, <1>10 DEF Children

(* The walk goes on along the cut.                                         *)
GoesFurther(p, d, c, x) ==
  \/ \E r \in results' : WhereIs(seenAs, r) = d
  \/ \E g \in Entries(places') : \E m \in 0..Len(d) : IsOn(seenAs, p, d, c, g, m) /\ m + g.index > x

LEMMA Further ==
  ASSUME WalkTyped, NEW f \in Frames, WalksOn(f), ~HasBeenHere(f), f.index <= Len(f.pattern) + 1,
         NEW d \in Wanted, NEW c \in Cuts(f.pattern, d), NEW m \in 0..Len(d), IsOn(seenAs, f.pattern, d, c, f, m)
  PROVE  GoesFurther(f.pattern, d, c, m + f.index)
<1> DEFINE p == f.pattern
           q == f.path
           i == f.index
<1>1. p \in SegmentLists /\ q \in SegmentLists /\ i \in Nat \ {0} /\ d \in SegmentLists /\ d \in RealDirs /\ i <= Len(p) + 1
  BY DirsTyped DEF Frames, Wanted
<1>2. /\ Len(p) \in Nat /\ Len(d) \in Nat /\ c[0] = 0 /\ c[Len(p)] = Len(d)
      /\ \A k \in 0..Len(p) : c[k] \in 0..Len(d)
      /\ \A k \in 1..Len(p) : Eats(p[k], d, c[k - 1], c[k])
  BY <1>1, CutTyped
<1>3. WhereIs(seenAs, q) = SubSeq(d, 1, m) /\ OnCut(p, c, m, i)
  BY DEF IsOn
<1>4. CASE ReachesEnd(f)
  <2>1. i - 1 = Len(p) /\ ~(i <= Len(p))
    BY <1>1, <1>2, <1>4 DEF ReachesEnd, InSegments
  <2>2. m = Len(d)
    BY <1>2, <1>3, <2>1 DEF OnCut
  <2>3. SubSeq(d, 1, m) = d
    BY <1>1, <2>2 DEF SegmentLists
  <2> QED BY <1>3, <1>4, <2>3 DEF ReachesEnd, GoesFurther
<1>5. ASSUME NEW G, TakesNames(f, G) PROVE GoesFurther(p, d, c, m + i)
  <2>1. i \in 1..Len(p) /\ p[i] # "**" /\ GoesWith(f, G)
    BY <1>1, <1>2, <1>5 DEF TakesNames, InSegments
  <2>2. m = c[i - 1] /\ TakesOne(p[i], d, m, c[i])
    BY <1>2, <1>3, <2>1 DEF OnCut, Eats, Swallows
  <2> DEFINE n == d[m + 1]
  <2>3. m \in 0..Len(d) - 1 /\ c[i] = m + 1 /\ Workspace!SegmentMatches(p[i], n)
    BY <1>2, <2>2 DEF TakesOne
  <2> HIDE DEF n
  <2>4. /\ n \in Entries(order) \cap Children(seenAs, q) /\ n # Modules
        /\ WhereIs(seenAs, Append(q, n)) = SubSeq(d, 1, m + 1)
    BY <1>1, <1>3, <2>3, NextName DEF n
  <2>5. n \in G
    BY <2>1, <2>3, <2>4 DEF GoesWith
  <2> DEFINE g == PlaceAt(p, Append(q, n), i + 1)
  <2>6. g \in Entries(places')
    BY <1>5, <2>5 DEF TakesNames
  <2>7. m + 1 \in 0..Len(d) /\ m + 1 = c[(i + 1) - 1]
    BY <1>1, <1>2, <2>3
  <2>8. IsOn(seenAs, p, d, c, g, m + 1) /\ (m + 1) + g.index > m + i
    BY <1>1, <2>4, <2>7 DEF IsOn, OnCut, PlaceAt
  <2> HIDE DEF g
  <2> QED BY <2>6, <2>7, <2>8 DEF GoesFurther
<1>6. CASE GoesAnyDepth(f)
  <2>1. i \in 1..Len(p) /\ p[i] = "**" /\ i - 1 \in 0..Len(p) /\ i \in 0..Len(p) /\ (i + 1) - 1 = i
    BY <1>1, <1>2, <1>6 DEF GoesAnyDepth, InSegments
  <2>2. Swallows(p[i], d, c[i - 1], c[i])
    BY <1>2, <2>1 DEF Eats, TakesOne
  <2>3. m \in c[i - 1]..c[i] /\ c[i - 1] \in Nat /\ c[i] \in 0..Len(d)
    <3>1. c[i - 1] \in 0..Len(d) /\ c[i] \in 0..Len(d) /\ c[i - 1] <= c[i]
      BY <1>2, <2>1, <2>2 DEF Swallows
    <3> QED BY <1>3, <3>1 DEF OnCut
  <2>4. CASE m = c[i]
    <3> DEFINE g == PlaceAt(p, q, i + 1)
    <3>1. g \in Entries(places')
      BY <1>6 DEF GoesAnyDepth
    <3>2. IsOn(seenAs, p, d, c, g, m) /\ m + g.index > m + i
      BY <1>1, <1>3, <2>1, <2>4 DEF IsOn, OnCut, PlaceAt
    <3> HIDE DEF g
    <3> QED BY <3>1, <3>2 DEF GoesFurther
  <2>5. CASE m # c[i]
    <3>1. m + 1 \in c[i - 1]..c[i] /\ m + 1 \in (c[i - 1] + 1)..c[i] /\ m \in 0..Len(d) - 1 /\ m + 1 \in 0..Len(d)
      BY <1>2, <2>3, <2>5
    <3> DEFINE n == d[m + 1]
    <3>2. n \notin HiddenTexts
      BY <2>2, <3>1 DEF Swallows, NoneHidden
    <3> HIDE DEF n
    <3>3. /\ n \in Entries(order) \cap Children(seenAs, q) /\ n # Modules
          /\ WhereIs(seenAs, Append(q, n)) = SubSeq(d, 1, m + 1)
      BY <1>1, <1>3, <3>1, NextName DEF n
    <3>4. n \in Deeper(f)
      BY <3>2, <3>3 DEF Deeper
    <3> DEFINE g == PlaceAt(p, Append(q, n), i)
    <3>5. g \in Entries(places')
      BY <1>6, <3>4 DEF GoesAnyDepth
    <3>6. IsOn(seenAs, p, d, c, g, m + 1) /\ (m + 1) + g.index > m + i
      BY <1>1, <2>1, <3>1, <3>3 DEF IsOn, OnCut, PlaceAt
    <3> HIDE DEF g
    <3> QED BY <3>1, <3>5, <3>6 DEF GoesFurther
  <2> QED BY <2>4, <2>5
<1> QED BY <1>4, <1>5, <1>6 DEF WalksOn

------------------------------------------------------------------------------
(* No "**" on the cut has been walked from here on.                        *)
Ahead(V, p, d, c, x) ==
  \A m \in 0..Len(d) : \A i \in 1..Len(p) : <<SubSeq(d, 1, m), i>> \in V /\ OnCut(p, c, m, i) => m + i < x

Leads(V, s, p, d, c, f) ==
  \E m \in 0..Len(d) : IsOn(s, p, d, c, f, m) /\ Ahead(V, p, d, c, m + f.index)

Comes(V, s, R, P, p, d, c) ==
  \/ \E r \in R : WhereIs(s, r) = d
  \/ \E f \in P : Leads(V, s, p, d, c, f)

(* While a pattern is walked, each directory it matches has been named, or *)
(* a place left to walk leads to it whatever "**" has been walked.         *)
WalkComes == phase = "walking" =>
  \A d \in Wanted : \A c \in Cuts(Head(unresolved), d) :
    Comes(visited, seenAs, results, Entries(places), Head(unresolved), d, c)

LEMMA WalkComesWalk == WalkTyped /\ WalkComes /\ Workspace!Walk => WalkComes'
<1> SUFFICES ASSUME WalkTyped, WalkComes, Workspace!Walk PROVE WalkComes'
  OBVIOUS
<1> DEFINE f == Top
           p == Head(unresolved)
<1>1. /\ places # <<>> /\ f \in Frames /\ Entries(places) = Below \cup {f} /\ phase = "walking"
      /\ f.path \in SegmentLists /\ f.index \in Nat \ {0} /\ Len(f.pattern) \in Nat /\ p \in SegmentLists
      /\ f.pattern = p /\ f.index <= Len(f.pattern) + 1
  BY WalkIs, TopTyped
<1>2. CASE Workspace!GivesUp
  BY <1>2 DEF Workspace!GivesUp, WalkComes
<1>3. CASE Stays /\ WalksOn(f)
  <2> SUFFICES ASSUME NEW d \in Wanted, NEW c \in Cuts(p, d)
               PROVE  Comes(visited', seenAs, results', Entries(places'), p, d, c)
    BY <1>3 DEF WalkComes, Stays
  <2>0. d \in RealDirs /\ d \in SegmentLists /\ Len(d) \in Nat
    BY DirsTyped DEF Wanted, SegmentLists
  <2>1. Comes(visited, seenAs, results, Entries(places), p, d, c)
    BY <1>1 DEF WalkComes
  <2> HIDE DEF f, p
  <2>2. results \subseteq results' /\ Below \subseteq Entries(places')
    BY <1>3 DEF WalksOn, ReachesEnd, HasBeenHere, GoesAnyDepth, TakesNames
  <2>3. visited' = visited \/ GoesAnyDepth(f)
    BY <1>3 DEF WalksOn, ReachesEnd, HasBeenHere, TakesNames
  <2>4. visited' \subseteq visited \cup {Key(f)}
    BY <2>3 DEF GoesAnyDepth
  \* A place further on than the one taken, and than all walked before.
  <2>5. ASSUME NEW m \in 0..Len(d), IsOn(seenAs, p, d, c, f, m), ~HasBeenHere(f),
               Ahead(visited, p, d, c, m + f.index + 1)
        PROVE  Comes(visited', seenAs, results', Entries(places'), p, d, c)
    <3>1. GoesFurther(p, d, c, m + f.index)
      BY <1>1, <1>3, <2>5, Further
    <3>2. ASSUME NEW g \in Entries(places'), NEW l \in 0..Len(d), IsOn(seenAs, p, d, c, g, l), l + g.index > m + f.index
          PROVE  Leads(visited', seenAs, p, d, c, g)
      <4>1. g.index \in Nat
        <5>1. places' \in Seq(Frames) \/ Workspace!GivesUp
          BY WalkIs
        <5>2. WalkTyped'
          <6>1. Workspace!Next
            BY DEF Workspace!Next
          <6> QED BY <6>1, WalkTypedStep
        <5>3. g \in Frames
          BY <5>2, <3>2 DEF WalkTyped, Entries
        <5> QED BY <5>3 DEF Frames
      <4>2. ASSUME NEW k \in 0..Len(d), NEW i \in 1..Len(p), <<SubSeq(d, 1, k), i>> \in visited', OnCut(p, c, k, i)
            PROVE  k + i < l + g.index
        <5>1. CASE <<SubSeq(d, 1, k), i>> \in visited
          <6>1. k + i < m + f.index + 1
            BY <2>5, <4>2, <5>1 DEF Ahead
          <6>2. k \in Nat /\ i \in Nat /\ m \in Nat /\ f.index \in Nat /\ l \in Nat
            BY <1>1, <2>0
          <6> QED BY <3>2, <4>1, <6>1, <6>2
        <5>2. CASE <<SubSeq(d, 1, k), i>> = Key(f)
          <6>1. i = f.index /\ SubSeq(d, 1, k) = SubSeq(d, 1, m)
            BY <2>5, <5>2 DEF Key, IsOn
          <6>2. Len(SubSeq(d, 1, k)) = k /\ Len(SubSeq(d, 1, m)) = m
            BY <2>0 DEF SegmentLists
          <6> QED BY <3>2, <6>1, <6>2
        <5> QED BY <2>4, <4>2, <5>1, <5>2
      <4> QED BY <3>2, <4>2 DEF Leads, Ahead
    <3> QED BY <3>1, <3>2 DEF GoesFurther, Comes
  <2>6. CASE \E r \in results : WhereIs(seenAs, r) = d
    BY <2>2, <2>6 DEF Comes
  <2>7. ASSUME NEW h \in Entries(places), Leads(visited, seenAs, p, d, c, h)
        PROVE  Comes(visited', seenAs, results', Entries(places'), p, d, c)
    <3>1. PICK m \in 0..Len(d) : IsOn(seenAs, p, d, c, h, m) /\ Ahead(visited, p, d, c, m + h.index)
      BY <2>7 DEF Leads
    <3>2. h.index \in Nat /\ m \in Nat
      <4>1. h \in Frames
        BY DEF WalkTyped, Entries
      <4> QED BY <2>0, <4>1 DEF Frames
    <3>3. CASE h = f
      <4>1. ~HasBeenHere(f)
        <5> SUFFICES ASSUME HasBeenHere(f) PROVE FALSE
          OBVIOUS
        <5>1. <<SubSeq(d, 1, m), f.index>> \in visited /\ OnCut(p, c, m, f.index)
          BY <3>1, <3>3 DEF HasBeenHere, Key, IsOn
        <5>2. f.index \in 1..Len(p)
          BY <1>1 DEF HasBeenHere, InSegments
        <5>3. m + f.index < m + f.index
          BY <3>1, <3>3, <5>1, <5>2 DEF Ahead
        <5> QED BY <3>2, <3>3, <5>3
      <4>2. Ahead(visited, p, d, c, m + f.index + 1)
        <5>1. ASSUME NEW k \in 0..Len(d), NEW i \in 1..Len(p), k + i < m + f.index PROVE k + i < m + f.index + 1
          BY <2>0, <3>2, <3>3, <5>1
        <5> QED BY <3>1, <3>3, <5>1 DEF Ahead
      <4> QED BY <2>5, <3>1, <3>3, <4>1, <4>2
    <3>4. CASE h # f /\ \E l \in 0..Len(d) : IsOn(seenAs, p, d, c, f, l) /\ m + h.index <= l + f.index /\ GoesAnyDepth(f)
      <4>1. PICK l \in 0..Len(d) : IsOn(seenAs, p, d, c, f, l) /\ m + h.index <= l + f.index /\ GoesAnyDepth(f)
        BY <3>4
      <4>2. ~HasBeenHere(f)
        BY <4>1 DEF HasBeenHere, GoesAnyDepth
      <4>3. Ahead(visited, p, d, c, l + f.index + 1)
        <5>1. ASSUME NEW k \in 0..Len(d), NEW i \in 1..Len(p), k + i < m + h.index PROVE k + i < l + f.index + 1
          <6>1. k \in Nat /\ i \in Nat /\ l \in Nat /\ f.index \in Nat
            BY <1>1, <2>0
          <6> QED BY <3>2, <4>1, <5>1, <6>1
        <5> QED BY <3>1, <5>1 DEF Ahead
      <4> QED BY <2>5, <4>1, <4>2, <4>3
    <3>5. CASE h # f /\ ~\E l \in 0..Len(d) : IsOn(seenAs, p, d, c, f, l) /\ m + h.index <= l + f.index /\ GoesAnyDepth(f)
      <4>1. h \in Entries(places')
        BY <1>1, <2>2, <3>5
      <4>2. ASSUME NEW k \in 0..Len(d), NEW i \in 1..Len(p), <<SubSeq(d, 1, k), i>> \in visited', OnCut(p, c, k, i)
            PROVE  k + i < m + h.index
        <5>1. CASE <<SubSeq(d, 1, k), i>> \in visited
          BY <3>1, <4>2, <5>1 DEF Ahead
        <5>2. CASE <<SubSeq(d, 1, k), i>> \notin visited
          <6>1. <<SubSeq(d, 1, k), i>> = Key(f) /\ GoesAnyDepth(f)
            BY <2>3, <2>4, <4>2, <5>2
          <6>2. i = f.index /\ WhereIs(seenAs, f.path) = SubSeq(d, 1, k)
            BY <6>1 DEF Key
          <6>3. IsOn(seenAs, p, d, c, f, k)
            BY <4>2, <6>2 DEF IsOn
          <6>4. ~(m + h.index <= k + f.index)
            BY <3>5, <6>1, <6>3
          <6> QED BY <2>0, <3>2, <6>2, <6>4
        <5> QED BY <5>1, <5>2
      <4>3. Leads(visited', seenAs, p, d, c, h)
        BY <3>1, <4>2 DEF Leads, Ahead
      <4> QED BY <4>1, <4>3 DEF Comes
    <3> QED BY <3>3, <3>4, <3>5
  <2> QED BY <2>1, <2>6, <2>7 DEF Comes
<1> QED BY <1>2, <1>3, WalkIs

LEMMA WalkComesStart ==
  ASSUME WalkTyped, phase = "resolving", NEW p, p = Head(unresolved), p \in SegmentLists,
         places' = <<PlaceAt(p, <<>>, 1)>>, UNCHANGED <<unresolved, visited, results, seenAs>>
  PROVE  WalkComes'
<1> SUFFICES ASSUME NEW d \in Wanted, NEW c \in Cuts(p, d)
             PROVE  Comes(visited, seenAs, results, Entries(places'), p, d, c)
  BY DEF WalkComes
<1>1. Entries(places') = {PlaceAt(p, <<>>, 1)} /\ visited = {}
  BY StartOfWalk DEF WalkTyped
<1>2. d \in SegmentLists /\ Len(d) \in Nat /\ c[0] = 0
  BY DirsTyped, CutTyped DEF Wanted, SegmentLists
<1>3. WhereIs(seenAs, <<>>) = SubSeq(d, 1, 0)
  <2>1. SubSeq(d, 1, 0) = <<>>
    BY <1>2 DEF SegmentLists
  <2> QED BY <2>1, PlaceOfRoot
<1>4. IsOn(seenAs, p, d, c, PlaceAt(p, <<>>, 1), 0)
  <2>1. 0 \in 0..Len(d) /\ 1 - 1 = 0
    BY <1>2
  <2> QED BY <1>2, <1>3, <2>1 DEF IsOn, OnCut, PlaceAt
<1>5. Ahead({}, p, d, c, 0 + 1)
  BY DEF Ahead
<1>6. Leads({}, seenAs, p, d, c, PlaceAt(p, <<>>, 1))
  <2>1. 0 \in 0..Len(d)
    BY <1>2
  <2>2. PlaceAt(p, <<>>, 1).index = 1
    BY DEF PlaceAt
  <2> QED BY <1>4, <1>5, <2>1, <2>2 DEF Leads
<1> QED BY <1>1, <1>6 DEF Comes

LEMMA WalkComesStep == WalkTyped /\ WalkComes /\ [Workspace!Next]_(Workspace!vars) => WalkComes'
<1> SUFFICES ASSUME WalkTyped, WalkComes, [Workspace!Next]_(Workspace!vars) PROVE WalkComes'
  OBVIOUS
<1>1. ASSUME NEW p \in RawPatterns, Workspace!Write(p) PROVE WalkComes'
  BY <1>1 DEF Workspace!Write, WalkComes
<1>2. CASE Workspace!Begin
  BY <1>2 DEF Workspace!Begin, WalkComes
<1>3. CASE Workspace!Resolve
  <2> DEFINE p == Head(unresolved)
  <2>1. phase = "resolving" /\ unresolved # <<>> /\ p \in SegmentLists
    BY <1>3, ResolveIs
  <2>2. CASE Workspace!GivesUp
    BY <2>2 DEF Workspace!GivesUp, WalkComes
  <2>3. CASE UNCHANGED phase
    BY <2>1, <2>3 DEF WalkComes
  <2>4. CASE places' = <<PlaceAt(p, <<>>, 1)>> /\ UNCHANGED <<unresolved, visited, results, seenAs>>
    BY <2>1, <2>4, WalkComesStart
  <2> QED BY <1>3, <2>2, <2>3, <2>4, ResolveIs
<1>4. CASE Workspace!Walk
  BY <1>4, WalkComesWalk
<1>5. CASE Workspace!Collect
  BY <1>5 DEF Workspace!Collect, WalkComes
<1>6. CASE UNCHANGED Workspace!vars
  BY <1>6 DEF Workspace!vars, Workspace!list, WalkComes
<1> QED BY <1>1, <1>2, <1>3, <1>4, <1>5, <1>6 DEF Workspace!Next

------------------------------------------------------------------------------
(* A path of a working tree's walk goes through node_modules only where    *)
(* the pattern says so, and then so does everything it matches.            *)
NamesModules(p) == ~Workspace!HasWildcard(Modules) /\ Modules \in Entries(p)

WalkThrough == seenAs = "tree" =>
  /\ \A f \in Entries(places) : Modules \in Entries(f.path) => NamesModules(Head(unresolved))
  /\ \A r \in results : Modules \in Entries(r) => NamesModules(Head(unresolved))

LEMMA EntriesOfLonger ==
  ASSUME NEW q \in SegmentLists, NEW n \in SegmentTexts
  PROVE  Entries(Append(q, n)) = Entries(q) \cup {n}
<1> DEFINE e == Append(q, n)
<1>1. Len(q) \in Nat /\ DOMAIN q = 1..Len(q) /\ DOMAIN e = 1..Len(q) + 1
  BY DEF SegmentLists
<1>2. e[Len(q) + 1] = n /\ \A i \in 1..Len(q) : e[i] = q[i]
  BY DEF SegmentLists
<1> HIDE DEF e
<1>3. \A i \in 1..Len(q) + 1 : i \in 1..Len(q) \/ i = Len(q) + 1
  BY <1>1
<1>4. Len(q) + 1 \in 1..Len(q) + 1 /\ \A i \in 1..Len(q) : i \in 1..Len(q) + 1
  BY <1>1
<1>5. Entries(e) = Entries(q) \cup {n}
  BY <1>1, <1>2, <1>3, <1>4 DEF Entries
<1> QED BY <1>5 DEF e

LEMMA WalkThroughWalk == WalkTyped /\ WalkThrough /\ Workspace!Walk => WalkThrough'
<1> SUFFICES ASSUME WalkTyped, WalkThrough, Workspace!Walk PROVE WalkThrough'
  OBVIOUS
<1> DEFINE f == Top
           p == Head(unresolved)
<1>1. /\ places # <<>> /\ f \in Frames /\ Entries(places) = Below \cup {f}
      /\ f.path \in SegmentLists /\ f.index \in Nat \ {0} /\ Len(f.pattern) \in Nat /\ f.pattern = p /\ p \in SegmentLists
  BY WalkIs, TopTyped
<1>2. CASE Workspace!GivesUp
  <2>1. Entries(places') = {} /\ results' = {}
    BY <1>2, NoEntries DEF Workspace!GivesUp
  <2> QED BY <2>1 DEF WalkThrough
<1>3. CASE Stays /\ WalksOn(f)
  <2> SUFFICES ASSUME seenAs = "tree"
               PROVE  /\ \A g \in Entries(places') : Modules \in Entries(g.path) => NamesModules(p)
                      /\ \A r \in results' : Modules \in Entries(r) => NamesModules(p)
    BY <1>3 DEF Stays, WalkThrough
  <2>1. /\ \A g \in Entries(places) : Modules \in Entries(g.path) => NamesModules(p)
        /\ \A r \in results : Modules \in Entries(r) => NamesModules(p)
    BY DEF WalkThrough
  <2> HIDE DEF f, p
  <2>2. Modules \in Entries(f.path) => NamesModules(p)
    BY <1>1, <2>1
  <2>3. \A r \in results' : Modules \in Entries(r) => NamesModules(p)
    BY <1>3, <2>1, <2>2 DEF WalksOn, ReachesEnd, HasBeenHere, GoesAnyDepth, TakesNames
  <2>4. ASSUME NEW g \in Entries(places'), Modules \in Entries(g.path) PROVE NamesModules(p)
    <3>1. CASE g \in Below
      BY <1>1, <2>1, <2>4, <3>1
    <3>2. CASE g \notin Below /\ GoesAnyDepth(f)
      <4>1. CASE g.path = f.path
        BY <2>2, <2>4, <4>1
      <4>2. CASE g.path # f.path
        <5>1. PICK n \in Deeper(f) : g.path = Append(f.path, n)
          BY <3>2, <4>2, <2>4 DEF GoesAnyDepth, PlaceAt
        <5>2. n \in SegmentTexts /\ n # Modules
          BY DEF Deeper, Children
        <5>3. Modules \in Entries(f.path)
          BY <1>1, <2>4, <5>1, <5>2, EntriesOfLonger
        <5> QED BY <2>2, <5>3
      <4> QED BY <4>1, <4>2
    <3>3. ASSUME g \notin Below, NEW G, TakesNames(f, G) PROVE NamesModules(p)
      <4>1. PICK n \in G : g.path = Append(f.path, n)
        BY <2>4, <3>3 DEF TakesNames, PlaceAt
      <4>2. n \in SegmentTexts /\ (n = Modules => f.pattern[f.index] = Modules /\ ~Workspace!HasWildcard(Modules))
        BY <3>3 DEF TakesNames, GoesWith
      <4>3. Modules \in Entries(f.path) \/ n = Modules
        BY <1>1, <2>4, <4>1, <4>2, EntriesOfLonger
      <4>4. CASE n = Modules
        <5>1. f.index \in DOMAIN p
          <6>1. f.index \in 1..Len(p)
            BY <1>1, <3>3 DEF TakesNames, InSegments
          <6> QED BY <1>1, <6>1 DEF SegmentLists
        <5> QED BY <1>1, <4>2, <4>4, <5>1 DEF NamesModules, Entries
      <4> QED BY <2>2, <4>3, <4>4
    <3>4. g \in Below \/ GoesAnyDepth(f) \/ \E G : TakesNames(f, G)
      BY <1>3, <2>4 DEF WalksOn, ReachesEnd, HasBeenHere
    <3> QED BY <3>1, <3>2, <3>3, <3>4
  <2> QED BY <2>3, <2>4
<1> QED BY <1>2, <1>3, WalkIs

LEMMA WalkThroughStep == WalkTyped /\ WalkThrough /\ [Workspace!Next]_(Workspace!vars) => WalkThrough'
<1> SUFFICES ASSUME WalkTyped, WalkThrough, [Workspace!Next]_(Workspace!vars) PROVE WalkThrough'
  OBVIOUS
<1>1. ASSUME Entries(places') = {}, results' = {} PROVE WalkThrough'
  BY <1>1 DEF WalkThrough
<1>2. ASSUME NEW p \in RawPatterns, Workspace!Write(p) PROVE WalkThrough'
  <2>1. places' = <<>> /\ results' = {}
    BY <1>2 DEF Workspace!Write, WalkTyped
  <2> QED BY <1>1, <2>1, NoEntries
<1>3. CASE Workspace!Begin
  <2>1. places' = <<>> /\ results' = {}
    BY <1>3 DEF Workspace!Begin, WalkTyped
  <2> QED BY <1>1, <2>1, NoEntries
<1>4. CASE Workspace!Resolve
  <2> DEFINE p == Head(unresolved)
  <2>1. phase = "resolving" /\ p \in SegmentLists /\ places = <<>> /\ results = {}
    BY <1>4, ResolveIs DEF WalkTyped
  <2>2. CASE Workspace!GivesUp
    BY <1>1, <2>2, NoEntries DEF Workspace!GivesUp
  <2>3. CASE UNCHANGED <<places, results>>
    BY <1>1, <2>1, <2>3, NoEntries
  <2>4. CASE places' = <<PlaceAt(p, <<>>, 1)>> /\ results' = results
    <3>1. Entries(places') = {PlaceAt(p, <<>>, 1)}
      BY <2>1, <2>4, StartOfWalk
    <3>2. \A f \in Entries(places') : Modules \notin Entries(f.path)
      BY <3>1, NoEntries DEF PlaceAt
    <3> QED BY <2>1, <2>4, <3>2 DEF WalkThrough
  <2> QED BY <1>4, <2>2, <2>3, <2>4, ResolveIs
<1>5. CASE Workspace!Walk
  BY <1>5, WalkThroughWalk
<1>6. CASE Workspace!Collect
  <2>1. places' = <<>> /\ results' = {}
    BY <1>6 DEF Workspace!Collect
  <2> QED BY <1>1, <2>1, NoEntries
<1>7. CASE UNCHANGED Workspace!vars
  BY <1>7 DEF Workspace!vars, Workspace!list, WalkThrough
<1> QED BY <1>2, <1>3, <1>4, <1>5, <1>6, <1>7 DEF Workspace!Next

LEMMA MatchedModules ==
  ASSUME NEW p \in SegmentLists, NamesModules(p), NEW d \in SegmentLists, NEW c \in Cuts(p, d)
  PROVE  Modules \in Entries(d)
<1>1. PICK k \in 1..Len(p) : p[k] = Modules
  BY DEF NamesModules, Entries, SegmentLists
<1>2. Eats(p[k], d, c[k - 1], c[k]) /\ Len(d) \in Nat /\ c[k - 1] \in 0..Len(d)
  <2>1. Len(p) \in Nat
    BY DEF SegmentLists
  <2>2. k - 1 \in 0..Len(p)
    BY <2>1
  <2> QED BY <2>2, CutTyped
<1>3. p[k] # "**"
  BY <1>1 DEF NamesModules, Workspace!HasWildcard
<1>4. TakesOne(p[k], d, c[k - 1], c[k])
  BY <1>2, <1>3 DEF Eats, Swallows
<1>5. c[k] \in 1..Len(d) /\ <<Modules, d[c[k]]>> \in SegmentSees
  BY <1>1, <1>2, <1>4 DEF TakesOne, Workspace!SegmentMatches
<1>6. d[c[k]] \in SegmentTexts
  BY <1>5 DEF SegmentLists
<1>7. d[c[k]] = Modules
  BY <1>5, <1>6 DEF NamesModules, Workspace!HasWildcard
<1> QED BY <1>5, <1>7 DEF Entries, SegmentLists

(* Without links, every path is where it says it is.                       *)
LEMMA PlaceWithoutLinks ==
  ASSUME NEW s, s # "tree", NEW q \in SegmentLists
  PROVE  WhereIs(s, q) = q
<1>0. Len(q) \in Nat
  BY DEF SegmentLists
<1> DEFINE S == {k \in 0..Len(q) : WhereIs(s, SubSeq(q, 1, k)) = SubSeq(q, 1, k)}
<1>1. 0 \in S
  <2>1. SubSeq(q, 1, 0) = <<>> /\ 0 \in 0..Len(q)
    BY <1>0 DEF SegmentLists
  <2>2. WhereIs(s, SubSeq(q, 1, 0)) = SubSeq(q, 1, 0)
    BY <2>1, PlaceOfRoot
  <2> QED BY <2>1, <2>2
<1>2. GoesOn(S, 0, Len(q))
  <2> SUFFICES ASSUME NEW k \in 0..Len(q) - 1, k \in S PROVE k + 1 \in S
    BY DEF GoesOn
  <2> DEFINE e == SubSeq(q, 1, k)
  <2>1. k + 1 \in 0..Len(q) /\ k + 1 \in 1..Len(q) /\ WhereIs(s, e) = e
    BY <1>0
  <2>2. e \in SegmentLists /\ q[k + 1] \in SegmentTexts /\ SubSeq(q, 1, k + 1) = Append(e, q[k + 1])
    BY <1>0, <2>1 DEF SegmentLists
  <2> HIDE DEF e
  <2>4. WhereIs(s, Append(e, q[k + 1])) = Onward(s, e, q[k + 1])
    BY <2>1, <2>2, PlaceStep
  <2>5. Onward(s, e, q[k + 1]) = Append(e, q[k + 1])
    BY DEF Onward
  <2> QED BY <2>1, <2>2, <2>4, <2>5 DEF e
<1>3. 0..Len(q) \subseteq S
  <2> HIDE DEF S
  <2> QED BY <1>0, <1>1, <1>2, Induction
<1>4. Len(q) \in S /\ SubSeq(q, 1, Len(q)) = q
  BY <1>0, <1>3 DEF SegmentLists
<1> QED BY <1>4

(* Every directory a pattern matches that is not excluded has been found,  *)
(* by its own path or by one that leads to it.                             *)
Exclusions == Workspace!Partition(patterns).negs
IsDone(p, N, s, F) ==
  \A d \in Wanted : ~Workspace!Excluded(N, d) /\ Workspace!MatchNpmGlob(p, d) => \E m \in F : WhereIs(s, m) = d

WalkDone == phase # "writing" /\ ~unread /\ (seenAs # "tree" \/ Exclusions = <<>>) =>
  \A p \in Entries(Positives(patterns)) :
    p # <<>> /\ Workspace!Exact(p) => p \in Entries(unresolved) \/ IsDone(p, Exclusions, seenAs, found)

LEMMA LiteralIsDone ==
  ASSUME NEW p \in SegmentLists, Workspace!Literal(p), Workspace!Named(Workspace!Spelled(p)) \subseteq found'
  PROVE  IsDone(p, Exclusions, seenAs, found')
<1> SUFFICES ASSUME NEW d \in Wanted, ~Workspace!Excluded(Exclusions, d), Workspace!MatchNpmGlob(p, d)
             PROVE  \E m \in found' : WhereIs(seenAs, m) = d
  BY DEF IsDone
<1>1. d \in RealDirs /\ d \in SegmentLists /\ ~Workspace!NeverAMember(d)
  BY DirsTyped DEF Wanted
<1>2. d = p
  BY <1>1, LiteralMatch
<1>3. d \in Workspace!Spelled(p)
  BY <1>1, <1>2 DEF Workspace!Spelled
<1>4. d \in found'
  BY <1>1, <1>3 DEF Workspace!Named, Exclusions
<1> QED BY <1>1, <1>4, PlaceOfDir

LEMMA WalkedIsDone ==
  ASSUME WalkTyped, WalkComes, WalkThrough, phase = "walking", places = <<>>, Workspace!Named(results) \subseteq found',
         seenAs # "tree" \/ Exclusions = <<>>
  PROVE  IsDone(Head(unresolved), Exclusions, seenAs, found')
<1> DEFINE p == Head(unresolved)
<1> SUFFICES ASSUME NEW d \in Wanted, ~Workspace!Excluded(Exclusions, d), Workspace!MatchNpmGlob(p, d)
             PROVE  \E m \in found' : WhereIs(seenAs, m) = d
  BY DEF IsDone
<1>1. d \in RealDirs /\ d \in SegmentLists /\ ~Workspace!NeverAMember(d) /\ p \in SegmentLists
  BY DirsTyped, HeadIsPositive DEF Wanted, WalkTyped
<1>2. PICK c : c \in Cuts(p, d)
  BY <1>1, CutExists
<1>3. Comes(visited, seenAs, results, {}, p, d, c)
  BY <1>2, NoEntries DEF WalkComes
<1>4. PICK r \in results : WhereIs(seenAs, r) = d
  BY <1>3 DEF Comes
<1>5. r \in SegmentLists
  BY DEF WalkTyped
<1>6. seenAs # "tree" => r = d
  BY <1>4, <1>5, PlaceWithoutLinks
<1>7. ~Workspace!Excluded(Exclusions, r)
  BY <1>6 DEF Workspace!Excluded
<1>8. ~Workspace!NeverAMember(r)
  <2>1. r # <<>>
    BY <1>1, <1>4, PlaceOfRoot DEF Workspace!NeverAMember
  <2>2. CASE seenAs # "tree"
    BY <1>1, <1>6, <2>2
  <2>3. CASE seenAs = "tree"
    <3>1. Modules \notin Entries(d)
      BY <1>1 DEF Workspace!NeverAMember, Workspace!Contains, Modules, Entries, SegmentLists
    <3>2. Modules \notin Entries(r)
      BY <1>1, <1>2, <2>3, <3>1, MatchedModules DEF WalkThrough
    <3> QED BY <1>5, <2>1, <3>2 DEF Workspace!NeverAMember, Workspace!Contains, Modules, Entries, SegmentLists
  <2> QED BY <2>2, <2>3
<1>9. r \in found'
  BY <1>7, <1>8 DEF Workspace!Named, Exclusions
<1> QED BY <1>4, <1>9

LEMMA WalkDoneStep ==
  WalkTyped /\ WalkComes /\ WalkThrough /\ WalkDone /\ [Workspace!Next]_(Workspace!vars) => WalkDone'
<1> SUFFICES ASSUME WalkTyped, WalkComes, WalkThrough, WalkDone, [Workspace!Next]_(Workspace!vars) PROVE WalkDone'
  OBVIOUS
<1>1. ASSUME NEW p \in RawPatterns, Workspace!Write(p) PROVE WalkDone'
  BY <1>1 DEF Workspace!Write, WalkDone
<1>2. CASE Workspace!Begin
  <2>1. unresolved' = Positives(patterns) /\ patterns' = patterns
    BY <1>2 DEF Workspace!Begin, Workspace!list, Positives
  <2> QED BY <2>1 DEF WalkDone
\* A pattern is done when it is the next no longer.
<1>3. ASSUME phase # "writing", unresolved # <<>>, unresolved' = Tail(unresolved), found \subseteq found',
             UNCHANGED <<seenAs, patterns, unread>>, seenAs # "tree" \/ Exclusions = <<>>, ~unread,
             Head(unresolved) # <<>> /\ Workspace!Exact(Head(unresolved)) =>
               IsDone(Head(unresolved), Exclusions, seenAs, found')
      PROVE  WalkDone'
  <2>1. Entries(unresolved) = {Head(unresolved)} \cup Entries(unresolved')
    BY <1>3, FirstAndRest DEF WalkTyped
  <2>2. Exclusions' = Exclusions /\ Positives(patterns)' = Positives(patterns)
    BY <1>3 DEF Exclusions, Positives
  <2>3. ASSUME NEW p \in Entries(Positives(patterns)), p # <<>>, Workspace!Exact(p)
        PROVE  p \in Entries(unresolved') \/ IsDone(p, Exclusions, seenAs, found')
    <3>1. p \in Entries(unresolved) \/ IsDone(p, Exclusions, seenAs, found)
      BY <1>3, <2>3 DEF WalkDone
    <3>2. IsDone(p, Exclusions, seenAs, found) => IsDone(p, Exclusions, seenAs, found')
      BY <1>3 DEF IsDone
    <3> QED BY <1>3, <2>1, <2>3, <3>1, <3>2
  <2> QED BY <1>3, <2>2, <2>3 DEF WalkDone
<1>4. ASSUME UNCHANGED <<seenAs, patterns, unread, unresolved, found>>, phase # "writing" PROVE WalkDone'
  BY <1>4 DEF WalkDone, Exclusions
<1>5. ASSUME unread' PROVE WalkDone'
  BY <1>5 DEF WalkDone
<1>6. ASSUME ~(~unread /\ (seenAs # "tree" \/ Exclusions = <<>>)), UNCHANGED <<seenAs, patterns, unread>> PROVE WalkDone'
  <2>1. Exclusions' = Exclusions
    BY <1>6 DEF Exclusions
  <2> QED BY <1>6, <2>1 DEF WalkDone
<1>7. CASE Workspace!Resolve
  <2> DEFINE p == Head(unresolved)
  <2>1. phase = "resolving" /\ unresolved # <<>> /\ p \in SegmentLists
    BY <1>7, ResolveIs
  <2>2. CASE Workspace!GivesUp
    BY <1>5, <2>2 DEF Workspace!GivesUp
  <2>3. CASE UNCHANGED <<seenAs, patterns, unread, unresolved, found>>
    BY <1>4, <2>1, <2>3
  <2>4. CASE /\ UNCHANGED <<seenAs, patterns, unread>> /\ unresolved' = Tail(unresolved)
             /\ Workspace!Literal(p) /\ found' = found \cup Workspace!Named(Workspace!Spelled(p))
    <3>1. IsDone(p, Exclusions, seenAs, found')
      BY <2>1, <2>4, LiteralIsDone
    <3> QED BY <1>3, <1>6, <2>1, <2>4, <3>1
  <2>5. CASE /\ UNCHANGED <<seenAs, patterns, unread>> /\ unresolved' = Tail(unresolved)
             /\ (p = <<>> \/ ~Workspace!Exact(p)) /\ found' = found \cup {}
    BY <1>3, <1>6, <2>1, <2>5
  <2> QED BY <1>7, <2>2, <2>3, <2>4, <2>5, ResolveIs
<1>8. CASE Workspace!Walk
  <2>1. Workspace!GivesUp \/ Stays
    BY <1>8, WalkIs
  <2>2. CASE Workspace!GivesUp
    BY <1>5, <2>2 DEF Workspace!GivesUp
  <2>3. CASE Stays
    <3>1. phase # "writing"
      BY <1>8, WalkIs, TopTyped
    <3> QED BY <1>4, <2>3, <3>1 DEF Stays
  <2> QED BY <2>1, <2>2, <2>3
<1>9. CASE Workspace!Collect
  <2>1. /\ phase = "walking" /\ places = <<>> /\ found' = found \cup Workspace!Named(results)
        /\ unresolved' = Tail(unresolved) /\ UNCHANGED <<seenAs, patterns, unread>>
    BY <1>9 DEF Workspace!Collect, Workspace!list
  <2>2. unresolved # <<>>
    BY <2>1 DEF WalkTyped
  <2>3. CASE seenAs # "tree" \/ Exclusions = <<>>
    <3>1. IsDone(Head(unresolved), Exclusions, seenAs, found')
      BY <2>1, <2>3, WalkedIsDone
    <3> QED BY <1>3, <1>6, <2>1, <2>2, <2>3, <3>1
  <2>4. CASE ~(seenAs # "tree" \/ Exclusions = <<>>)
    BY <1>6, <2>1, <2>4
  <2> QED BY <2>3, <2>4
<1>10. CASE UNCHANGED Workspace!vars
  BY <1>10 DEF Workspace!vars, Workspace!list, WalkDone, Exclusions
<1> QED BY <1>1, <1>2, <1>7, <1>8, <1>9, <1>10 DEF Workspace!Next

LEMMA WalkAndMatchingAgree == WalkTyped /\ WalkSound /\ WalkDone => Workspace!WalkAgreesWithMatching
<1> SUFFICES ASSUME WalkTyped, WalkSound, WalkDone, Workspace!Expanded
             PROVE  /\ \A d \in found : Workspace!IgnoresCase \/ Workspace!WorkspaceCoverage(patterns, d)
                    /\ unread \/ (Workspace!FollowsLinks /\ Workspace!Excludes)
                         \/ \A d \in RealDirs : Workspace!WorkspaceCoverage(patterns, d) =>
                                                  \E m \in found : Workspace!Identity(m) = d
  BY DEF Workspace!WalkAgreesWithMatching
<1>1. \A d \in found : Workspace!IgnoresCase \/ Workspace!WorkspaceCoverage(patterns, d)
  BY DEF WalkSound, CaseCounts, Workspace!IgnoresCase
<1>2. ASSUME ~unread, ~(Workspace!FollowsLinks /\ Workspace!Excludes),
             NEW d \in RealDirs, Workspace!WorkspaceCoverage(patterns, d)
      PROVE  \E m \in found : Workspace!Identity(m) = d
  <2>1. seenAs # "tree" \/ Exclusions = <<>>
    BY <1>2 DEF Workspace!FollowsLinks, Workspace!Excludes, Exclusions
  <2>2. PICK i \in DOMAIN Positives(patterns) :
          LET p == Positives(patterns)[i] IN p # <<>> /\ Workspace!Exact(p) /\ Workspace!MatchNpmGlob(p, d)
    BY <1>2 DEF Workspace!WorkspaceCoverage, Positives
  <2> DEFINE p == Positives(patterns)[i]
  <2>3. p \in Entries(Positives(patterns)) /\ p # <<>> /\ Workspace!Exact(p) /\ Workspace!MatchNpmGlob(p, d)
    BY <2>2 DEF Entries
  <2> HIDE DEF p
  <2>4. phase # "writing" /\ Entries(unresolved) = {}
    BY NoEntries DEF Workspace!Expanded
  <2>5. IsDone(p, Exclusions, seenAs, found)
    BY <1>2, <2>1, <2>3, <2>4 DEF WalkDone
  <2>6. d \in Wanted /\ ~Workspace!Excluded(Exclusions, d)
    BY <1>2 DEF Workspace!WorkspaceCoverage, Wanted, Exclusions
  <2>7. \E m \in found : WhereIs(seenAs, m) = d
    BY <2>3, <2>5, <2>6 DEF IsDone
  <2> QED BY <2>7, IdentityIsPlace
<1> QED BY <1>1, <1>2
------------------------------------------------------------------------------
(* The walk of workspace patterns, of a run that is about one.             *)
WalkInv == WalkTyped /\ WalkSound /\ WalkComes /\ WalkThrough /\ WalkDone

LEMMA WalkInvInit == Workspace!Init => WalkInv
<1> SUFFICES ASSUME Workspace!Init PROVE WalkInv
  OBVIOUS
<1>1. phase = "writing" /\ places = <<>> /\ results = {}
  BY DEF Workspace!Init
<1>2. WalkTyped /\ WalkSound
  BY WalkTypedInit, WalkSoundInit
<1>3. WalkComes /\ WalkDone
  BY <1>1 DEF WalkComes, WalkDone
<1>4. WalkThrough
  BY <1>1, NoEntries DEF WalkThrough
<1> QED BY <1>2, <1>3, <1>4 DEF WalkInv

LEMMA WalkInvStep == WalkInv /\ [Workspace!Next]_(Workspace!vars) => WalkInv'
<1> SUFFICES ASSUME WalkInv, [Workspace!Next]_(Workspace!vars) PROVE WalkInv'
  OBVIOUS
<1>1. WalkTyped' /\ WalkSound' /\ WalkComes' /\ WalkThrough' /\ WalkDone'
  BY WalkTypedStep, WalkSoundStep, WalkComesStep, WalkThroughStep, WalkDoneStep DEF WalkInv
<1> QED BY <1>1 DEF WalkInv

WalkSubject == subject = "patterns" => WalkInv

LEMMA WalkSubjectAlways == MCSpec => []WalkSubject
<1>1. MCInit => WalkSubject
  BY WalkInvInit DEF MCInit, WalkSubject
<1>2. WalkSubject /\ [MCNext]_<<subject, vars, readVars, globVars, patternVars, memberVars>>
        => WalkSubject'
  <2> SUFFICES ASSUME WalkSubject, subject' = "patterns",
                      [MCNext]_<<subject, vars, readVars, globVars, patternVars, memberVars>>
               PROVE  WalkInv'
    BY DEF WalkSubject
  <2>1. subject = "patterns" /\ [Workspace!Next]_(Workspace!vars)
    BY DEF MCNext, FilterStep, ReadStep, GlobStep, PatternStep, MemberStep, Rest,
           Workspace!vars, Workspace!list, patternVars
  <2> QED BY <2>1, WalkInvStep DEF WalkSubject
<1> QED BY <1>1, <1>2, PTL DEF MCSpec

(* discoverWorkspaceDirs, which walks the tree, and workspaceCoverage,     *)
(* which matches paths, name the same directories, for every tree, links,  *)
(* list of patterns, order of the listings and bound on the depth: what    *)
(* the walk names is covered, and a covered directory is a member under    *)
(* its own path or a link to it, unless a pattern was left unread.         *)
THEOREM WalkAgrees == MCSpec => []WalkAgreesWithMatching
<1>1. WalkSubject => WalkAgreesWithMatching
  BY WalkAndMatchingAgree DEF WalkSubject, WalkInv, WalkAgreesWithMatching
<1> QED BY <1>1, WalkSubjectAlways, PTL

(* Every directory above a member is one workspacePatternsReachBelow       *)
(* admits, so a side that cannot follow links refuses at each link the     *)
(* walk of a working tree may go through.                                  *)
THEOREM MembersAreReached == MCSpec => []MembersAreReachedThrough
<1>1. WalkSubject => MembersAreReachedThrough
  BY FoundIsReached DEF WalkSubject, WalkInv, MembersAreReachedThrough
<1> QED BY <1>1, WalkSubjectAlways, PTL
------------------------------------------------------------------------------
(* One segment of a walk through links (walkPhysicalPath).                 *)

(* What is known of the constants of the walk behind links.                *)
LEMMA HopsTyped == HopLimit \in Nat /\ Nowhere \notin Linked!Way
BY WalksAssumption DEF Linked!SymlinkedMembersConstants

LEMMA WayIs == Linked!Way = Seq(STRING) /\ <<>> \in Linked!Way
BY DEF Linked!Way

LEMMA TracesAre == /\ <<>> \in Linked!Traces
                   /\ \A t \in Linked!Traces : Len(t) \in Nat
                   /\ \A t, u \in Linked!Traces : t \o u \in Linked!Traces /\ Len(t \o u) = Len(t) + Len(u)
BY DEF Linked!Traces

LEMMA GoingIs ==
  ASSUME NEW place, NEW pending, NEW read
  PROVE  /\ Linked!Going(place, pending, read).at = place
         /\ Linked!Going(place, pending, read).pending = pending
         /\ Linked!Going(place, pending, read).read = read
BY DEF Linked!Going

LEMMA GoingTyped ==
  ASSUME NEW place \in Linked!Way, NEW pending \in Linked!Way, NEW read \in Linked!Traces
  PROVE  Linked!Going(place, pending, read) \in Linked!Walks
BY DEF Linked!Going, Linked!Walks

LEMMA LostIs ==
  ASSUME NEW read
  PROVE  /\ Linked!Lost(read).at = Nowhere /\ Linked!Lost(read).pending = <<>> /\ Linked!Lost(read).read = read
         /\ read \in Linked!Traces => Linked!Lost(read) \in Linked!Walks
BY DEF Linked!Going, Linked!Lost, Linked!Walks

LEMMA HeadAndTail ==
  ASSUME NEW S, NEW q \in Seq(S), q # <<>>
  PROVE  /\ Head(q) \in S /\ Tail(q) \in Seq(S) /\ Len(q) \in Nat \ {0} /\ Len(Tail(q)) = Len(q) - 1
         /\ q = <<Head(q)>> \o Tail(q)
<1>1. Len(q) \in Nat /\ Len(q) # 0
  OBVIOUS
<1>2. Head(q) = q[1] /\ 1 \in 1..Len(q) /\ Head(q) \in S
  BY <1>1
<1>3. Tail(q) \in Seq(S) /\ Len(Tail(q)) = Len(q) - 1 /\ \A i \in 1..Len(q) - 1 : Tail(q)[i] = q[i + 1]
  BY <1>1
<1>4. q = <<Head(q)>> \o Tail(q)
  BY <1>1, <1>2, <1>3
<1> QED BY <1>1, <1>2, <1>3, <1>4

(* One segment of a walk, by what stands at it.                            *)
OneSegment(map, w, s, rest, here, n) ==
  LET trace == Append(w.read, <<here, map[here]>>)
  IN /\ s \in {"", "."} => n = Linked!Going(w.at, rest, w.read)
     /\ s = ".." /\ w.at # <<>> => Linked!Front(w.at) \in Linked!Way /\ n = Linked!Going(Linked!Front(w.at), rest, w.read)
     /\ s = ".." /\ w.at = <<>> => n = Linked!Lost(w.read)
     /\ s \notin Linked!Dotted =>
          /\ here \notin DOMAIN map => n = Linked!Going(here, rest, w.read)
          /\ here \in DOMAIN map /\ ~(Len(w.read) < HopLimit) => n = Linked!Lost(w.read)
          /\ here \in DOMAIN map /\ Len(w.read) < HopLimit =>
               /\ trace \in Linked!Traces /\ Len(trace) = Len(w.read) + 1
               /\ map[here] \in {Absolute, Unreadable} => n = Linked!Lost(trace)
               /\ map[here] \notin {Absolute, Unreadable} =>
                    map[here] \in Linked!Way /\ n = Linked!Going(w.at, map[here] \o rest, trace)

LEMMA SegmentIs ==
  ASSUME NEW map, Linked!IsLinkMap(map), NEW w \in Linked!Walks, w.pending # <<>>,
         NEW s, s = Head(w.pending), NEW rest, rest = Tail(w.pending), NEW here, here = Append(w.at, s),
         NEW n, n = Linked!Segment(map, w)
  PROVE  /\ w.at \in Linked!Way /\ w.read \in Linked!Traces /\ w.pending \in Linked!Way
         /\ s \in STRING /\ rest \in Linked!Way /\ here \in Linked!Way
         /\ Len(w.pending) \in Nat /\ Len(rest) = Len(w.pending) - 1
         /\ OneSegment(map, w, s, rest, here, n)
<1>1. w \in [at : Linked!Way, pending : Linked!Way, read : Linked!Traces]
  BY DEF Linked!Walks
<1>2. n = IF s \in {"", "."} THEN Linked!Going(w.at, rest, w.read)
          ELSE IF s = ".." THEN IF w.at = <<>> THEN Linked!Lost(w.read) ELSE Linked!Going(Linked!Front(w.at), rest, w.read)
          ELSE IF here \notin DOMAIN map THEN Linked!Going(here, rest, w.read)
          ELSE IF Len(w.read) >= HopLimit THEN Linked!Lost(w.read)
          ELSE IF map[here] \in {Absolute, Unreadable} THEN Linked!Lost(Append(w.read, <<here, map[here]>>))
          ELSE Linked!Going(w.at, map[here] \o rest, Append(w.read, <<here, map[here]>>))
  BY DEF Linked!Segment
<1>3. w.at \in Linked!Way /\ w.read \in Linked!Traces /\ w.pending \in Linked!Way
  BY <1>1
<1>4. /\ s \in STRING /\ rest \in Linked!Way /\ here \in Linked!Way
      /\ Len(w.pending) \in Nat /\ Len(rest) = Len(w.pending) - 1
  <2>1. s \in STRING /\ rest \in Linked!Way /\ Len(w.pending) \in Nat /\ Len(rest) = Len(w.pending) - 1
    BY <1>3, HeadAndTail DEF Linked!Way
  <2>2. here \in Linked!Way
    BY <1>3, <2>1 DEF Linked!Way
  <2> QED BY <2>1, <2>2
<1>5. Len(w.read) \in Nat /\ HopLimit \in Nat
  BY <1>3, TracesAre, HopsTyped
<1>6. w.at # <<>> => Linked!Front(w.at) \in Linked!Way
  <2> SUFFICES ASSUME w.at # <<>> PROVE Linked!Front(w.at) \in Linked!Way
    OBVIOUS
  <2>1. Len(w.at) \in Nat /\ Len(w.at) # 0
    BY <1>3 DEF Linked!Way
  <2> QED BY <1>3, <2>1 DEF Linked!Way, Linked!Front
<1>7. here \in DOMAIN map =>
        /\ <<here, map[here]>> \in Linked!Way \X (Linked!Way \cup {Absolute, Unreadable})
        /\ map[here] \in Linked!Way \/ map[here] \in {Absolute, Unreadable}
  BY <1>4 DEF Linked!IsLinkMap
<1>8. here \in DOMAIN map => /\ Append(w.read, <<here, map[here]>>) \in Linked!Traces
                             /\ Len(Append(w.read, <<here, map[here]>>)) = Len(w.read) + 1
  BY <1>3, <1>7 DEF Linked!Traces
<1>9. s \notin {"", "."} /\ s # ".." => s \notin Linked!Dotted
  BY DEF Linked!Dotted
<1>10. s \notin Linked!Dotted => s \notin {"", "."} /\ s # ".."
  BY DEF Linked!Dotted
<1>11. ~(Len(w.read) < HopLimit) <=> Len(w.read) >= HopLimit
  BY <1>5
<1>12. OneSegment(map, w, s, rest, here, n)
  <2>1. s \in {"", "."} => n = Linked!Going(w.at, rest, w.read)
    BY <1>2
  <2>2. s = ".." => s \notin {"", "."}
    OBVIOUS
  <2>3. s = ".." /\ w.at # <<>> => Linked!Front(w.at) \in Linked!Way /\ n = Linked!Going(Linked!Front(w.at), rest, w.read)
    BY <1>2, <1>6, <2>2
  <2>4. s = ".." /\ w.at = <<>> => n = Linked!Lost(w.read)
    BY <1>2, <2>2
  <2>5. s \notin Linked!Dotted /\ here \notin DOMAIN map => n = Linked!Going(here, rest, w.read)
    BY <1>2, <1>10
  <2>6. s \notin Linked!Dotted /\ here \in DOMAIN map /\ ~(Len(w.read) < HopLimit) => n = Linked!Lost(w.read)
    BY <1>2, <1>10, <1>11
  <2>7. s \notin Linked!Dotted /\ here \in DOMAIN map /\ Len(w.read) < HopLimit
          => n = IF map[here] \in {Absolute, Unreadable} THEN Linked!Lost(Append(w.read, <<here, map[here]>>))
                 ELSE Linked!Going(w.at, map[here] \o rest, Append(w.read, <<here, map[here]>>))
    BY <1>2, <1>10, <1>11
  <2> QED BY <1>7, <1>8, <2>1, <2>3, <2>4, <2>5, <2>6, <2>7 DEF OneSegment
<1> QED BY <1>3, <1>4, <1>12

(* What stands at a segment is one of these.                               *)
LEMMA Segments ==
  ASSUME NEW s, NEW w, w.read \in Linked!Traces
  PROVE  /\ s \in {"", "."} \/ s = ".." \/ s \notin Linked!Dotted
         /\ Len(w.read) \in Nat /\ HopLimit \in Nat
BY TracesAre, HopsTyped DEF Linked!Dotted

(* A step of a walk is a walk, and nearer its end: fewer links may be      *)
(* read, or fewer segments are left.                                       *)
HopsLeft(w) == IF Len(w.read) >= HopLimit THEN 0 ELSE HopLimit - Len(w.read)

LEMMA SegmentAdvances ==
  ASSUME NEW map, Linked!IsLinkMap(map), NEW w \in Linked!Walks, w.pending # <<>>,
         NEW n, n = Linked!Segment(map, w)
  PROVE  /\ n \in Linked!Walks /\ HopsLeft(w) \in Nat /\ HopsLeft(n) \in Nat
         /\ Len(w.pending) \in Nat /\ Len(n.pending) \in Nat
         /\ HopsLeft(n) < HopsLeft(w) \/ (HopsLeft(n) <= HopsLeft(w) /\ Len(n.pending) < Len(w.pending))
<1> DEFINE s == Head(w.pending)  rest == Tail(w.pending)  here == Append(w.at, s)
           trace == Append(w.read, <<here, map[here]>>)
<1>1. /\ w.at \in Linked!Way /\ w.read \in Linked!Traces /\ rest \in Linked!Way /\ here \in Linked!Way
      /\ Len(w.pending) \in Nat /\ Len(rest) = Len(w.pending) - 1
      /\ \/ \E place \in Linked!Way : n = Linked!Going(place, rest, w.read)
         \/ n = Linked!Lost(w.read)
         \/ /\ Len(w.read) < HopLimit /\ trace \in Linked!Traces /\ Len(trace) = Len(w.read) + 1
            /\ \/ n = Linked!Lost(trace)
               \/ \E p \in Linked!Way : n = Linked!Going(w.at, p \o rest, trace)
  <2>1. /\ w.at \in Linked!Way /\ w.read \in Linked!Traces /\ w.pending \in Linked!Way
        /\ s \in STRING /\ rest \in Linked!Way /\ here \in Linked!Way
        /\ Len(w.pending) \in Nat /\ Len(rest) = Len(w.pending) - 1
        /\ OneSegment(map, w, s, rest, here, n)
    BY SegmentIs
  <2> HIDE DEF s, rest, here
  <2>2. CASE s \in {"", "."}
    BY <2>1, <2>2 DEF OneSegment
  <2>3. CASE s = ".."
    BY <2>1, <2>3 DEF OneSegment
  <2>4. CASE s \notin Linked!Dotted
    <3>1. CASE here \notin DOMAIN map \/ ~(Len(w.read) < HopLimit)
      BY <2>1, <2>4, <3>1 DEF OneSegment
    <3>2. CASE here \in DOMAIN map /\ Len(w.read) < HopLimit
      BY <2>1, <2>4, <3>2 DEF OneSegment
    <3> QED BY <3>1, <3>2
  <2> QED BY <2>1, <2>2, <2>3, <2>4, Segments
<1> HIDE DEF s, rest, here, trace
<1>2. Len(w.read) \in Nat /\ HopLimit \in Nat /\ HopsLeft(w) \in Nat /\ Len(w.pending) # 0
  <2>1. Len(w.read) \in Nat /\ HopLimit \in Nat
    BY <1>1, TracesAre, HopsTyped
  <2>2. Len(w.pending) # 0
    BY <1>1 DEF Linked!Walks, Linked!Way
  <2> QED BY <2>1, <2>2 DEF HopsLeft
<1>3. Len(<<>>) = 0 /\ \A q \in Linked!Way : Len(q) \in Nat
  BY DEF Linked!Way
<1>4. CASE \E place \in Linked!Way : n = Linked!Going(place, rest, w.read)
  <2>1. n \in Linked!Walks /\ n.pending = rest /\ n.read = w.read
    BY <1>1, <1>4, GoingIs, GoingTyped
  <2>2. HopsLeft(n) = HopsLeft(w)
    BY <2>1 DEF HopsLeft
  <2> QED BY <1>1, <1>2, <1>3, <2>1, <2>2
<1>5. CASE n = Linked!Lost(w.read)
  <2>1. n \in Linked!Walks /\ n.pending = <<>> /\ n.read = w.read
    BY <1>1, <1>5, LostIs
  <2>2. HopsLeft(n) = HopsLeft(w)
    BY <2>1 DEF HopsLeft
  <2> QED BY <1>1, <1>2, <1>3, <2>1, <2>2
<1>6. CASE /\ Len(w.read) < HopLimit /\ trace \in Linked!Traces /\ Len(trace) = Len(w.read) + 1
           /\ \/ n = Linked!Lost(trace)
              \/ \E p \in Linked!Way : n = Linked!Going(w.at, p \o rest, trace)
  <2>1. n \in Linked!Walks /\ n.pending \in Linked!Way /\ n.read = trace
    <3>1. CASE n = Linked!Lost(trace)
      BY <1>6, <3>1, LostIs, WayIs
    <3>2. ASSUME NEW p \in Linked!Way, n = Linked!Going(w.at, p \o rest, trace) PROVE <2>1
      <4>1. p \o rest \in Linked!Way
        BY <1>1, <3>2 DEF Linked!Way
      <4> QED BY <1>1, <1>6, <3>2, <4>1, GoingIs, GoingTyped
    <3> QED BY <1>6, <3>1, <3>2
  <2>2. HopsLeft(n) \in Nat /\ HopsLeft(n) < HopsLeft(w)
    BY <1>2, <1>6, <2>1 DEF HopsLeft
  <2> QED BY <1>1, <1>2, <1>3, <2>1, <2>2
<1> QED BY <1>1, <1>4, <1>5, <1>6

(* What holds of the walks that are over, and of a walk if of what its     *)
(* next segment makes of it, holds of all.                                 *)
LEMMA WalkInduction ==
  ASSUME NEW map, Linked!IsLinkMap(map), NEW S,
         \A w \in Linked!Walks : w.pending = <<>> => w \in S,
         \A w \in Linked!Walks : w.pending # <<>> /\ Linked!Segment(map, w) \in S => w \in S
  PROVE  Linked!Walks \subseteq S
<1> SUFFICES ASSUME Linked!Walks \ S # {} PROVE FALSE
  OBVIOUS
<1> DEFINE bad == Linked!Walks \ S
           hops == {HopsLeft(w) : w \in bad}
<1>1. \A w \in bad : /\ w.pending # <<>> /\ HopsLeft(w) \in Nat /\ Len(w.pending) \in Nat
                     /\ Linked!Segment(map, w) \in bad
  BY SegmentAdvances
<1>2. PICK h \in hops : \A i \in hops : h <= i
  <2>1. hops \in SUBSET Nat /\ hops # {}
    BY <1>1
  <2> HIDE DEF hops
  <2> QED BY <2>1, Minimum
<1> DEFINE best == {v \in bad : HopsLeft(v) = h}
           lengths == {Len(w.pending) : w \in best}
<1>3. PICK l \in lengths : \A i \in lengths : l <= i
  <2>0. PICK v \in bad : HopsLeft(v) = h
    BY <1>2
  <2>1. best \subseteq bad /\ v \in best
    BY <2>0
  <2> HIDE DEF best, bad
  <2>2. \A w \in best : Len(w.pending) \in Nat
    BY <1>1, <2>1
  <2>3. lengths \in SUBSET Nat
    BY <2>2
  <2>4. Len(v.pending) \in lengths
    BY <2>1
  <2> HIDE DEF lengths
  <2> QED BY <2>3, <2>4, Minimum
<1>4. PICK w \in bad : HopsLeft(w) = h /\ Len(w.pending) = l
  BY <1>3
<1> DEFINE n == Linked!Segment(map, w)
<1>5. /\ n \in bad /\ HopsLeft(w) \in Nat /\ HopsLeft(n) \in Nat
      /\ Len(w.pending) \in Nat /\ Len(n.pending) \in Nat
      /\ HopsLeft(n) < HopsLeft(w) \/ (HopsLeft(n) <= HopsLeft(w) /\ Len(n.pending) < Len(w.pending))
  BY <1>1, SegmentAdvances
<1>6. h <= HopsLeft(n)
  BY <1>2, <1>5
<1>7. HopsLeft(n) = h
  BY <1>4, <1>5, <1>6
<1>8. l <= Len(n.pending)
  BY <1>3, <1>5, <1>7
<1> QED BY <1>4, <1>5, <1>7, <1>8

------------------------------------------------------------------------------
(* Where a walk ends: the function that follows it is what its segments    *)
(* say, and a walk is over after finitely many of them.                    *)

(* The walks that lead from w to its end, and where they end.              *)
WalksTo(map, f, n, w) ==
  /\ f \in [0..n -> Linked!Walks] /\ f[0] = w /\ f[n].pending = <<>>
  /\ \A i \in 1..n : f[i - 1].pending # <<>> /\ f[i] = Linked!Segment(map, f[i - 1])

Ends(map, w) == {e \in Linked!Walks : \E n \in Nat : \E f : WalksTo(map, f, n, w) /\ f[n] = e}

LEMMA EndsHere ==
  ASSUME NEW map, NEW w \in Linked!Walks, w.pending = <<>>
  PROVE  Ends(map, w) = {w}
<1>1. w \in Ends(map, w)
  <2> DEFINE f == [i \in 0..0 |-> w]
  <2>1. f \in [0..0 -> Linked!Walks] /\ f[0] = w /\ 1..0 = {} /\ 0 \in Nat
    OBVIOUS
  <2> HIDE DEF f
  <2>2. WalksTo(map, f, 0, w)
    BY <2>1 DEF WalksTo
  <2> QED BY <2>1, <2>2 DEF Ends
<1>2. ASSUME NEW e \in Ends(map, w) PROVE e = w
  <2>1. PICK n \in Nat : \E f : WalksTo(map, f, n, w) /\ f[n] = e
    BY DEF Ends
  <2>2. PICK f : WalksTo(map, f, n, w) /\ f[n] = e
    BY <2>1
  <2>3. n = 0
    <3> SUFFICES ASSUME n # 0 PROVE FALSE
      OBVIOUS
    <3>1. 1 \in 1..n /\ 1 - 1 = 0
      OBVIOUS
    <3>2. f[0].pending # <<>>
      BY <2>2, <3>1 DEF WalksTo
    <3> QED BY <2>2, <3>2 DEF WalksTo
  <2> QED BY <2>2, <2>3 DEF WalksTo
<1> QED BY <1>1, <1>2

LEMMA EndsNext ==
  ASSUME NEW map, Linked!IsLinkMap(map), NEW w \in Linked!Walks, w.pending # <<>>
  PROVE  Ends(map, w) = Ends(map, Linked!Segment(map, w))
<1> DEFINE v == Linked!Segment(map, w)
<1>0. v \in Linked!Walks
  BY SegmentAdvances
<1>1. ASSUME NEW e \in Ends(map, w) PROVE e \in Ends(map, v)
  <2>1. PICK n \in Nat : \E f : WalksTo(map, f, n, w) /\ f[n] = e
    BY DEF Ends
  <2>2. PICK f : WalksTo(map, f, n, w) /\ f[n] = e
    BY <2>1
  <2>3. n # 0
    <3> SUFFICES ASSUME n = 0 PROVE FALSE
      OBVIOUS
    <3> QED BY <2>2 DEF WalksTo
  <2> DEFINE m == n - 1
             g == [i \in 0..m |-> f[i + 1]]
  <2>4. /\ m \in Nat /\ m + 1 = n /\ 1 \in 1..n /\ 1 - 1 = 0
        /\ \A i \in 0..m : i + 1 \in 0..n
        /\ \A i \in 1..m : i \in 0..m /\ i - 1 \in 0..m /\ i + 1 \in 1..n /\ (i + 1) - 1 = i /\ (i - 1) + 1 = i
    BY <2>3
  <2> HIDE DEF m
  <2>5. g \in [0..m -> Linked!Walks] /\ g[0] = f[1] /\ g[m] = f[n]
    <3>1. \A i \in 0..m : f[i + 1] \in Linked!Walks
      BY <2>2, <2>4 DEF WalksTo
    <3>2. 0 \in 0..m /\ m \in 0..m /\ 0 + 1 = 1
      BY <2>4
    <3> QED BY <2>4, <3>1, <3>2
  <2>6. g[0] = v
    BY <2>2, <2>4, <2>5 DEF WalksTo
  <2>7. ASSUME NEW i \in 1..m PROVE g[i - 1].pending # <<>> /\ g[i] = Linked!Segment(map, g[i - 1])
    <3>1. i \in 0..m /\ i - 1 \in 0..m /\ i + 1 \in 1..n /\ (i + 1) - 1 = i /\ (i - 1) + 1 = i
      BY <2>4
    <3>2. g[i - 1] = f[i] /\ g[i] = f[i + 1]
      BY <3>1
    <3>3. f[(i + 1) - 1].pending # <<>> /\ f[i + 1] = Linked!Segment(map, f[(i + 1) - 1])
      BY <2>2, <3>1 DEF WalksTo
    <3> QED BY <3>1, <3>2, <3>3
  <2> HIDE DEF g, v
  <2>8. WalksTo(map, g, m, v) /\ g[m] = e
    BY <2>2, <2>5, <2>6, <2>7 DEF WalksTo
  <2> QED BY <2>4, <2>8 DEF Ends
<1>2. ASSUME NEW e \in Ends(map, v) PROVE e \in Ends(map, w)
  <2>1. PICK n \in Nat : \E f : WalksTo(map, f, n, v) /\ f[n] = e
    BY DEF Ends
  <2>2. PICK f : WalksTo(map, f, n, v) /\ f[n] = e
    BY <2>1
  <2> DEFINE m == n + 1
             g == [i \in 0..m |-> IF i = 0 THEN w ELSE f[i - 1]]
  <2>3. /\ m \in Nat /\ m - 1 = n /\ m # 0 /\ 0 \in 0..m /\ m \in 0..m
        /\ \A i \in 0..m : i # 0 => i - 1 \in 0..n
        /\ \A i \in 1..m : i # 0 /\ i \in 0..m /\ i - 1 \in 0..m /\ (i # 1 => i - 1 # 0 /\ i - 1 \in 1..n)
    OBVIOUS
  <2>4. g \in [0..m -> Linked!Walks]
    BY <2>2, <2>3 DEF WalksTo
  <2>5. g[0] = w /\ g[m] = f[n]
    BY <2>3
  <2>6. ASSUME NEW i \in 1..m PROVE g[i - 1].pending # <<>> /\ g[i] = Linked!Segment(map, g[i - 1])
    <3>1. g[i] = f[i - 1]
      BY <2>3
    <3>2. CASE i = 1
      <4>1. g[i - 1] = w /\ g[i] = f[0]
        BY <2>5, <3>1, <3>2
      <4> QED BY <2>2, <4>1 DEF WalksTo
    <3>3. CASE i # 1
      <4> DEFINE j == i - 1
      <4>1. j # 0 /\ j \in 1..n /\ j \in 0..m
        BY <2>3, <3>3
      <4>2. g[j] = f[j - 1]
        BY <4>1
      <4>3. f[j - 1].pending # <<>> /\ f[j] = Linked!Segment(map, f[j - 1])
        BY <2>2, <4>1 DEF WalksTo
      <4> QED BY <3>1, <4>2, <4>3
    <3> QED BY <3>2, <3>3
  <2> HIDE DEF g, v, m
  <2>7. g[m].pending = <<>>
    BY <2>2, <2>5 DEF WalksTo
  <2>8. WalksTo(map, g, m, w)
    BY <2>4, <2>5, <2>6, <2>7 DEF WalksTo
  <2>9. e \in Linked!Walks
    BY DEF Ends
  <2> QED BY <2>2, <2>3, <2>5, <2>8, <2>9 DEF Ends
<1> QED BY <1>1, <1>2

(* walkPhysicalPath, segment by segment.                                   *)
EndOf(map, w) == CHOOSE e : e \in Ends(map, w)

LEMMA WalkedUnfolds ==
  ASSUME NEW map, Linked!IsLinkMap(map), NEW w \in Linked!Walks
  PROVE  Linked!Walked(map, w) = IF w.pending = <<>> THEN w ELSE Linked!Walked(map, Linked!Segment(map, w))
<1> DEFINE Body(t) == [v \in Linked!Walks |-> IF v.pending = <<>> THEN v ELSE t[Linked!Segment(map, v)]]
           t0 == CHOOSE t : t = Body(t)
           f == [v \in Linked!Walks |-> EndOf(map, v)]
<1>1. ASSUME NEW v \in Linked!Walks PROVE f[v] = IF v.pending = <<>> THEN v ELSE f[Linked!Segment(map, v)]
  <2>1. CASE v.pending = <<>>
    BY <2>1, EndsHere DEF EndOf
  <2>2. CASE v.pending # <<>>
    <3>1. Linked!Segment(map, v) \in Linked!Walks
      BY <2>2, SegmentAdvances
    <3>2. Ends(map, v) = Ends(map, Linked!Segment(map, v))
      BY <2>2, EndsNext
    <3> QED BY <2>2, <3>1, <3>2 DEF EndOf
  <2> QED BY <2>1, <2>2
<1> HIDE DEF f
<1>2. f = Body(f)
  <2>1. f = [v \in Linked!Walks |-> f[v]]
    BY DEF f
  <2> QED BY <1>1, <2>1
<1> HIDE DEF Body
<1>3. t0 = Body(t0)
  BY <1>2
<1> HIDE DEF t0
<1>4. \A v : Linked!Walked(map, v) = t0[v]
  BY DEF Linked!Walked, t0, Body
<1>5. t0[w] = IF w.pending = <<>> THEN w ELSE t0[Linked!Segment(map, w)]
  BY <1>3 DEF Body
<1> QED BY <1>4, <1>5

LEMMA WalkedTyped ==
  ASSUME NEW map, Linked!IsLinkMap(map), NEW w \in Linked!Walks
  PROVE  Linked!Walked(map, w) \in Linked!Walks /\ Linked!Walked(map, w).pending = <<>>
<1> DEFINE S == {v \in Linked!Walks : Linked!Walked(map, v) \in Linked!Walks /\ Linked!Walked(map, v).pending = <<>>}
<1>1. \A v \in Linked!Walks : v.pending = <<>> => v \in S
  BY WalkedUnfolds
<1>2. \A v \in Linked!Walks : v.pending # <<>> /\ Linked!Segment(map, v) \in S => v \in S
  BY WalkedUnfolds
<1>3. Linked!Walks \subseteq S
  <2> HIDE DEF S
  <2> QED BY <1>1, <1>2, WalkInduction
<1> QED BY <1>3

------------------------------------------------------------------------------
(* A walk with more to go, or with links read before it, goes the same     *)
(* way.                                                                    *)

LEMMA WalksAre ==
  ASSUME NEW w \in Linked!Walks
  PROVE  /\ w.read \in Linked!Traces /\ w.pending \in Linked!Way
         /\ w = Linked!Going(w.at, w.pending, w.read)
         /\ w.at \in Linked!Way \/ (w.at = Nowhere /\ w.pending = <<>>)
         /\ w.pending # <<>> => w.at \in Linked!Way
         /\ w.at \in Linked!Way => w.at # Nowhere
BY HopsTyped, WayIs DEF Linked!Walks, Linked!Going

LEMMA WalkedHere ==
  ASSUME NEW map, Linked!IsLinkMap(map), NEW place \in Linked!Way, NEW read \in Linked!Traces
  PROVE  Linked!Walked(map, Linked!Going(place, <<>>, read)) = Linked!Going(place, <<>>, read)
<1> DEFINE w == Linked!Going(place, <<>>, read)
<1>1. w \in Linked!Walks
  BY GoingTyped, WayIs
<1>0. w.pending = <<>>
  BY DEF Linked!Going
<1> HIDE DEF w
<1>2. Linked!Walked(map, w) = w
  BY <1>0, <1>1, WalkedUnfolds
<1> QED BY <1>2 DEF w

LEMMA WalkedLost ==
  ASSUME NEW map, Linked!IsLinkMap(map), NEW read \in Linked!Traces
  PROVE  Linked!Walked(map, Linked!Lost(read)) = Linked!Lost(read)
BY LostIs, WalkedUnfolds

LEMMA MoreBehind ==
  ASSUME NEW S, NEW p \in Seq(S), p # <<>>, NEW q \in Seq(S)
  PROVE  p \o q \in Seq(S) /\ p \o q # <<>> /\ Head(p \o q) = Head(p) /\ Tail(p \o q) = Tail(p) \o q
<1>1. Len(p) \in Nat \ {0} /\ Len(q) \in Nat
  BY HeadAndTail
<1>2. p \o q \in Seq(S) /\ Len(p \o q) = Len(p) + Len(q) /\ p \o q # <<>>
  BY <1>1
<1>3. Head(p \o q) = Head(p)
  BY <1>1, <1>2
<1>4. Tail(p \o q) = Tail(p) \o q
  <2>1. /\ Tail(p \o q) \in Seq(S) /\ Tail(p) \o q \in Seq(S)
        /\ Len(Tail(p \o q)) = Len(p) + Len(q) - 1 /\ Len(Tail(p) \o q) = Len(p) + Len(q) - 1
    BY <1>1, <1>2
  <2>2. ASSUME NEW i \in 1..(Len(p) + Len(q) - 1) PROVE Tail(p \o q)[i] = (Tail(p) \o q)[i]
    BY <1>1, <1>2
  <2> QED BY <2>1, <2>2
<1> QED BY <1>2, <1>3, <1>4

(* What is behind the segments of a walk does not change where they lead.  *)
LEMMA SegmentWithMore ==
  ASSUME NEW map, Linked!IsLinkMap(map), NEW w \in Linked!Walks, w.pending # <<>>, NEW q \in Linked!Way,
         NEW n, n = Linked!Segment(map, w), NEW m, m = Linked!Segment(map, Linked!Going(w.at, w.pending \o q, w.read))
  PROVE  /\ Linked!Going(w.at, w.pending \o q, w.read) \in Linked!Walks /\ w.pending \o q # <<>>
         /\ \/ n.at # Nowhere /\ m = Linked!Going(n.at, n.pending \o q, n.read)
            \/ n.at = Nowhere /\ n.pending = <<>> /\ m = n
<1> DEFINE s == Head(w.pending)  rest == Tail(w.pending)  here == Append(w.at, s)
           v == Linked!Going(w.at, w.pending \o q, w.read)
<1>1. /\ w.at \in Linked!Way /\ w.read \in Linked!Traces /\ w.pending \in Linked!Way
      /\ s \in STRING /\ rest \in Linked!Way /\ here \in Linked!Way
      /\ OneSegment(map, w, s, rest, here, n)
  BY SegmentIs
<1>2. /\ w.pending \o q \in Linked!Way /\ w.pending \o q # <<>>
      /\ Head(w.pending \o q) = s /\ Tail(w.pending \o q) = rest \o q
  BY <1>1, MoreBehind DEF Linked!Way
<1>3. v \in Linked!Walks /\ v.at = w.at /\ v.pending = w.pending \o q /\ v.read = w.read
  <2>1. v.at = w.at /\ v.pending = w.pending \o q /\ v.read = w.read
    BY DEF Linked!Going
  <2>2. v \in Linked!Walks
    BY <1>1, <1>2, GoingTyped
  <2> QED BY <2>1, <2>2
<1> HIDE DEF s, rest, here, v
<1>4. OneSegment(map, v, s, rest \o q, here, m)
  <2>1. v.pending # <<>> /\ s = Head(v.pending) /\ rest \o q = Tail(v.pending) /\ here = Append(v.at, s) /\ m = Linked!Segment(map, v)
    BY <1>2, <1>3 DEF v, here
  <2> QED BY <1>3, <2>1, SegmentIs
<1>5. \A t \in Linked!Way : (t \o rest) \o q = t \o (rest \o q)
  BY <1>1 DEF Linked!Way
<1> DEFINE Fits == \/ n.at # Nowhere /\ m = Linked!Going(n.at, n.pending \o q, n.read)
                   \/ n.at = Nowhere /\ n.pending = <<>> /\ m = n
<1>8. ASSUME NEW p \in Linked!Way, NEW t, NEW r, n = Linked!Going(p, t, r), m = Linked!Going(p, t \o q, r) PROVE Fits
  <2>1. n.at = p /\ n.pending = t /\ n.read = r /\ p # Nowhere
    BY <1>8, GoingIs, HopsTyped
  <2> QED BY <1>8, <2>1
<1>9. ASSUME NEW r, n = Linked!Lost(r), m = Linked!Lost(r) PROVE Fits
  BY <1>9, LostIs
<1>10. Fits
  <2> HIDE DEF Fits
  <2>1. CASE s \in {"", "."}
    <3>1. n = Linked!Going(w.at, rest, w.read)
      BY <1>1, <2>1 DEF OneSegment
    <3>2. m = Linked!Going(w.at, rest \o q, w.read)
      BY <1>3, <1>4, <2>1 DEF OneSegment
    <3> QED BY <1>1, <1>8, <3>1, <3>2
  <2>2. CASE s = ".." /\ w.at = <<>>
    <3>1. n = Linked!Lost(w.read)
      BY <1>1, <2>2 DEF OneSegment
    <3>2. m = Linked!Lost(w.read)
      BY <1>3, <1>4, <2>2 DEF OneSegment
    <3> QED BY <1>9, <3>1, <3>2
  <2>3. CASE s = ".." /\ w.at # <<>>
    <3>1. n = Linked!Going(Linked!Front(w.at), rest, w.read) /\ Linked!Front(w.at) \in Linked!Way
      BY <1>1, <2>3 DEF OneSegment
    <3>2. m = Linked!Going(Linked!Front(w.at), rest \o q, w.read)
      BY <1>3, <1>4, <2>3 DEF OneSegment
    <3> QED BY <1>8, <3>1, <3>2
  <2>4. CASE s \notin Linked!Dotted /\ here \notin DOMAIN map
    <3>1. n = Linked!Going(here, rest, w.read)
      BY <1>1, <2>4 DEF OneSegment
    <3>2. m = Linked!Going(here, rest \o q, w.read)
      BY <1>3, <1>4, <2>4 DEF OneSegment
    <3> QED BY <1>1, <1>8, <3>1, <3>2
  <2>5. CASE s \notin Linked!Dotted /\ here \in DOMAIN map /\ ~(Len(w.read) < HopLimit)
    <3>1. n = Linked!Lost(w.read)
      BY <1>1, <2>5 DEF OneSegment
    <3>2. m = Linked!Lost(w.read)
      BY <1>3, <1>4, <2>5 DEF OneSegment
    <3> QED BY <1>9, <3>1, <3>2
  <2>6. CASE s \notin Linked!Dotted /\ here \in DOMAIN map /\ Len(w.read) < HopLimit
    <3> DEFINE trace == Append(w.read, <<here, map[here]>>)
    <3>1. CASE map[here] \in {Absolute, Unreadable}
      <4>1. n = Linked!Lost(trace)
        BY <1>1, <2>6, <3>1 DEF OneSegment
      <4>2. m = Linked!Lost(trace)
        BY <1>3, <1>4, <2>6, <3>1 DEF OneSegment
      <4> QED BY <1>9, <4>1, <4>2
    <3>2. CASE map[here] \notin {Absolute, Unreadable}
      <4>1. n = Linked!Going(w.at, map[here] \o rest, trace) /\ map[here] \in Linked!Way
        BY <1>1, <2>6, <3>2 DEF OneSegment
      <4>2. m = Linked!Going(w.at, map[here] \o (rest \o q), trace)
        BY <1>3, <1>4, <2>6, <3>2 DEF OneSegment
      <4>3. m = Linked!Going(w.at, (map[here] \o rest) \o q, trace)
        BY <1>5, <4>1, <4>2
      <4> HIDE DEF trace
      <4> QED BY <1>1, <1>8, <4>1, <4>3
    <3> QED BY <3>1, <3>2
  <2> QED BY <1>1, <2>1, <2>2, <2>3, <2>4, <2>5, <2>6, Segments
<1> QED BY <1>2, <1>3, <1>10 DEF v

(* Where a path leads, its rest leads on from there: and nowhere, if its   *)
(* start does.                                                             *)
Continues(map, w) ==
  \A q \in Linked!Way :
    LET r == Linked!Walked(map, w)
        on == Linked!Walked(map, Linked!Going(w.at, w.pending \o q, w.read))
    IN /\ r.at # Nowhere => on = Linked!Walked(map, Linked!Going(r.at, q, r.read))
       /\ r.at = Nowhere /\ w.at # Nowhere => on = r

LEMMA WalksContinue ==
  ASSUME NEW map, Linked!IsLinkMap(map), NEW w \in Linked!Walks
  PROVE  Continues(map, w)
<1> DEFINE S == {v \in Linked!Walks : Continues(map, v)}
<1>1. ASSUME NEW v \in Linked!Walks, v.pending = <<>> PROVE v \in S
  <2>1. Linked!Walked(map, v) = v
    BY <1>1, WalkedUnfolds
  <2>2. \A q \in Linked!Way : <<>> \o q = q
    BY DEF Linked!Way
  <2>3. ASSUME NEW q \in Linked!Way PROVE v.pending \o q = q
    BY <1>1, <2>2
  <2> QED BY <2>1, <2>3 DEF Continues
<1>2. ASSUME NEW v \in Linked!Walks, v.pending # <<>>, Linked!Segment(map, v) \in S PROVE v \in S
  <2> DEFINE n == Linked!Segment(map, v)
             r == Linked!Walked(map, v)
  <2>1. r = Linked!Walked(map, n) /\ n \in Linked!Walks
    BY <1>2, WalkedUnfolds, SegmentAdvances
  <2>2. Continues(map, n)
    BY <1>2
  <2>3. ASSUME NEW q \in Linked!Way
        PROVE  LET on == Linked!Walked(map, Linked!Going(v.at, v.pending \o q, v.read))
               IN /\ r.at # Nowhere => on = Linked!Walked(map, Linked!Going(r.at, q, r.read))
                  /\ r.at = Nowhere /\ v.at # Nowhere => on = r
    <3> DEFINE u == Linked!Going(v.at, v.pending \o q, v.read)
               m == Linked!Segment(map, u)
    <3>1. /\ u \in Linked!Walks /\ v.pending \o q # <<>>
          /\ \/ n.at # Nowhere /\ m = Linked!Going(n.at, n.pending \o q, n.read)
             \/ n.at = Nowhere /\ n.pending = <<>> /\ m = n
      BY <1>2, SegmentWithMore
    <3>2. u.pending # <<>>
      BY <3>1 DEF Linked!Going
    <3>3. Linked!Walked(map, u) = Linked!Walked(map, m)
      BY <3>1, <3>2, WalkedUnfolds
    <3> HIDE DEF u, m, n, r
    <3>4. CASE n.at # Nowhere /\ m = Linked!Going(n.at, n.pending \o q, n.read)
      BY <2>1, <2>2, <3>3, <3>4 DEF Continues, u
    <3>5. CASE n.at = Nowhere /\ n.pending = <<>> /\ m = n
      <4>1. r = n
        BY <2>1, <3>5, WalkedUnfolds
      <4> QED BY <2>1, <3>3, <3>5, <4>1 DEF u
    <3> QED BY <3>1, <3>4, <3>5
  <2> QED BY <2>3 DEF Continues
<1>3. Linked!Walks \subseteq S
  <2> HIDE DEF S
  <2> QED BY <1>1, <1>2, WalkInduction
<1> QED BY <1>3

LEMMA AppendedFirst ==
  ASSUME NEW S, NEW p \in Seq(S), NEW t \in Seq(S), NEW x, <<x>> \in Seq(S)
  PROVE  /\ Append(p, x) = p \o <<x>> /\ Append(p, x) \in Seq(S)
         /\ Append(p, x) \o t = p \o (<<x>> \o t)
<1>1. x \in S
  <2>1. Len(<<x>>) = 1 /\ <<x>>[1] = x
    OBVIOUS
  <2> QED BY <2>1
<1>2. Append(p, x) = p \o <<x>> /\ Append(p, x) \in Seq(S)
  BY <1>1
<1>3. (p \o <<x>>) \o t = p \o (<<x>> \o t)
  BY <1>1
<1> QED BY <1>2, <1>3

LEMMA AppendedBehind ==
  ASSUME NEW S, NEW c \in Seq(S), NEW p \in Seq(S), NEW x \in S
  PROVE  c \o Append(p, x) = Append(c \o p, x)
OBVIOUS

ReadLinks == Linked!Way \X (Linked!Way \cup {Absolute, Unreadable})

LEMMA TracesOf == Linked!Traces = Seq(ReadLinks)
BY DEF Linked!Traces, ReadLinks

LEMMA TraceAppended ==
  ASSUME NEW p \in Linked!Traces, NEW t \in Linked!Traces, NEW x, <<x>> \in Linked!Traces
  PROVE  /\ Append(p, x) \in Linked!Traces /\ Append(p, x) \o t = p \o (<<x>> \o t)
<1>1. p \in Seq(ReadLinks) /\ t \in Seq(ReadLinks) /\ <<x>> \in Seq(ReadLinks)
  BY TracesOf
<1>2. Append(p, x) \o t = p \o (<<x>> \o t) /\ Append(p, x) \in Seq(ReadLinks)
  BY <1>1, AppendedFirst
<1> QED BY <1>2, TracesOf

(* The links a walk has read stay read, and it goes no further than its    *)
(* limit.                                                                  *)
ReadsOn(map, w) ==
  LET r == Linked!Walked(map, w)
  IN /\ \E t \in Linked!Traces : r.read = w.read \o t
     /\ Len(w.read) <= HopLimit => Len(r.read) <= HopLimit

LEMMA SegmentReads ==
  ASSUME NEW map, Linked!IsLinkMap(map), NEW w \in Linked!Walks, w.pending # <<>>,
         NEW n, n = Linked!Segment(map, w)
  PROVE  \/ n.read = w.read
         \/ \E x : /\ n.read = Append(w.read, x) /\ <<x>> \in Linked!Traces
                   /\ Len(n.read) = Len(w.read) + 1 /\ Len(w.read) < HopLimit
<1> DEFINE s == Head(w.pending)  rest == Tail(w.pending)  here == Append(w.at, s)
           trace == Append(w.read, <<here, map[here]>>)
<1>1. w.read \in Linked!Traces /\ here \in Linked!Way /\ OneSegment(map, w, s, rest, here, n)
  BY SegmentIs
<1> HIDE DEF s, rest, here
<1>2. CASE s \in {"", "."}
  <2>1. n = Linked!Going(w.at, rest, w.read)
    BY <1>1, <1>2 DEF OneSegment
  <2> QED BY <2>1, GoingIs
<1>3. CASE s = ".."
  <2>1. n = Linked!Going(Linked!Front(w.at), rest, w.read) \/ n = Linked!Lost(w.read)
    BY <1>1, <1>3 DEF OneSegment
  <2> QED BY <2>1, GoingIs, LostIs
<1>4. CASE s \notin Linked!Dotted
  <2>1. CASE here \notin DOMAIN map \/ ~(Len(w.read) < HopLimit)
    <3>1. n = Linked!Going(here, rest, w.read) \/ n = Linked!Lost(w.read)
      BY <1>1, <1>4, <2>1 DEF OneSegment
    <3> QED BY <3>1, GoingIs, LostIs
  <2>2. CASE here \in DOMAIN map /\ Len(w.read) < HopLimit
    <3>1. n = Linked!Going(w.at, map[here] \o rest, trace) \/ n = Linked!Lost(trace)
      BY <1>1, <1>4, <2>2 DEF OneSegment
    <3>2. n.read = trace
      <4> HIDE DEF trace
      <4> QED BY <3>1, GoingIs, LostIs
    <3>3. trace \in Linked!Traces /\ Len(trace) = Len(w.read) + 1
      BY <1>1, <1>4, <2>2 DEF OneSegment
    <3>4. <<here, map[here]>> \in Linked!Way \X (Linked!Way \cup {Absolute, Unreadable})
      BY <1>1, <2>2 DEF Linked!IsLinkMap
    <3>5. <<<<here, map[here]>>>> \in Linked!Traces
      BY <3>4 DEF Linked!Traces
    <3> QED BY <2>2, <3>2, <3>3, <3>5
  <2> QED BY <2>1, <2>2
<1> QED BY <1>1, <1>2, <1>3, <1>4, Segments

LEMMA WalksReadOn ==
  ASSUME NEW map, Linked!IsLinkMap(map), NEW w \in Linked!Walks
  PROVE  ReadsOn(map, w)
<1> DEFINE S == {v \in Linked!Walks : ReadsOn(map, v)}
<1>1. ASSUME NEW v \in Linked!Walks, v.pending = <<>> PROVE v \in S
  <2>1. Linked!Walked(map, v) = v
    BY <1>1, WalkedUnfolds
  <2>2. v.read = v.read \o <<>> /\ <<>> \in Linked!Traces
    BY WalksAre DEF Linked!Traces
  <2> QED BY <2>1, <2>2 DEF ReadsOn
<1>2. ASSUME NEW v \in Linked!Walks, v.pending # <<>>, Linked!Segment(map, v) \in S PROVE v \in S
  <2> DEFINE n == Linked!Segment(map, v)
             r == Linked!Walked(map, v)
  <2>1. r = Linked!Walked(map, n) /\ n \in Linked!Walks
    BY <1>2, WalkedUnfolds, SegmentAdvances
  <2>2. \/ n.read = v.read
        \/ \E x : /\ n.read = Append(v.read, x) /\ <<x>> \in Linked!Traces
                  /\ Len(n.read) = Len(v.read) + 1 /\ Len(v.read) < HopLimit
    BY <1>2, SegmentReads
  <2> HIDE DEF n
  <2>3. (\E t \in Linked!Traces : r.read = n.read \o t) /\ (Len(n.read) <= HopLimit => Len(r.read) <= HopLimit)
    BY <1>2, <2>1 DEF ReadsOn, n
  <2> HIDE DEF r
  <2>4. CASE n.read = v.read
    BY <2>3, <2>4 DEF ReadsOn, r
  <2>5. ASSUME NEW x, n.read = Append(v.read, x), <<x>> \in Linked!Traces,
               Len(n.read) = Len(v.read) + 1, Len(v.read) < HopLimit
        PROVE  v \in S
    <3>1. PICK t \in Linked!Traces : r.read = n.read \o t
      BY <2>3
    <3>2. v.read \in Linked!Traces /\ <<x>> \o t \in Linked!Traces
      BY <2>5, <3>1, WalksAre, TracesAre
    <3>3. n.read \o t = v.read \o (<<x>> \o t)
      <4>1. Append(v.read, x) \o t = v.read \o (<<x>> \o t)
        BY <2>5, <3>1, <3>2, TraceAppended
      <4> QED BY <2>5, <4>1
    <3>4. Len(v.read) \in Nat /\ HopLimit \in Nat
      BY <3>2, TracesAre, HopsTyped
    <3>5. Len(n.read) <= HopLimit
      BY <2>5, <3>4
    <3> QED BY <2>3, <3>1, <3>2, <3>3, <3>5 DEF ReadsOn, r
  <2> QED BY <2>2, <2>4, <2>5
<1>3. Linked!Walks \subseteq S
  <2> HIDE DEF S
  <2> QED BY <1>1, <1>2, WalkInduction
<1> QED BY <1>3

(* Nor does what was read before a walk change where it leads, but for how *)
(* far it may go.                                                          *)
LEMMA SegmentWithChain ==
  ASSUME NEW map, Linked!IsLinkMap(map), NEW w \in Linked!Walks, w.pending # <<>>, NEW c \in Linked!Traces,
         NEW n, n = Linked!Segment(map, w), NEW m, m = Linked!Segment(map, Linked!Going(w.at, w.pending, c \o w.read))
  PROVE  /\ Linked!Going(w.at, w.pending, c \o w.read) \in Linked!Walks
         /\ \/ n.at # Nowhere /\ m = Linked!Going(n.at, n.pending, c \o n.read)
            \/ /\ m.at = Nowhere /\ m.pending = <<>>
               /\ (n.at = Nowhere /\ n.pending = <<>>) \/ Len(c \o n.read) > HopLimit
<1> DEFINE s == Head(w.pending)  rest == Tail(w.pending)  here == Append(w.at, s)
           trace == Append(w.read, <<here, map[here]>>)
           v == Linked!Going(w.at, w.pending, c \o w.read)
<1>1. /\ w.at \in Linked!Way /\ w.read \in Linked!Traces /\ w.pending \in Linked!Way
      /\ s \in STRING /\ rest \in Linked!Way /\ here \in Linked!Way
      /\ OneSegment(map, w, s, rest, here, n)
  BY SegmentIs
<1>2. v.at = w.at /\ v.pending = w.pending /\ v.read = c \o w.read
  BY DEF Linked!Going
<1>3. v \in Linked!Walks /\ c \o w.read \in Linked!Traces
  <2>1. c \o w.read \in Linked!Traces
    BY <1>1, TracesAre
  <2> QED BY <1>1, <2>1, GoingTyped
<1> HIDE DEF v
<1>4. OneSegment(map, v, s, rest, here, m)
  BY <1>2, <1>3, SegmentIs DEF v
<1> HIDE DEF s, rest, here
<1>5. /\ Len(w.read) \in Nat /\ HopLimit \in Nat /\ Len(c) \in Nat
      /\ Len(c \o w.read) = Len(c) + Len(w.read)
  BY <1>1, TracesAre, HopsTyped
<1> DEFINE Fits == \/ n.at # Nowhere /\ m = Linked!Going(n.at, n.pending, c \o n.read)
                   \/ /\ m.at = Nowhere /\ m.pending = <<>>
                      /\ (n.at = Nowhere /\ n.pending = <<>>) \/ Len(c \o n.read) > HopLimit
<1>6. ASSUME NEW p \in Linked!Way, NEW t, NEW r, n = Linked!Going(p, t, r), m = Linked!Going(p, t, c \o r) PROVE Fits
  <2>1. n.at = p /\ n.pending = t /\ n.read = r /\ p # Nowhere
    BY <1>6, GoingIs, HopsTyped
  <2> QED BY <1>6, <2>1
<1>7. ASSUME NEW r, n = Linked!Lost(r), NEW o, m = Linked!Lost(o) PROVE Fits
  <2>1. n.at = Nowhere /\ n.pending = <<>> /\ m.at = Nowhere /\ m.pending = <<>>
    BY <1>7, LostIs
  <2> QED BY <2>1
<1>8. Fits
  <2> HIDE DEF Fits
  <2>1. CASE s \in {"", "."}
    <3>1. n = Linked!Going(w.at, rest, w.read)
      BY <1>1, <2>1 DEF OneSegment
    <3>2. m = Linked!Going(w.at, rest, c \o w.read)
      BY <1>2, <1>4, <2>1 DEF OneSegment
    <3> QED BY <1>1, <1>6, <3>1, <3>2
  <2>2. CASE s = ".." /\ w.at = <<>>
    <3>1. n = Linked!Lost(w.read)
      BY <1>1, <2>2 DEF OneSegment
    <3>2. m = Linked!Lost(c \o w.read)
      BY <1>2, <1>4, <2>2 DEF OneSegment
    <3> QED BY <1>7, <3>1, <3>2
  <2>3. CASE s = ".." /\ w.at # <<>>
    <3>1. n = Linked!Going(Linked!Front(w.at), rest, w.read) /\ Linked!Front(w.at) \in Linked!Way
      BY <1>1, <2>3 DEF OneSegment
    <3>2. m = Linked!Going(Linked!Front(w.at), rest, c \o w.read)
      BY <1>2, <1>4, <2>3 DEF OneSegment
    <3> QED BY <1>6, <3>1, <3>2
  <2>4. CASE s \notin Linked!Dotted /\ here \notin DOMAIN map
    <3>1. n = Linked!Going(here, rest, w.read)
      BY <1>1, <2>4 DEF OneSegment
    <3>2. m = Linked!Going(here, rest, c \o w.read)
      BY <1>2, <1>4, <2>4 DEF OneSegment
    <3> QED BY <1>1, <1>6, <3>1, <3>2
  <2>5. CASE s \notin Linked!Dotted /\ here \in DOMAIN map /\ ~(Len(w.read) < HopLimit)
    <3>1. n = Linked!Lost(w.read)
      BY <1>1, <2>5 DEF OneSegment
    <3>2. ~(Len(c \o w.read) < HopLimit)
      BY <1>5, <2>5
    <3>3. m = Linked!Lost(c \o w.read)
      BY <1>2, <1>4, <2>5, <3>2 DEF OneSegment
    <3> QED BY <1>7, <3>1, <3>3
  <2>6. CASE s \notin Linked!Dotted /\ here \in DOMAIN map /\ Len(w.read) < HopLimit
    <3>1. /\ trace \in Linked!Traces /\ Len(trace) = Len(w.read) + 1
          /\ map[here] \in {Absolute, Unreadable} => n = Linked!Lost(trace)
          /\ map[here] \notin {Absolute, Unreadable}
               => map[here] \in Linked!Way /\ n = Linked!Going(w.at, map[here] \o rest, trace)
      BY <1>1, <2>6 DEF OneSegment
    <3>2. CASE Len(c \o w.read) < HopLimit
      <4> DEFINE x == <<here, map[here]>>
      <4>1. c \o trace = Append(c \o w.read, x)
        <5>1. x \in ReadLinks
          BY <1>1, <2>6 DEF Linked!IsLinkMap, ReadLinks
        <5>2. w.read \in Seq(ReadLinks) /\ c \in Seq(ReadLinks) /\ trace = Append(w.read, x)
          BY <1>1, TracesOf
        <5> HIDE DEF x, trace
        <5> QED BY <5>1, <5>2, AppendedBehind
      <4>2. /\ map[here] \in {Absolute, Unreadable} => m = Linked!Lost(Append(c \o w.read, x))
            /\ map[here] \notin {Absolute, Unreadable} => m = Linked!Going(w.at, map[here] \o rest, Append(c \o w.read, x))
        BY <1>2, <1>4, <2>6, <3>2 DEF OneSegment
      <4> HIDE DEF x, trace
      <4> QED BY <1>1, <1>6, <1>7, <3>1, <4>1, <4>2
    <3>3. CASE ~(Len(c \o w.read) < HopLimit)
      <4>1. m = Linked!Lost(c \o w.read)
        BY <1>2, <1>4, <2>6, <3>3 DEF OneSegment
      <4> HIDE DEF trace
      <4>2. m.at = Nowhere /\ m.pending = <<>>
        BY <4>1, LostIs
      <4>3. n.read = trace
        BY <3>1, GoingIs, LostIs
      <4>4. Len(c \o trace) = Len(c) + (Len(w.read) + 1)
        BY <3>1, TracesAre
      <4>5. Len(c \o n.read) > HopLimit
        BY <1>5, <3>3, <4>3, <4>4
      <4> QED BY <4>2, <4>5 DEF Fits
    <3> QED BY <3>2, <3>3
  <2> QED BY <1>1, <2>1, <2>2, <2>3, <2>4, <2>5, <2>6, Segments
<1> QED BY <1>3, <1>8 DEF v

Chained(map, w) ==
  \A c \in Linked!Traces :
    LET r == Linked!Walked(map, w)
        behind == Linked!Walked(map, Linked!Going(w.at, w.pending, c \o w.read))
    IN w.at # Nowhere =>
         /\ behind.at # Nowhere => r.at # Nowhere /\ behind = Linked!Going(r.at, <<>>, c \o r.read)
         /\ r.at # Nowhere /\ Len(c \o r.read) <= HopLimit => behind = Linked!Going(r.at, <<>>, c \o r.read)

LEMMA WalksChain ==
  ASSUME NEW map, Linked!IsLinkMap(map), NEW w \in Linked!Walks
  PROVE  Chained(map, w)
<1> DEFINE S == {v \in Linked!Walks : Chained(map, v)}
<1>1. ASSUME NEW v \in Linked!Walks, v.pending = <<>> PROVE v \in S
  <2>1. Linked!Walked(map, v) = v
    BY <1>1, WalkedUnfolds
  <2>2. ASSUME NEW c \in Linked!Traces, v.at # Nowhere
        PROVE  Linked!Walked(map, Linked!Going(v.at, v.pending, c \o v.read)) = Linked!Going(v.at, <<>>, c \o v.read)
    <3>1. v.at \in Linked!Way /\ v.read \in Linked!Traces
      BY <2>2, WalksAre
    <3>2. c \o v.read \in Linked!Traces
      BY <3>1, TracesAre
    <3> QED BY <1>1, <3>1, <3>2, WalkedHere
  <2> QED BY <2>1, <2>2 DEF Chained
<1>2. ASSUME NEW v \in Linked!Walks, v.pending # <<>>, Linked!Segment(map, v) \in S PROVE v \in S
  <2> DEFINE n == Linked!Segment(map, v)
             r == Linked!Walked(map, v)
  <2>1. r = Linked!Walked(map, n) /\ n \in Linked!Walks
    BY <1>2, WalkedUnfolds, SegmentAdvances
  <2>2. Chained(map, n)
    BY <1>2
  <2>3. ASSUME NEW c \in Linked!Traces
        PROVE  LET behind == Linked!Walked(map, Linked!Going(v.at, v.pending, c \o v.read))
               IN /\ behind.at # Nowhere => r.at # Nowhere /\ behind = Linked!Going(r.at, <<>>, c \o r.read)
                  /\ r.at # Nowhere /\ Len(c \o r.read) <= HopLimit => behind = Linked!Going(r.at, <<>>, c \o r.read)
    <3> DEFINE u == Linked!Going(v.at, v.pending, c \o v.read)
               m == Linked!Segment(map, u)
    <3>1. /\ u \in Linked!Walks
          /\ \/ n.at # Nowhere /\ m = Linked!Going(n.at, n.pending, c \o n.read)
             \/ /\ m.at = Nowhere /\ m.pending = <<>>
                /\ (n.at = Nowhere /\ n.pending = <<>>) \/ Len(c \o n.read) > HopLimit
      BY <1>2, SegmentWithChain
    <3>2. u.pending # <<>>
      BY <1>2 DEF Linked!Going
    <3>3. Linked!Walked(map, u) = Linked!Walked(map, m) /\ m \in Linked!Walks
      BY <3>1, <3>2, WalkedUnfolds, SegmentAdvances
    <3> HIDE DEF u, m, n, r
    <3>4. CASE n.at # Nowhere /\ m = Linked!Going(n.at, n.pending, c \o n.read)
      BY <2>1, <2>2, <3>3, <3>4 DEF Chained, u
    <3>5. CASE m.at = Nowhere /\ m.pending = <<>> /\ n.at = Nowhere /\ n.pending = <<>>
      <4>1. r = n /\ Linked!Walked(map, m) = m
        BY <2>1, <3>3, <3>5, WalkedUnfolds
      <4> QED BY <3>3, <3>5, <4>1 DEF u
    <3>6. CASE m.at = Nowhere /\ m.pending = <<>> /\ Len(c \o n.read) > HopLimit
      <4>1. Linked!Walked(map, m) = m
        BY <3>3, <3>6, WalkedUnfolds
      <4>2. PICK t \in Linked!Traces : r.read = n.read \o t
        BY <2>1, WalksReadOn DEF ReadsOn
      <4>3. n.read \in Linked!Traces /\ r.read \in Linked!Traces
        BY <2>1, <4>2, WalksAre, TracesAre
      <4>4. /\ Len(r.read) = Len(n.read) + Len(t) /\ Len(c \o r.read) = Len(c) + Len(r.read)
            /\ Len(c \o n.read) = Len(c) + Len(n.read)
            /\ Len(c) \in Nat /\ Len(t) \in Nat /\ Len(n.read) \in Nat /\ HopLimit \in Nat
        BY <4>2, <4>3, TracesAre, HopsTyped
      <4>5. ~(Len(c \o r.read) <= HopLimit)
        BY <3>6, <4>4
      <4> QED BY <3>3, <3>6, <4>1, <4>5 DEF u
    <3> QED BY <3>1, <3>4, <3>5, <3>6
  <2> QED BY <2>3 DEF Chained
<1>3. Linked!Walks \subseteq S
  <2> HIDE DEF S
  <2> QED BY <1>1, <1>2, WalkInduction
<1> QED BY <1>3

------------------------------------------------------------------------------
(* A walk that meets no link, and the first link of one that does.         *)

LEMMA SameSequence ==
  ASSUME NEW S, NEW p \in Seq(S), NEW q \in Seq(S), Len(p) = Len(q), \A i \in 1..Len(p) : p[i] = q[i]
  PROVE  p = q
OBVIOUS

(* A path from a, after its first segment.                                 *)
Peeled(a, p, x, t, h) ==
  /\ h = a \o SubSeq(p, 1, 1) /\ h \o t = a \o p
  /\ Len(p) \in Nat \ {0} /\ Len(t) = Len(p) - 1 /\ x = p[1]
  /\ \A k \in 1..Len(p) - 1 : t[k] = p[k + 1] /\ h \o SubSeq(t, 1, k) = a \o SubSeq(p, 1, k + 1)

LEMMA OneFurther ==
  ASSUME NEW S, NEW a \in Seq(S), NEW p \in Seq(S), p # <<>>,
         NEW x, x = Head(p), NEW t, t = Tail(p), NEW h, h = Append(a, x)
  PROVE  Peeled(a, p, x, t, h)
<1>1. /\ x \in S /\ t \in Seq(S) /\ Len(p) \in Nat \ {0} /\ Len(t) = Len(p) - 1 /\ p = <<x>> \o t
      /\ x = p[1]
  BY HeadAndTail
<1>2. Len(a) \in Nat
  OBVIOUS
<1>3. SubSeq(p, 1, 1) = <<x>>
  <2>1. SubSeq(p, 1, 1) \in Seq(S) /\ Len(SubSeq(p, 1, 1)) = 1 /\ SubSeq(p, 1, 1)[1] = p[1]
    BY <1>1
  <2>2. <<x>> \in Seq(S) /\ Len(<<x>>) = 1 /\ <<x>>[1] = x
    BY <1>1
  <2>3. \A i \in 1..1 : SubSeq(p, 1, 1)[i] = <<x>>[i]
    BY <1>1, <2>1, <2>2
  <2> QED BY <2>1, <2>2, <2>3, SameSequence
<1>4. \A k \in 1..Len(p) - 1 : t[k] = p[k + 1]
  BY <1>1
<1>5. h \in Seq(S) /\ h = a \o <<x>>
  BY <1>1
<1>6. h \o t = a \o p
  BY <1>1, <1>5
<1>7. ASSUME NEW k \in 1..Len(p) - 1 PROVE h \o SubSeq(t, 1, k) = a \o SubSeq(p, 1, k + 1)
  <2>1. SubSeq(p, 1, k + 1) = <<x>> \o SubSeq(t, 1, k)
    <3>1. /\ SubSeq(p, 1, k + 1) \in Seq(S) /\ SubSeq(t, 1, k) \in Seq(S)
          /\ Len(SubSeq(p, 1, k + 1)) = k + 1 /\ Len(SubSeq(t, 1, k)) = k
      BY <1>1
    <3>2. Len(<<x>> \o SubSeq(t, 1, k)) = k + 1 /\ <<x>> \o SubSeq(t, 1, k) \in Seq(S)
      BY <1>1, <3>1
    <3>3. ASSUME NEW i \in 1..k + 1 PROVE SubSeq(p, 1, k + 1)[i] = (<<x>> \o SubSeq(t, 1, k))[i]
      <4>1. CASE i = 1
        BY <1>1, <3>1, <4>1
      <4>2. CASE i # 1
        <5>1. i - 1 \in 1..k /\ i - 1 \in 1..Len(p) - 1 /\ (i - 1) + 1 = i
          BY <4>2
        <5>2. SubSeq(p, 1, k + 1)[i] = p[i]
          BY <1>1
        <5>3. (<<x>> \o SubSeq(t, 1, k))[i] = t[i - 1]
          BY <1>1, <3>1, <5>1
        <5> QED BY <1>4, <5>1, <5>2, <5>3
      <4> QED BY <4>1, <4>2
    <3> QED BY <3>1, <3>2, <3>3
  <2>2. SubSeq(t, 1, k) \in Seq(S)
    BY <1>1
  <2> QED BY <1>1, <1>5, <2>1, <2>2
<1> QED BY <1>1, <1>3, <1>4, <1>5, <1>6, <1>7 DEF Peeled

(* A path cut before its k-th segment.                                     *)
CutAt(S, p, k, f, b) ==
  /\ f \in Seq(S) /\ b \in Seq(S) /\ p = f \o b /\ b # <<>> /\ Head(b) = p[k] /\ p[k] \in S
  /\ Len(f) = k - 1 /\ Append(f, p[k]) = SubSeq(p, 1, k)
  /\ \A j \in 1..k - 1 : SubSeq(f, 1, j) = SubSeq(p, 1, j) /\ f[j] = p[j]

LEMMA CutBefore ==
  ASSUME NEW S, NEW p \in Seq(S), NEW k \in 1..Len(p), NEW f, f = SubSeq(p, 1, k - 1), NEW b, b = SubSeq(p, k, Len(p))
  PROVE  CutAt(S, p, k, f, b)
<1>1. Len(p) \in Nat /\ k \in Nat /\ k >= 1 /\ k <= Len(p)
  OBVIOUS
<1>2. f \in Seq(S) /\ Len(f) = k - 1 /\ \A j \in 1..k - 1 : f[j] = p[j]
  BY <1>1
<1>3. b \in Seq(S) /\ Len(b) = Len(p) - k + 1 /\ \A j \in 1..Len(b) : b[j] = p[k + j - 1]
  BY <1>1
<1>4. p = f \o b
  <2>1. f \o b \in Seq(S) /\ Len(f \o b) = Len(p)
    BY <1>1, <1>2, <1>3
  <2>2. ASSUME NEW i \in 1..Len(p) PROVE (f \o b)[i] = p[i]
    <3>1. CASE i <= k - 1
      BY <1>1, <1>2, <1>3, <3>1
    <3>2. CASE ~(i <= k - 1)
      <4>1. i - (k - 1) \in 1..Len(b) /\ k + (i - (k - 1)) - 1 = i
        BY <1>1, <1>3, <3>2
      <4>2. (f \o b)[i] = b[i - (k - 1)]
        BY <1>1, <1>2, <1>3, <3>2
      <4> QED BY <1>3, <4>1, <4>2
    <3> QED BY <3>1, <3>2
  <2>3. f \o b = p
    BY <1>1, <2>1, <2>2, SameSequence
  <2> QED BY <2>3
<1>5. b # <<>> /\ Head(b) = p[k] /\ p[k] \in S
  <2>1. 1 \in 1..Len(b) /\ k + 1 - 1 = k
    BY <1>1, <1>3
  <2>2. b[1] = p[k]
    BY <1>3, <2>1
  <2>3. b # <<>> /\ Head(b) = b[1]
    <3>1. Len(b) # 0
      BY <1>1, <1>3
    <3>2. b # <<>>
      BY <3>1
    <3>3. Head(b) = b[1]
      BY <1>3
    <3> QED BY <3>2, <3>3
  <2>4. p[k] \in S
    OBVIOUS
  <2> QED BY <2>2, <2>3, <2>4
<1>6. Append(f, p[k]) = SubSeq(p, 1, k)
  <2>1. SubSeq(p, 1, k) \in Seq(S) /\ Len(SubSeq(p, 1, k)) = k /\ \A j \in 1..k : SubSeq(p, 1, k)[j] = p[j]
    BY <1>1
  <2>2. Append(f, p[k]) \in Seq(S) /\ Len(Append(f, p[k])) = k
    BY <1>1, <1>2, <1>5
  <2>3. ASSUME NEW j \in 1..k PROVE Append(f, p[k])[j] = p[j]
    BY <1>1, <1>2
  <2> QED BY <2>1, <2>2, <2>3
<1>7. ASSUME NEW j \in 1..k - 1 PROVE SubSeq(f, 1, j) = SubSeq(p, 1, j)
  BY <1>1, <1>2
<1> QED BY <1>2, <1>3, <1>4, <1>5, <1>6, <1>7 DEF CutAt

(* Without a link on it a path leads where it says.                        *)
Undotted(q) == \A i \in 1..Len(q) : q[i] \notin Linked!Dotted
Unlinked(map, place, q) == \A k \in 1..Len(q) : place \o SubSeq(q, 1, k) \notin DOMAIN map

LEMMA PlainWalk ==
  ASSUME NEW map, Linked!IsLinkMap(map), NEW place \in Linked!Way, NEW q \in Linked!Way, NEW read \in Linked!Traces,
         Undotted(q), Unlinked(map, place, q)
  PROVE  Linked!Walked(map, Linked!Going(place, q, read)) = Linked!Going(place \o q, <<>>, read)
<1> DEFINE Says(v) == v.at \in Linked!Way /\ Undotted(v.pending) /\ Unlinked(map, v.at, v.pending)
                        => Linked!Walked(map, v) = Linked!Going(v.at \o v.pending, <<>>, v.read)
           S == {v \in Linked!Walks : Says(v)}
<1>1. ASSUME NEW v \in Linked!Walks, v.pending = <<>> PROVE v \in S
  <2>1. ASSUME v.at \in Linked!Way PROVE Linked!Walked(map, v) = Linked!Going(v.at \o v.pending, <<>>, v.read)
    <3>1. Linked!Walked(map, v) = v /\ v = Linked!Going(v.at, v.pending, v.read)
      BY <1>1, WalkedUnfolds, WalksAre
    <3>2. v.at \o <<>> = v.at
      BY <2>1 DEF Linked!Way
    <3> QED BY <1>1, <3>1, <3>2
  <2> QED BY <2>1
<1>2. ASSUME NEW v \in Linked!Walks, v.pending # <<>>, Linked!Segment(map, v) \in S PROVE v \in S
  <2> SUFFICES ASSUME v.at \in Linked!Way, Undotted(v.pending), Unlinked(map, v.at, v.pending)
               PROVE  Linked!Walked(map, v) = Linked!Going(v.at \o v.pending, <<>>, v.read)
    OBVIOUS
  <2> DEFINE n == Linked!Segment(map, v)
             s == Head(v.pending)  rest == Tail(v.pending)  here == Append(v.at, s)
  <2>1. Linked!Walked(map, v) = Linked!Walked(map, n)
    BY <1>2, WalkedUnfolds
  <2>2. rest \in Linked!Way /\ here \in Linked!Way /\ v.pending \in Linked!Way /\ OneSegment(map, v, s, rest, here, n)
    BY <1>2, SegmentIs
  <2>3. Peeled(v.at, v.pending, s, rest, here)
    <3>1. v.at \in Seq(STRING) /\ v.pending \in Seq(STRING)
      BY <2>2, WayIs
    <3> QED BY <1>2, <3>1, OneFurther
  <2> HIDE DEF s, rest, here
  <2>4. s \notin Linked!Dotted /\ here \notin DOMAIN map
    <3>1. 1 \in 1..Len(v.pending)
      BY <2>3 DEF Peeled
    <3> QED BY <2>3, <3>1 DEF Undotted, Unlinked, Peeled
  <2>5. n = Linked!Going(here, rest, v.read)
    BY <2>2, <2>4 DEF OneSegment
  <2>6. n.at = here /\ n.pending = rest /\ n.read = v.read
    BY <2>5, GoingIs
  <2>7. ASSUME NEW k \in 1..Len(rest) PROVE rest[k] \notin Linked!Dotted /\ here \o SubSeq(rest, 1, k) \notin DOMAIN map
    <3>1. k \in 1..Len(v.pending) - 1 /\ k + 1 \in 1..Len(v.pending)
      BY <2>3 DEF Peeled
    <3>2. v.pending[k + 1] \notin Linked!Dotted /\ v.at \o SubSeq(v.pending, 1, k + 1) \notin DOMAIN map
      BY <3>1 DEF Undotted, Unlinked
    <3> QED BY <2>3, <3>1, <3>2 DEF Peeled
  <2>8. Undotted(rest) /\ Unlinked(map, here, rest)
    BY <2>7 DEF Undotted, Unlinked
  <2>9. Says(n)
    BY <1>2
  <2> HIDE DEF n
  <2> QED BY <2>1, <2>2, <2>3, <2>6, <2>8, <2>9 DEF Peeled
<1>3. Linked!Walks \subseteq S
  <2> HIDE DEF S
  <2> QED BY <1>1, <1>2, WalkInduction
<1> DEFINE w == Linked!Going(place, q, read)
<1>4. Says(w)
  <2>1. w \in Linked!Walks
    BY GoingTyped
  <2> QED BY <1>3, <2>1
<1>5. w.at = place /\ w.pending = q /\ w.read = read
  BY DEF Linked!Going
<1> HIDE DEF w
<1> QED BY <1>4, <1>5 DEF w

(* A walk through a link that does not get lost has read it.               *)
HasRead(map, l, read, o) ==
  /\ Append(read, <<l, map[l]>>) \in Linked!Traces /\ Len(Append(read, <<l, map[l]>>)) = Len(read) + 1
  /\ \E t \in Linked!Traces : o.read = Append(read, <<l, map[l]>>) \o t

LEMMA AtLink ==
  ASSUME NEW map, Linked!IsLinkMap(map), NEW f \in Linked!Way, NEW q \in Linked!Way, NEW read \in Linked!Traces,
         q # <<>>, Head(q) \notin Linked!Dotted, NEW l, l = Append(f, Head(q)), l \in DOMAIN map,
         NEW o, o = Linked!Walked(map, Linked!Going(f, q, read)), o.at # Nowhere
  PROVE  HasRead(map, l, read, o)
<1> DEFINE w == Linked!Going(f, q, read)
           n == Linked!Segment(map, w)
           s == Head(q)  rest == Tail(q)
           trace == Append(read, <<l, map[l]>>)
<1>1. w \in Linked!Walks
  BY GoingTyped
<1>2. w.at = f /\ w.pending = q /\ w.read = read
  BY DEF Linked!Going
<1> HIDE DEF w
<1>3. OneSegment(map, w, s, rest, l, n) /\ n \in Linked!Walks
  <2>1. w.pending # <<>> /\ s = Head(w.pending) /\ rest = Tail(w.pending) /\ l = Append(w.at, s)
    BY <1>2
  <2> QED BY <1>1, <2>1, SegmentIs, SegmentAdvances
<1>4. o = Linked!Walked(map, n)
  BY <1>1, <1>2, WalkedUnfolds DEF w
<1> HIDE DEF n, s, rest
<1>5. s \notin Linked!Dotted
  BY DEF s
<1>6. Len(read) < HopLimit
  <2> SUFFICES ASSUME ~(Len(read) < HopLimit) PROVE FALSE
    OBVIOUS
  <2>1. n = Linked!Lost(read)
    BY <1>2, <1>3, <1>5 DEF OneSegment
  <2> QED BY <1>4, <2>1, WalkedLost, LostIs
<1>7. /\ trace \in Linked!Traces /\ Len(trace) = Len(read) + 1
      /\ n = Linked!Lost(trace) \/ n = Linked!Going(w.at, map[l] \o rest, trace)
  BY <1>2, <1>3, <1>5, <1>6 DEF OneSegment
<1> HIDE DEF trace
<1>8. n.read = trace
  BY <1>7, GoingIs, LostIs
<1>9. PICK t \in Linked!Traces : o.read = n.read \o t
  BY <1>3, <1>4, WalksReadOn DEF ReadsOn
<1> QED BY <1>7, <1>8, <1>9 DEF trace, HasRead

(* A path that does not get lost has no link on it, or its first one is    *)
(* among the links the walk has read.                                      *)
MeetsLink(map, place, q, read, o) ==
  \/ o = Linked!Going(place \o q, <<>>, read)
  \/ \E k \in 1..Len(q) : /\ place \o SubSeq(q, 1, k) \in DOMAIN map
                          /\ \E i \in 1..Len(o.read) : o.read[i][1] = place \o SubSeq(q, 1, k)

LEMMA FirstLink ==
  ASSUME NEW map, Linked!IsLinkMap(map), NEW place \in Linked!Way, NEW q \in Linked!Way, NEW read \in Linked!Traces,
         Undotted(q), NEW o, o = Linked!Walked(map, Linked!Going(place, q, read)), o.at # Nowhere
  PROVE  MeetsLink(map, place, q, read, o)
<1> DEFINE K == {k \in 1..Len(q) : place \o SubSeq(q, 1, k) \in DOMAIN map}
<1>1. CASE K = {}
  <2>1. Unlinked(map, place, q)
    BY <1>1 DEF Unlinked
  <2> QED BY <2>1, PlainWalk DEF MeetsLink
<1>2. CASE K # {}
  <2>1. PICK k \in K : \A j \in K : k <= j
    <3>1. K \in SUBSET Nat
      OBVIOUS
    <3> HIDE DEF K
    <3> QED BY <1>2, <3>1, Minimum
  <2> DEFINE f == SubSeq(q, 1, k - 1)  b == SubSeq(q, k, Len(q))  l == place \o SubSeq(q, 1, k)
  <2>2. k \in 1..Len(q) /\ l \in DOMAIN map
    BY <2>1
  <2>3. /\ f \in Linked!Way /\ b \in Linked!Way /\ q = f \o b /\ b # <<>> /\ Head(b) = q[k] /\ q[k] \in STRING
        /\ Len(f) = k - 1 /\ Append(f, q[k]) = SubSeq(q, 1, k)
        /\ \A j \in 1..k - 1 : SubSeq(f, 1, j) = SubSeq(q, 1, j) /\ f[j] = q[j]
    <3>1. q \in Seq(STRING)
      BY WayIs
    <3> HIDE DEF f, b
    <3>2. CutAt(STRING, q, k, f, b)
      BY <2>2, <3>1, CutBefore DEF f, b
    <3> QED BY <3>2, WayIs DEF CutAt
  <2> HIDE DEF f, b
  <2>4. Undotted(f) /\ Unlinked(map, place, f)
    <3>1. ASSUME NEW j \in 1..Len(f) PROVE f[j] \notin Linked!Dotted /\ place \o SubSeq(f, 1, j) \notin DOMAIN map
      <4>1. j \in 1..k - 1 /\ j \in 1..Len(q) /\ ~(k <= j)
        BY <2>2, <2>3
      <4>2. j \notin K
        BY <2>1, <4>1
      <4> QED BY <2>3, <4>1, <4>2 DEF Undotted
    <3> QED BY <3>1 DEF Undotted, Unlinked
  <2>5. place \o f \in Linked!Way /\ Append(place \o f, q[k]) = l
    <3>1. place \o f \in Linked!Way /\ Append(place \o f, q[k]) = place \o Append(f, q[k])
      <4> DEFINE x == q[k]  S == STRING
      <4>1. place \in Seq(S) /\ f \in Seq(S) /\ x \in S
        BY <2>3, WayIs
      <4> HIDE DEF x, S
      <4>2. place \o Append(f, x) = Append(place \o f, x) /\ place \o f \in Seq(S)
        BY <4>1, AppendedBehind
      <4> QED BY <4>2, WayIs DEF x, S
    <3> QED BY <2>3, <3>1
  <2>6. o = Linked!Walked(map, Linked!Going(place \o f, b, read))
    <3> DEFINE w == Linked!Going(place, f, read)
               r == Linked!Walked(map, w)
    <3>1. r = Linked!Going(place \o f, <<>>, read)
      BY <2>3, <2>4, PlainWalk
    <3>2. r.at = place \o f /\ r.read = read
      BY <3>1 DEF Linked!Going
    <3> HIDE DEF r
    <3>3. r.at # Nowhere
      BY <2>5, <3>2, HopsTyped
    <3>4. w \in Linked!Walks
      BY <2>3, GoingTyped
    <3>5. w.at = place /\ w.pending = f /\ w.read = read
      BY DEF Linked!Going
    <3> HIDE DEF w, r
    <3>6. Continues(map, w)
      BY <3>4, WalksContinue
    <3>7. Linked!Walked(map, Linked!Going(w.at, w.pending \o b, w.read)) = Linked!Walked(map, Linked!Going(r.at, b, r.read))
      BY <2>3, <3>3, <3>6 DEF Continues, r
    <3> QED BY <2>3, <3>2, <3>5, <3>7
  <2>7. Head(b) \notin Linked!Dotted
    BY <2>2, <2>3 DEF Undotted
  <2>8. l = Append(place \o f, Head(b))
    BY <2>3, <2>5
  <2> HIDE DEF l
  <2>12. HasRead(map, l, read, o)
    BY <2>2, <2>3, <2>5, <2>6, <2>7, <2>8, AtLink
  <2> DEFINE trace == Append(read, <<l, map[l]>>)
  <2>9. trace \in Linked!Traces /\ Len(trace) = Len(read) + 1 /\ \E t \in Linked!Traces : o.read = trace \o t
    BY <2>12 DEF HasRead
  <2>10. PICK t \in Linked!Traces : o.read = trace \o t
    BY <2>9
  <2>11. \E i \in 1..Len(o.read) : o.read[i][1] = l
    <3> DEFINE i == Len(read) + 1
    <3>1. i \in 1..Len(trace) /\ trace[i] = <<l, map[l]>>
      BY <2>9 DEF Linked!Traces
    <3> HIDE DEF i, trace
    <3>2. i \in 1..Len(trace \o t) /\ (trace \o t)[i] = trace[i]
      BY <2>9, <2>10, <3>1 DEF Linked!Traces
    <3> QED BY <2>10, <3>1, <3>2
  <2> QED BY <2>2, <2>11 DEF l, MeetsLink
<1> QED BY <1>1, <1>2

------------------------------------------------------------------------------
(* Opening a path.                                                         *)

(* What is behind a prefix of a path.                                      *)
Rests(target, e, sub) ==
  /\ e = target \o sub /\ Len(target) \in Nat /\ Len(e) \in Nat /\ Len(sub) = Len(e) - Len(target)
  /\ \A k \in 1..Len(sub) : /\ Len(target) + k \in 1..Len(e) /\ sub[k] = e[Len(target) + k]
                            /\ Linked!IsPrefix(target \o SubSeq(sub, 1, k), e)
                            /\ Len(target \o SubSeq(sub, 1, k)) = Len(target) + k

LEMMA RestOfPath ==
  ASSUME NEW S, NEW target \in Seq(S), NEW e \in Seq(S), Linked!IsPrefix(target, e),
         NEW sub, sub = SubSeq(e, Len(target) + 1, Len(e))
  PROVE  sub \in Seq(S) /\ Rests(target, e, sub)
<1> DEFINE n == Len(target)
<1>1. n \in Nat /\ Len(e) \in Nat /\ n <= Len(e) /\ target = SubSeq(e, 1, n)
  <2>1. n <= Len(e) /\ SubSeq(target, 1, n) = SubSeq(e, 1, n)
    BY DEF Linked!IsPrefix
  <2>2. SubSeq(target, 1, n) = target
    OBVIOUS
  <2> QED BY <2>1, <2>2
<1>2. sub \in Seq(S) /\ Len(sub) = Len(e) - n /\ \A k \in 1..Len(e) - n : sub[k] = e[n + k]
  BY <1>1
<1> HIDE DEF n
<1>3. \A i \in 1..n : target[i] = e[i]
  BY <1>1 DEF n
<1>4. ASSUME NEW k \in 0..Len(sub) PROVE target \o SubSeq(sub, 1, k) = SubSeq(e, 1, n + k)
  <2>1. SubSeq(sub, 1, k) \in Seq(S) /\ Len(SubSeq(sub, 1, k)) = k /\ \A i \in 1..k : SubSeq(sub, 1, k)[i] = sub[i]
    BY <1>2, <1>1
  <2>2. SubSeq(e, 1, n + k) \in Seq(S) /\ Len(SubSeq(e, 1, n + k)) = n + k /\ \A i \in 1..n + k : SubSeq(e, 1, n + k)[i] = e[i]
    BY <1>1, <1>2
  <2>3. target \o SubSeq(sub, 1, k) \in Seq(S) /\ Len(target \o SubSeq(sub, 1, k)) = n + k
    BY <1>1, <2>1 DEF n
  <2>4. ASSUME NEW i \in 1..n + k PROVE (target \o SubSeq(sub, 1, k))[i] = e[i]
    <3>1. CASE i <= n
      BY <1>1, <1>3, <2>1, <3>1 DEF n
    <3>2. CASE ~(i <= n)
      <4>1. i - n \in 1..k /\ i - n \in 1..Len(e) - n /\ n + (i - n) = i
        BY <1>1, <1>2, <3>2
      <4>2. (target \o SubSeq(sub, 1, k))[i] = SubSeq(sub, 1, k)[i - n]
        BY <1>1, <2>1, <3>2 DEF n
      <4> QED BY <1>2, <2>1, <4>1, <4>2
    <3> QED BY <3>1, <3>2
  <2> QED BY <2>2, <2>3, <2>4, SameSequence
<1>5. ASSUME NEW k \in 1..Len(sub)
      PROVE  /\ n + k \in 1..Len(e) /\ sub[k] = e[n + k]
             /\ Linked!IsPrefix(target \o SubSeq(sub, 1, k), e) /\ Len(target \o SubSeq(sub, 1, k)) = n + k
  <2>1. k \in 0..Len(sub) /\ n + k \in 1..Len(e)
    BY <1>1, <1>2
  <2>2. target \o SubSeq(sub, 1, k) = SubSeq(e, 1, n + k)
    BY <1>4, <2>1
  <2>3. Len(SubSeq(e, 1, n + k)) = n + k /\ SubSeq(e, 1, n + k) \in Seq(S)
    BY <2>1
  <2>4. SubSeq(SubSeq(e, 1, n + k), 1, n + k) = SubSeq(e, 1, n + k)
    BY <2>3
  <2>5. Linked!IsPrefix(SubSeq(e, 1, n + k), e)
    BY <1>1, <2>1, <2>3, <2>4 DEF Linked!IsPrefix
  <2> QED BY <1>2, <2>1, <2>2, <2>3, <2>5
<1>6. e = target \o sub
  <2>1. Len(sub) \in 0..Len(sub) /\ n + Len(sub) = Len(e)
    BY <1>1, <1>2
  <2>2. SubSeq(sub, 1, Len(sub)) = sub
    BY <1>2
  <2>3. SubSeq(e, 1, Len(e)) = e
    OBVIOUS
  <2> QED BY <1>4, <2>1, <2>2, <2>3
<1> QED BY <1>1, <1>2, <1>5, <1>6 DEF Rests, n

LEMMA PrefixOfBoth ==
  ASSUME NEW S, NEW p \in Seq(S), NEW q \in Seq(S)
  PROVE  Linked!IsPrefix(p, p \o q)
<1>1. Len(p) \in Nat /\ Len(q) \in Nat /\ p \o q \in Seq(S) /\ Len(p \o q) = Len(p) + Len(q)
  OBVIOUS
<1>2. SubSeq(p, 1, Len(p)) = p
  OBVIOUS
<1>3. SubSeq(p \o q, 1, Len(p)) = p
  <2>1. SubSeq(p \o q, 1, Len(p)) \in Seq(S) /\ Len(SubSeq(p \o q, 1, Len(p))) = Len(p)
    BY <1>1
  <2>2. ASSUME NEW i \in 1..Len(p) PROVE SubSeq(p \o q, 1, Len(p))[i] = p[i]
    <3>1. (p \o q)[i] = p[i]
      BY <1>1
    <3>2. SubSeq(p \o q, 1, Len(p))[i] = (p \o q)[i]
      BY <1>1
    <3> QED BY <3>1, <3>2
  <2> QED BY <2>1, <2>2, SameSequence
<1> QED BY <1>1, <1>2, <1>3 DEF Linked!IsPrefix

(* Opening a path of a side.                                               *)
Opens(map, v) == Linked!Walked(map, Linked!Going(<<>>, v, <<>>))

LEMMA OpensTyped ==
  ASSUME NEW map, Linked!IsLinkMap(map), NEW v \in Linked!Way
  PROVE  /\ Opens(map, v) \in Linked!Walks /\ Opens(map, v).pending = <<>> /\ Opens(map, v).read \in Linked!Traces
         /\ Len(Opens(map, v).read) <= HopLimit
<1> DEFINE w == Linked!Going(<<>>, v, <<>>)
<1>1. w \in Linked!Walks
  BY GoingTyped, WayIs, TracesAre
<1>2. w.read = <<>>
  BY DEF Linked!Going
<1> HIDE DEF w
<1>3. Linked!Walked(map, w) \in Linked!Walks /\ Linked!Walked(map, w).pending = <<>>
  BY <1>1, WalkedTyped
<1>4. Len(w.read) <= HopLimit
  BY <1>2, HopsTyped
<1>5. Len(Linked!Walked(map, w).read) <= HopLimit
  BY <1>1, <1>4, WalksReadOn DEF ReadsOn
<1> QED BY <1>3, <1>5, WalksAre DEF w, Opens

LEMMA OpensOn ==
  ASSUME NEW map, Linked!IsLinkMap(map), NEW v \in Linked!Way, NEW q \in Linked!Way
  PROVE  /\ Opens(map, v).at # Nowhere
              => Opens(map, v \o q) = Linked!Walked(map, Linked!Going(Opens(map, v).at, q, Opens(map, v).read))
         /\ Opens(map, v).at = Nowhere => Opens(map, v \o q).at = Nowhere
<1> DEFINE w == Linked!Going(<<>>, v, <<>>)
           r == Linked!Walked(map, w)
<1>1. w \in Linked!Walks
  BY GoingTyped, WayIs, TracesAre
<1>2. w.at = <<>> /\ w.pending = v /\ w.read = <<>>
  BY DEF Linked!Going
<1>3. <<>> # Nowhere
  BY WayIs, HopsTyped
<1> HIDE DEF w
<1>4. Continues(map, w)
  BY <1>1, WalksContinue
<1>5. /\ r.at # Nowhere => Linked!Walked(map, Linked!Going(w.at, w.pending \o q, w.read)) = Linked!Walked(map, Linked!Going(r.at, q, r.read))
      /\ r.at = Nowhere /\ w.at # Nowhere => Linked!Walked(map, Linked!Going(w.at, w.pending \o q, w.read)) = r
  BY <1>4 DEF Continues
<1>6. Opens(map, v \o q) = Linked!Walked(map, Linked!Going(w.at, w.pending \o q, w.read)) /\ Opens(map, v) = r
  BY <1>2 DEF Opens, w
<1> HIDE DEF r
<1> QED BY <1>2, <1>3, <1>5, <1>6

LEMMA OpensBelow ==
  ASSUME NEW map, Linked!IsLinkMap(map), NEW v \in Linked!Way, NEW target \in Linked!Way, NEW trace \in Linked!Traces,
         Opens(map, v) = Linked!Going(target, <<>>, trace), NEW q \in Linked!Way
  PROVE  /\ Opens(map, v \o q) = Linked!Walked(map, Linked!Going(target, q, trace))
         /\ Undotted(q) /\ Unlinked(map, target, q) => Opens(map, v \o q) = Linked!Going(target \o q, <<>>, trace)
<1>1. Opens(map, v).at = target /\ Opens(map, v).read = trace /\ target # Nowhere
  BY GoingIs, HopsTyped
<1>2. Opens(map, v \o q) = Linked!Walked(map, Linked!Going(target, q, trace))
  BY <1>1, OpensOn
<1> QED BY <1>2, PlainWalk

(* Directories with a manifest, and links, are named without dots, and no  *)
(* link is above one.                                                      *)
LEMMA NamedPlainly ==
  ASSUME NEW map, Linked!IsLinkMap(map), NEW e \in MemberDirs \cup DOMAIN map
  PROVE  /\ e \in Linked!Way /\ Undotted(e)
         /\ e \in DOMAIN map => e # <<>>
         /\ \A l \in DOMAIN map : Linked!IsPrefix(l, e) => l = e /\ e \notin MemberDirs
<1>1. e \in Linked!Way /\ Linked!ToSet(e) \cap Linked!Dotted = {} /\ (e \in DOMAIN map => e # <<>>)
  <2>1. CASE e \in MemberDirs
    <3>1. e \in Linked!Way /\ Linked!ToSet(e) \cap Linked!Dotted = {}
      BY <2>1, WalksAssumption DEF Linked!SymlinkedMembersConstants
    <3>2. ASSUME e \in DOMAIN map PROVE e # <<>>
      BY <3>2 DEF Linked!IsLinkMap
    <3> QED BY <3>1, <3>2
  <2>2. CASE e \in DOMAIN map
    BY <2>2 DEF Linked!IsLinkMap
  <2> QED BY <2>1, <2>2
<1>2. Undotted(e)
  <2>1. ASSUME NEW i \in 1..Len(e) PROVE e[i] \notin Linked!Dotted
    <3>1. e[i] \in Linked!ToSet(e)
      BY <1>1 DEF Linked!ToSet, Linked!Way
    <3> QED BY <1>1, <3>1
  <2> QED BY <2>1 DEF Undotted
<1>3. ASSUME NEW l \in DOMAIN map, Linked!IsPrefix(l, e) PROVE l = e /\ e \notin MemberDirs
  BY <1>3 DEF Linked!IsLinkMap
<1> QED BY <1>1, <1>2, <1>3

(* From an opened directory a manifest below it is opened plainly.         *)
OpensManifest(map, path, m, trace) == Opens(map, path) = Linked!Going(m, <<>>, trace)

LEMMA ManifestBelow ==
  ASSUME NEW map, Linked!IsLinkMap(map), NEW v \in Linked!Way, NEW target \in Linked!Way, NEW trace \in Linked!Traces,
         Opens(map, v) = Linked!Going(target, <<>>, trace), NEW m \in MemberDirs, Linked!IsPrefix(target, m),
         NEW sub, sub = SubSeq(m, Len(target) + 1, Len(m))
  PROVE  OpensManifest(map, v \o sub, m, trace)
<1>1. m \in Linked!Way /\ Undotted(m) /\ \A l \in DOMAIN map : ~Linked!IsPrefix(l, m)
  BY NamedPlainly
<1>2. sub \in Linked!Way /\ Rests(target, m, sub)
  BY <1>1, RestOfPath, WayIs
<1>3. Undotted(sub) /\ Unlinked(map, target, sub)
  BY <1>1, <1>2 DEF Undotted, Unlinked, Rests
<1>4. target \o sub = m
  BY <1>2 DEF Rests
<1>5. Opens(map, v \o sub) = Linked!Going(target \o sub, <<>>, trace)
  BY <1>2, <1>3, OpensBelow
<1> QED BY <1>4, <1>5 DEF OpensManifest

EndsAt(S, p, f, x, q) ==
  p \o q \in Seq(S) /\ p \o q # <<>> /\ Linked!Front(p \o q) = p \o f /\ Linked!Last(p \o q) = x

LEMMA LastOfBoth ==
  ASSUME NEW S, NEW p \in Seq(S), NEW f \in Seq(S), NEW x \in S, NEW q, q = Append(f, x)
  PROVE  EndsAt(S, p, f, x, q)
<1>1. p \o q = Append(p \o f, x) /\ p \o f \in Seq(S)
  BY AppendedBehind
<1> DEFINE a == p \o f  b == Append(a, x)
<1>2. a \in Seq(S)
  BY <1>1
<1> HIDE DEF a
<1>3. /\ b \in Seq(S) /\ Len(b) = Len(a) + 1 /\ Len(a) \in Nat /\ b[Len(b)] = x /\ b # <<>>
      /\ \A i \in 1..Len(a) : b[i] = a[i]
  BY <1>2
<1> HIDE DEF b
<1>4. SubSeq(b, 1, Len(b) - 1) = a
  <2>1. SubSeq(b, 1, Len(b) - 1) \in Seq(S) /\ Len(SubSeq(b, 1, Len(b) - 1)) = Len(a)
    BY <1>2, <1>3
  <2>2. \A i \in 1..Len(a) : SubSeq(b, 1, Len(b) - 1)[i] = a[i]
    BY <1>2, <1>3
  <2> QED BY <1>2, <2>1, <2>2, SameSequence
<1>5. p \o q = b
  BY <1>1 DEF a, b
<1> QED BY <1>3, <1>4, <1>5 DEF Linked!Front, Linked!Last, a, EndsAt

(* And so is the directory of a link below it.                             *)
LeadsToLink(map, path, trace, l, sub) ==
  /\ sub \in Linked!Way /\ sub # <<>> /\ path \in Linked!Way /\ path # <<>>
  /\ Linked!Last(path) = Linked!Last(l)
  /\ Opens(map, Linked!Front(path)) = Linked!Going(Linked!Front(l), <<>>, trace)

LEMMA LinkBelow ==
  ASSUME NEW map, Linked!IsLinkMap(map), NEW v \in Linked!Way, NEW target \in Linked!Way, NEW trace \in Linked!Traces,
         Opens(map, v) = Linked!Going(target, <<>>, trace), NEW l \in DOMAIN map, Linked!IsStrictPrefix(target, l),
         NEW sub, sub = SubSeq(l, Len(target) + 1, Len(l))
  PROVE  LeadsToLink(map, v \o sub, trace, l, sub)
<1>1. l \in Linked!Way /\ Undotted(l) /\ \A k \in DOMAIN map : Linked!IsPrefix(k, l) => k = l
  BY NamedPlainly
<1>2. Linked!IsPrefix(target, l) /\ target # l
  BY DEF Linked!IsStrictPrefix
<1>3. sub \in Linked!Way /\ Rests(target, l, sub)
  BY <1>1, <1>2, RestOfPath, WayIs
<1>4. sub # <<>>
  <2> SUFFICES ASSUME sub = <<>> PROVE FALSE
    OBVIOUS
  <2>1. l = target \o <<>>
    BY <1>3 DEF Rests
  <2>2. target \o <<>> = target
    BY DEF Linked!Way
  <2> QED BY <1>2, <2>1, <2>2
<1> DEFINE n == Len(sub)  f == SubSeq(sub, 1, n - 1)
<1>5. n \in Nat \ {0} /\ n \in 1..n
  BY <1>3, <1>4, HeadAndTail, WayIs
<1>6. /\ f \in Linked!Way /\ Len(f) = n - 1 /\ Append(f, sub[n]) = sub /\ sub[n] \in STRING
      /\ \A j \in 1..n - 1 : SubSeq(f, 1, j) = SubSeq(sub, 1, j) /\ f[j] = sub[j]
  <2>1. SubSeq(sub, 1, n) = sub
    BY <1>3, WayIs
  <2> HIDE DEF f
  <2>2. /\ f \in Seq(STRING) /\ Len(f) = n - 1 /\ Append(f, sub[n]) = SubSeq(sub, 1, n) /\ sub[n] \in STRING
        /\ \A j \in 1..n - 1 : SubSeq(f, 1, j) = SubSeq(sub, 1, j) /\ f[j] = sub[j]
    <3> DEFINE b == SubSeq(sub, n, Len(sub))
    <3>1. sub \in Seq(STRING) /\ n \in 1..Len(sub)
      BY <1>3, <1>5, WayIs
    <3> HIDE DEF n, b
    <3>2. CutAt(STRING, sub, n, f, b)
      BY <3>1, CutBefore DEF f, b
    <3> QED BY <3>2 DEF CutAt
  <2> QED BY <2>1, <2>2, WayIs
<1> HIDE DEF f, n
<1>7. ASSUME NEW p \in Linked!Way
      PROVE  /\ p \o sub \in Linked!Way /\ p \o sub # <<>>
             /\ Linked!Front(p \o sub) = p \o f /\ Linked!Last(p \o sub) = sub[n]
  <2> DEFINE x == sub[n]
  <2>1. p \in Seq(STRING) /\ f \in Seq(STRING) /\ x \in STRING /\ sub = Append(f, x)
    BY <1>6, <1>7, WayIs
  <2> HIDE DEF x
  <2>2. EndsAt(STRING, p, f, x, sub)
    BY <2>1, LastOfBoth
  <2> QED BY <2>2, WayIs DEF x, EndsAt
<1>8. Undotted(f) /\ Unlinked(map, target, f)
  <2>1. ASSUME NEW j \in 1..Len(f) PROVE f[j] \notin Linked!Dotted /\ target \o SubSeq(f, 1, j) \notin DOMAIN map
    <3>1. j \in 1..n - 1 /\ j \in 1..Len(sub) /\ j # Len(sub)
      BY <1>5, <1>6 DEF n
    <3>2. f[j] \notin Linked!Dotted
      BY <1>1, <1>3, <1>6, <3>1 DEF Rests, Undotted
    <3>3. Linked!IsPrefix(target \o SubSeq(sub, 1, j), l) /\ Len(target \o SubSeq(sub, 1, j)) = Len(target) + j
      BY <1>3, <3>1 DEF Rests
    <3>4. target \o SubSeq(sub, 1, j) # l
      BY <1>3, <3>1, <3>3 DEF Rests
    <3> QED BY <1>1, <1>6, <3>1, <3>2, <3>3, <3>4
  <2> QED BY <2>1 DEF Undotted, Unlinked
<1>9. l = target \o sub
  BY <1>3 DEF Rests
<1>10. Linked!Front(l) = target \o f /\ Linked!Last(l) = sub[n]
  BY <1>7, <1>9
<1>11. Opens(map, v \o f) = Linked!Going(target \o f, <<>>, trace)
  BY <1>6, <1>8, OpensBelow
<1> QED BY <1>3, <1>4, <1>7, <1>10, <1>11 DEF LeadsToLink

LEMMA FrontAndLast ==
  ASSUME NEW S, NEW q \in Seq(S), q # <<>>
  PROVE  /\ Linked!Front(q) \in Seq(S) /\ Linked!Last(q) \in S /\ Len(q) \in Nat \ {0}
         /\ Len(Linked!Front(q)) = Len(q) - 1 /\ Linked!Last(q) = q[Len(q)]
         /\ q = Append(Linked!Front(q), Linked!Last(q)) /\ q = Linked!Front(q) \o <<Linked!Last(q)>>
         /\ \A i \in 1..Len(q) - 1 : Linked!Front(q)[i] = q[i]
<1> DEFINE f == SubSeq(q, 1, Len(q) - 1)  x == q[Len(q)]
<1>1. Len(q) \in Nat \ {0}
  OBVIOUS
<1>2. f \in Seq(S) /\ Len(f) = Len(q) - 1 /\ x \in S /\ \A i \in 1..Len(q) - 1 : f[i] = q[i]
  <2> DEFINE n == Len(q) - 1
  <2>1. n \in Nat /\ n + 1 = Len(q) /\ n <= Len(q) /\ (\A i \in 1..n : i \in 1..Len(q)) /\ Len(q) \in 1..Len(q)
    BY <1>1
  <2>2. x \in S
    BY <2>1
  <2> HIDE DEF n
  <2>3. SubSeq(q, 1, n) \in Seq(S) /\ Len(SubSeq(q, 1, n)) = n
    BY <1>1, <2>1
  <2>4. ASSUME NEW i \in 1..n PROVE SubSeq(q, 1, n)[i] = q[i]
    BY <1>1, <2>1
  <2> QED BY <2>2, <2>3, <2>4 DEF n
<1>3. Linked!Front(q) = f /\ Linked!Last(q) = x
  BY DEF Linked!Front, Linked!Last
<1> HIDE DEF f
<1>4. q = Append(f, x)
  <2>1. Append(f, x) \in Seq(S) /\ Len(Append(f, x)) = Len(q)
    BY <1>1, <1>2
  <2>2. \A i \in 1..Len(q) : q[i] = Append(f, x)[i]
    BY <1>1, <1>2
  <2> QED BY <2>1, <2>2, SameSequence
<1> HIDE DEF x
<1>5. Append(f, x) = f \o <<x>>
  BY <1>2
<1>6. Len(f) = Len(q) - 1 /\ x = q[Len(q)]
  BY <1>2 DEF x
<1> QED BY <1>1, <1>2, <1>3, <1>4, <1>5, <1>6

(* Where a link leads from the directory it is in says where its path      *)
(* leads: to the same place, unless reading the links of the path exceeds  *)
(* the limit.                                                              *)
Lands(map, v, chain, w) ==
  /\ Opens(map, v).at # Nowhere => w.at # Nowhere /\ Opens(map, v) = Linked!Going(w.at, <<>>, chain \o w.read)
  /\ w.at # Nowhere /\ Len(chain \o w.read) <= HopLimit => Opens(map, v) = Linked!Going(w.at, <<>>, chain \o w.read)
  /\ w.at # Nowhere => /\ w.at \in Linked!Way /\ w.read \in Linked!Traces /\ chain \o w.read \in Linked!Traces
                       /\ Len(chain \o w.read) > Len(chain)

LEMMA VisitLands ==
  ASSUME NEW map, Linked!IsLinkMap(map), NEW v \in Linked!Way, v # <<>>, NEW l \in DOMAIN map,
         NEW chain \in Linked!Traces, Linked!Last(v) = Linked!Last(l),
         Opens(map, Linked!Front(v)) = Linked!Going(Linked!Front(l), <<>>, chain),
         NEW w, w = Linked!Walked(map, Linked!Going(Linked!Front(l), <<Linked!Last(l)>>, <<>>))
  PROVE  Lands(map, v, chain, w)
<1> DEFINE f == Linked!Front(l)  x == Linked!Last(l)  u == Linked!Going(f, <<x>>, <<>>)
<1>1. l \in Seq(STRING) /\ l # <<>> /\ Undotted(l)
  BY NamedPlainly, WayIs
<1>2. f \in Seq(STRING) /\ x \in STRING /\ l = Append(f, x) /\ Len(l) \in Nat \ {0} /\ x = l[Len(l)]
  BY <1>1, FrontAndLast
<1>3. v \in Seq(STRING) /\ Linked!Front(v) \in Seq(STRING) /\ v = Linked!Front(v) \o <<x>>
  <2>1. v \in Seq(STRING)
    BY WayIs
  <2> QED BY <2>1, FrontAndLast
<1>4. x \notin Linked!Dotted
  BY <1>1, <1>2 DEF Undotted
<1> HIDE DEF f, x
<1>5. <<x>> \in Linked!Way /\ <<x>> # <<>> /\ Head(<<x>>) = x /\ f \in Linked!Way
  BY <1>2, WayIs
<1>6. u \in Linked!Walks
  BY <1>5, GoingTyped, TracesAre
<1>7. u.at = f /\ u.pending = <<x>> /\ u.read = <<>>
  BY GoingIs
<1>8. w = Linked!Walked(map, u)
  BY DEF f, x
<1>9. w \in Linked!Walks
  BY <1>6, <1>8, WalkedTyped
<1>10. Opens(map, v) = Linked!Walked(map, Linked!Going(f, <<x>>, chain))
  <2>1. Opens(map, Linked!Front(v)) = Linked!Going(f, <<>>, chain)
    BY DEF f
  <2>2. Linked!Front(v) \in Linked!Way
    BY <1>3, WayIs
  <2>3. Opens(map, Linked!Front(v) \o <<x>>) = Linked!Walked(map, Linked!Going(f, <<x>>, chain))
    BY <1>5, <2>1, <2>2, OpensBelow
  <2> QED BY <1>3, <2>3
<1> HIDE DEF u
<1>11. Chained(map, u)
  BY <1>6, WalksChain
<1>12. f # Nowhere
  BY <1>5, HopsTyped
<1>13. chain \o <<>> = chain
  BY TracesOf
<1>14. /\ Opens(map, v).at # Nowhere => w.at # Nowhere /\ Opens(map, v) = Linked!Going(w.at, <<>>, chain \o w.read)
       /\ w.at # Nowhere /\ Len(chain \o w.read) <= HopLimit => Opens(map, v) = Linked!Going(w.at, <<>>, chain \o w.read)
  BY <1>7, <1>8, <1>10, <1>11, <1>12, <1>13 DEF Chained
<1>15. ASSUME w.at # Nowhere
       PROVE  /\ w.at \in Linked!Way /\ w.read \in Linked!Traces /\ chain \o w.read \in Linked!Traces
              /\ Len(chain \o w.read) > Len(chain)
  <2>1. w.at \in Linked!Way /\ w.read \in Linked!Traces
    BY <1>9, <1>15, WalksAre
  <2>2. HasRead(map, l, <<>>, w)
    <3>1. w = Linked!Walked(map, Linked!Going(f, <<x>>, <<>>)) /\ l = Append(f, Head(<<x>>))
      BY <1>2, <1>5 DEF f, x
    <3> QED BY <1>4, <1>5, <1>15, <3>1, AtLink, TracesAre
  <2> DEFINE e == Append(<<>>, <<l, map[l]>>)
  <2>3. PICK t \in Linked!Traces : w.read = e \o t
    BY <2>2 DEF HasRead
  <2>4. e \in Linked!Traces /\ Len(e) = Len(<<>>) + 1
    BY <2>2 DEF HasRead
  <2> HIDE DEF e
  <2>5. Len(w.read) = Len(e) + Len(t) /\ Len(t) \in Nat /\ Len(<<>>) = 0 /\ Len(chain) \in Nat
    BY <2>3, <2>4, TracesAre
  <2>6. chain \o w.read \in Linked!Traces /\ Len(chain \o w.read) = Len(chain) + Len(w.read)
    BY <2>1, TracesAre
  <2> QED BY <2>1, <2>4, <2>5, <2>6
<1> QED BY <1>14, <1>15 DEF Lands

------------------------------------------------------------------------------
(* The links that are left to visit.                                       *)

(* A path one is a prefix of, in two parts.                                *)
Splits(v, path, rest) ==
  /\ path = v \o rest /\ Len(v) \in Nat /\ Len(path) \in Nat /\ Len(rest) = Len(path) - Len(v)
  /\ \A k \in 1..Len(rest) : rest[k] = path[Len(v) + k] /\ Len(v) + k \in 1..Len(path)
  /\ Len(v) <= Len(path) /\ SubSeq(path, 1, Len(v)) = v
  /\ \A k \in 1..Len(v) : v[k] = path[k] /\ k \in 1..Len(path)

LEMMA PathSplits ==
  ASSUME NEW S, NEW v \in Seq(S), NEW path \in Seq(S), Linked!IsPrefix(v, path),
         NEW rest, rest = SubSeq(path, Len(v) + 1, Len(path))
  PROVE  rest \in Seq(S) /\ Splits(v, path, rest)
<1>1. rest \in Seq(S) /\ Rests(v, path, rest)
  BY RestOfPath
<1>2. Len(v) <= Len(path) /\ SubSeq(v, 1, Len(v)) = SubSeq(path, 1, Len(v))
  BY DEF Linked!IsPrefix
<1>3. SubSeq(v, 1, Len(v)) = v
  OBVIOUS
<1>4. Len(v) \in Nat /\ Len(path) \in Nat
  OBVIOUS
<1>5. ASSUME NEW k \in 1..Len(v) PROVE v[k] = path[k] /\ k \in 1..Len(path)
  <2>1. k \in 1..Len(path)
    BY <1>2, <1>4
  <2>2. SubSeq(path, 1, Len(v))[k] = path[k]
    BY <1>2, <1>4, <2>1
  <2> QED BY <1>2, <1>3, <2>1, <2>2
<1> QED BY <1>1, <1>2, <1>3, <1>4, <1>5 DEF Rests, Splits

LEMMA PrefixByElements ==
  ASSUME NEW S, NEW p \in Seq(S), NEW q \in Seq(S), Len(p) <= Len(q), \A i \in 1..Len(p) : p[i] = q[i]
  PROVE  Linked!IsPrefix(p, q)
<1>1. Len(p) \in Nat /\ Len(q) \in Nat
  OBVIOUS
<1>2. SubSeq(p, 1, Len(p)) = p
  OBVIOUS
<1>3. SubSeq(q, 1, Len(p)) \in Seq(S) /\ Len(SubSeq(q, 1, Len(p))) = Len(p)
  BY <1>1
<1>4. ASSUME NEW i \in 1..Len(p) PROVE SubSeq(q, 1, Len(p))[i] = p[i]
  BY <1>1
<1>5. SubSeq(q, 1, Len(p)) = p
  BY <1>3, <1>4, SameSequence
<1> QED BY <1>2, <1>5 DEF Linked!IsPrefix

(* A link on the way to a covered path is covered or passed through.       *)
LEMMA OnTheWay ==
  ASSUME NEW p \in [under : Linked!Way, depths : SUBSET Nat, any : BOOLEAN],
         NEW path \in Linked!Way, Linked!Covered(p, path), NEW v \in Linked!Way, v # <<>>, Linked!IsPrefix(v, path)
  PROVE  Linked!Covered(p, v) \/ Linked!ReachesBelow(p, v)
<1> DEFINE u == p.under
<1>1. u \in Linked!Way /\ Linked!IsPrefix(u, path)
  BY DEF Linked!Covered
<1>2. p.any \/ Len(path) - Len(u) \in p.depths
  BY DEF Linked!Covered
<1> HIDE DEF u
<1>3. u \in Seq(STRING) /\ v \in Seq(STRING) /\ path \in Seq(STRING)
  BY <1>1, WayIs
<1>4. Splits(u, path, SubSeq(path, Len(u) + 1, Len(path))) /\ Splits(v, path, SubSeq(path, Len(v) + 1, Len(path)))
  BY <1>1, <1>3, PathSplits
<1>5. /\ Len(u) \in Nat /\ Len(v) \in Nat /\ Len(path) \in Nat /\ Len(u) <= Len(path) /\ Len(v) <= Len(path)
      /\ \A k \in 1..Len(u) : u[k] = path[k]
      /\ \A k \in 1..Len(v) : v[k] = path[k] /\ k \in 1..Len(path)
  BY <1>4 DEF Splits
<1>6. ~Linked!Contains(v, Linked!NodeModules)
  <2>1. ~Linked!Contains(path, Linked!NodeModules)
    BY DEF Linked!Covered
  <2> QED BY <1>5, <2>1 DEF Linked!Contains
<1>7. CASE Len(u) <= Len(v)
  <2>1. Linked!IsPrefix(u, v)
    <3>1. \A k \in 1..Len(u) : k \in 1..Len(v)
      BY <1>5, <1>7
    <3>2. \A k \in 1..Len(u) : u[k] = v[k]
      BY <1>5, <3>1
    <3> QED BY <1>3, <1>7, <3>2, PrefixByElements
  <2>2. CASE p.any \/ Len(path) = Len(v)
    BY <1>2, <1>6, <2>1, <2>2 DEF Linked!Covered, u
  <2>3. CASE ~p.any /\ Len(path) # Len(v)
    <3>1. Len(path) - Len(u) \in p.depths /\ Len(v) - Len(u) < Len(path) - Len(u)
      BY <1>2, <1>5, <2>3
    <3> QED BY <1>6, <2>1, <3>1 DEF Linked!ReachesBelow, u
  <2> QED BY <2>2, <2>3
<1>8. CASE ~(Len(u) <= Len(v))
  <2>1. Linked!IsPrefix(v, u) /\ v # u
    <3>1. \A k \in 1..Len(v) : k \in 1..Len(u)
      BY <1>5, <1>8
    <3>2. \A k \in 1..Len(v) : u[k] = v[k]
      BY <1>5, <3>1
    <3>3. Len(v) <= Len(u) /\ v # u
      BY <1>5, <1>8
    <3> QED BY <1>3, <3>2, <3>3, PrefixByElements
  <2> QED BY <1>6, <2>1 DEF Linked!ReachesBelow, Linked!IsStrictPrefix, u
<1> QED BY <1>7, <1>8

(* A set as a sequence, in some order.                                     *)
LEMMA SetEnumerated ==
  ASSUME NEW S, IsFiniteSet(S), NEW q, q = Linked!SetToSeq(S)
  PROVE  q \in Seq(S) /\ Entries(q) = S
<1> DEFINE n == Cardinality(S)
<1>1. n \in Nat /\ ExistsBijection(1..n, S)
  BY FS_CardinalityType
<1>2. Linked!Cardinality(S) = n
  BY DEF Linked!Cardinality, Cardinality
<1> HIDE DEF n
<1>3. PICK b \in Bijection(1..n, S) : TRUE
  BY <1>1 DEF ExistsBijection
<1>4. b \in [1..n -> S] /\ Linked!IsInjective(b)
  BY <1>3 DEF Bijection, Injection, IsInjective, Linked!IsInjective
<1>5. q = CHOOSE f \in [1..n -> S] : Linked!IsInjective(f)
  BY <1>2 DEF Linked!SetToSeq
<1>6. q \in [1..n -> S] /\ Linked!IsInjective(q)
  BY <1>4, <1>5
<1>7. q \in Injection(1..n, S)
  BY <1>6 DEF Injection, IsInjective, Linked!IsInjective
<1>8. IsFiniteSet(1..n) /\ Cardinality(1..n) = n
  BY <1>1, FS_Interval
<1>9. q \in Surjection(1..n, S)
  BY <1>7, <1>8, FS_Injection DEF n
<1>10. \A x \in S : \E i \in 1..n : q[i] = x
  BY <1>9 DEF Surjection
<1>11. q \in Seq(S) /\ DOMAIN q = 1..n
  BY <1>1, <1>6
<1> QED BY <1>6, <1>10, <1>11 DEF Entries

(* The frames of a walk: a path a package manager sees, the link it goes   *)
(* through last, the links read before it, and the directories entered.    *)
LinkFrames == [virtual : Linked!Way, link : Linked!Way, chain : Linked!Traces, reals : Seq(Linked!Way)]

Followed(map) == {l \in DOMAIN map : ~Linked!Contains(l, Linked!NodeModules)}
FrameOf(v, target, trace, reals, l) ==
  [virtual |-> v \o SubSeq(l, Len(target) + 1, Len(l)), link |-> l, chain |-> trace, reals |-> reals]

Enters(map, v) == Len(Opens(map, v).read) > Len(Opens(map, Linked!Front(v)).read)
EntersAt(map, path, n, real) == Enters(map, SubSeq(path, 1, n)) /\ Opens(map, SubSeq(path, 1, n)).at = real
Entered(map, path, n, reals) ==
  \A k \in 1..Len(reals) : \E j \in 1..n : EntersAt(map, path, j, reals[k])

(* A frame's path leads to the directory of its link.                      *)
SoundFrame(map, f) ==
  /\ f.virtual # <<>> /\ f.link \in Followed(map)
  /\ Linked!Last(f.virtual) = Linked!Last(f.link)
  /\ Opens(map, Linked!Front(f.virtual)) = Linked!Going(Linked!Front(f.link), <<>>, f.chain)
  /\ Entered(map, f.virtual, Len(f.virtual) - 1, f.reals)

Awaits(frames, path) == \E f \in Entries(frames) : Linked!IsPrefix(f.virtual, path)

LEMMA FollowedIs ==
  ASSUME NEW s
  PROVE  Linked!FollowedLinks(s) = Followed(links[s])
BY DEF Linked!FollowedLinks, Followed

LEMMA FramesAre ==
  ASSUME NEW s, NEW map, map = links[s], Linked!IsLinkMap(map), NEW v \in Linked!Way, NEW target \in Linked!Way,
         NEW trace \in Linked!Traces, NEW reals \in Seq(Linked!Way),
         NEW new, new = Linked!Frames(s, v, target, trace, reals)
  PROVE  /\ new \in Seq(LinkFrames)
         /\ Entries(new) = {FrameOf(v, target, trace, reals, l) : l \in {l \in Followed(map) : Linked!IsStrictPrefix(target, l)}}
<1> DEFINE Hanging == {l \in Followed(map) : Linked!IsStrictPrefix(target, l)}
           below == Linked!SetToSeq(Hanging)
<1>1. Hanging \subseteq DOMAIN map
  BY DEF Followed
<1>2. \A l \in Hanging : l \in Linked!Way
  BY <1>1, NamedPlainly
<1>3. IsFiniteSet(Hanging)
  <2>1. IsFiniteSet(DOMAIN map)
    BY DEF Linked!IsLinkMap, Linked!IsFiniteSet, IsFiniteSet
  <2> HIDE DEF Hanging
  <2> QED BY <1>1, <2>1, FS_Subset
<1>4. new = [i \in DOMAIN below |-> FrameOf(v, target, trace, reals, below[i])]
  BY FollowedIs DEF Linked!Frames, FrameOf
<1> HIDE DEF Hanging
<1>5. below \in Seq(Hanging) /\ Entries(below) = Hanging
  BY <1>3, SetEnumerated
<1> HIDE DEF below
<1>6. ASSUME NEW l \in Hanging PROVE FrameOf(v, target, trace, reals, l) \in LinkFrames
  <2> DEFINE sub == SubSeq(l, Len(target) + 1, Len(l))
  <2>1. l \in Seq(STRING) /\ target \in Seq(STRING) /\ v \in Seq(STRING)
    BY <1>2, WayIs
  <2>2. Len(target) + 1 \in Nat \ {0} /\ Len(l) \in Nat
    BY <2>1
  <2>3. sub \in Seq(STRING)
    BY <2>1, <2>2
  <2> HIDE DEF sub
  <2>4. v \o sub \in Linked!Way /\ l \in Linked!Way
    BY <2>1, <2>3, WayIs
  <2> QED BY <2>4 DEF FrameOf, LinkFrames, sub
<1>7. DOMAIN below = 1..Len(below) /\ Len(below) \in Nat /\ \A i \in 1..Len(below) : below[i] \in Hanging
  BY <1>5
<1>8. new \in Seq(LinkFrames) /\ DOMAIN new = DOMAIN below
  <2>1. \A i \in 1..Len(below) : FrameOf(v, target, trace, reals, below[i]) \in LinkFrames
    BY <1>6, <1>7
  <2>2. new \in [1..Len(below) -> LinkFrames]
    BY <1>4, <1>7, <2>1
  <2> QED BY <1>4, <1>7, <2>2
<1>9. Entries(new) = {FrameOf(v, target, trace, reals, l) : l \in Entries(below)}
  BY <1>4, <1>8 DEF Entries
<1> QED BY <1>5, <1>8, <1>9 DEF Hanging

(* The frames below an opened directory are sound.                         *)
LEMMA NewFrames ==
  ASSUME NEW s, NEW map, map = links[s], Linked!IsLinkMap(map), NEW v \in Linked!Way, NEW target \in Linked!Way,
         NEW trace \in Linked!Traces, Opens(map, v) = Linked!Going(target, <<>>, trace), NEW reals \in Seq(Linked!Way),
         Entered(map, v, Len(v), reals), NEW new, new = Linked!Frames(s, v, target, trace, reals)
  PROVE  new \in Seq(LinkFrames) /\ \A f \in Entries(new) : SoundFrame(map, f)
<1>1. /\ new \in Seq(LinkFrames)
      /\ Entries(new) = {FrameOf(v, target, trace, reals, l) : l \in {l \in Followed(map) : Linked!IsStrictPrefix(target, l)}}
  BY FramesAre
<1>2. ASSUME NEW l \in Followed(map), Linked!IsStrictPrefix(target, l)
      PROVE  SoundFrame(map, FrameOf(v, target, trace, reals, l))
  <2> DEFINE sub == SubSeq(l, Len(target) + 1, Len(l))  g == FrameOf(v, target, trace, reals, l)
  <2>1. l \in DOMAIN map
    BY DEF Followed
  <2>2. /\ sub \in Linked!Way /\ sub # <<>> /\ v \o sub \in Linked!Way /\ v \o sub # <<>>
        /\ Linked!Last(v \o sub) = Linked!Last(l)
        /\ Opens(map, Linked!Front(v \o sub)) = Linked!Going(Linked!Front(l), <<>>, trace)
    <3>1. LeadsToLink(map, v \o sub, trace, l, sub)
      BY <1>2, <2>1, LinkBelow
    <3> QED BY <3>1 DEF LeadsToLink
  <2>3. g.virtual = v \o sub /\ g.link = l /\ g.chain = trace /\ g.reals = reals
    BY DEF FrameOf
  <2> HIDE DEF sub, g
  <2>4. Entered(map, v \o sub, Len(v \o sub) - 1, reals)
    <3>1. v \in Seq(STRING) /\ sub \in Seq(STRING)
      BY <2>2, WayIs
    <3>2. Len(v) \in Nat /\ Len(v) <= Len(v \o sub) - 1 /\ Len(v \o sub) \in Nat
      <4>1. Len(sub) \in Nat \ {0}
        BY <2>2, <3>1, HeadAndTail
      <4>2. Len(v \o sub) = Len(v) + Len(sub) /\ Len(v) \in Nat
        BY <3>1
      <4> QED BY <4>1, <4>2
    <3>3. ASSUME NEW k \in 1..Len(reals) PROVE \E j \in 1..Len(v \o sub) - 1 : EntersAt(map, v \o sub, j, reals[k])
      <4>1. PICK j \in 1..Len(v) : EntersAt(map, v, j, reals[k])
        BY DEF Entered
      <4>2. j \in 1..Len(v \o sub) - 1
        BY <3>2
      <4>3. SubSeq(v \o sub, 1, j) = SubSeq(v, 1, j)
        <5> DEFINE a == v \o sub
        <5>1. a \in Seq(STRING) /\ \A i \in 1..Len(v) : a[i] = v[i]
          BY <3>1
        <5>2. j <= Len(a) /\ j <= Len(v) /\ j \in Nat
          BY <3>2, <4>2
        <5> HIDE DEF a
        <5>3. SubSeq(a, 1, j) \in Seq(STRING) /\ Len(SubSeq(a, 1, j)) = j
          BY <5>1, <5>2
        <5>4. SubSeq(v, 1, j) \in Seq(STRING) /\ Len(SubSeq(v, 1, j)) = j
          BY <3>1, <5>2
        <5>5. ASSUME NEW i \in 1..j PROVE SubSeq(a, 1, j)[i] = SubSeq(v, 1, j)[i]
          <6>1. i \in 1..Len(v) /\ i \in 1..Len(a)
            BY <3>1, <5>1, <5>2
          <6>2. SubSeq(a, 1, j)[i] = a[i]
            BY <5>1, <5>2
          <6>3. SubSeq(v, 1, j)[i] = v[i]
            BY <3>1, <5>2
          <6> QED BY <5>1, <6>1, <6>2, <6>3
        <5>6. SubSeq(a, 1, j) = SubSeq(v, 1, j)
          BY <5>3, <5>4, <5>5, SameSequence
        <5> QED BY <5>6 DEF a
      <4> QED BY <4>1, <4>2, <4>3 DEF EntersAt
    <3> QED BY <3>3 DEF Entered
  <2>5. SoundFrame(map, g)
    BY <2>2, <2>3, <2>4 DEF SoundFrame
  <2> QED BY <2>5 DEF g
<1> QED BY <1>1, <1>2

LEMMA RestOfBoth ==
  ASSUME NEW S, NEW p \in Seq(S), NEW q \in Seq(S), NEW e, e = p \o q
  PROVE  SubSeq(e, Len(p) + 1, Len(e)) = q /\ Linked!IsPrefix(p, e)
<1> DEFINE sub == SubSeq(e, Len(p) + 1, Len(e))
<1>1. e \in Seq(S) /\ Linked!IsPrefix(p, e)
  BY PrefixOfBoth
<1>2. sub \in Seq(S) /\ Rests(p, e, sub)
  BY <1>1, RestOfPath
<1> HIDE DEF sub
<1>3. Len(e) = Len(p) + Len(q) /\ Len(p) \in Nat /\ Len(q) \in Nat
  OBVIOUS
<1>4. Len(sub) = Len(q)
  BY <1>2, <1>3 DEF Rests
<1>5. ASSUME NEW i \in 1..Len(sub) PROVE sub[i] = q[i]
  <2>1. sub[i] = e[Len(p) + i]
    BY <1>2 DEF Rests
  <2>2. (p \o q)[Len(p) + i] = q[i]
    BY <1>3, <1>4
  <2> QED BY <2>1, <2>2
<1>6. sub = q
  BY <1>2, <1>4, <1>5, SameSequence
<1> QED BY <1>1, <1>6 DEF sub

BothLong(p, q) == Len(p \o q) = Len(p) + Len(q) /\ Len(p) \in Nat /\ Len(q) \in Nat

LEMMA LengthOfBoth ==
  ASSUME NEW S, NEW p \in Seq(S), NEW q \in Seq(S)
  PROVE  BothLong(p, q)
BY DEF BothLong

StartsBoth(S, v, rest, k, r) == r \in Seq(S) /\ Len(r) = k /\ Linked!IsPrefix(v \o r, v \o rest)

LEMMA FirstOfRest ==
  ASSUME NEW S, NEW v \in Seq(S), NEW rest \in Seq(S), NEW k \in 1..Len(rest), NEW r, r = SubSeq(rest, 1, k)
  PROVE  StartsBoth(S, v, rest, k, r)
<1>1. r \in Seq(S) /\ Len(r) = k /\ Len(rest) \in Nat /\ k <= Len(rest)
  OBVIOUS
<1>2. ASSUME NEW i \in 1..Len(r) PROVE r[i] = rest[i]
  BY <1>1
<1>3. Linked!IsPrefix(r, rest)
  BY <1>1, <1>2, PrefixByElements
<1> DEFINE b == SubSeq(rest, Len(r) + 1, Len(rest))
<1>4. b \in Seq(S) /\ Splits(r, rest, b)
  BY <1>1, <1>3, PathSplits
<1>5. rest = r \o b /\ b \in Seq(S)
  BY <1>4 DEF Splits
<1> HIDE DEF b
<1>6. v \o (r \o b) = (v \o r) \o b /\ v \o r \in Seq(S)
  BY <1>1, <1>5
<1>7. Linked!IsPrefix(v \o r, (v \o r) \o b)
  BY <1>5, <1>6, PrefixOfBoth
<1> QED BY <1>1, <1>5, <1>6, <1>7 DEF StartsBoth

LEMMA PrefixOfFile ==
  ASSUME NEW S, NEW p \in Seq(S), NEW q \in Seq(S), NEW x
  PROVE  Linked!IsStrictPrefix(p, Append(p \o q, x))
<1> DEFINE T == S \cup {x}
<1>1. p \in Seq(T) /\ q \in Seq(T) /\ x \in T
  OBVIOUS
<1> HIDE DEF T
<1> DEFINE a == Append(q, x)
<1>2. a \in Seq(T) /\ p \o a = Append(p \o q, x)
  BY <1>1, AppendedBehind
<1>3. Len(a) \in Nat \ {0}
  <2>1. Len(a) = Len(q) + 1 /\ Len(q) \in Nat
    BY <1>1
  <2> QED BY <2>1
<1> HIDE DEF a
<1>4. Linked!IsPrefix(p, p \o a)
  BY <1>1, <1>2, PrefixOfBoth
<1>5. p # p \o a
  <2>1. Len(p \o a) = Len(p) + Len(a) /\ Len(p) \in Nat
    BY <1>1, <1>2
  <2> QED BY <1>3, <2>1
<1> QED BY <1>2, <1>4, <1>5 DEF Linked!IsStrictPrefix

(* A path that goes through a link to a manifest.                          *)
Behind(map, path) == Opens(map, path).read # <<>> /\ Opens(map, path).at \in MemberDirs
Unvendored(map, path) ==
  \A t \in Linked!ToSet(Opens(map, path).read) : ~Linked!Contains(t[1], Linked!NodeModules)

(* From an opened directory such a path goes plainly to the manifest, or   *)
(* through a link below the directory that is followed.                    *)
Arrives(map, v, target, trace, path) ==
  /\ Opens(map, path).read = trace /\ Linked!IsPrefix(target, Opens(map, path).at)
  /\ path = v \o SubSeq(Opens(map, path).at, Len(target) + 1, Len(Opens(map, path).at))
LeadsFurther(s, map, v, target, trace, new, path) ==
  /\ Linked!ListedDirectory(s, target)
  /\ Arrives(map, v, target, trace, path) \/ Awaits(new, path)

LEMMA OnFromHere ==
  ASSUME NEW s, NEW map, map = links[s], Linked!IsLinkMap(map), NEW v \in Linked!Way, NEW target \in Linked!Way,
         NEW trace \in Linked!Traces, Opens(map, v) = Linked!Going(target, <<>>, trace), NEW reals \in Seq(Linked!Way),
         NEW new, new = Linked!Frames(s, v, target, trace, reals),
         NEW path \in Linked!Way, Undotted(path), Behind(map, path), Unvendored(map, path), Linked!IsPrefix(v, path)
  PROVE  LeadsFurther(s, map, v, target, trace, new, path)
<1> DEFINE rest == SubSeq(path, Len(v) + 1, Len(path))
           o == Opens(map, path)
<1>1. rest \in Seq(STRING) /\ Splits(v, path, rest)
  BY PathSplits, WayIs
<1> HIDE DEF rest
<1>2. path = v \o rest /\ rest \in Linked!Way
  BY <1>1, WayIs DEF Splits
<1>3. o = Linked!Walked(map, Linked!Going(target, rest, trace))
  BY <1>2, OpensBelow
<1>4. o.at \in MemberDirs /\ o.at \in Linked!Way /\ o.at # Nowhere
  <2>1. o.at \in MemberDirs
    BY DEF Behind
  <2> QED BY <2>1, NamedPlainly, HopsTyped
<1>5. Undotted(rest)
  BY <1>1 DEF Undotted, Splits
<1>6. o.read \in Linked!Traces
  BY OpensTyped
<1> HIDE DEF o
<1>7. CASE o = Linked!Going(target \o rest, <<>>, trace)
  <2>1. o.at = target \o rest /\ o.read = trace
    BY <1>7 DEF Linked!Going
  <2>2. target \in Seq(STRING) /\ rest \in Seq(STRING)
    BY <1>1, WayIs
  <2>3. SubSeq(o.at, Len(target) + 1, Len(o.at)) = rest /\ Linked!IsPrefix(target, o.at)
    BY <2>1, <2>2, RestOfBoth
  <2>4. Arrives(map, v, target, trace, path)
    BY <1>2, <2>1, <2>3 DEF Arrives, o
  <2>5. Linked!IsStrictPrefix(target, Append(o.at, "package.json"))
    BY <2>1, <2>2, PrefixOfFile
  <2>6. Linked!ListedDirectory(s, target)
    BY <1>4, <2>5 DEF Linked!ListedDirectory
  <2> QED BY <2>4, <2>6 DEF LeadsFurther
<1>8. CASE \E k \in 1..Len(rest) : /\ target \o SubSeq(rest, 1, k) \in DOMAIN map
                                   /\ \E i \in 1..Len(o.read) : o.read[i][1] = target \o SubSeq(rest, 1, k)
  <2>1. PICK k \in 1..Len(rest) : /\ target \o SubSeq(rest, 1, k) \in DOMAIN map
                                  /\ \E i \in 1..Len(o.read) : o.read[i][1] = target \o SubSeq(rest, 1, k)
    BY <1>8
  <2>2. PICK i \in 1..Len(o.read) : o.read[i][1] = target \o SubSeq(rest, 1, k)
    BY <2>1
  <2> DEFINE r == SubSeq(rest, 1, k)  l == target \o r
  <2>3. l \in DOMAIN map /\ o.read[i][1] = l
    BY <2>1, <2>2
  <2>4. l \in Followed(map)
    <3>1. o.read[i] \in Linked!ToSet(o.read)
      BY <1>6, TracesOf DEF Linked!ToSet
    <3> QED BY <2>3, <3>1 DEF Unvendored, Followed, o
  <2>5. v \in Seq(STRING) /\ target \in Seq(STRING) /\ rest \in Seq(STRING)
    BY <1>1, WayIs
  <2>6. r \in Seq(STRING) /\ Len(r) = k /\ Linked!IsPrefix(v \o r, path)
    <3>1. StartsBoth(STRING, v, rest, k, r)
      BY <2>5, FirstOfRest
    <3> QED BY <1>2, <3>1 DEF StartsBoth
  <2> HIDE DEF r
  <2>7. SubSeq(l, Len(target) + 1, Len(l)) = r /\ Linked!IsPrefix(target, l)
    BY <2>5, <2>6, RestOfBoth
  <2>8. target # l
    <3>1. BothLong(target, r)
      BY <2>5, <2>6, LengthOfBoth
    <3>2. Len(target \o r) # Len(target)
      BY <2>6, <3>1 DEF BothLong
    <3> QED BY <3>2
  <2>9. Linked!IsStrictPrefix(target, l)
    BY <2>7, <2>8 DEF Linked!IsStrictPrefix
  <2> HIDE DEF l
  <2>10. FrameOf(v, target, trace, reals, l) \in Entries(new)
    <3>1. Entries(new) = {FrameOf(v, target, trace, reals, j) : j \in {j \in Followed(map) : Linked!IsStrictPrefix(target, j)}}
      BY FramesAre
    <3> QED BY <2>4, <2>9, <3>1
  <2>11. FrameOf(v, target, trace, reals, l).virtual = v \o r
    BY <2>7 DEF FrameOf
  <2>12. Awaits(new, path)
    BY <2>6, <2>10, <2>11 DEF Awaits
  <2>13. Linked!ListedDirectory(s, target)
    BY <2>3, <2>9 DEF Linked!ListedDirectory
  <2> QED BY <2>12, <2>13 DEF LeadsFurther
<1>9. \/ o = Linked!Going(target \o rest, <<>>, trace)
      \/ \E k \in 1..Len(rest) : /\ target \o SubSeq(rest, 1, k) \in DOMAIN map
                                 /\ \E i \in 1..Len(o.read) : o.read[i][1] = target \o SubSeq(rest, 1, k)
  <2>1. MeetsLink(map, target, rest, trace, o)
    BY <1>2, <1>3, <1>4, <1>5, FirstLink
  <2> QED BY <2>1 DEF MeetsLink
<1> QED BY <1>7, <1>8, <1>9

------------------------------------------------------------------------------
(* The walk of the links of a side, input by input.                        *)

LEMMA SameBeginning ==
  ASSUME NEW S, NEW v \in Seq(S), NEW path \in Seq(S), Linked!IsPrefix(v, path), NEW j \in 1..Len(v)
  PROVE  SubSeq(path, 1, j) = SubSeq(v, 1, j) /\ SubSeq(path, 1, Len(v)) = v /\ Len(v) <= Len(path)
<1>1. Splits(v, path, SubSeq(path, Len(v) + 1, Len(path)))
  BY PathSplits
<1>2. /\ Len(v) \in Nat /\ Len(path) \in Nat /\ Len(v) <= Len(path) /\ SubSeq(path, 1, Len(v)) = v
      /\ \A i \in 1..Len(v) : v[i] = path[i]
  BY <1>1 DEF Splits
<1>3. j \in Nat /\ j <= Len(v) /\ j <= Len(path) /\ \A i \in 1..j : i \in 1..Len(v)
  BY <1>2
<1>4. SubSeq(path, 1, j) \in Seq(S) /\ Len(SubSeq(path, 1, j)) = j
  BY <1>3
<1>5. SubSeq(v, 1, j) \in Seq(S) /\ Len(SubSeq(v, 1, j)) = j
  BY <1>3
<1>6. ASSUME NEW i \in 1..j PROVE SubSeq(path, 1, j)[i] = SubSeq(v, 1, j)[i]
  <2>1. SubSeq(path, 1, j)[i] = path[i]
    BY <1>3
  <2>2. SubSeq(v, 1, j)[i] = v[i]
    BY <1>3
  <2> QED BY <1>2, <1>3, <2>1, <2>2
<1>7. SubSeq(path, 1, j) = SubSeq(v, 1, j)
  BY <1>4, <1>5, <1>6, SameSequence
<1> QED BY <1>2, <1>7

(* A path that enters a directory it is already inside of.                 *)
GoesRound(map, path) ==
  \E j \in 2..Len(path) : \E i \in 1..j - 1 :
    /\ Enters(map, SubSeq(path, 1, i)) /\ Enters(map, SubSeq(path, 1, j))
    /\ Linked!IsPrefix(Opens(map, SubSeq(path, 1, j)).at, Opens(map, SubSeq(path, 1, i)).at)

(* What a visited frame leads to.                                          *)
Visited(map, f, target, trace) ==
  Opens(map, f.virtual) = Linked!Going(target, <<>>, trace) /\ Len(trace) > Len(f.chain)

LEMMA VisitEnters ==
  ASSUME NEW map, NEW f \in LinkFrames, SoundFrame(map, f), NEW target \in Linked!Way, NEW trace \in Linked!Traces,
         Visited(map, f, target, trace)
  PROVE  /\ Len(f.virtual) \in Nat \ {0} /\ Enters(map, f.virtual)
         /\ Append(f.reals, target) \in Seq(Linked!Way)
         /\ Entered(map, f.virtual, Len(f.virtual), Append(f.reals, target))
<1> DEFINE v == f.virtual  reals == f.reals  all == Append(reals, target)
<1>1. v \in Seq(STRING) /\ v # <<>> /\ reals \in Seq(Linked!Way)
  BY WayIs DEF LinkFrames, SoundFrame
<1>2. Len(v) \in Nat \ {0}
  BY <1>1, HeadAndTail
<1>3. Opens(map, v).read = trace /\ Opens(map, v).at = target /\ Opens(map, Linked!Front(v)).read = f.chain
  BY GoingIs DEF SoundFrame, Visited
<1>4. Enters(map, v)
  BY <1>3 DEF Visited, Enters
<1>5. Entered(map, v, Len(v) - 1, reals)
  BY DEF SoundFrame
<1> HIDE DEF v, reals
<1>6. /\ all \in Seq(Linked!Way) /\ Len(all) = Len(reals) + 1 /\ Len(reals) \in Nat /\ all[Len(reals) + 1] = target
      /\ \A k \in 1..Len(reals) : all[k] = reals[k]
  BY <1>1
<1> HIDE DEF all
<1>7. ASSUME NEW k \in 1..Len(all) PROVE \E j \in 1..Len(v) : EntersAt(map, v, j, all[k])
  <2>1. CASE k \in 1..Len(reals)
    <3>1. PICK j \in 1..Len(v) - 1 : EntersAt(map, v, j, reals[k])
      BY <1>5, <2>1 DEF Entered
    <3>2. j \in 1..Len(v) /\ all[k] = reals[k]
      BY <1>2, <1>6, <2>1
    <3> QED BY <3>1, <3>2
  <2>2. CASE k \notin 1..Len(reals)
    <3>1. k = Len(reals) + 1
      BY <1>6, <2>2
    <3>2. SubSeq(v, 1, Len(v)) = v /\ Len(v) \in 1..Len(v)
      BY <1>1, <1>2
    <3>3. EntersAt(map, v, Len(v), target)
      BY <1>3, <1>4, <3>2 DEF EntersAt
    <3> QED BY <1>6, <3>1, <3>2, <3>3
  <2> QED BY <2>1, <2>2
<1>8. Entered(map, v, Len(v), all)
  BY <1>7 DEF Entered
<1> QED BY <1>2, <1>4, <1>6, <1>8 DEF v, reals, all

LEMMA VisitGoesRound ==
  ASSUME NEW map, NEW f \in LinkFrames, SoundFrame(map, f), NEW target \in Linked!Way, NEW trace \in Linked!Traces,
         Visited(map, f, target, trace), NEW k \in 1..Len(f.reals), Linked!IsPrefix(target, f.reals[k]),
         NEW path \in Linked!Way, Linked!IsPrefix(f.virtual, path)
  PROVE  GoesRound(map, path)
<1> DEFINE v == f.virtual
<1>1. v \in Seq(STRING) /\ path \in Seq(STRING)
  BY WayIs DEF LinkFrames
<1>2. Len(v) \in Nat \ {0} /\ Enters(map, v)
  BY VisitEnters
<1>3. Opens(map, v).at = target
  BY GoingIs DEF Visited
<1>4. PICK i \in 1..Len(v) - 1 : EntersAt(map, v, i, f.reals[k])
  BY DEF SoundFrame, Entered
<1>5. Linked!IsPrefix(v, path)
  OBVIOUS
<1> HIDE DEF v
<1> DEFINE j == Len(v)
<1>6. i \in 1..j /\ j \in 1..j /\ j \in Nat /\ j >= 2
  BY <1>2, <1>4
<1>7. SubSeq(path, 1, i) = SubSeq(v, 1, i) /\ SubSeq(path, 1, j) = v /\ j <= Len(path)
  BY <1>1, <1>5, <1>6, SameBeginning
<1>8. Len(path) \in Nat
  BY <1>1
<1>9. j \in 2..Len(path) /\ i \in 1..j - 1
  BY <1>4, <1>6, <1>7, <1>8
<1>10. Enters(map, SubSeq(path, 1, i)) /\ Opens(map, SubSeq(path, 1, i)).at = f.reals[k]
  BY <1>4, <1>7 DEF EntersAt
<1>11. Enters(map, SubSeq(path, 1, j)) /\ Opens(map, SubSeq(path, 1, j)).at = target
  BY <1>2, <1>3, <1>7
<1> HIDE DEF j
<1> QED BY <1>9, <1>10, <1>11 DEF GoesRound

(* The reasons a walk leaves.                                              *)
MemberIn(R, m, i, path) == \E k : <<m, <<"member", i, path, k>>>> \in R
FanOutIn(R, m, i, s) == \E p : <<m, <<"fan-out", i, p, s>>>> \in R
UnfollowedIn(R, m, i) == \E v, p, k : <<m, <<"unfollowed", i, v, p, k>>>> \in R

Answered(map, s, R, i, path) ==
  \/ MemberIn(R, Opens(map, path).at, i, path)
  \/ FanOutIn(R, Opens(map, path).at, i, s)
  \/ GoesRound(map, path) /\ UnfollowedIn(R, Opens(map, path).at, i)

SoundReason(map, s, r) ==
  \/ \E m, i, p, k : r = <<m, <<"member", i, p, k>>>> /\ Opens(map, p).at = m
  \/ \E m, i, p : r = <<m, <<"fan-out", i, p, s>>>>
  \/ \E m, i, v, p, k : r = <<m, <<"unfollowed", i, v, p, k>>>>

LEMMA StaysAnswered ==
  ASSUME NEW map, NEW s, NEW R, NEW T, R \subseteq T, NEW i, NEW path, Answered(map, s, R, i, path)
  PROVE  Answered(map, s, T, i, path)
<1>1. CASE MemberIn(R, Opens(map, path).at, i, path)
  BY <1>1 DEF Answered, MemberIn
<1>2. CASE FanOutIn(R, Opens(map, path).at, i, s)
  BY <1>2 DEF Answered, FanOutIn
<1>3. CASE GoesRound(map, path) /\ UnfollowedIn(R, Opens(map, path).at, i)
  <2>1. UnfollowedIn(T, Opens(map, path).at, i)
    BY <1>3 DEF UnfollowedIn
  <2> QED BY <1>3, <2>1 DEF Answered
<1> QED BY <1>1, <1>2, <1>3 DEF Answered

Sought(map, p, path) ==
  Undotted(path) /\ Linked!Covered(p, path) /\ Behind(map, path) /\ Unvendored(map, path)

(* The input whose walk is over.                                           *)
Gone(s, i) == (s = marked /\ i < input) \/ (s = "reference" /\ marked = "judged")

LinksTyped ==
  /\ \A s \in Linked!Sides : Linked!IsLinkMap(links[s])
  /\ inputs \in PatternSets /\ marked \in Linked!Sides /\ input \in 1..Len(inputs)
  /\ stack \in Seq(LinkFrames) /\ DOMAIN reasons = Linked!Sides
LinksSound == \A f \in Entries(stack) : SoundFrame(links[marked], f)
ReasonsSound == \A s \in Linked!Sides : \A r \in reasons[s] : SoundReason(links[s], s, r)
LinksCovered ==
  \A s \in Linked!Sides, i \in 1..Len(inputs), path \in Linked!Way : Sought(links[s], inputs[i], path) =>
    /\ Gone(s, i) => Answered(links[s], s, reasons[s], i, path)
    /\ s = marked /\ i = input => Answered(links[s], s, reasons[s], i, path) \/ Awaits(stack, path)

LEMMA LinkConstants ==
  ASSUME NEW q \in PatternSets
  PROVE  /\ Len(q) \in Nat \ {0}
         /\ \A i \in 1..Len(q) : q[i] \in [under : Linked!Way, depths : SUBSET Nat, any : BOOLEAN]
<1> DEFINE S == [under : Linked!Way, depths : SUBSET Nat, any : BOOLEAN]
<1>1. q \in Seq(S) \ {<<>>}
  BY WalksAssumption DEF Linked!SymlinkedMembersConstants
<1> HIDE DEF S
<1>2. Len(q) \in Nat \ {0}
  BY <1>1, HeadAndTail
<1>3. \A i \in 1..Len(q) : q[i] \in S
  BY <1>1
<1> QED BY <1>2, <1>3 DEF S

LEMMA TopOfStack ==
  ASSUME NEW q \in Seq(LinkFrames), q # <<>>
  PROVE  /\ Linked!Front(q) \in Seq(LinkFrames) /\ Linked!Last(q) \in LinkFrames
         /\ Entries(q) = Entries(Linked!Front(q)) \cup {Linked!Last(q)}
<1>1. /\ Workspace!Front(q) \in Seq(LinkFrames) /\ Workspace!Last(q) \in LinkFrames
      /\ Entries(q) = Entries(Workspace!Front(q)) \cup {Workspace!Last(q)}
  BY StackOf
<1>2. Linked!Front(q) = Workspace!Front(q) /\ Linked!Last(q) = Workspace!Last(q)
  BY DEF Linked!Front, Workspace!Front, Linked!Last, Workspace!Last
<1> QED BY <1>1, <1>2

LEMMA ReversedFrames ==
  ASSUME NEW q \in Seq(LinkFrames)
  PROVE  Linked!Reverse(q) \in Seq(LinkFrames) /\ Entries(Linked!Reverse(q)) = Entries(q)
<1>1. Workspace!Reverse(q) \in Seq(LinkFrames) /\ Entries(Workspace!Reverse(q)) = Entries(q)
  BY EntriesOfReverse
<1>2. Linked!Reverse(q) = Workspace!Reverse(q)
  BY DEF Linked!Reverse, Workspace!Reverse
<1> QED BY <1>1, <1>2

LEMMA ReasonsAdded ==
  ASSUME LinksTyped, NEW R, Linked!Add(R)
  PROVE  /\ DOMAIN reasons' = Linked!Sides /\ reasons'[marked] = reasons[marked] \cup R
         /\ \A s \in Linked!Sides : s # marked => reasons'[s] = reasons[s]
         /\ \A s \in Linked!Sides : reasons[s] \subseteq reasons'[s]
<1>1. reasons' = [reasons EXCEPT ![marked] = reasons[marked] \cup R]
  BY DEF Linked!Add
<1>2. DOMAIN reasons = Linked!Sides /\ marked \in Linked!Sides
  BY DEF LinksTyped
<1>3. DOMAIN reasons' = Linked!Sides /\ reasons'[marked] = reasons[marked] \cup R
  BY <1>1, <1>2
<1>4. \A s \in Linked!Sides : s # marked => reasons'[s] = reasons[s]
  BY <1>1, <1>2
<1>5. ASSUME NEW s \in Linked!Sides PROVE reasons[s] \subseteq reasons'[s]
  BY <1>3, <1>4
<1> QED BY <1>3, <1>4, <1>5

(* What is left is answered or still awaited, if that is so of the paths   *)
(* that were awaited.                                                      *)
LEMMA CoverageKept ==
  ASSUME LinksTyped, LinksCovered, links' = links, inputs' = inputs, marked' = marked, input' = input,
         \A s \in Linked!Sides : reasons[s] \subseteq reasons'[s],
         \A path \in Linked!Way : Sought(links[marked], inputs[input], path) /\ Awaits(stack, path)
           => Answered(links[marked], marked, reasons'[marked], input, path) \/ Awaits(stack', path)
  PROVE  LinksCovered'
<1> SUFFICES ASSUME NEW s \in Linked!Sides, NEW i \in 1..Len(inputs), NEW path \in Linked!Way,
                    Sought(links[s], inputs[i], path)
             PROVE  /\ Gone(s, i) => Answered(links[s], s, reasons'[s], i, path)
                    /\ s = marked /\ i = input =>
                         Answered(links[s], s, reasons'[s], i, path) \/ Awaits(stack', path)
  BY DEF LinksCovered, Gone
<1>1. Answered(links[s], s, reasons[s], i, path) => Answered(links[s], s, reasons'[s], i, path)
  <2>1. reasons[s] \subseteq reasons'[s]
    OBVIOUS
  <2> DEFINE map == links[s]  R == reasons[s]  T == reasons'[s]
  <2>2. R \subseteq T
    BY <2>1
  <2> HIDE DEF map, R, T
  <2>3. Answered(map, s, R, i, path) => Answered(map, s, T, i, path)
    BY <2>2, StaysAnswered
  <2> QED BY <2>3 DEF map, R, T
<1>2. /\ Gone(s, i) => Answered(links[s], s, reasons[s], i, path)
      /\ s = marked /\ i = input => Answered(links[s], s, reasons[s], i, path) \/ Awaits(stack, path)
  BY DEF LinksCovered
<1> QED BY <1>1, <1>2

LinksInv == LinksTyped /\ LinksSound /\ ReasonsSound /\ LinksCovered

LEMMA NothingAwaited ==
  ASSUME NEW path
  PROVE  ~Awaits(<<>>, path)
BY DEF Awaits, Entries

(* A walk starts at the root, with the links of the side.                  *)
Starts(map, new) ==
  /\ Linked!Reverse(new) \in Seq(LinkFrames)
  /\ \A f \in Entries(Linked!Reverse(new)) : SoundFrame(map, f)
  /\ \A path \in Linked!Way : \A p : Sought(map, p, path) => Awaits(Linked!Reverse(new), path)

LEMMA WalkStarts ==
  ASSUME NEW s, NEW map, map = links[s], Linked!IsLinkMap(map),
         NEW new, new = Linked!Frames(s, <<>>, <<>>, <<>>, <<>>)
  PROVE  Starts(map, new)
<1>1. <<>> \in Linked!Way /\ <<>> \in Linked!Traces /\ <<>> \in Seq(Linked!Way)
  BY WayIs, TracesAre
<1>2. Opens(map, <<>>) = Linked!Going(<<>>, <<>>, <<>>)
  BY <1>1, WalkedHere DEF Opens
<1>3. Entered(map, <<>>, Len(<<>>), <<>>)
  <2>1. 1..Len(<<>>) = {}
    OBVIOUS
  <2> QED BY <2>1 DEF Entered
<1>4. new \in Seq(LinkFrames) /\ \A f \in Entries(new) : SoundFrame(map, f)
  BY <1>1, <1>2, <1>3, NewFrames
<1>5. Linked!Reverse(new) \in Seq(LinkFrames) /\ Entries(Linked!Reverse(new)) = Entries(new)
  BY <1>4, ReversedFrames
<1>6. ASSUME NEW path \in Linked!Way, NEW p, Sought(map, p, path) PROVE Awaits(new, path)
  <2>1. Linked!IsPrefix(<<>>, path)
    <3>1. path \in Seq(STRING) /\ <<>> \in Seq(STRING)
      BY WayIs
    <3>2. Len(<<>>) <= Len(path) /\ 1..Len(<<>>) = {}
      BY <3>1
    <3> QED BY <3>1, <3>2, PrefixByElements
  <2>2. Undotted(path) /\ Behind(map, path) /\ Unvendored(map, path)
    BY <1>6 DEF Sought
  <2>3. LeadsFurther(s, map, <<>>, <<>>, <<>>, new, path)
    BY <1>1, <1>2, <2>1, <2>2, OnFromHere
  <2>4. ~Arrives(map, <<>>, <<>>, <<>>, path)
    BY <2>2 DEF Arrives, Behind
  <2> QED BY <2>3, <2>4 DEF LeadsFurther
<1>7. \A path \in Linked!Way : \A p : Sought(map, p, path) => Awaits(Linked!Reverse(new), path)
  BY <1>5, <1>6 DEF Awaits
<1> QED BY <1>4, <1>5, <1>7 DEF Starts

LEMMA LinksInvInit == Linked!Init => LinksInv
<1> SUFFICES ASSUME Linked!Init PROVE LinksInv
  OBVIOUS
<1> DEFINE map == links["reference"]
           new == Linked!Frames("reference", <<>>, <<>>, <<>>, <<>>)
<1>1. marked = "reference" /\ input = 1 /\ stack = Linked!Reverse(new) /\ inputs \in PatternSets
  BY DEF Linked!Init
<1>2. \A s \in Linked!Sides : Linked!IsLinkMap(links[s])
  <2>1. PICK p \in LinkPairs : links = [reference |-> p[1], judged |-> p[2]]
    BY DEF Linked!Init
  <2>2. links["reference"] = p[1] /\ links["judged"] = p[2]
    BY <2>1
  <2>3. Linked!IsLinkMap(p[1]) /\ Linked!IsLinkMap(p[2])
    BY WalksAssumption DEF Linked!SymlinkedMembersConstants
  <2> QED BY <2>2, <2>3 DEF Linked!Sides
<1>3. "reference" \in Linked!Sides
  BY DEF Linked!Sides
<1>4. Starts(map, new)
  BY <1>2, <1>3, WalkStarts
<1> HIDE DEF new
<1>5. DOMAIN reasons = Linked!Sides /\ \A s \in Linked!Sides : reasons[s] = {}
  BY DEF Linked!Init
<1>6. LinksTyped
  <2>1. 1 \in 1..Len(inputs)
    BY <1>1, LinkConstants
  <2> QED BY <1>1, <1>2, <1>3, <1>4, <1>5, <2>1 DEF LinksTyped, Starts
<1>7. LinksSound
  BY <1>1, <1>4 DEF LinksSound, Starts
<1>8. ReasonsSound
  BY <1>5 DEF ReasonsSound
<1>9. LinksCovered
  <2>1. ASSUME NEW s \in Linked!Sides, NEW i \in 1..Len(inputs) PROVE ~Gone(s, i)
    <3>1. ~(i < 1)
      BY <1>1, LinkConstants
    <3> QED BY <1>1, <3>1 DEF Gone
  <2>2. ASSUME NEW path \in Linked!Way, Sought(links[marked], inputs[input], path) PROVE Awaits(stack, path)
    BY <1>1, <1>4, <2>2 DEF Starts
  <2> QED BY <2>1, <2>2 DEF LinksCovered
<1> QED BY <1>6, <1>7, <1>8, <1>9 DEF LinksInv

LEMMA PassKeepsLinks == LinksInv /\ Linked!Pass => LinksInv'
<1> SUFFICES ASSUME LinksInv, Linked!Pass PROVE LinksInv'
  OBVIOUS
<1> USE DEF LinksInv
<1>1. /\ stack # <<>> /\ Linked!OffThePatterns(Linked!Last(stack)) /\ stack' = Linked!Front(stack)
      /\ links' = links /\ inputs' = inputs /\ marked' = marked /\ input' = input /\ reasons' = reasons
  BY DEF Linked!Pass
<1>2. /\ Linked!Front(stack) \in Seq(LinkFrames) /\ Linked!Last(stack) \in LinkFrames
      /\ Entries(stack) = Entries(Linked!Front(stack)) \cup {Linked!Last(stack)}
  BY <1>1, TopOfStack DEF LinksTyped
<1>3. LinksTyped'
  BY <1>1, <1>2 DEF LinksTyped
<1>4. LinksSound'
  BY <1>1, <1>2 DEF LinksSound
<1>5. ReasonsSound'
  BY <1>1 DEF ReasonsSound
<1>6. LinksCovered'
  <2>1. ASSUME NEW path \in Linked!Way, Sought(links[marked], inputs[input], path), Awaits(stack, path)
        PROVE  Awaits(stack', path)
    <3> DEFINE f == Linked!Last(stack)  p == inputs[input]
    <3>1. ~Linked!IsPrefix(f.virtual, path)
      <4> SUFFICES ASSUME Linked!IsPrefix(f.virtual, path) PROVE FALSE
        OBVIOUS
      <4>1. p \in [under : Linked!Way, depths : SUBSET Nat, any : BOOLEAN]
        BY LinkConstants DEF LinksTyped
      <4>2. f.virtual \in Linked!Way /\ f.virtual # <<>>
        BY <1>2 DEF LinksSound, SoundFrame, LinkFrames
      <4>3. Linked!Covered(p, path)
        BY <2>1 DEF Sought
      <4>4. ~Linked!Covered(p, f.virtual) /\ ~Linked!ReachesBelow(p, f.virtual)
        BY <1>1 DEF Linked!OffThePatterns, Linked!Patterns
      <4> HIDE DEF f, p
      <4> QED BY <4>1, <4>2, <4>3, <4>4, OnTheWay
    <3> QED BY <1>1, <1>2, <2>1, <3>1 DEF Awaits
  <2> QED BY <1>1, <2>1, CoverageKept
<1> QED BY <1>3, <1>4, <1>5, <1>6

LEMMA StopKeepsLinks == LinksInv /\ Linked!Stop => LinksInv'
<1> SUFFICES ASSUME LinksInv, Linked!Stop PROVE LinksInv'
  OBVIOUS
<1> USE DEF LinksInv
<1> DEFINE R == Linked!FanOut(marked)
<1>1. /\ stack # <<>> /\ stack' = <<>> /\ Linked!Add(R)
      /\ links' = links /\ inputs' = inputs /\ marked' = marked /\ input' = input
  BY DEF Linked!Stop
<1>2. R = {<<m, <<"fan-out", input, inputs[input], marked>>>> : m \in MemberDirs}
  BY DEF Linked!FanOut, Linked!FailClosed, Linked!Patterns
<1> HIDE DEF R
<1>3. /\ DOMAIN reasons' = Linked!Sides /\ reasons'[marked] = reasons[marked] \cup R
      /\ \A s \in Linked!Sides : s # marked => reasons'[s] = reasons[s]
      /\ \A s \in Linked!Sides : reasons[s] \subseteq reasons'[s]
  BY <1>1, ReasonsAdded
<1>4. LinksTyped'
  BY <1>1, <1>3 DEF LinksTyped
<1>5. LinksSound'
  BY <1>1 DEF LinksSound, Entries
<1>6. ReasonsSound'
  <2>1. ASSUME NEW r \in R PROVE SoundReason(links[marked], marked, r)
    BY <1>2, <2>1 DEF SoundReason
  <2>2. ASSUME NEW s \in Linked!Sides, NEW r \in reasons'[s] PROVE SoundReason(links[s], s, r)
    BY <1>3, <2>1, <2>2 DEF ReasonsSound
  <2> QED BY <1>1, <2>2 DEF ReasonsSound
<1>7. LinksCovered'
  <2>1. ASSUME NEW path \in Linked!Way, Sought(links[marked], inputs[input], path)
        PROVE  Answered(links[marked], marked, reasons'[marked], input, path)
    <3> DEFINE m == Opens(links[marked], path).at
    <3>1. m \in MemberDirs
      BY <2>1 DEF Sought, Behind
    <3>2. <<m, <<"fan-out", input, inputs[input], marked>>>> \in reasons'[marked]
      BY <1>2, <1>3, <3>1
    <3>3. FanOutIn(reasons'[marked], m, input, marked)
      BY <3>2 DEF FanOutIn
    <3> QED BY <3>3 DEF Answered
  <2> QED BY <1>1, <1>3, <2>1, CoverageKept
<1> QED BY <1>4, <1>5, <1>6, <1>7

(* With nothing left to visit, everything sought is answered.              *)
LEMMA InputAnswered ==
  ASSUME LinksInv, stack = <<>>
  PROVE  \A path \in Linked!Way : Sought(links[marked], inputs[input], path)
           => Answered(links[marked], marked, reasons[marked], input, path)
BY NothingAwaited DEF LinksInv, LinksCovered, LinksTyped

LEMMA NextInputKeepsLinks == LinksInv /\ Linked!NextInput => LinksInv'
<1> SUFFICES ASSUME LinksInv, Linked!NextInput PROVE LinksInv'
  OBVIOUS
<1> DEFINE map == links[marked]
           new == Linked!Frames(marked, <<>>, <<>>, <<>>, <<>>)
<1>1. /\ stack = <<>> /\ input < Len(inputs) /\ input' = input + 1 /\ stack' = Linked!Reverse(new)
      /\ links' = links /\ inputs' = inputs /\ marked' = marked /\ reasons' = reasons
  BY DEF Linked!NextInput
<1>2. Linked!IsLinkMap(map) /\ inputs \in PatternSets /\ input \in 1..Len(inputs) /\ Len(inputs) \in Nat \ {0}
  BY LinkConstants DEF LinksInv, LinksTyped
<1>3. Starts(map, new)
  BY <1>2, WalkStarts
<1> HIDE DEF new
<1>4. LinksTyped'
  <2>1. input + 1 \in 1..Len(inputs)
    BY <1>1, <1>2
  <2> QED BY <1>1, <1>3, <2>1 DEF LinksInv, LinksTyped, Starts
<1>5. LinksSound'
  BY <1>1, <1>3 DEF LinksSound, Starts
<1>6. ReasonsSound'
  BY <1>1 DEF LinksInv, ReasonsSound
<1>7. LinksCovered'
  <2> SUFFICES ASSUME NEW s \in Linked!Sides, NEW i \in 1..Len(inputs), NEW path \in Linked!Way,
                      Sought(links[s], inputs[i], path)
               PROVE  /\ Gone(s, i)' => Answered(links[s], s, reasons[s], i, path)
                      /\ s = marked /\ i = input' => Awaits(stack', path)
    BY <1>1 DEF LinksCovered
  <2>1. ASSUME Gone(s, i)' PROVE Answered(links[s], s, reasons[s], i, path)
    <3>1. Gone(s, i) \/ (s = marked /\ i = input)
      BY <1>1, <1>2, <2>1 DEF Gone
    <3>2. CASE Gone(s, i)
      BY <3>2 DEF LinksInv, LinksCovered
    <3>3. CASE s = marked /\ i = input
      BY <1>1, <3>3, InputAnswered
    <3> QED BY <3>1, <3>2, <3>3
  <2>2. ASSUME s = marked, i = input' PROVE Awaits(stack', path)
    BY <1>1, <1>3, <2>2 DEF Starts
  <2> QED BY <2>1, <2>2
<1> QED BY <1>4, <1>5, <1>6, <1>7 DEF LinksInv

LEMMA NextSideKeepsLinks == LinksInv /\ Linked!NextSide => LinksInv'
<1> SUFFICES ASSUME LinksInv, Linked!NextSide PROVE LinksInv'
  OBVIOUS
<1> DEFINE map == links["judged"]
           new == Linked!Frames("judged", <<>>, <<>>, <<>>, <<>>)
<1>1. /\ stack = <<>> /\ input = Len(inputs) /\ marked = "reference" /\ marked' = "judged" /\ input' = 1
      /\ stack' = Linked!Reverse(new) /\ links' = links /\ inputs' = inputs /\ reasons' = reasons
  BY DEF Linked!NextSide
<1>2. /\ "judged" \in Linked!Sides /\ Linked!IsLinkMap(map) /\ inputs \in PatternSets /\ Len(inputs) \in Nat \ {0}
      /\ \A s \in Linked!Sides : s \in {"reference", "judged"}
  BY LinkConstants DEF LinksInv, LinksTyped, Linked!Sides
<1>3. Starts(map, new)
  BY <1>2, WalkStarts
<1> HIDE DEF new
<1>4. LinksTyped'
  <2>1. 1 \in 1..Len(inputs)
    BY <1>2
  <2> QED BY <1>1, <1>2, <1>3, <2>1 DEF LinksInv, LinksTyped, Starts
<1>5. LinksSound'
  BY <1>1, <1>3 DEF LinksSound, Starts
<1>6. ReasonsSound'
  BY <1>1 DEF LinksInv, ReasonsSound
<1>7. LinksCovered'
  <2> SUFFICES ASSUME NEW s \in Linked!Sides, NEW i \in 1..Len(inputs), NEW path \in Linked!Way,
                      Sought(links[s], inputs[i], path)
               PROVE  /\ Gone(s, i)' => Answered(links[s], s, reasons[s], i, path)
                      /\ s = "judged" /\ i = 1 => Awaits(stack', path)
    BY <1>1 DEF LinksCovered
  <2>1. ASSUME Gone(s, i)' PROVE Answered(links[s], s, reasons[s], i, path)
    <3>1. Gone(s, i) \/ (s = marked /\ i = input)
      <4>1. ~(i < 1)
        OBVIOUS
      <4>2. s = marked
        BY <1>1, <2>1, <4>1 DEF Gone
      <4>3. i < Len(inputs) \/ i = Len(inputs)
        BY <1>2
      <4> QED BY <1>1, <4>2, <4>3 DEF Gone
    <3>2. CASE Gone(s, i)
      BY <3>2 DEF LinksInv, LinksCovered
    <3>3. CASE s = marked /\ i = input
      BY <1>1, <3>3, InputAnswered
    <3> QED BY <3>1, <3>2, <3>3
  <2>2. ASSUME s = "judged", i = 1 PROVE Awaits(stack', path)
    BY <1>1, <1>3, <2>2 DEF Starts
  <2> QED BY <2>1, <2>2
<1> QED BY <1>4, <1>5, <1>6, <1>7 DEF LinksInv

(* A visit, by what it finds behind the link.                              *)
Refused(f, trace, target) ==
  target = Nowhere \/ Len(trace) > HopLimit \/ \E i \in DOMAIN f.reals : Linked!IsPrefix(target, f.reals[i])
Visiting(f, trace, target) ==
  /\ stack # <<>>
  /\ links' = links /\ inputs' = inputs /\ marked' = marked /\ input' = input
  /\ Refused(f, trace, target) => Linked!Add(Linked!Unfollowed(f, trace)) /\ stack' = Linked!Front(stack)
  /\ ~Refused(f, trace, target) /\ ~Linked!ListedDirectory(marked, target)
       => stack' = Linked!Front(stack) /\ reasons' = reasons
  /\ ~Refused(f, trace, target) /\ Linked!ListedDirectory(marked, target)
       => /\ Linked!Add(Linked!MembersThrough(f, target, trace))
          /\ stack' = Linked!Front(stack)
                        \o Linked!Reverse(Linked!Frames(marked, f.virtual, target, trace, Append(f.reals, target)))

LEMMA VisitIs ==
  ASSUME Linked!Visit, NEW f, f = Linked!Last(stack), NEW w, w = Linked!WalkLink(marked, f.link)
  PROVE  Visiting(f, f.chain \o w.read, w.at)
BY DEF Linked!Visit, Visiting, Refused

(* Where the visited link leads, and what a path through it does there.    *)
VisitFinds(map, f, trace, target) ==
  /\ Opens(map, f.virtual).at # Nowhere
       => target # Nowhere /\ Opens(map, f.virtual) = Linked!Going(target, <<>>, trace) /\ ~(Len(trace) > HopLimit)
  /\ target # Nowhere /\ ~(Len(trace) > HopLimit)
       => target \in Linked!Way /\ trace \in Linked!Traces /\ Visited(map, f, target, trace)

LEMMA WhatVisitFinds ==
  ASSUME NEW s, NEW map, map = links[s], Linked!IsLinkMap(map), NEW f \in LinkFrames, SoundFrame(map, f),
         NEW w, w = Linked!WalkLink(s, f.link)
  PROVE  VisitFinds(map, f, f.chain \o w.read, w.at)
<1> DEFINE v == f.virtual  l == f.link  chain == f.chain
<1>1. v \in Linked!Way /\ v # <<>> /\ l \in DOMAIN map /\ chain \in Linked!Traces
  BY DEF LinkFrames, SoundFrame, Followed
<1>2. /\ Linked!Last(v) = Linked!Last(l)
      /\ Opens(map, Linked!Front(v)) = Linked!Going(Linked!Front(l), <<>>, chain)
  BY DEF SoundFrame
<1>3. w = Linked!Walked(map, Linked!Going(Linked!Front(l), <<Linked!Last(l)>>, <<>>))
  BY DEF Linked!WalkLink, Linked!Physical
<1> HIDE DEF v, l, chain
<1>4. Lands(map, v, chain, w)
  BY <1>1, <1>2, <1>3, VisitLands
<1> DEFINE trace == chain \o w.read
<1>5. ASSUME Opens(map, v).at # Nowhere
      PROVE  w.at # Nowhere /\ Opens(map, v) = Linked!Going(w.at, <<>>, trace) /\ ~(Len(trace) > HopLimit)
  <2>1. w.at # Nowhere /\ Opens(map, v) = Linked!Going(w.at, <<>>, trace)
    BY <1>4, <1>5 DEF Lands
  <2> HIDE DEF trace
  <2>2. Opens(map, v).read = trace
    BY <2>1, GoingIs
  <2>3. Len(trace) <= HopLimit /\ Len(trace) \in Nat
    BY <1>1, <2>2, OpensTyped, TracesAre
  <2> QED BY <2>1, <2>3, HopsTyped
<1>6. ASSUME w.at # Nowhere, ~(Len(trace) > HopLimit)
      PROVE  w.at \in Linked!Way /\ trace \in Linked!Traces /\ Opens(map, v) = Linked!Going(w.at, <<>>, trace)
             /\ Len(trace) > Len(chain)
  <2>1. w.at \in Linked!Way /\ trace \in Linked!Traces /\ Len(trace) > Len(chain)
    BY <1>4, <1>6 DEF Lands
  <2> HIDE DEF trace
  <2>2. Len(trace) <= HopLimit
    BY <1>6, <2>1, HopsTyped, TracesAre
  <2> QED BY <1>4, <1>6, <2>1, <2>2 DEF Lands, trace
<1> HIDE DEF trace
<1>7. VisitFinds(map, f, trace, w.at)
  BY <1>5, <1>6 DEF VisitFinds, Visited, v, chain
<1> QED BY <1>7 DEF trace, chain

(* A path that is behind the link opens it on the way.                     *)
LEMMA OpensOnTheWay ==
  ASSUME NEW map, Linked!IsLinkMap(map), NEW v \in Linked!Way, NEW path \in Linked!Way, Linked!IsPrefix(v, path),
         Behind(map, path)
  PROVE  Opens(map, v).at # Nowhere
<1> DEFINE rest == SubSeq(path, Len(v) + 1, Len(path))
<1>1. rest \in Seq(STRING) /\ Splits(v, path, rest)
  BY PathSplits, WayIs
<1> HIDE DEF rest
<1>2. path = v \o rest /\ rest \in Linked!Way
  BY <1>1, WayIs DEF Splits
<1>3. Opens(map, path).at \in MemberDirs
  BY DEF Behind
<1>4. Opens(map, path).at # Nowhere
  BY <1>3, NamedPlainly, HopsTyped
<1> QED BY <1>2, <1>4, OpensOn

LEMMA RefusalKeepsLinks ==
  ASSUME LinksInv, NEW f, f = Linked!Last(stack), NEW trace, NEW target, Visiting(f, trace, target),
         VisitFinds(links[marked], f, trace, target), Refused(f, trace, target)
  PROVE  LinksInv'
<1> USE DEF LinksInv
<1> DEFINE R == Linked!Unfollowed(f, trace)  k == Linked!TraceKey(marked, trace)  map == links[marked]
<1>1. /\ stack # <<>> /\ stack' = Linked!Front(stack) /\ Linked!Add(R)
      /\ links' = links /\ inputs' = inputs /\ marked' = marked /\ input' = input
  BY DEF Visiting
<1>2. R = {<<m, <<"unfollowed", input, f.virtual, inputs[input], k>>>> : m \in MemberDirs}
  BY DEF Linked!Unfollowed, Linked!FailClosed, Linked!Patterns
<1> HIDE DEF R, k
<1>3. /\ DOMAIN reasons' = Linked!Sides /\ reasons'[marked] = reasons[marked] \cup R
      /\ \A s \in Linked!Sides : s # marked => reasons'[s] = reasons[s]
      /\ \A s \in Linked!Sides : reasons[s] \subseteq reasons'[s]
  BY <1>1, ReasonsAdded
<1>4. /\ Linked!Front(stack) \in Seq(LinkFrames) /\ f \in LinkFrames
      /\ Entries(stack) = Entries(Linked!Front(stack)) \cup {f}
  BY <1>1, TopOfStack DEF LinksTyped
<1>5. LinksTyped'
  BY <1>1, <1>3, <1>4 DEF LinksTyped
<1>6. LinksSound' /\ SoundFrame(map, f) /\ Linked!IsLinkMap(map)
  BY <1>1, <1>4 DEF LinksSound, LinksTyped
<1>7. ReasonsSound'
  <2>1. ASSUME NEW r \in R PROVE SoundReason(links[marked], marked, r)
    BY <1>2, <2>1 DEF SoundReason
  <2>2. ASSUME NEW s \in Linked!Sides, NEW r \in reasons'[s] PROVE SoundReason(links[s], s, r)
    BY <1>3, <2>1, <2>2 DEF ReasonsSound
  <2> QED BY <1>1, <2>2 DEF ReasonsSound
<1>8. LinksCovered'
  <2>1. ASSUME NEW path \in Linked!Way, Sought(map, inputs[input], path), Linked!IsPrefix(f.virtual, path)
        PROVE  Answered(map, marked, reasons'[marked], input, path)
    <3>1. f.virtual \in Linked!Way /\ Behind(map, path)
      BY <1>4, <2>1 DEF LinkFrames, Sought
    <3>2. Opens(map, f.virtual).at # Nowhere
      BY <1>6, <2>1, <3>1, OpensOnTheWay
    <3>3. target # Nowhere /\ ~(Len(trace) > HopLimit)
      BY <3>2 DEF VisitFinds
    <3>4. target \in Linked!Way /\ trace \in Linked!Traces /\ Visited(map, f, target, trace)
      BY <3>3 DEF VisitFinds
    <3>5. PICK i \in DOMAIN f.reals : Linked!IsPrefix(target, f.reals[i])
      BY <3>3 DEF Refused
    <3>6. i \in 1..Len(f.reals)
      BY <1>4 DEF LinkFrames
    <3> HIDE DEF map
    <3>7. GoesRound(map, path)
      BY <1>4, <1>6, <2>1, <3>4, <3>5, <3>6, VisitGoesRound
    <3> DEFINE m == Opens(map, path).at
    <3>8. m \in MemberDirs
      BY <3>1 DEF Behind
    <3> HIDE DEF m
    <3>9. <<m, <<"unfollowed", input, f.virtual, inputs[input], k>>>> \in reasons'[marked]
      BY <1>2, <1>3, <3>8
    <3>10. UnfollowedIn(reasons'[marked], m, input)
      BY <3>9 DEF UnfollowedIn
    <3> QED BY <3>7, <3>10 DEF Answered, m
  <2>2. ASSUME NEW path \in Linked!Way, Sought(map, inputs[input], path), Awaits(stack, path)
        PROVE  Answered(map, marked, reasons'[marked], input, path) \/ Awaits(stack', path)
    <3>1. Linked!IsPrefix(f.virtual, path) \/ Awaits(stack', path)
      BY <1>1, <1>4, <2>2 DEF Awaits
    <3> QED BY <2>1, <2>2, <3>1
  <2> QED BY <1>1, <1>3, <2>2, CoverageKept
<1> QED BY <1>5, <1>6, <1>7, <1>8

LEMMA EmptyVisitKeepsLinks ==
  ASSUME LinksInv, NEW f, f = Linked!Last(stack), NEW trace, NEW target, Visiting(f, trace, target),
         VisitFinds(links[marked], f, trace, target), ~Refused(f, trace, target), ~Linked!ListedDirectory(marked, target)
  PROVE  LinksInv'
<1> USE DEF LinksInv
<1> DEFINE map == links[marked]
<1>1. /\ stack # <<>> /\ stack' = Linked!Front(stack) /\ reasons' = reasons
      /\ links' = links /\ inputs' = inputs /\ marked' = marked /\ input' = input
  BY DEF Visiting
<1>2. /\ Linked!Front(stack) \in Seq(LinkFrames) /\ f \in LinkFrames
      /\ Entries(stack) = Entries(Linked!Front(stack)) \cup {f}
  BY <1>1, TopOfStack DEF LinksTyped
<1>3. LinksTyped'
  BY <1>1, <1>2 DEF LinksTyped
<1>4. LinksSound' /\ SoundFrame(map, f) /\ Linked!IsLinkMap(map)
  BY <1>1, <1>2 DEF LinksSound, LinksTyped
<1>5. ReasonsSound'
  BY <1>1 DEF ReasonsSound
<1>6. target \in Linked!Way /\ trace \in Linked!Traces /\ Visited(map, f, target, trace)
  BY DEF VisitFinds, Refused
<1>7. ASSUME NEW path \in Linked!Way, Sought(map, inputs[input], path) PROVE ~Linked!IsPrefix(f.virtual, path)
  <2> SUFFICES ASSUME Linked!IsPrefix(f.virtual, path) PROVE FALSE
    OBVIOUS
  <2> DEFINE new == Linked!Frames(marked, f.virtual, target, trace, f.reals)
  <2>1. f.virtual \in Linked!Way /\ f.reals \in Seq(Linked!Way)
    BY <1>2 DEF LinkFrames
  <2>2. Undotted(path) /\ Behind(map, path) /\ Unvendored(map, path)
    BY <1>7 DEF Sought
  <2>3. Opens(map, f.virtual) = Linked!Going(target, <<>>, trace)
    BY <1>6 DEF Visited
  <2> HIDE DEF new
  <2>4. LeadsFurther(marked, map, f.virtual, target, trace, new, path)
    BY <1>4, <1>6, <2>1, <2>2, <2>3, OnFromHere DEF new
  <2> QED BY <2>4 DEF LeadsFurther
<1>8. LinksCovered'
  <2>1. ASSUME NEW path \in Linked!Way, Sought(map, inputs[input], path), Awaits(stack, path)
        PROVE  Awaits(stack', path)
    BY <1>1, <1>2, <1>7, <2>1 DEF Awaits
  <2> QED BY <1>1, <2>1, CoverageKept
<1> QED BY <1>3, <1>4, <1>5, <1>8

LEMMA MembersKeepLinks ==
  ASSUME LinksInv, NEW f, f = Linked!Last(stack), NEW trace, NEW target, Visiting(f, trace, target),
         VisitFinds(links[marked], f, trace, target), ~Refused(f, trace, target), Linked!ListedDirectory(marked, target)
  PROVE  LinksInv'
<1> USE DEF LinksInv
<1> DEFINE map == links[marked]  p == inputs[input]  v == f.virtual
           R == Linked!MembersThrough(f, target, trace)  key == Linked!TraceKey(marked, trace)
           through(m) == v \o SubSeq(m, Len(target) + 1, Len(m))
           all == Append(f.reals, target)
           new == Linked!Frames(marked, v, target, trace, all)
<1>1. /\ stack # <<>> /\ stack' = Linked!Front(stack) \o Linked!Reverse(new) /\ Linked!Add(R)
      /\ links' = links /\ inputs' = inputs /\ marked' = marked /\ input' = input
  BY DEF Visiting
<1>2. R = {<<m, <<"member", input, through(m), key>>>> :
             m \in {m \in MemberDirs : Linked!IsPrefix(target, m) /\ Linked!Covered(p, through(m))}}
  BY DEF Linked!MembersThrough, Linked!Patterns
<1> HIDE DEF R, key
<1>3. /\ DOMAIN reasons' = Linked!Sides /\ reasons'[marked] = reasons[marked] \cup R
      /\ \A s \in Linked!Sides : s # marked => reasons'[s] = reasons[s]
      /\ \A s \in Linked!Sides : reasons[s] \subseteq reasons'[s]
  BY <1>1, ReasonsAdded
<1>4. /\ Linked!Front(stack) \in Seq(LinkFrames) /\ f \in LinkFrames
      /\ Entries(stack) = Entries(Linked!Front(stack)) \cup {f}
  BY <1>1, TopOfStack DEF LinksTyped
<1>5. SoundFrame(map, f) /\ Linked!IsLinkMap(map) /\ \A g \in Entries(Linked!Front(stack)) : SoundFrame(map, g)
  BY <1>4 DEF LinksSound, LinksTyped
<1>6. target \in Linked!Way /\ trace \in Linked!Traces /\ Visited(map, f, target, trace)
  BY DEF VisitFinds, Refused
<1>7. v \in Linked!Way /\ Opens(map, v) = Linked!Going(target, <<>>, trace)
  BY <1>4, <1>6 DEF LinkFrames, Visited
<1>8. all \in Seq(Linked!Way) /\ Entered(map, v, Len(v), all)
  <2> HIDE DEF map
  <2> QED BY <1>4, <1>5, <1>6, VisitEnters
<1> HIDE DEF all
<1>9. new \in Seq(LinkFrames) /\ \A g \in Entries(new) : SoundFrame(map, g)
  BY <1>5, <1>6, <1>7, <1>8, NewFrames
<1> DEFINE reversed == Linked!Reverse(new)
<1>10. reversed \in Seq(LinkFrames) /\ Entries(reversed) = Entries(new)
  BY <1>9, ReversedFrames
<1>11. stack' \in Seq(LinkFrames) /\ Entries(stack') = Entries(Linked!Front(stack)) \cup Entries(new)
  <2> HIDE DEF reversed, new
  <2>1. Linked!Front(stack) \o reversed \in Seq(LinkFrames)
        /\ Entries(Linked!Front(stack) \o reversed) = Entries(Linked!Front(stack)) \cup Entries(reversed)
    BY <1>4, <1>10, EntriesOfBoth
  <2> QED BY <1>1, <1>10, <2>1 DEF reversed
<1> HIDE DEF new, reversed
<1>12. LinksTyped'
  BY <1>1, <1>3, <1>11 DEF LinksTyped
<1>13. LinksSound'
  BY <1>1, <1>5, <1>9, <1>11 DEF LinksSound
<1>14. ReasonsSound'
  <2>1. ASSUME NEW r \in R PROVE SoundReason(map, marked, r)
    <3>1. PICK m \in MemberDirs : Linked!IsPrefix(target, m) /\ r = <<m, <<"member", input, through(m), key>>>>
      BY <1>2, <2>1
    <3> DEFINE sub == SubSeq(m, Len(target) + 1, Len(m))
    <3> HIDE DEF v, map
    <3>2. Opens(map, v \o sub) = Linked!Going(m, <<>>, trace)
      <4>1. OpensManifest(map, v \o sub, m, trace)
        BY <1>5, <1>6, <1>7, <3>1, ManifestBelow
      <4> QED BY <4>1 DEF OpensManifest
    <3>3. Opens(map, through(m)).at = m
      BY <3>2, GoingIs
    <3> HIDE DEF through
    <3> QED BY <3>1, <3>3 DEF SoundReason
  <2>2. ASSUME NEW s \in Linked!Sides, NEW r \in reasons'[s] PROVE SoundReason(links[s], s, r)
    BY <1>3, <2>1, <2>2 DEF ReasonsSound
  <2> QED BY <1>1, <2>2 DEF ReasonsSound
<1>15. LinksCovered'
  <2>1. ASSUME NEW path \in Linked!Way, Sought(map, p, path), Linked!IsPrefix(v, path)
        PROVE  Answered(map, marked, reasons'[marked], input, path) \/ Awaits(new, path)
    <3>1. Undotted(path) /\ Behind(map, path) /\ Unvendored(map, path) /\ Linked!Covered(p, path)
      BY <2>1 DEF Sought
    <3>2. LeadsFurther(marked, map, v, target, trace, new, path)
      <4> HIDE DEF v
      <4> QED BY <1>5, <1>6, <1>7, <1>8, <2>1, <3>1, OnFromHere DEF new
    <3>3. CASE Arrives(map, v, target, trace, path)
      <4> DEFINE m == Opens(map, path).at
      <4>1. m \in MemberDirs /\ Linked!IsPrefix(target, m) /\ path = through(m)
        BY <3>1, <3>3 DEF Behind, Arrives
      <4> HIDE DEF m, through
      <4>2. <<m, <<"member", input, path, key>>>> \in R
        BY <1>2, <3>1, <4>1
      <4>3. MemberIn(reasons'[marked], m, input, path)
        BY <1>3, <4>2 DEF MemberIn
      <4> QED BY <4>3 DEF Answered, m
    <3> QED BY <3>2, <3>3 DEF LeadsFurther
  <2>2. ASSUME NEW path \in Linked!Way, Sought(map, p, path), Awaits(stack, path)
        PROVE  Answered(map, marked, reasons'[marked], input, path) \/ Awaits(stack', path)
    <3>1. Linked!IsPrefix(v, path) \/ Awaits(stack', path)
      BY <1>4, <1>11, <2>2 DEF Awaits
    <3>2. Awaits(new, path) => Awaits(stack', path)
      BY <1>11 DEF Awaits
    <3> QED BY <2>1, <2>2, <3>1, <3>2
  <2> QED BY <1>1, <1>3, <2>2, CoverageKept
<1> QED BY <1>12, <1>13, <1>14, <1>15

LEMMA VisitKeepsLinks == LinksInv /\ Linked!Visit => LinksInv'
<1> SUFFICES ASSUME LinksInv, Linked!Visit PROVE LinksInv'
  OBVIOUS
<1> DEFINE f == Linked!Last(stack)  w == Linked!WalkLink(marked, f.link)  trace == f.chain \o w.read  target == w.at
<1>1. Visiting(f, trace, target)
  BY VisitIs
<1>2. f \in LinkFrames /\ SoundFrame(links[marked], f) /\ Linked!IsLinkMap(links[marked])
  <2>1. stack # <<>> /\ stack \in Seq(LinkFrames)
    BY <1>1 DEF Visiting, LinksInv, LinksTyped
  <2>2. f \in LinkFrames /\ f \in Entries(stack)
    BY <2>1, TopOfStack
  <2> QED BY <2>2 DEF LinksInv, LinksTyped, LinksSound
<1>3. VisitFinds(links[marked], f, trace, target)
  BY <1>2, WhatVisitFinds
<1> HIDE DEF trace, target, w
<1>4. f = Linked!Last(stack)
  OBVIOUS
<1> HIDE DEF f
<1> QED BY <1>1, <1>3, <1>4, RefusalKeepsLinks, EmptyVisitKeepsLinks, MembersKeepLinks

LEMMA LinksInvStep == LinksInv /\ [Linked!Next]_(Linked!vars) => LinksInv'
<1> SUFFICES ASSUME LinksInv, [Linked!Next]_(Linked!vars) PROVE LinksInv'
  OBVIOUS
<1>1. CASE UNCHANGED Linked!vars
  BY <1>1 DEF Linked!vars, LinksInv, LinksTyped, LinksSound, ReasonsSound, LinksCovered, Gone
<1> QED BY <1>1, PassKeepsLinks, StopKeepsLinks, VisitKeepsLinks, NextInputKeepsLinks, NextSideKeepsLinks
        DEF Linked!Next

LinkSubject == subject = "members" => LinksInv

LEMMA LinkSubjectAlways == MCSpec => []LinkSubject
<1>1. MCInit => LinkSubject
  BY LinksInvInit DEF MCInit, LinkSubject
<1>2. LinkSubject /\ [MCNext]_<<subject, vars, readVars, globVars, patternVars, memberVars>>
        => LinkSubject'
  <2> SUFFICES ASSUME LinkSubject, subject' = "members",
                      [MCNext]_<<subject, vars, readVars, globVars, patternVars, memberVars>>
               PROVE  LinksInv'
    BY DEF LinkSubject
  <2>1. subject = "members" /\ [Linked!Next]_(Linked!vars)
    BY DEF MCNext, FilterStep, ReadStep, GlobStep, PatternStep, MemberStep, Rest,
           Linked!vars, memberVars
  <2> QED BY <2>1, LinksInvStep DEF LinkSubject
<1> QED BY <1>1, <1>2, PTL DEF MCSpec

LEMMA OpenedIs ==
  ASSUME NEW s, NEW path
  PROVE  /\ Linked!Opened(s, path) = Opens(links[s], path)
         /\ Linked!BehindLink(s, path) <=> Behind(links[s], path)
         /\ ~Linked!PastVendored(s, path) <=> Unvendored(links[s], path)
         /\ Linked!LoopsBack(s, path) <=> GoesRound(links[s], path)
<1>1. \A q : Linked!Opened(s, q) = Opens(links[s], q)
  BY DEF Linked!Opened, Linked!Physical, Opens
<1>2. Linked!BehindLink(s, path) <=> Behind(links[s], path)
  BY <1>1 DEF Linked!BehindLink, Behind
<1>3. ~Linked!PastVendored(s, path) <=> Unvendored(links[s], path)
  BY <1>1 DEF Linked!PastVendored, Unvendored
<1>4. \A q : Linked!EndsInLink(s, q) <=> Enters(links[s], q)
  BY <1>1 DEF Linked!EndsInLink, Enters
<1>5. Linked!LoopsBack(s, path) <=> GoesRound(links[s], path)
  BY <1>1, <1>4 DEF Linked!LoopsBack, GoesRound
<1> QED BY <1>1, <1>2, <1>3, <1>5

LEMMA VirtualPathsAre ==
  ASSUME LinksTyped, NEW path \in Linked!VirtualPaths
  PROVE  path \in Linked!Way /\ Undotted(path)
<1>1. PICK n \in 0..LongestPath : path \in [1..n -> Linked!Names]
  BY DEF Linked!VirtualPaths, Linked!BoundedSeq, Linked!SeqOf
<1>2. LongestPath \in Nat
  BY WalksAssumption DEF Linked!SymlinkedMembersConstants
<1>3. ASSUME NEW x \in Linked!Names PROVE x \in STRING /\ x \notin Linked!Dotted
  <2>1. PICK e \in MemberDirs \cup DOMAIN links["reference"] \cup DOMAIN links["judged"] : x \in Linked!ToSet(e)
    BY DEF Linked!Names
  <2>2. Linked!IsLinkMap(links["reference"]) /\ Linked!IsLinkMap(links["judged"])
    BY DEF LinksTyped, Linked!Sides
  <2>3. e \in Linked!Way /\ Undotted(e)
    BY <2>1, <2>2, NamedPlainly
  <2>4. PICK i \in 1..Len(e) : x = e[i]
    BY <2>1, <2>3 DEF Linked!ToSet, Linked!Way
  <2> QED BY <2>3, <2>4 DEF Undotted, Linked!Way
<1>4. path \in [1..n -> STRING] /\ n \in Nat
  BY <1>1, <1>2, <1>3
<1>5. path \in Seq(STRING) /\ Len(path) = n
  BY <1>4
<1>6. ASSUME NEW i \in 1..Len(path) PROVE path[i] \notin Linked!Dotted
  BY <1>1, <1>3, <1>5
<1> QED BY <1>5, <1>6, WayIs DEF Undotted

(* At the end every path sought is answered on its side.                   *)
LEMMA FinishedAnswers ==
  ASSUME LinksInv, Linked!Finished, NEW s \in Linked!Sides, NEW i \in DOMAIN inputs, NEW path \in Linked!VirtualPaths,
         Linked!Covered(inputs[i], path), Linked!BehindLink(s, path), ~Linked!PastVendored(s, path)
  PROVE  Answered(links[s], s, reasons[s], i, path)
<1>1. stack = <<>> /\ input = Len(inputs) /\ marked = "judged"
  BY DEF Linked!Finished
<1>2. inputs \in PatternSets /\ Len(inputs) \in Nat \ {0}
  BY LinkConstants DEF LinksInv, LinksTyped
<1>3. i \in 1..Len(inputs)
  <2>1. DOMAIN inputs = 1..Len(inputs)
    <3>1. inputs \in Seq([under : Linked!Way, depths : SUBSET Nat, any : BOOLEAN]) \ {<<>>}
      BY <1>2, WalksAssumption DEF Linked!SymlinkedMembersConstants
    <3> QED BY <3>1
  <2> QED BY <2>1
<1>4. path \in Linked!Way /\ Sought(links[s], inputs[i], path)
  <2>1. path \in Linked!Way /\ Undotted(path)
    BY VirtualPathsAre DEF LinksInv
  <2> QED BY <2>1, OpenedIs DEF Sought
<1>5. CASE s = marked /\ i = input
  BY <1>1, <1>4, <1>5, InputAnswered
<1>6. CASE ~(s = marked /\ i = input)
  <2>1. s \in {"reference", "judged"}
    BY DEF Linked!Sides
  <2>2. i < input \/ i = input
    BY <1>1, <1>2, <1>3
  <2>3. Gone(s, i)
    BY <1>1, <1>6, <2>1, <2>2 DEF Gone
  <2> QED BY <1>3, <1>4, <2>3 DEF LinksInv, LinksCovered
<1> QED BY <1>5, <1>6

LEMMA NothingMissedHere == LinksInv => Linked!NoMemberMissed
<1> SUFFICES ASSUME LinksInv, Linked!Finished, NEW s \in Linked!Sides, NEW i \in DOMAIN inputs,
                    NEW path \in Linked!VirtualPaths, Linked!Covered(inputs[i], path), Linked!BehindLink(s, path),
                    ~Linked!PastVendored(s, path)
             PROVE  Linked!ReasonsOn(s, Linked!Opened(s, path).at, i) # {}
  BY DEF Linked!NoMemberMissed
<1> DEFINE m == Opens(links[s], path).at
<1>1. Answered(links[s], s, reasons[s], i, path)
  BY FinishedAnswers
<1>2. MemberIn(reasons[s], m, i, path) \/ FanOutIn(reasons[s], m, i, s) \/ UnfollowedIn(reasons[s], m, i)
  BY <1>1 DEF Answered
<1>3. Linked!Opened(s, path).at = m
  BY OpenedIs
<1> HIDE DEF m
<1>4. \E r \in reasons[s] : r[1] = m /\ r[2][2] = i
  <2>1. CASE MemberIn(reasons[s], m, i, path)
    BY <2>1 DEF MemberIn
  <2>2. CASE FanOutIn(reasons[s], m, i, s)
    BY <2>2 DEF FanOutIn
  <2>3. CASE UnfollowedIn(reasons[s], m, i)
    BY <2>3 DEF UnfollowedIn
  <2> QED BY <1>2, <2>1, <2>2, <2>3
<1> QED BY <1>3, <1>4 DEF Linked!ReasonsOn

LEMMA RetargetSeenHere == LinksInv => Linked!RetargetIsSeen
<1> SUFFICES ASSUME LinksInv, Linked!Finished, NEW i \in DOMAIN inputs, NEW path \in Linked!VirtualPaths,
                    Linked!Retargeted(i, path), Linked!Excused(i, path), ~Linked!LoopsBack("judged", path)
             PROVE  FALSE
  BY DEF Linked!RetargetIsSeen
<1> DEFINE m == Opens(links["judged"], path).at
           J == reasons["judged"]  R == reasons["reference"]
<1>1. "judged" \in Linked!Sides /\ "reference" \in Linked!Sides
  BY DEF Linked!Sides
<1>2. Answered(links["judged"], "judged", J, i, path)
  BY <1>1, FinishedAnswers DEF Linked!Retargeted
<1>3. MemberIn(J, m, i, path) \/ FanOutIn(J, m, i, "judged")
  BY <1>2, OpenedIs DEF Answered
<1>4. \A r \in J : r[1] = m /\ r[2][2] = i => r \in R
  BY OpenedIs DEF Linked!Excused, Linked!ReasonsOn
<1>5. \A r \in R : SoundReason(links["reference"], "reference", r)
  BY <1>1 DEF LinksInv, ReasonsSound
<1>6. Opens(links["reference"], path).at # m
  BY OpenedIs DEF Linked!Retargeted
<1> HIDE DEF m, J, R
<1>7. CASE MemberIn(J, m, i, path)
  <2>1. PICK k : <<m, <<"member", i, path, k>>>> \in J
    BY <1>7 DEF MemberIn
  <2> DEFINE r == <<m, <<"member", i, path, k>>>>
  <2>2. r[1] = m /\ r[2][1] = "member" /\ r[2][2] = i /\ r[2][3] = path
    OBVIOUS
  <2>3. SoundReason(links["reference"], "reference", r)
    BY <1>4, <1>5, <2>1, <2>2
  <2> HIDE DEF r
  <2>4. Opens(links["reference"], path).at = m
    BY <2>2, <2>3 DEF SoundReason
  <2> QED BY <1>6, <2>4
<1>8. CASE FanOutIn(J, m, i, "judged")
  <2>1. PICK p : <<m, <<"fan-out", i, p, "judged">>>> \in J
    BY <1>8 DEF FanOutIn
  <2> DEFINE r == <<m, <<"fan-out", i, p, "judged">>>>
  <2>2. r[1] = m /\ r[2][1] = "fan-out" /\ r[2][2] = i /\ r[2][4] = "judged"
    OBVIOUS
  <2>3. SoundReason(links["reference"], "reference", r)
    BY <1>4, <1>5, <2>1, <2>2
  <2> HIDE DEF r
  <2> QED BY <2>2, <2>3 DEF SoundReason
<1> QED BY <1>3, <1>7, <1>8

(* Whatever the links of either side and wherever a limit cuts a walk      *)
(* short, every manifest a pattern reaches through links is marked for     *)
(* that input, or the input failed closed on it (markSymlinkedMembers).    *)
THEOREM NoMemberIsMissed == MCSpec => []NoMemberMissed
<1>1. LinkSubject => NoMemberMissed
  BY NothingMissedHere DEF LinkSubject, NoMemberMissed
<1> QED BY <1>1, LinkSubjectAlways, PTL

(* A link that leads to another manifest than on the reference side leaves *)
(* that manifest a reason the reference side does not excuse, unless the   *)
(* path loops back.                                                        *)
THEOREM RetargetIsAlwaysSeen == MCSpec => []RetargetIsSeen
<1>1. LinkSubject => RetargetIsSeen
  BY RetargetSeenHere DEF LinkSubject, RetargetIsSeen
<1> QED BY <1>1, LinkSubjectAlways, PTL
=============================================================================
