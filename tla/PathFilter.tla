----------------------------- MODULE PathFilter -----------------------------
(***************************************************************************)
(* What a scan does with the findings its checks made (scan.ts): which     *)
(* projects the reference side excuses (excusedProjects, a loop over live  *)
(* data), ignorePaths, the baseline, the merge of manifest and lockfile    *)
(* findings, the collapse of install-script findings; and the next run,    *)
(* after somebody put what this one showed into the baseline.              *)
(*                                                                         *)
(* Paths are members of small sets; an ignorePaths entry is the paths it   *)
(* covers; a project reason is its rule and the file it comes from.        *)
(***************************************************************************)
EXTENDS Integers, FiniteSets, Sequences

CONSTANTS
  Manifests,  \* paths of project manifests
  Locks,      \* paths of lockfiles
  None,       \* no path
  Covers,     \* the paths each ignorePaths entry matches
  Anchors,    \* the manifest a lockfile installs
  Packages,   \* package names
  Inputs,     \* the scans that reach the filter
  MaxRuns     \* bound on the runs over one change

Files == Manifests \cup Locks
Rooted == {"root", "beside-lockfile"}
Derived == {"reference-target", "install-root-member"}
Reason == [rule: Rooted \cup Derived, input: Files]
NameRules == {"typosquat", "unknown-package", "registered-squat"}
Rules == NameRules \cup {"lockfile-tamper", "install-script"}
PerPackage == {"added", "flag-acquired"}
Signals == PerPackage \cup {"present", ""}
Fingerprints == Rules \X Packages \X Files \X Signals
(* One signal for all findings of a name rule: a merge keeps one lockfile  *)
(* finding's fingerprint for them all.                                     *)
Raw == {r \in [rule: Rules, pkg: Packages, path: Files, lock: Locks \cup {None},
               signal: Signals] : r.rule \in NameRules => r.signal = ""}

(* judged, reference: the reasons of each manifest on either side; refers: *)
(* there is a reference side; under: the manifests under the scan prefix;  *)
(* blind: it has a prefix, and the reference side could not read an input  *)
(* outside it; records: the names of each judged lockfile; lockOf: the     *)
(* lockfile of a manifest's changes; nested: changed nested lockfiles;     *)
(* whollyNew: the lockfile that is new as a whole, or None; accepted: the  *)
(* baseline as it was found.                                               *)
Input == [judged: [Manifests -> SUBSET Reason], reference: [Manifests -> SUBSET Reason],
          refers: BOOLEAN, under: SUBSET Manifests, blind: BOOLEAN,
          entries: SUBSET DOMAIN Covers,
          raws: Seq(Raw), records: SUBSET (Locks \X Packages),
          lockOf: [Manifests -> Locks \cup {None}], nested: SUBSET Locks,
          whollyNew: Locks \cup {None},
          accepted: SUBSET Fingerprints]

ASSUME FinitePaths == IsFiniteSet(Manifests) /\ Manifests \cap Locks = {} /\ None \notin Files
ASSUME InputAssumption == Inputs \subseteq Input
ASSUME CoversAssumption == Covers \in [DOMAIN Covers -> SUBSET Files]
ASSUME AnchorAssumption == Anchors \in [Locks -> Manifests] /\ MaxRuns \in Nat

VARIABLES
  scan,      \* the input, fixed
  stage,     \* what the run is at
  pass,      \* passes of the loop over excused
  todo,      \* the paths this pass has yet to visit
  settled,   \* this pass removed nothing so far
  excused,   \* the judged projects the reference side excuses
  baseline,  \* the accepted fingerprints
  result,    \* what the run reports
  run        \* runs over this change so far

loop == <<pass, todo, settled, excused>>
vars == <<scan, stage, loop, baseline, result, run>>
-----------------------------------------------------------------------------
(* Projects and their reasons.                                             *)

IsProject(m) == scan.judged[m] # {}
Projects == {m \in Manifests : IsProject(m)}

Absent(m) == IF scan.blind /\ m \in scan.under THEN scan.judged[m] ELSE scan.judged[m] \ scan.reference[m]

(* Mutant: a reason is judged without the manifest it comes from.          *)
SourceIgnored(m, r) == TRUE
SourceExcused(m, r) ==
  r.rule \in Rooted \/ r.input = m \/ r.input \notin Projects \/ r.input \in excused

(* reasonsMissingFromReference, less the reasons that do not count.        *)
Missing(m, but) ==
  {r \in scan.judged[m] \ but : r \in Absent(m) \/ ~SourceExcused(m, r)}

Nothing == [reported |-> {}, second |-> <<>>, ignored |-> {}, suppressed |-> {},
            kept |-> {}, collapsed |-> {}, made |-> {}, nested |-> {}, unmatched |-> {}]

Init ==
  /\ scan \in Inputs /\ stage = "start"
  /\ pass = 0 /\ todo = {} /\ settled = FALSE /\ excused = {}
  /\ baseline = scan.accepted /\ result = Nothing /\ run = 1

(* excusedProjects: the largest set first.                                 *)
Excuse ==
  /\ stage = "start"
  /\ excused' = IF scan.refers THEN {m \in Projects : Absent(m) = {}} ELSE {}
  /\ todo' = excused' /\ settled' = TRUE /\ stage' = "excuse"
  /\ UNCHANGED <<scan, pass, baseline, result, run>>

(* One path of a pass: the set it is taken out of is the one the rest of   *)
(* the pass reads.                                                         *)
Visit == \E m \in todo :
  /\ stage = "excuse"
  /\ todo' = todo \ {m}
  /\ IF \E r \in scan.judged[m] : ~SourceExcused(m, r)
     THEN excused' = excused \ {m} /\ settled' = FALSE
     ELSE UNCHANGED <<excused, settled>>
  /\ UNCHANGED <<scan, stage, pass, baseline, result, run>>

MayRepeat(n) == n + 1 <= Cardinality(Projects)

Repeat ==
  /\ stage = "excuse" /\ todo = {} /\ ~settled /\ MayRepeat(pass)
  /\ pass' = pass + 1 /\ todo' = excused /\ settled' = TRUE
  /\ UNCHANGED <<scan, stage, excused, baseline, result, run>>

(* A loop that ran out of passes excuses nothing.                          *)
Settle ==
  /\ stage = "excuse" /\ todo = {} /\ (settled \/ ~MayRepeat(pass))
  /\ excused' = IF settled THEN excused ELSE {}
  /\ stage' = "nested"
  /\ UNCHANGED <<scan, pass, todo, settled, baseline, result, run>>
-----------------------------------------------------------------------------
AnchorOf(f) == IF f \in Locks THEN Anchors[f] ELSE f
Matches(f, entries) == {e \in entries : f \in Covers[e]}

OwnReason(f) == [rule |-> "beside-lockfile", input |-> f]

(* nestedLockfileIgnored *)
NestedIgnored(f) ==
  /\ Matches(f, scan.entries) # {}
  /\ scan.refers => Missing(AnchorOf(f), {OwnReason(f)}) = {}

Nested ==
  /\ stage = "nested" /\ stage' = "filter"
  /\ result' = [Nothing EXCEPT !.nested = {f \in scan.nested : NestedIgnored(f)}]
  /\ UNCHANGED <<scan, loop, baseline, run>>
-----------------------------------------------------------------------------
(* applyPathFilters                                                        *)

Credited(f) == Matches(f, scan.entries)

(* A manifest nothing installs does not speak for an entry of a lockfile.  *)
Place(r) ==
  IF scan.refers /\ ~IsProject(AnchorOf(r.path)) /\ r.lock # None
     /\ <<r.lock, r.pkg>> \in scan.records
  THEN r.lock ELSE r.path

(* Mutant: tampering is dropped like anything else.                        *)
OverridesUnlessInstalled(r) ==
  scan.refers /\ Missing(AnchorOf(Place(r)), {}) # {}
Overrides(r) == LET m == AnchorOf(Place(r)) IN
  /\ scan.refers /\ IsProject(m)
  /\ Missing(m, {}) # {} \/ r.rule = "lockfile-tamper"

Dropped(r, entries) == Matches(Place(r), entries) # {} /\ ~Overrides(r)
Fingerprint(r) == <<r.rule, r.pkg, r.path, r.signal>>

(* mergeLockfileNameFindings: a name a manifest and its lockfile carry.    *)
Repeats(m, l) ==
  /\ m.rule \in NameRules /\ m.rule = l.rule /\ m.pkg = l.pkg
  /\ m.path \in Manifests /\ scan.lockOf[m.path] = l.path
Least(S) == CHOOSE i \in S : \A j \in S : i <= j
Largest(S) == CHOOSE i \in S : \A j \in S : i >= j
MergeInto(l, left) ==
  {Least(is) : is \in {{i \in left : Repeats(scan.raws[i], scan.raws[l])}} \ {{}}}

(* Mutant: the merge looks at what the baseline has dropped, too.          *)
EvenSuppressed(left, dropped) == DOMAIN scan.raws \ dropped
Survivors(left, dropped) == left

Filter == LET
    all     == DOMAIN scan.raws
    dropped == {i \in all : Dropped(scan.raws[i], scan.entries)}
    hidden  == {i \in all \ dropped : Fingerprint(scan.raws[i]) \in baseline}
    left    == all \ (dropped \cup hidden)
    merged  == {l \in left : MergeInto(l, Survivors(left, dropped)) # {}}
    into(i) == {l \in merged : i \in MergeInto(l, Survivors(left, dropped))}
    placed  == {Place(scan.raws[i]) : i \in all} \cup scan.nested
    made    == {m \in Projects \cap scan.under : scan.refers /\ Matches(m, scan.entries) # {}
                                 /\ Missing(m, {}) # {}}
  IN
  /\ stage = "filter" /\ stage' = "collapse"
  /\ result' = [result EXCEPT
       !.ignored = dropped, !.suppressed = hidden,
       !.kept = {i \in all \ dropped : Matches(Place(scan.raws[i]), scan.entries) # {}},
       !.reported = left \ merged,
       !.second = [i \in {i \in left \ merged : into(i) # {}} |-> Largest(into(i))],
       !.made = made,
       !.unmatched = IF all = {} THEN {}
                     ELSE scan.entries \ (UNION {Credited(f) : f \in placed \cup made})]
  /\ UNCHANGED <<scan, loop, baseline, run>>
-----------------------------------------------------------------------------
(* collapseInstallScriptFindings, over what is left.                       *)
Scripted(r) == r.rule = "install-script" /\ r.signal \in PerPackage
CollapsedFingerprint(pkgs) ==
  <<"install-script", "acquired-on-new-lockfile", scan.whollyNew, pkgs>>

Accepted(pkgs) == CollapsedFingerprint(pkgs) \in baseline

Collapse == LET
    scripted == {i \in result.reported : Scripted(scan.raws[i])}
    pkgs     == {scan.raws[i].pkg : i \in scripted}
  IN
  /\ stage = "collapse" /\ stage' = "done"
  /\ result' = IF scan.whollyNew = None \/ Cardinality(pkgs) < 2 THEN result
               ELSE [result EXCEPT
                 !.reported = result.reported \ scripted,
                 !.collapsed = IF Accepted(pkgs) THEN {} ELSE pkgs]
  /\ UNCHANGED <<scan, loop, baseline, run>>

(* The fingerprints a run shows, those of merged findings included.        *)
Shown ==
  {Fingerprint(scan.raws[i]) : i \in result.reported}
  \cup {Fingerprint(scan.raws[result.second[i]]) : i \in DOMAIN result.second}
  \cup {CollapsedFingerprint(p) : p \in {result.collapsed} \ {{}}}

(* Somebody accepts some of what was shown, and the scan is run again.     *)
Accept == \E some \in SUBSET Shown :
  /\ stage = "done" /\ run < MaxRuns /\ some # {}
  /\ baseline' = baseline \cup some
  /\ run' = run + 1 /\ stage' = "start" /\ pass' = 0
  /\ result' = Nothing
  /\ UNCHANGED <<scan, todo, settled, excused>>

Over == stage = "done" /\ UNCHANGED vars
Next == Excuse \/ Visit \/ Repeat \/ Settle \/ Nested \/ Filter \/ Collapse \/ Accept \/ Over
Spec == Init /\ [][Next]_vars
-----------------------------------------------------------------------------
Judged == stage \in {"nested", "filter", "collapse", "done"}
Done == stage = "done"
Ran == DOMAIN scan.raws

(* A set of projects that excuses itself: the reference side records all   *)
(* their reasons, and each comes from the set or from what is no project.  *)
ClosedBut(S, but) == \A m \in S : \A r \in scan.judged[m] \ but :
  /\ r \notin Absent(m)
  /\ r.rule \in Rooted \/ r.input = m \/ r.input \notin Projects \/ r.input \in S
Closed(S) == ClosedBut(S, {})
Excusable == IF scan.refers THEN UNION {S \in SUBSET Projects : Closed(S)} ELSE {}

(* excusedProjects deletes while it iterates, in the order of a Map: it    *)
(* still arrives at the greatest fixed point its comment names.            *)
ExcusedIsGreatest == Judged => excused = Excusable

(* "a run that did not settle within that excuses nothing": no run is.     *)
NeverGivesUp == Judged => settled

(* No finding about a project that the change wires into the install is    *)
(* dropped, nor one about tampering with an installed project; a stray     *)
(* manifest speaks for the project of the lockfile that records the name.  *)
About(r) == {AnchorOf(r.path)} \cup
  {Anchors[k] : k \in {k \in Locks \cap {r.lock} : <<k, r.pkg>> \in scan.records
                                              /\ ~IsProject(AnchorOf(r.path))}}
WiredIsKept == Done /\ scan.refers => \A i \in result.ignored :
  LET r == scan.raws[i] IN \A m \in About(r) \cap Projects :
    m \in Excusable /\ r.rule # "lockfile-tamper"

(* A stray manifest in an ignored directory does not pull the finding of   *)
(* a lockfile that no entry covers in there.                               *)
StrayCannotHide == Done /\ scan.refers => \A i \in result.ignored :
  LET r == scan.raws[i] IN
  ~IsProject(AnchorOf(r.path)) /\ r.lock # None /\ <<r.lock, r.pkg>> \in scan.records
    => \E e \in scan.entries : r.lock \in Covers[e]

(* Nothing is swallowed: whoever accepts all that a run shows has accepted *)
(* every finding that no entry dropped, merged and collapsed ones too.     *)
ScriptedLeft == {i \in Ran \ result.ignored :
  Scripted(scan.raws[i]) /\ Fingerprint(scan.raws[i]) \notin baseline}
NothingSwallowed == Done => \A i \in Ran \ result.ignored :
  \/ Fingerprint(scan.raws[i]) \in baseline \cup Shown
  \/ i \in ScriptedLeft /\ CollapsedFingerprint({scan.raws[j].pkg : j \in ScriptedLeft})
                            \in baseline \cup Shown

(* What was accepted is not shown again.                                   *)
AcceptedIsQuiet == Done => Shown \cap baseline = {}

(* Every ignored path that is a project the reference side does not        *)
(* install that way is named (madeProjects), with findings or without.     *)
MadeProjectsNamed == Done /\ scan.refers =>
  result.made = {m \in (Projects \cap scan.under) \ Excusable : Matches(m, scan.entries) # {}}

(* An entry reported as unmatched would drop nothing, alone or not.        *)
UnmatchedDropsNothing == Done => \A e \in result.unmatched :
  \A i \in Ran : ~Dropped(scan.raws[i], {e})

(* A changed nested lockfile goes unjudged only where its directory would  *)
(* be excused had the lockfile not been there.                             *)
NestedFollowsRule == Judged /\ stage # "nested" /\ scan.refers => \A f \in result.nested :
  LET m == AnchorOf(f) IN
  \E S \in SUBSET Projects : ClosedBut(S, {OwnReason(f)})
                             /\ (m \in S \/ ~IsProject(m))

(* The filters hide nothing that the repository's own files did not ask    *)
(* them to hide, and say what they were asked.                             *)
FiltersAreHonest ==
  /\ NothingSwallowed /\ AcceptedIsQuiet
  /\ StrayCannotHide /\ NestedFollowsRule
  /\ MadeProjectsNamed /\ UnmatchedDropsNothing
=============================================================================
