---------------------------- MODULE TrustControls ----------------------------
(***************************************************************************)
(* The control inputs of a pull-request run (trust-base.ts): the refusals, *)
(* the reads of both sides through git, what the run enforces and what it  *)
(* reports as proposed.                                                    *)
(*                                                                         *)
(* A text is abstracted to what JSON.parse or the .npmrc reader makes of   *)
(* it: a function from keys to values, and whether it validates.  Every    *)
(* git process may fail.  The eight reads run concurrently and touch       *)
(* nothing shared, so they are one step.  Refs do not move during the run. *)
(***************************************************************************)
EXTENDS Naturals, FiniteSets

CONSTANTS
  ListKeys,    \* keys of the configuration that hold a list: allow, ignorePaths, ...
  ScalarKeys,  \* keys that hold one value: failOn, online, minAgeDays, ...
  Default,     \* defaultConfig
  Docs,        \* what the texts may say
  Repos,       \* the repositories a run may be started in
  MaxFailures  \* bound on the reads that fail

Keys  == ListKeys \cup ScalarKeys
Files == {"config", "local", "baseline", "npmrc"}
Sides == {"base", "head"}
Regular == {"100644", "100755"}
Entry == [mode: Regular \cup {"absent", "120000", "160000"}, valid: BOOLEAN, doc: Docs]
Empty == <<>>
Absent == [mode |-> "absent", valid |-> FALSE, doc |-> Empty]

(* base: what --trust-base names; compare: what --base names, or "audit".  *)
(* A ref is absent, HEAD's commit, or another commit; a commit other than  *)
(* HEAD has HEAD's tree when nothing at all differs.                       *)
Repo == [base: {"none", "head", "other"}, hasHead: BOOLEAN, subjectSame: BOOLEAN,
         compare: {"audit", "none", "head", "sameTree", "other"},
         tree: [Sides -> [Files -> Entry]]]

\* A document is a function from its keys, and what a text says decides
\* whether it validates.
ASSUME DocAssumption == Empty \in Docs /\ \A d \in Docs : d = [k \in DOMAIN d |-> d[k]]
ASSUME TextAssumption == \A r \in Repos, f \in Files : LET b == r.tree["base"][f] h == r.tree["head"][f] IN
  /\ b.mode = "absent" => b = Absent
  /\ {b.mode, h.mode} \subseteq Regular /\ b.doc = h.doc => b.valid = h.valid
ASSUME RepoAssumption == Repos \subseteq Repo
ASSUME BaselineAssumption == \A r \in Repos, s \in Sides :
  r.tree[s]["baseline"].valid => "fingerprints" \in DOMAIN r.tree[s]["baseline"].doc
ASSUME DefaultAssumption == DOMAIN Default = Keys
ASSUME KeyAssumption == ListKeys \cap ScalarKeys = {} /\ MaxFailures \in Nat

VARIABLES
  repo,      \* the repository, fixed
  stage,     \* how far the run is
  seen,      \* the control files as read, of both sides
  failed,    \* the git processes that failed
  refusal,   \* why the run could not start
  enforced,  \* the controls it goes by
  proposals  \* what it reports of the head side

vars == <<repo, stage, seen, failed, refusal, enforced, proposals>>

Nothing == [config |-> Default, baseline |-> {}, npmrc |-> Empty]

Init ==
  /\ repo \in Repos /\ stage = "base"
  /\ seen = [s \in Sides |-> [f \in Files |-> Absent]]
  /\ failed = {} /\ refusal = "none" /\ enforced = Nothing /\ proposals = {}

Refuse(why) ==
  /\ refusal' = why /\ stage' = "refused"
  /\ UNCHANGED <<repo, seen, enforced, proposals>>
-----------------------------------------------------------------------------
(* assertTrustBaseUsable                                                   *)

ResolveBase == \E ok \in BOOLEAN :
  /\ stage = "base"
  /\ failed' = IF ok THEN failed ELSE failed \cup {<<"base", "commit">>}
  /\ IF ok /\ repo.base # "none"
     THEN stage' = "head" /\ UNCHANGED <<repo, seen, refusal, enforced, proposals>>
     ELSE Refuse("trust-base-unresolvable")

ResolveHead == \E ok \in BOOLEAN :
  /\ stage = "head"
  /\ failed' = IF ok THEN failed ELSE failed \cup {<<"head", "commit">>}
  /\ IF ~(ok /\ repo.hasHead) THEN Refuse("trust-base-unresolvable")
     ELSE IF repo.base = "head" THEN Refuse("trust-base-is-head")
     ELSE stage' = "trees" /\ UNCHANGED <<repo, seen, refusal, enforced, proposals>>

(* Mutant: different commits taken for different trees.                    *)
CommitsDiffer(r) == FALSE
SameTree(r) == r.subjectSame /\ r.tree["base"] = r.tree["head"]

(* A tree that does not resolve is not compared.                           *)
CompareTrees == \E ok \in BOOLEAN :
  /\ stage = "trees"
  /\ failed' = IF ok THEN failed ELSE failed \cup {<<"either", "tree">>}
  /\ IF ok /\ SameTree(repo) THEN Refuse("trust-base-same-tree")
     ELSE stage' = "read" /\ UNCHANGED <<repo, seen, refusal, enforced, proposals>>
-----------------------------------------------------------------------------
(* readControlFileAtRef: a tree entry that cannot be listed reads as       *)
(* absent, a blob that cannot be shown as an empty text, a gitlink too.    *)

(* Mutant: the local file read from the checkout.                          *)
FromCheckout(s, f) == repo.tree[IF f = "local" THEN "head" ELSE s][f]
FromSide(s, f) == repo.tree[s][f]

ReadAs(e, fault) ==
  IF fault = "entry" THEN Absent
  ELSE IF fault = "text" \/ e.mode = "160000"
  THEN [e EXCEPT !.doc = Empty, !.valid = FALSE] ELSE e

Present(s, f) == FromSide(s, f).mode # "absent"
Blob(s, f)    == Present(s, f) /\ FromSide(s, f).mode # "160000"

ReadControls ==
  \E noEntry \in SUBSET (Sides \X Files) :
  \E noText \in SUBSET {r \in Sides \X Files : Blob(r[1], r[2]) /\ r \notin noEntry} :
  /\ stage = "read" /\ stage' = "judge"
  /\ Cardinality(noEntry \cup noText) <= MaxFailures
  /\ seen' = [s \in Sides |-> [f \in Files |->
       ReadAs(FromSide(s, f), IF <<s, f>> \in noEntry THEN "entry"
                              ELSE IF <<s, f>> \in noText THEN "text" ELSE "none")]]
  /\ failed' = failed \cup noEntry \cup noText
  /\ UNCHANGED <<repo, refusal, enforced, proposals>>
-----------------------------------------------------------------------------
(* What the texts mean.                                                    *)

IsRegular(e) == e.mode \in Regular
There(e) == e.mode # "absent"

Readable(es) == \A f \in {"config", "local"} : There(es[f]) => es[f].valid
(* resolveConfig: the local file over the shared one over the defaults.    *)
Resolve(es) ==
  [k \in Keys |-> IF There(es["local"]) /\ k \in DOMAIN es["local"].doc
                  THEN es["local"].doc[k]
                  ELSE IF There(es["config"]) /\ k \in DOMAIN es["config"].doc
                  THEN es["config"].doc[k] ELSE Default[k]]

Fingerprints(e) == IF There(e) THEN e.doc["fingerprints"] ELSE {}

(* The pins and the default registry; through a link there are none.       *)
Pins(e) == IF IsRegular(e) THEN e.doc ELSE Empty
Scopes(doc) == [k \in DOMAIN doc \ {"registry"} |-> doc[k]]
Registry(doc) == IF "registry" \in DOMAIN doc THEN {doc["registry"]} ELSE {}

(* documentsDiffer: two absent texts, or two with the same meaning, do not. *)
Differs(b, h) == There(b) # There(h) \/ (There(b) /\ b.doc # h.doc)

Shape(b, h) ==
  IF ~There(h) THEN (IF There(b) THEN {"removed"} ELSE {})
  ELSE IF h.mode = "120000" THEN {"symlink"}
  ELSE IF ~IsRegular(h) THEN {"not-a-file"}
  ELSE IF There(b) /\ b.mode # h.mode THEN {"mode"} ELSE {}
(* The shared file's change of shape hides the local one's.                *)
ConfigShape(b, h) ==
  IF Shape(b["config"], h["config"]) # {} THEN Shape(b["config"], h["config"])
  ELSE Shape(b["local"], h["local"])
ShapeOf(b, h, input) ==
  IF input = "config" THEN ConfigShape(b, h) ELSE Shape(b[input], h[input])

Inputs == {"config", "baseline", "npmrc"}
(* Mutant: only the scopes of .npmrc are compared.                         *)
ChangedButForRegistry(b, h, input) ==
  \/ ShapeOf(b, h, input) # {}
  \/ input = "config" /\ \E f \in {"config", "local"} : Differs(b[f], h[f])
  \/ input = "baseline" /\ Differs(b[input], h[input])
  \/ input = "npmrc" /\ Scopes(Pins(b[input])) # Scopes(Pins(h[input]))
(* configChanged, baselineChanged, npmrcChanged                            *)
Changed(b, h, input) ==
  \/ ShapeOf(b, h, input) # {}
  \/ input = "config" /\ \E f \in {"config", "local"} : Differs(b[f], h[f])
  \/ input = "baseline" /\ Differs(b[input], h[input])
  \/ input = "npmrc" /\ (\/ Scopes(Pins(b[input])) # Scopes(Pins(h[input]))
                         \/ Registry(Pins(b[input])) # Registry(Pins(h[input])))

Added(b, h, input) ==
  LET fs == IF input = "config" THEN {"config", "local"} ELSE {input}
  IN (\A f \in fs : ~There(b[f])) /\ (\E f \in fs : There(h[f]))

(* describeConfigChange: lists by what is added, scalars by name, and a    *)
(* count of all that is removed.                                           *)
Describe(base, head) ==
  {<<"proposed", k>> : k \in {k \in ListKeys : head[k] \ base[k] # {}}}
    \cup {<<"set", k>> : k \in {k \in ScalarKeys : head[k] # base[k]}}
    \cup {<<"removed", "entries">> : k \in {k \in ListKeys : base[k] \ head[k] # {}}}

Detail(b, h, input) ==
  IF input # "config" THEN {}
  ELSE IF Readable(h) THEN Describe(Resolve(b), Resolve(h))
  ELSE {<<"unparseable", "head">>}

Proposals(b, h) ==
  {[input |-> i, what |-> IF Added(b, h, i) THEN "added" ELSE "changed",
    detail |-> Detail(b, h, i)] : i \in {i \in Inputs : Changed(b, h, i)}}
  \cup UNION {{[input |-> i, what |-> w, detail |-> {}] : w \in ShapeOf(b, h, i)} : i \in Inputs}
-----------------------------------------------------------------------------
(* Mutant: .npmrc left out of the refusals.                                *)
Unreadable(b) == \E f \in Files \ {"npmrc"} : There(b[f]) /\ ~IsRegular(b[f])
(* assertBaseIsRegularFile                                                 *)
Irregular(b) == \E f \in Files : There(b[f]) /\ ~IsRegular(b[f])

(* The rest of loadTrustedControls.                                        *)
Judge == LET b == seen["base"] h == seen["head"] IN
  /\ stage = "judge"
  /\ UNCHANGED failed
  /\ IF Irregular(b) THEN Refuse("not a regular file")
     ELSE IF ~Readable(b) THEN Refuse("config-invalid")
     ELSE IF There(b["baseline"]) /\ ~b["baseline"].valid THEN Refuse("baseline-invalid")
     ELSE /\ enforced' = [config |-> Resolve(b), npmrc |-> b["npmrc"].doc,
                          baseline |-> Fingerprints(b["baseline"])]
          /\ proposals' = Proposals(b, h)
          /\ stage' = IF repo.compare = "audit" THEN "loaded" ELSE "compare"
          /\ UNCHANGED <<repo, seen, refusal>>

(* assertBaseNotHeadUnderTrustBase: what does not resolve is left to the   *)
(* loading of the states.                                                  *)
CompareBase == \E okCommits, okTrees \in BOOLEAN :
  /\ stage = "compare"
  /\ failed' = failed \cup (IF okCommits THEN {} ELSE {<<"compare", "commit">>})
                      \cup (IF okTrees THEN {} ELSE {<<"compare", "tree">>})
  /\ IF okCommits /\ repo.compare = "head" THEN Refuse("base-is-head")
     ELSE IF okCommits /\ okTrees /\ repo.compare = "sameTree" THEN Refuse("base-same-tree")
     ELSE stage' = "loaded" /\ UNCHANGED <<repo, seen, refusal, enforced, proposals>>

Over == stage \in {"loaded", "refused"} /\ UNCHANGED vars
Next == ResolveBase \/ ResolveHead \/ CompareTrees \/ ReadControls \/ Judge
        \/ CompareBase \/ Over
Spec == Init /\ [][Next]_vars
-----------------------------------------------------------------------------
Loaded == stage = "loaded"
BaseReads == {<<"base", f>> : f \in Files}

(* What a run enforces is the base's word or the default, key by key and   *)
(* file by file, whatever fails on the way: never the head's.              *)
Said(f, k) == {d[k] : d \in {d \in {repo.tree["base"][f].doc} : k \in DOMAIN d}}
HeadNeverObeyed == Loaded =>
  /\ \A k \in Keys : enforced.config[k] \in {Default[k]} \cup Said("config", k) \cup Said("local", k)
  /\ enforced.baseline \in {{}} \cup Said("baseline", "fingerprints")
  /\ enforced.npmrc \in {Empty, repo.tree["base"]["npmrc"].doc}

(* A head that would govern the run in any other way is reported as a      *)
(* proposal of that input: a key through either file, an entry dropped, a  *)
(* pin, the default registry, a file the run would refuse; and a           *)
(* configuration that differs is described by what differs.                *)
WouldGovern(input) == LET h == repo.tree["head"] IN
  CASE input = "config" -> ~Readable(h) \/ Resolve(h) # enforced.config
    [] input = "baseline" -> (There(h[input]) /\ ~h[input].valid)
                             \/ Fingerprints(h[input]) # enforced.baseline
    [] input = "npmrc" -> Pins(h[input]) # enforced.npmrc
EveryDifferenceReported == Loaded /\ failed \cap (Sides \X Files) = {} =>
  \A i \in Inputs : WouldGovern(i) =>
    \E p \in proposals : p.input = i /\ (i = "config" => p.detail # {})

(* A control file that the head turns into a link is reported then, while  *)
(* its text is still the same: the next change would no longer show it.    *)
IsLink(f) == seen["head"][f].mode \in {"120000", "160000"}
LinksAreReported == Loaded =>
  /\ \A i \in Inputs : IsLink(i)
       => \E p \in proposals : p.input = i /\ p.what \in {"symlink", "not-a-file"}
  /\ IsLink("local") => \E p \in proposals : p.input = "config" /\ p.what # "changed"

(* No run is judged by the very tree it judges, unless a tree could not be *)
(* resolved.                                                               *)
NeverJudgesItself == Loaded =>
  /\ repo.base = "other"
  /\ <<"either", "tree">> \notin failed => ~(repo.subjectSame /\ repo.tree["base"] = repo.tree["head"])

(* A base whose control files were read is enforced only if each of them   *)
(* is a regular file.                                                      *)
BaseIsRegular == Loaded /\ failed \cap BaseReads = {} =>
  \A f \in Files : repo.tree["base"][f].mode \in Regular \cup {"absent"}

(* No step from a change to its effect goes unseen: what is enforced came  *)
(* from regular files, and what the head would change is reported.         *)
NothingSlipsPast == EveryDifferenceReported /\ LinksAreReported /\ BaseIsRegular

(* docs/INVARIANTS.md: "Failing to read a control input is could-not-run,  *)
(* exit 2, never a fallback."                                              *)
FailedReadIsRefused == Loaded => failed \cap BaseReads = {}
=============================================================================
