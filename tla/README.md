# dep-guard in TLA+

A formal model of [dep-guard](../src/README.md), the dependency gate for npm and
PyPI projects. The specifications are translated from the TypeScript sources;
the docs are used only to state what is promised. TLC checks small instances,
TLAPS proves the invariants that matter most for all of them.

## The system

`dep-guard` compares two states of a repository (the working tree or index or a
ref, against a base ref), runs offline checks on what the change adds, asks the
registries about what the offline checks could not settle, filters the findings
and decides an exit code: 0 clean, 1 findings at or above `failOn`, 2 could not
run. One scan is one asynchronous run of one process; concurrency comes from the
network, the clock, the git processes it spawns, the files it reads while others
write them, and other dep-guard processes on the same machine.

| component | state | operations | what makes it correct |
|---|---|---|---|
| online phase (`scan.ts` `enrichOnline`, `online/*`) | findings, the unchecked list, diagnostics, lookup counters, deadline | unknown-package, PyPI existence, typosquat asymmetry, registered squat, publish age, in this order | nothing to be looked up is forgotten; a finding is moved only by an answer and never removed; names declared internal stay home; the budget bounds the run; a run that could not judge does not exit 0 |
| downloads lookup (`registry-client.ts`, `http.ts`) | the requests of a lookup, the memoized probe | batches, single names, retries, sentinel | a broken API never makes a package look unused; bounded cost |
| online cache (`cache.ts`, cached lookups of `scan.ts`) | a JSON file shared by processes, a map per process | load, get, set, save | never a stale or incomplete answer, whatever the file goes through |
| control inputs (`trust-base.ts`, `config.ts`) | config, baseline, `.npmrc` at the base and at HEAD | refuse, read, compare, report | the head side is never obeyed, and its proposals are reported |
| path filters (`scan.ts`, `ignore-paths.ts`, `baseline.ts`) | findings, projects of both sides | ignore, suppress, merge, fingerprint | an ignored path that the change turns into a project keeps its findings |
| file source and discovery (`git-source.ts`, `state.ts`, `manifest.ts`) | listings, blobs, projects | list, read, batch, glob, follow links, classify | a file that was not read is never taken for an empty one |
| delta and offline checks (`delta.ts`, `checks/*`) | two states | compare, judge | each changed dependency is judged once, on the right side |
| lockfile and Python readers | texts | parse | refusal instead of a partial reading |
| corpus (`corpus.ts`, `bloom.ts`, `levenshtein.ts`) | a Bloom filter and a name list | membership, distance | no false negative |
| CLI (`packages/cli`), scripts, action, bench | files and exit codes | init, scan, check; build corpus; release | |

How they interact: the file source feeds discovery and the readers; their two
states feed the delta; the delta feeds the offline checks; their findings and
candidates are the input of the online phase, which talks to the registries
through the lookups and the cache; the filters and the gate turn the findings
and the unchecked list into the result. In pull-request mode the control inputs
of the base side govern all of it.

Hard behaviours, each a hazard in `PROJECT.json` at its line: the budget running
out in the middle of a loop; bulk calls that answer for some names or for none; a
step reading findings an earlier step rewrote; one lookup answering for several
entries; a dead API whose 404 looks like an answer; retries and pauses dictated by
a server; a cache file without a lock, torn by a crash; versions published after
they were cached; failed git reads that look like absent files.
Beside those of the network: an entry with several predecessors that disagree; a
lockfile that loses its coverage over several merges; links that loop, nest and are
retargeted; include files reached twice; a name that is new only by its place; a
developer, husky and `git clean` at work between the steps of `init`.

## Modules

Each module models one part; what a definition translates is listed, file and lines, in
the map of `PROJECT.json`.

### Asking the registries

`OnlineVerdict` is the promise of the online phase, without steps, deadlines or
requests: each name that has to be looked up ends up answered or listed, once;
and the exit status follows from what was listed and from the blocking findings.

`OnlineScan` is the phase as the code runs it: `enrichOnline` enters the five
steps in order; each collects its candidates when it is entered, asks the deadline
before each call, awaits it, and takes the answer. Its state: `in` (the input),
`phase` (the step it is in), `todo`, `call` and `wire` (the candidates ahead, the call
awaited, what of it is on the wire), `now` and `age` (the clock), `report` (the working
findings), `unchecked` (the sink the steps share), `skipped` (the sum of the deadline
diagnostics), `sent` and `replies` (what was asked and what was said), and `verdict`. One action per step of the loop:
`Ask`, `AskDownloads`, `OutOfBudget`, `BulkOutOfBudget`, `Unreachable`,
`DownloadsUnreachable`, one action per kind of answer, `Advance`, `Finish`, `Tick`.
The environment chooses every answer, failure and duration. Names, versions and
sites are members of small sets; findings carry rule, severity, name and site.
`OnlineVerdict` is implemented under a refinement mapping inside the module and
checked as a property (`KeepsPromise`).

`DownloadsLookup` opens the one call that is many requests: batches of unscoped
names, one request for each scoped one, retries and pauses of `fetchJson`, and
the sentinel that decides what a 404 for a single name means. The API may be fine
or dead, may leave names out, may answer late or not at all.

`OnlineCache` is the cache file and the cached lookups, shared by processes that
may die between the truncation and the end of a write, while the registry publishes
versions and takes names down.

### What governs a run, and what is said of its findings

`TrustControls` is the start of a pull-request run, before any scan: whether the
trust base may judge this tree (`ResolveBase`, `ResolveHead`, `CompareTrees`), the
reads of the four control files of both sides (`ReadControls`), what is enforced and
what is proposed (`Judge`), and the last refusal once the compared base is known
(`CompareBase`). Its state: `repo` (both trees and what the refs resolve to, fixed),
`stage`, `seen` (the files as read), `failed` (the git processes that failed),
`refusal`, `enforced`, `proposals`. A file is a git mode, whether its text validates,
and a function from keys to values.

`PathFilter` is what happens to the findings: the loop of `excusedProjects`, one action
per path visited, per pass repeated and for its end (`Excuse`, `Visit`, `Repeat`,
`Settle`); the exemption of nested lockfiles (`Nested`); ignorePaths, baseline and merge
(`Filter`); the collapse of install-script findings (`Collapse`); and a further run after
somebody put some of what was shown into the baseline (`Accept`). An entry of
ignorePaths is the set of paths it covers, a reason its rule and the file it comes from,
a fingerprint its four components. The order of visits is any, that of a `Map` being
whatever the classification inserted.

### The files of a side

`SourceReads` is one side of a scan read file by file: the memoized listing, `read` and
`readMany` behind `cachingSource` (`Ask`, `Done`), the batch and its fallback (`Batch`,
`Show`, `ShowFails`), the three calls of a working-tree read (`Resolve`, `Stat`,
`ReadFile`), and the environment that edits the side between any two of them (`Edit`).
Its state: `held` (the side now), `window` (all it held since the listing, or since the
read of that path began), `listing`, `want` and `ids` (what the request still lacks),
`got`, `cache`. A blob id is its text: that is what content addressing means.

`GreedyGlob` is the matcher that `matchWildcard` runs over characters and
`matchGlobPath` over segments, one action per turn of the loop, against the
definition of a glob (`Globs`).

`WorkspacePatterns` holds the two meanings of a list of workspace patterns: the walk of a
tree (`discoverWorkspaceDirs`, `expandPattern`), depth first in the order of the listing,
with its visited set, links, hidden directories and letter case; and the match of a
path (`workspaceCoverage`, `workspacePatternsReachBelow`).

`SymlinkedMembers` is the walk behind links on both sides (`Pass`, `Stop`, `Visit`,
`NextInput`, `NextSide`): a stack of frames, the hop limit, the limits on visits per input
and per side, and the reason each stop puts on every manifest.

`ProjectDiscovery` classifies every manifest of both sides (`Classify`), follows what
vendored manifests name until nothing is added (`FollowVendored`), and loads a side for a
root scan and for a scan of one directory (`Loaded`), with the parse failures that stop
it. `RequirementIncludes` is the pair of breadth-first walks over `-r` and `-c` lines.
`WorkspaceLinks` is `confirmWorkspaceLocalNames` over a sequence of pull requests.

### Lockfiles

`PnpmDocuments`: which document of a pnpm stream is the project's, which are read under
labels, which stay unread text, and what a comparison of two streams refuses or reports.
`PnpmKeys`: the split of package keys in all five formats and the merge of entries.

`LockfileTamper`: for one name, the pairing of changed entries with those they may
succeed, the comparison signals, the rules on an entry of its own, and the map that keeps
the worse of two findings; one action per declaration and per entry.

`LockfileDowngrade`: a base branch, pull requests from its tip or from an older
commit, the refusal against the compared base and against the trust base, and the
acknowledgements that lift it (`Open`, `Acknowledge`, `Close`, `Merge`).

### Names

`InstalledNames`: which names `npmNames` gives to the checks, over a sequence of merges:
new by key, by place, by attribution, as the target of an alias. `NameRules` holds the
transforms the npm and Python checks share and the full edit distance; `BandedDistance`
is `bandedDistance` row by row with its two reused rows; `NameResemblance` is the rule
cascade of `typosquat.ts` over the index of the popularity list; `PythonNames` the Python
candidates and the comparison of new names with each other.

### The command line

`InitHook`: the plan of `init`, the write, the mode, each of which may fail or be the
last thing the process does, and what others do in between: a developer's edits, a
change of `core.hooksPath`, husky's install, `git clean`.

`MC*` modules give the constants values; `*Proofs` modules hold the theorems. Parts that
are checked together share a run: its MC module EXTENDS one of them and instantiates the
others over variables and, where a theorem ranges over them, constants of its own, and a behaviour is about one subject, chosen in `MCInit`,
the variables of the others keeping the value `Idle`. Their properties are implications
from the subject, so each is checked on exactly the behaviours of its own module.

## Runs

| run | what it shows | bounds |
|---|---|---|
| `online_scan` | no name is forgotten (`NothingForgotten`); pull-request runs pass only with every name answered (`PassMeansAnswered`); severities and new findings rest on answers, the summary does not understate, a run with lookups off lists exactly the names (`ReportIsHonest`); names stay home; the overrun is at most one call; it ends; it keeps `OnlineVerdict` | hand-picked scans that between them give every step candidates, shared names, allowed and internal names, two entries behind one request; budgets 0 and 3, calls of at most 2 units: zero, expiry inside a call, between calls, and never |
| `downloads_lookup` | a dead API fabricates no zero; requests and duration are bounded by what is asked, and nothing is asked twice in a process (`CostBounded`); every name is accounted for | batch size 2 with full, partial and no batch, two scoped names, a name listed twice; two attempts; two lookups over one cache |
| `written_files` | cached answers are fresh, carry every version that was published, and existence is live (`AnswersAreCurrent`); git runs the gate for every hooks directory an init has spoken for, whatever husky, git and later inits do in between (`InstalledGateRuns`); nobody else's hook is overwritten (`ForeignIsKept`) | two processes, one name, two versions, lifetime 1 of 3 instants: entries are read alive and dead, by their writer and by the other process; every hook manager, one further hooks directory, any number of inits, two events |
| `trust_controls` | the head never governs; what the head would change is reported and described, a link is reported when it appears, the base's files are regular (`NothingSlipsPast`); no tree judges itself | two files changed at a time, each from every entry to every entry (absent, link, gitlink, unreadable text, executable, several texts); one list key and one scalar key; at most one failing read, and any failing ref or tree |
| `source_files` | the loop of excused projects reaches the greatest fixed point; what the change wires into the install is kept; strays hide nothing, merged, collapsed and baselined findings are all accounted for, what was accepted stays quiet, made projects are named (`FiltersAreHonest`); an answer, text or absence, is what the side held at that path during the read, and one per path for the whole scan; the glob matcher finds a match when there is one; what the walk of workspace patterns finds is what matching covers, and no member lies where patterns are said not to reach; no member behind a link is lost to a limit; a retargeted link is a reason the reference side does not have | all graphs of reasons over four manifests with cycles and chains, each with any one reason missing from the reference side; lists of up to three findings in either order, with and without a reference side; two runs; more manifests only lengthen chains, which the theorems cover; two paths, two edits, one failing call; all patterns and texts of up to four parts; all lists of up to three of sixteen patterns (exclusions, `..`, letter case, hidden, vendored) on a tree with two links, one upwards, in two listing orders; three links with seven texts each, one of them changed, limits of three hops, three visits and four per side, so that each limit is met |
| `names` | the package each entry installs was given to the name checks; the banded distance is the distance; a name that resembles a popular one by the definition of some rule is reported, unless that rule may propose a sibling of the published name, and what is reported resembles what it is reported for (`ResemblanceIsSeen`); of two new Python names at most one is reported | twelve entries at two places of one key, every sequence of lockfiles; all pairs of words up to six letters over two; names of up to four characters (two letters and two separators), scoped ones, and long ones of the wider band; seven popularity lists with names in the same and another scope, beside a sibling and two edits away; four families of Python names |
| `lockfiles` | a merged pnpm stream brings in no package that was not compared or counted; keys read back as the package they were written for; of several findings of a signal the worst is kept, and the order of the earlier entries changes nothing but how a signal of several severities is reported; a hash or origin that changed under a held version raises a signal or meets a named exemption; unread bytes and lost coverage are vouched for by an acknowledgement; the printed remedy works | streams of up to three documents and one past the cap; every spelling of four names, two versions, two URLs and four peers; entries with nine URLs and five hashes, up to three predecessors; two directories whose manifests are absent, bare or declaring, five lockfiles, three merges, one acknowledgement at a time |
| `projects` | vendored manifests are read exactly when a chain names them; a scan of a directory is not weaker than one of the root; only includes deeper than the limit are cut; an exempted name is a package the install links, or one whose directory the pull request took out of the base's field | a root, an application and a library with build and vendored directories, chains of up to three references, some of them lost, members with a chain of their own, any one file failing on either side; include graphs over six files with chains one longer than the limit; two members, two names, both npm lockfile names, every field |
| `internal_names`, `trust_controls_reads`, `constraint_first`, `lockfiles_dropped` | disagreements of docs or comments with the code, below | |

A third process adds no new race on the cache: every step of a lookup reads or
writes the file once and what two processes leave behind is again one of the file's
states. Larger batches add no case to the division into full and partial ones.

Deadlock is not checked in `lockfiles` and `projects`: a walk and a series of merges that used up
its bound are at their end there. In `source_files` the filter and the reads say themselves when
they are over, the walks just stop (`Rest`).

What limits some of the properties:

* `ReadIffNamed` lets anything be read where something named could not be placed: there the code
  reads every `package.json` instead. `SubdirectoryNotWeaker` promises the `pyproject.toml` files
  under a skipped directory name only when an input that was looked at was missed, since one that
  nobody looked at says nothing to the smaller scan (`RootStopIsSeen`).
* `BeforeOrderIrrelevant` (of `TamperIsSeen`) compares the findings themselves, but where a signal is raised at
  several severities by several earlier entries (only `resolution-unreadable` is) the order does decide: the signal is
  reported with the severity of the first candidate (`AgreedIsTrueOfEach` below), and whether a dropped one is
  reported depends on it too (`DroppedCriticalIsReported`). The signals are still the same.
* `NothingSlipsIn` (of `PnpmNothingSlipsIn`) speaks of lockfiles whose project document had entries on the base.
* `InstalledWasJudged` leaves out aliases of workspace names, which are `AliasTargetIsJudged`.
* `RetargetIsSeen` leaves out paths that loop back (`RetargetPastLoopIsSeen`), and
  `NoMemberMissed` links listed under `node_modules` (`NestedLinksAreCandidates`). Their
  module takes from the patterns only below which directories and at which depths they
  reach; that this is what patterns mean is `MembersAreReachedThrough` of `WorkspacePatterns`.
* `InstalledGateRuns` promises the directories some init was about. After a native init elsewhere the *first* husky
  install points `core.hooksPath` at `.husky/_`, and the gate is gone until init is run again; so it is about the husky installs
  that follow an init made with husky in place. Nor does it promise hooks the developer edited since or while `init` ran, something else
  written into husky's generated directory by hand, or a hook an init wrote and did not get to make executable (`AlreadyInstalledIsExecutable` below).
* `ResemblanceIsSeen` asks nothing of popular names. A rule proposes one target; where that is
  a sibling, in the scope of a published name, the code goes on to the next rule and nothing more is asked of that one.
* `ExemptIsLinked` allows a member of the base's field that the pull request drops, which npm
  fetches: `ExemptIsNeverFetched` below. It shows that this is the only way.
* `AnswersAreCurrent` takes a torn cache file to be one that does not parse; that a file parses
  and says something else cannot be expressed. `NothingSlipsPast` has one list key and one scalar key, which `Describe` treats
  alike: a key forgotten in the code's comparison by hand would not be seen.
* `WorkspaceLinks` has one install root, and the patterns of its field are the set of
  members they cover.

Each property is falsified by a mutant of the code it is about: the operators
marked *Mutant* in the modules, listed in `PROJECT.json`. A type invariant is stated per
module where a proof rests on it, and is proved rather than run.

### Disagreements

Four have a run:

* `internal_names`: the docs say a declared internal name is never sent. publish-age
  filters the installed key and sends the name the tarball URL vouches for.
* `trust_controls_reads`: `docs/INVARIANTS.md` says failing to read a control input is
  exit 2 and never a fallback. A git process that fails reads as an absent file or an
  empty text, and the run goes on without the base's word.
* `constraint_first`: a requirements file reached first through `-c` and then through `-r`
  stays a constraint, though the comment speaks of files reached *only* through `-c`.
* `lockfiles_dropped`: `tamper.ts:1262` says a critical verdict that not every earlier entry supports
  is reported, as one that cannot be attributed. `agreementAcrossCandidates` keeps the first verdict of each signal only,
  and one signal is high against one earlier entry and critical against another; listed in that
  order, behind a third that raises nothing, the critical one is lost and nothing is reported.
  The proof attempt of `TamperIsSeen` found it, where the order turned out to matter.

The others are stated in the modules, TLC refutes each when it is given as an
`INVARIANT` (in a composite run, qualified by its instance), and no run repeats it:

| definition | the doc or comment | the code |
|---|---|---|
| `DownloadsLookup!BudgetAskedBeforeEveryRequest` | `deadline.ts:12`: each step asks before spending a request | a bulk lookup asks once, then spends one request per batch and scoped name |
| `OnlineCache!AnswersSurviveTheCache` | `cache.ts:2`: an unreadable cache costs a fetch at worst | a cache that cannot be written makes `save` throw inside the lookup, and the answer is lost |
| `SourceReads!StaleListingDegrades` | `git-source.ts:617`: a stale listing degrades to absent, not to a crash | git's wording for a path that left a ref and is still on disk is none of those `readBlob` knows |
| `LockfileTamper!UpgradeMovesNothingElse` | `tamper.ts:1177`: http to https is benign "with nothing else different" | the hash may be rewritten along with it |
| `LockfileTamper!AgreedIsTrueOfEach` | `agreement.ts:24`: an agreed verdict is true whichever earlier entry it succeeds | it has the severity it has against the first candidate; against another it may be critical |
| `LockfileDowngrade!NoChangeIsNeverRefused` | `docs/INVARIANTS.md:1448`: unread lockfiles below the root are not judged | an untouched v1 lockfile below the root refuses every change |
| `LockfileDowngrade!EveryUnreadIsNamed` | `docs/INVARIANTS.md:1460`: every unread lockfile is named | a bun lockfile beside a root `yarn.lock` is not |
| `ProjectDiscovery!RootStopIsSeen` | `git-source.ts:3214`: what stops a root scan is seen by a scan of a directory | a manifest that a stand-in promoted has no position and is not looked at |
| `PythonNames!ResemblingPairIsReported` | `python-typosquat.ts:22`: a resembling pair of new names is reported once | a long name left to a short one, whose narrower band finds nothing |
| `PythonNames!ReportedAgainstTheDeclared` | the same comment: against the declared name | a declared name that is new at one more place is reported against its misspelling |
| `InstalledNames!AliasTargetIsJudged` | `candidates.ts:156`: an accepted alias target is judged as a name | not when it has the name of a confirmed workspace package |
| `WorkspacePatterns!ExclusionIsOfTheSpelling` | `git-source.ts:1316`: matched minus excluded | an excluded spelling through a link that is listed first hides the directory itself |
| `SymlinkedMembers!RetargetPastLoopIsSeen` | `git-source.ts:2729`: only the same links excuse a stop | the links behind a loop are not in its key |
| `SymlinkedMembers!NestedLinksAreCandidates` | `git-source.ts:2726`: every listed link below a followed one is a candidate | links listed under `node_modules` are not |
| `PnpmDocuments!NewDocumentIsCompared` | `pnpm.ts:386`: else compared with the first lockfile of the format | not for a lockfile below the root |
| `InitHook!AlreadyInstalledIsExecutable` | `init.ts:602`: exit 0 when the hook already was installed | the mode of the file is not asked |
| `InitHook!NothingWasWritten` | `init.ts:570`: "nothing was written" | printed after a write whose chmod failed |
| `WorkspaceLinks!ExemptIsNeverFetched` | `git-source.ts:1880`: a claim counts only for a member of the same side | a member the pull request takes out of the field stays confirmed |
| `WorkspaceLinks!BaseFileDecides` | `git-source.ts:1910`: the base's field when the base has the file | not when the base's file does not parse |

## Fairness

`OnlineScan` assumes weak fairness of the process's own steps:
the event loop runs what is ready, and `AbortSignal.timeout` ends every wait, so an
awaited call always comes back, with an answer or an error. No fairness is assumed of
any particular answer. `Tick` is bounded: a call lasts at most its time limit. The other
modules state safety only; where a loop has to end, a bound on its steps is stated or
proved (`CostBounded`, `LoopSettles`).

## Proofs

`OnlineScanProofs` proves, for every set of scans, names, sites, budgets and call
lengths:

* `TypeCorrect`: types, by induction on the steps; it needs that candidates of a
  scan are well typed, which are the lemmas on the candidate operators.
* `NothingIsForgotten`: the invariant is that each name a step is due to look up is
  in exactly one of these places: ahead (the step has not started), in `todo`, in the call awaited,
  answered, or in `unchecked`. Neither the property nor a single step's half of it is inductive:
  a later step's due names depend on findings earlier steps rewrite, so the
  invariant also says which fields no step changes.
* `JudgedMeansAnswered`: from the former at the end, and the definition of the exit status.
* `NoDeclaredNameSent`: every queue holds only sendable names.
* `BudgetBoundsTheRun`: a call begins before the end of the budget and lasts at most
  one call length.
* `NothingRemoved`: an action property, from the type invariant; it has no run.

* `TheReportIsHonest`: each finding has the severity the offline checks gave it or one that an
  answer on record justifies, and a finding that was added rests on an answer; the diagnostics
  count at least what the budget left over; with lookups off nothing is sent and the list is
  exactly what was owed. The invariant says of every working finding what it rests on, which
  rewriting by a later step must keep, and of every entry of the list that it was owed.
* `RunKeepsItsPromise`: the safety half of the refinement of `OnlineVerdict`, which TLC checks
  together with its liveness as `KeepsPromise`. Every step of the code is one of the abstract
  run or changes nothing there. It needs that no answer is on record for a name whose step has
  still to visit it, or else to give it up would contradict an answer; registered-squat, which
  asks twice about its names, is the exception.

`DownloadsLookupProofs` proves three theorems about a lookup. `DeadApiFabricatesNothing`: while
the API is dead the probe has not resolved, and only a resolved probe or a body makes a zero.
`LookupCostBounded`: the invariant follows a lookup through its requests and adds up what those
that are done may have cost and what the one at hand has used of its allowance.
`LookupAccountsForAll`: a name asked for is among the answers or in a request still planned.
The model splits names with `Among`, as `SelectSeq` is recursive.

`WrittenFilesProofs` proves three theorems about the two kinds of files dep-guard writes, for
the composed specification; each keeps the other's variables.

`CacheServesTheTruth`, for any number of processes. What is on disk or in memory may be older
than what either process knew, so freshness cannot come from
the order of writes; it comes from the moment of the answer. The invariant has two parts
beyond the types: a lookup on its way asked about no more than the registry still has,
and about no name that is back; and each answer given was good when it was given.

`InstalledHookRuns` and `ForeignHooksStay`, for any hooks
directories and any number of events. The invariant (`HookInv`): the file of a plan is the one that decides for every
directory the plan is about, and so never one in the generated directory; while a plan is at work nothing is promised of its file, which is not
someone else's, unless it changed meanwhile; the file that decides for a promised directory is ours;
and a hook of ours that is not executable is one an init is still at or was cut off from. Changes of `core.hooksPath`,
husky installs and git cleans leave all of it as it is, since they touch only the generated directory and its dispatcher is executable wherever it is.

`TrustControlsProofs` proves `HeadIsNotObeyed`, whichever git processes fail. The
invariant that carries it: what was read of the base is the base's own entry or the
trace a failed read leaves of it, and such a trace has no keys. `JudgesAnotherTree`
needs that the stages after `CompareTrees` remember what it established. `NothingIsMissed`
follows each file: what was read is its side's entry unless the read failed, and past the
judgement what is enforced and what is proposed are functions of what was read. So a head that
differs either differs in text, which is reported, or in shape, which is too; one that
differs in neither has equal text, and equal text of regular files is equally valid
(`TextAssumption`).

`SourceFilesProofs` is about the filter, the reads, the globs, the workspace patterns and the walk behind links of the composed specification.
`LoopIsGreatestFixpoint`: throughout, the set contains every
closed set and is contained in the set it started from; whatever a pass has visited
holds as long as the pass removed nothing; so a pass that removed nothing ends on a
closed set, the largest one. `LoopSettles` counts: passes done and paths left never exceed
the number of projects. `NothingWiredIsDropped` follows from the first, since a path with
nothing missing can be added to the excused set without opening it. `FilteringIsHonest` follows the
findings through the stages that drop, hide, merge and collapse them: what each stage left is a
function of the input and the baseline, the invariant says which. A finding that no entry
dropped is shown, baselined, or merged into one shown with the same fingerprint, and that it is the same
rests on an assumption of the input: findings of a name rule carry one signal (`Raw`). A nested
lockfile that goes unjudged needs a witness, the excused set with its directory's manifest added.

`NothingIsMadeUp` and `AnswersStay`: the window
holds the listed and the present entry of every path, a path still wanted has no answer
yet, and only listed files are left to the batch; so whichever of batch, fallback and
working-tree calls answers, the window explains it.

`GreedyIsEnough`, for any pattern, text and sense of which symbol sees which letter. That
giving up an earlier star is never needed is not visible from the state of the walk; the invariant speaks
of all cuts of the text among the symbols: every cut that makes the text a match gives the last star
at least what the walk has given it, and the walk's own position is a cut of what it has consumed. When the last star
runs out of text there is therefore no cut at all.

`WalkAgrees` and `MembersAreReached`, for any tree, links, list of patterns, order of the listings, bound on
the depth and sense of which segment sees which name. That nothing uncovered is named (`WalkSound`): the segments before
each place left can take the path that led there (`OnRoute`). The lemma behind `MembersAreReached` is about matching alone
(`CoveredIsReached`): every directory above one a pattern matches is taken by some of its segments, or stopped in by a `**`.
That nothing covered is missed is harder, as each `**` cuts off a walk that meets a directory twice. A match is
a cut of the path among the segments, and `WalkComes` says of each cut that the directory is among the results or some place
left lies on the cut, further along it than every `**` already walked (`Leads`, `Ahead`). Such a place is never given up as
visited, and the step it takes leaves another further along the same cut; so does a `**` walked elsewhere on the cut, which
takes over when it is the further of the two. Places are compared by where they really are, so a link
may stand for the directory. `WalkThrough` adds that the walk enters `node_modules` only where the pattern
names it, and `WalkDone` what the patterns already done named. Assumed of the constants: matching survives lower case (it does,
unless a name holds a Greek capital sigma, whose lower case depends on its neighbours), a text sees itself, the directories
above a directory exist, and a listing gives every name there is.

`NoMemberIsMissed` and `RetargetIsAlwaysSeen`, for any links, manifests, patterns and limits. The walk descends over real
directories, a package manager opens a path from the root; that the two agree rests on lemmas about `walkPhysicalPath`: a walk
with more to go continues from where the first part ended (`WalksContinue`), and one that has read links before goes the same way
until the limit on hops (`WalksChain`). A walk is over after finitely many segments because each either leaves fewer of them or
reads one of at most `MaxHops` links (`SegmentAdvances`); since the induction theorems cannot be used, that the recursive definition
has a value is shown by exhibiting the sequence of its segments (`WalkedUnfolds`). Then the invariant (`LinksInv`): each frame's path opens the directory
of its link through the links of its chain, and each directory it is inside of was opened by a shorter part of the path
(`LinksSound`); and each path that a pattern covers and that goes through followed links to a manifest is answered, or some frame's
path is the beginning of it (`LinksCovered`). A frame passed over is off the patterns of every such path (`OnTheWay`). One that is visited opens its path, as the
path goes on to a manifest, so only a loop refuses it; otherwise the rest of the path is a member's, or meets a first link
below the directory that was opened (`FirstLink`), which has a frame. A reason about a member names where it is found
(`ReasonsSound`): the same reason on both sides is the same manifest, which is what `RetargetIsAlwaysSeen` needs. Assumed of the
constants: a side's links are those of a tree, none above another or above a manifest, their paths without dots.

`NamesProofs` proves four properties. `SpecInstalledWasJudged`, for every set of places, keys and
entries and any number of merges. Being judged is not enough to carry it: an entry may be
unchanged and only its declaration go away. So the invariant also says that every name the
manifest declares was judged. `MutualPairsReportedOnce`, for every set of Python
changes and every ordered alphabet: what is reported is what the judged names match and do not
leave to the other, no name matches itself, and of two new names exactly one outranks the
other, because the number of anchors is a number and the order of strings decides a tie.

`BandLosesNothing`, for any alphabet, length and band. The walk reuses two rows and writes only the
band, so what lies beyond its edge is whatever an earlier row left there. The invariant
(`DistanceInv`, `Walks`) says what the walk may rely on: the last row agrees, inside the band and one cell to each side,
with the table of edit distances capped one above the band. That a cell outside the
band is above it, and that the least cell of a row never falls from a row to the next, are lemmas on the table.

`NoResemblanceIsMissed`, for any names, popularity lists and keyboard. What a rule calls alike (`Alike`) is said without
the index and the candidates, so each rule has a lemma that it proposes only targets it calls alike, and one wherever there is one (`Proposes`):
for the candidate lists that they hold every removal, swap and neighbour (`InOrderLists`, `FlattenedMembers`), for the index that what it
skips has another length or form, for the distance that the banded one is the distance capped above the
band (`WithinIsCapped`). By the invariant (`ResemblanceInv`) a rule tried without a match is spent: all it calls alike stands
behind a sibling (`Spent`). A cascade that ends without a match has spent all of them.

`LockfilesProofs` proves the six properties of the `lockfiles` run, for any constants
that satisfy the three assumptions its MC module states and the one of `PnpmDocuments`.

* `DocumentsNothingSlipsIn`: the invariant (`DocumentInv`) is that a head that passed was read,
  that the changes are those of its judgement and that no unread text of it changed. A document is then
  the project's, compared under its label, or among the text.
* `KeysReadBack`, for any tokens, names, versions, URLs, peers and values: a key of version 5 has one slash before which a name and after
  which a version can stand; in a later key the cut falls between name and version, because no name has an
  at sign past its first token and only a URL begins with a scheme; a key that begins with a host gives no
  name. The invariant (`KeysInv`) relates what was read to the first packages of the section, entry by entry,
  each once. Assumed: a token between separators is not one, and no URL has an opening parenthesis.
* `TamperIsAlwaysSeen` and `SilenceIsAlwaysAccountedFor` share `TamperInv`: what is held for a signal is a worst of
  those raised, and everything an entry already walked gives rise to was raised. Candidates are narrowed as
  a set, so a permutation of the entries permutes them, and what they agree on has the same findings where each signal has one severity; an entry critical against every
  earlier one either has a signal they share or has one dropped at critical. Assumed: an http URL that parses has a host.
* `CoverageIsAlwaysVouched` (`HistoryInv`): the property is inductive given that every commit is a tree. A merge was not refused
  against the tip, so what is unread in it beside what is read was unread there before, by its blob, or is acknowledged.
  Assumed: a blob id says what the file holds.
* `RemedyAlwaysWorks`: acknowledging what one side asks for takes nothing back from another, since refusal is antitone in the acknowledgements.

`ProjectsProofs` proves the four properties of the `projects` run for the composed
specification, whose invariant is that of the subject, for every tree, prefix, include graph and claim.

* `NamedManifestsAreRead`: the property computes what is named in a fixed number of rounds, the
  code by a loop that ends when nothing is pending. Both are the least set that holds what the
  starting files name and is closed: the rounds, since each that does not close it adds a file
  and there are no more rounds than files; the loop, since at its end everything promoted was followed.
* `SubdirectoryIsGated`: whatever is promoted without a position was promoted by a stand-in, and
  then every listed `package.json` was.
* `OnlyTheDeepAreCut`: both walks are one breadth-first search. A queued file has its least depth,
  the queue is in the order of depths, and an expanded file within the limit has led to all it
  can; so everything above the head's level is known and a file new at the head is one level
  below it. The loader's levels lie within the classifier's, which is why what is read was found.
* `ExemptNamesAreLinkedOrDropped`: a confirmed claim is of the lockfile npm installs from, and of a member of the base's field
  where there is one; that member is either still in the field npm reads or was dropped.

Two proof attempts changed the model. `ReadIffNamed` started its chains at the manifests outside
`node_modules` only; a workspace member under one is followed too. `SubdirectoryNotWeaker` claimed
every manifest wherever an input was missed; it does not hold of `pyproject.toml` files when the missed input
is one that was not looked at, and the instance had no tree in which something could not be placed. It has now.

Assumptions on constants are the `ASSUME`s of the modules; TLC evaluates them in
every run. What stays with TLC is liveness: that an online run terminates, and the fairness half of
the refinement of `OnlineVerdict`.

No installed prover can instantiate the induction
theorems, which take an operator; induction over numbers with a *set* in its place is proved here from
`WFMin` (`Induction`), and recursive functions on numbers are handled by exhibiting one (`Iteration`).

## Not modelled

* Text: the grammars of requirements, markers, index options, `.npmrc`, YAML and JSON, and the
  wording and layout of findings and notes. They are tested function by function.
* Install scripts, confusion, hygiene and existence among the offline checks: one pass over
  one dependency, without state.
* The Bloom filter: its hashes are arithmetic over bytes, and the checks that use it live
  with false positives. Loading the corpus is reading files.
* Refs that move while the control inputs are read (`trust-base.ts:836`): `TrustControls`
  takes refs as fixed for the run. `SourceReads` lets them move.
* How `ProjectDiscovery`, `WorkspacePatterns` and `SymlinkedMembers` compose: the first takes the
  members of a manifest as given, the others say how patterns and links give them.
* In `InitHook`: dry runs, custom husky directories, and that there is no repository.
* The library surface, output formats, scripts, benchmarks, action and workflows.

Worth adding next: moving refs in `TrustControls`.
