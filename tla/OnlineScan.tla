----------------------------- MODULE OnlineScan -----------------------------
(***************************************************************************)
(* One online run of the scanner: enrichOnline in scan.ts, the five steps  *)
(* it calls (online/*.ts), the list of names it could not check and the    *)
(* exit code that follows (settleOnlineUnchecked, buildResult).            *)
(*                                                                         *)
(* The scan's own input (the offline findings, the names the delta         *)
(* introduced, the controls) is one record of the constant set Scans and   *)
(* never changes.  The registry, the downloads API, PyPI and the on-disk   *)
(* cache are the environment: an awaited call may be answered in any way   *)
(* their clients distinguish, or throw.                                    *)
(*                                                                         *)
(* Abstracted: a download count is one of three classes around the two     *)
(* floors, an age one of two around its limit; diagnostics are dropped     *)
(* except the number the deadline ones carry; findings are a set, keyed by *)
(* rule, name, site and version; time passes only while a request is out.  *)
(***************************************************************************)
EXTENDS Integers, FiniteSets

CONSTANTS
  Npm,       \* names looked up on the npm registry
  Pypi,      \* names looked up on PyPI
  Sites,     \* manifest and lockfile paths
  Versions,  \* resolved versions
  Scans,     \* the scan inputs considered
  MaxCall,   \* the longest one name's lookup takes (fetchJson bounds it)
  MaxBulk    \* the longest one bulk downloads lookup takes

NoVersion == "-"

Names      == Npm \cup Pypi
Severities == {"low", "medium", "high", "critical"}
SevRank    == [low |-> 0, medium |-> 1, high |-> 2, critical |-> 3]
Rules      == {"unknown-package", "typosquat", "registered-squat",
               "publish-age", "other"}
Steps      == {"unknown-package", "pypi-existence", "asymmetry",
               "registered-squat", "publish-age"}
Resolutions == {"none", "deadline-exceeded", "unreachable",
                "registry-present", "not-present", "registry-absent"}
Said       == {"registry-present", "not-present", "registry-absent",
               "tiny", "small", "big", "young", "old", "dated"}

Finding == [rule: Rules, name: Names, site: Sites,
            ver: Versions \cup {NoVersion}, sev: Severities, res: Resolutions]
Key     == [rule: Rules, name: Names, site: Sites,
            ver: Versions \cup {NoVersion}]
KeyOf(f) == [rule |-> f.rule, name |-> f.name, site |-> f.site, ver |-> f.ver]

Unchecked == [name: Names, step: Steps,
              reason: {"budget", "unreachable", "online-disabled"}]
NewName   == [name: Npm, site: Sites, fresh: BOOLEAN]
PyCandidate == [name: Pypi, site: Sites, manifest: BOOLEAN, skip: BOOLEAN]
LockChange  == [name: Npm, lookup: Npm, site: Sites,
                ver: Versions \cup {NoVersion},
                url: {"none", "public", "other"}]

(* The two rules that need a registry's answer are raised online only.     *)
OfflineFinding == {f \in Finding : f.rule \notin {"registered-squat", "publish-age"}}

(* What a scan hands to the online phase: CheckContext, the checked        *)
(* findings, the resolved configuration, the command line and the keys of  *)
(* the findings that the path filters and the baseline hide afterwards.    *)
Scan == [offline: SUBSET OfflineFinding, newNames: SUBSET NewName,
         pypi: SUBSET PyCandidate, locks: SUBSET LockChange,
         internal: SUBSET Names, private: SUBSET Npm, pinned: SUBSET Npm,
         local: SUBSET Npm, allow: SUBSET Names,
         minAgeAllow: SUBSET (Npm \X Versions), hidden: SUBSET Key,
         cfgOnline: BOOLEAN, cli: {"unset", "on", "off"}, pr: BOOLEAN,
         note: BOOLEAN, budget: Nat, failOn: Severities \cup {"none"}]

ASSUME NamesAssumption == Npm \cap Pypi = {}
ASSUME ScansAssumption == Scans \subseteq Scan
ASSUME BoundsAssumption == MaxCall \in Nat \ {0} /\ MaxBulk \in Nat \ {0}
ASSUME FiniteAssumption ==
  /\ IsFiniteSet(Finding) /\ IsFiniteSet(NewName)
  /\ IsFiniteSet(Sites \X Npm \X Versions)

VARIABLES
  in,         \* the scan's input, fixed
  phase,      \* which loop of enrichOnline is running
  todo,       \* names that loop has not come to yet
  call,       \* names of the call being awaited, {} between calls
  wire,       \* those of them a request is out for; the cache has the rest
  now,        \* the wall clock, 0 when the deadline was created
  age,        \* how long the awaited call has been out
  report,     \* the working list of findings
  unchecked,  \* what the steps pushed into the sink, first entry per name
  skipped,    \* the sum of the counts in the deadline diagnostics
  sent,       \* [step, name]: every name put on the wire, by which step
  replies,    \* [step, name, said]: what registry or cache answered
  verdict     \* the finished result, or NoVerdict

vars == <<in, phase, todo, call, wire, now, age, report, unchecked, skipped,
          sent, replies, verdict>>

Phases == Steps \cup {"squat-downloads", "settle", "done"}
NoVerdict == [exit |-> 3, names |-> {}, findings |-> {}]
Verdict == [exit: 0..3, names: SUBSET Unchecked, findings: SUBSET Finding]
-----------------------------------------------------------------------------
(* Controls: resolveOnline, the online-disabled rule, the deadline.        *)

Enabled == IF in.cli = "unset" THEN in.cfgOnline ELSE in.cli = "on"

(* onlineDisabledCandidates: the same steps, over copies, no budget.       *)
DryRun == ~Enabled /\ in.pr /\ in.cfgOnline /\ in.cli = "off"

EndsAt == IF DryRun THEN 0 ELSE in.budget

(* Mutant: off by one at the deadline.                                     *)
ExpiredLate == now > EndsAt
Expired == now >= EndsAt
-----------------------------------------------------------------------------
(* Which names each step looks up.                                         *)

Internal(n)  == n \in in.internal
NonPublic(n) == n \in in.private

(* Mutant: the private-registry rule forgotten.                            *)
SendableUnlessInternal(n) == ~Internal(n)
Sendable(n)  == ~Internal(n) /\ ~NonPublic(n)

UnknownCandidates == {f \in in.offline :
  f.rule = "unknown-package" /\ f.name \in Npm /\ Sendable(f.name)}
UnknownNames == {f.name : f \in UnknownCandidates}

PypiSendable == {c \in in.pypi : ~Internal(c.name) /\ ~c.skip}
PypiNames    == {c.name : c \in PypiSendable}

(* pypiLookupOrder: a name some manifest declares comes before one that    *)
(* only a lockfile carries.                                                *)
ManifestNamed(n) == \E c \in in.pypi : c.name = n /\ c.manifest

PypiFirst(n) == ManifestNamed(n) \/ \A m \in todo : ~ManifestNamed(m)

LowTyposquats(fs) == {f \in fs :
  f.rule = "typosquat" /\ f.sev = "low" /\ f.name \in Npm}
AsymmetryCandidates(fs) == {f \in LowTyposquats(fs) : Sendable(f.name)}
AsymmetryNames(fs) == {f.name : f \in AsymmetryCandidates(fs)}

SquatCandidates == {c \in in.newNames : ~c.fresh /\ Sendable(c.name)}
SquatNames      == {c.name : c \in SquatCandidates}

(* isNonPublicResolution: a private scope pin, else the entry's own        *)
(* resolved URL, else the name rule.                                       *)
NonPublicResolution(l) ==
  \/ l.name \in in.pinned
  \/ l.url = "other"
  \/ l.url = "none" /\ NonPublic(l.name)

AgeCandidates == {l \in in.locks :
  /\ l.ver # NoVersion
  /\ l.name \notin in.local
  /\ ~Internal(l.name)
  /\ ~NonPublicResolution(l)}
AgeLookups  == {l.lookup : l \in AgeCandidates}
AgeGroup(n) == {l \in AgeCandidates : l.lookup = n}
-----------------------------------------------------------------------------
(* The loops.  Every loop asks the deadline before it spends a request.    *)

Init ==
  /\ in \in Scans
  /\ phase = IF Enabled \/ DryRun THEN "unknown-package" ELSE "settle"
  /\ todo = IF Enabled \/ DryRun THEN UnknownNames ELSE {}
  /\ call = {} /\ wire = {}
  /\ now = 0 /\ age = 0
  /\ report = in.offline
  /\ unchecked = {} /\ skipped = 0
  /\ sent = {} /\ replies = {}
  /\ verdict = NoVerdict

(* A request for the names S goes out under this phase's step; those not   *)
(* in W the online cache answers.                                          *)

StepOf(p) == IF p = "squat-downloads" THEN "registered-squat" ELSE p

Send(S, W) ==
  /\ call' = S /\ wire' = W /\ age' = 0
  /\ sent' = sent \cup {[step |-> StepOf(phase), name |-> n] : n \in W}
  /\ UNCHANGED <<in, phase, now, report, unchecked, skipped, replies, verdict>>

Return == call' = {} /\ wire' = {} /\ age' = 0

(* The sink, with settleUnchecked's rule: the first entry of a name at a   *)
(* step stands.                                                            *)

(* Mutant: one entry per name, whatever the step.                          *)
MissedOncePerName(S, why) == unchecked \cup
  {[name |-> n, step |-> StepOf(phase), reason |-> why] :
     n \in S \ {u.name : u \in unchecked}}
Missed(S, why) == unchecked \cup
  {[name |-> n, step |-> StepOf(phase), reason |-> why] :
     n \in {m \in S : \A u \in unchecked :
                        ~(u.name = m /\ u.step = StepOf(phase))}}

Heard(S, said) == replies \cup
  {[step |-> StepOf(phase), name |-> n, said |-> said] : n \in S}

(* recordResolution on every finding of a group; sev "kept" leaves the     *)
(* severity alone.                                                         *)

Resolve(group, sev, res) ==
  (report \ group) \cup
  {[f EXCEPT !.res = res, !.sev = IF sev = "kept" THEN @ ELSE sev] : f \in group}

UnknownGroup(n) == {f \in report :
  f.rule = "unknown-package" /\ f.name = n /\ n \in Npm}

(* registered-squat walks its candidates one by one, the other loops walk  *)
(* names with their findings or entries grouped.                           *)
Items == IF phase = "registered-squat" THEN NewName ELSE Names
NameOf(i) == IF phase = "registered-squat" THEN i.name ELSE i

(* The names a lookup that did not happen is reported under: the installed *)
(* keys of the group for publish-age, the name itself elsewhere.           *)

(* Mutant: the looked-up name instead of the installed keys.               *)
ReportedLookup(i) == {NameOf(i)}
Reported(i) == IF phase = "publish-age" THEN {l.name : l \in AgeGroup(i)}
               ELSE {NameOf(i)}

GroupSize(i) ==
  CASE phase = "unknown-package" -> Cardinality(UnknownGroup(i))
    [] phase = "publish-age"     ->
         Cardinality({k \in Sites \X Npm \X Versions :
                        \E l \in AgeGroup(i) : k = <<l.site, l.name, l.ver>>})
    [] OTHER                     -> 1

PerName == {"unknown-package", "pypi-existence", "registered-squat",
            "publish-age"}
Live    == {"unknown-package", "pypi-existence"}  \* never from the cache
InOrder(i) == phase = "pypi-existence" => PypiFirst(i)

OutOfBudget == \E i \in todo :
  /\ phase \in PerName /\ call = {} /\ InOrder(i)
  /\ Expired
  /\ todo' = todo \ {i}
  /\ unchecked' = Missed(Reported(i), "budget")
  /\ skipped' = skipped + GroupSize(i)
  /\ report' = IF phase = "unknown-package"
               THEN Resolve(UnknownGroup(i), "kept", "deadline-exceeded")
               ELSE report
  /\ UNCHANGED <<in, phase, call, wire, now, age, sent, replies, verdict>>

Ask == \E i \in todo : \E cached \in BOOLEAN :
  /\ phase \in PerName /\ call = {} /\ InOrder(i)
  /\ ~Expired
  /\ phase \in Live => ~cached
  /\ todo' = todo \ {i}
  /\ Send({i}, IF cached THEN {} ELSE {NameOf(i)})

(* The lookup throws: transport error, timeout, a status that answers      *)
(* nothing, a body that does not parse, a cache file that cannot be saved. *)

(* Mutant: a name whose lookup threw goes back into the loop.              *)
UnreachableRequeued == \E i \in call :
  /\ phase \in PerName /\ wire # {}
  /\ Return
  /\ todo' = todo \cup {i}
  /\ unchecked' = Missed(Reported(i), "unreachable")
  /\ UNCHANGED <<in, phase, now, report, skipped, sent, replies, verdict>>

Unreachable == \E i \in call :
  /\ phase \in PerName /\ wire # {}
  /\ Return
  /\ unchecked' = Missed(Reported(i), "unreachable")
  /\ report' = IF phase = "unknown-package"
               THEN Resolve(UnknownGroup(i), "kept", "unreachable")
               ELSE report
  /\ UNCHANGED <<in, phase, todo, now, skipped, sent, replies, verdict>>

(* AbortSignal.timeout and the attempt limit end every call.               *)
LongestCall == IF phase \in PerName THEN MaxCall ELSE MaxBulk
Tick ==
  /\ wire # {} /\ age < LongestCall
  /\ now' = now + 1 /\ age' = age + 1
  /\ UNCHANGED <<in, phase, todo, call, wire, report, unchecked, skipped,
                 sent, replies, verdict>>
-----------------------------------------------------------------------------
(* Answers of the per-name steps.                                          *)

(* Mutant: a name some check cannot vouch for taken for an absent one.     *)
SeverityAfterRash(said) == IF said = "registry-present" THEN "low" ELSE "critical"
SeverityAfter(said) ==
  CASE said = "registry-present" -> "low"
    [] said = "registry-absent"  -> "critical"
    [] OTHER                     -> "kept"

UnknownAnswer == \E n \in call, said \in
    {"registry-present", "not-present", "registry-absent"} :
  /\ phase = "unknown-package"
  /\ Return
  /\ replies' = Heard({n}, said)
  /\ report' = Resolve(UnknownGroup(n), SeverityAfter(said), said)
  /\ UNCHANGED <<in, phase, todo, now, unchecked, skipped, sent, verdict>>

(* A 404 is a finding at every candidate the index rule let through,       *)
(* unless a pypi: allow entry clears the name.                             *)
PypiFindingsAt(n) ==
  {[rule |-> "unknown-package", name |-> n, site |-> c.site,
    ver |-> NoVersion, sev |-> "critical", res |-> "registry-absent"] :
     c \in {d \in PypiSendable : d.name = n}}

PypiFindings(n, said) ==
  IF said = "registry-present" \/ n \in in.allow THEN {} ELSE PypiFindingsAt(n)

PypiAnswer == \E n \in call, said \in {"registry-present", "registry-absent"} :
  /\ phase = "pypi-existence"
  /\ Return
  /\ replies' = Heard({n}, said)
  /\ report' = report \cup PypiFindings(n, said)
  /\ UNCHANGED <<in, phase, todo, now, unchecked, skipped, sent, verdict>>

(* "old" is also a name the registry does not know or dates.               *)
SquatAnswer == \E c \in call, said \in {"young", "old"} :
  /\ phase = "registered-squat"
  /\ Return
  /\ replies' = Heard({c.name}, said)
  /\ report' = report \cup IF said = "old" THEN {} ELSE
       {[rule |-> "registered-squat", name |-> c.name, site |-> c.site,
         ver |-> NoVersion, sev |-> "medium", res |-> "none"]}
  /\ UNCHANGED <<in, phase, todo, now, unchecked, skipped, sent, verdict>>

(* A packument dates each version or leaves it out; the young ones below   *)
(* the floor are findings unless minAgeAllow names them.  An unknown       *)
(* package is the case of no young version.                                *)
AgeAnswer == phase = "publish-age" /\ \E n \in call : \E young \in SUBSET {l.ver : l \in AgeGroup(n)} :
  /\ Return
  /\ replies' = Heard({n}, "dated")
  /\ report' = report \cup
       {[rule |-> "publish-age", name |-> l.name, site |-> l.site,
         ver |-> l.ver, sev |-> "high", res |-> "none"] :
          l \in {k \in AgeGroup(n) :
                 k.ver \in young /\ <<k.name, k.ver>> \notin in.minAgeAllow}}
  /\ UNCHANGED <<in, phase, todo, now, unchecked, skipped, sent, verdict>>
-----------------------------------------------------------------------------
(* The two bulk downloads lookups, each gated once by the deadline.        *)

Bulk == {"asymmetry", "squat-downloads"}

TodoOf(p) ==
  CASE p = "pypi-existence"  -> PypiNames
    [] p = "asymmetry"       -> AsymmetryNames(report)
    [] p = "squat-downloads" -> SquatNames
    [] p = "publish-age"     -> AgeLookups
    [] OTHER                 -> {}
Enter(p) == phase' = p /\ todo' = TodoOf(p)

Following == [p \in {"unknown-package", "pypi-existence", "asymmetry",
                     "squat-downloads", "registered-squat", "publish-age"} |->
  CASE p = "unknown-package"  -> "pypi-existence"
    [] p = "pypi-existence"   -> "asymmetry"
    [] p = "asymmetry"        -> "squat-downloads"
    [] p = "squat-downloads"  -> "registered-squat"
    [] p = "registered-squat" -> "publish-age"
    [] p = "publish-age"      -> "settle"]

(* enrichOnline gates asymmetry itself and counts every low typosquat,     *)
(* also those the step would not have sent.                                *)
BulkOutOfBudget ==
  /\ phase \in Bulk /\ call = {}
  /\ Expired
  /\ phase = "asymmetry" \/ todo # {}
  /\ unchecked' = Missed(todo, "budget")
  /\ skipped' = skipped + Cardinality(IF phase = "asymmetry"
                                      THEN LowTyposquats(report)
                                      ELSE SquatCandidates)
  /\ Enter(Following[phase])
  /\ UNCHANGED <<in, call, wire, now, age, report, sent, replies, verdict>>

AskDownloads == \E W \in SUBSET todo :
  /\ phase \in Bulk /\ call = {} /\ todo # {}
  /\ ~Expired
  /\ todo' = {}
  /\ Send(todo, W)

(* One failing batch throws for every name, the cached ones included.      *)
DownloadsUnreachable ==
  /\ phase \in Bulk /\ call # {}
  /\ Return
  /\ unchecked' = Missed(call, "unreachable")
  /\ Enter(Following[phase])
  /\ UNCHANGED <<in, now, report, skipped, sent, replies, verdict>>

(* "tiny" is under both floors, "small" under the asymmetry floor only;    *)
(* a name the response leaves out is "unresolved", a cached one never is.  *)
Counts == {c \in [call -> {"tiny", "small", "big", "unresolved"}] :
             \A n \in call \ wire : c[n] # "unresolved"}
HeardCounts(c, S) == replies \cup
  {[step |-> StepOf(phase), name |-> n, said |-> c[n]] : n \in S}

AsymmetryAnswer == phase = "asymmetry" /\ call # {} /\ \E c \in Counts :
  /\ Return
  /\ replies' = HeardCounts(c, {n \in call : c[n] # "unresolved"})
  /\ unchecked' = Missed({n \in call : c[n] = "unresolved"}, "unreachable")
  /\ report' = LET weak == {f \in AsymmetryCandidates(report) :
                             c[f.name] \in {"tiny", "small"}}
               IN (report \ weak) \cup {[f EXCEPT !.sev = "high"] : f \in weak}
  /\ Enter("squat-downloads")
  /\ UNCHANGED <<in, now, skipped, sent, verdict>>

SquatDownloadsAnswer == phase = "squat-downloads" /\ call # {} /\ \E c \in Counts :
  /\ Return
  /\ replies' = HeardCounts(c, {n \in call : c[n] \in {"small", "big"}})
  /\ unchecked' = Missed({n \in call : c[n] = "unresolved"}, "unreachable")
  /\ phase' = "registered-squat"
  /\ todo' = {k \in SquatCandidates : c[k.name] = "tiny"}
  /\ UNCHANGED <<in, now, report, skipped, sent, verdict>>

Advance ==
  /\ phase \in DOMAIN Following /\ call = {} /\ todo = {}
  /\ phase = "asymmetry" => ~Expired
  /\ Enter(Following[phase])
  /\ UNCHANGED <<in, call, wire, now, age, report, unchecked, skipped, sent,
                 replies, verdict>>
-----------------------------------------------------------------------------
(* settleOnlineUnchecked, evaluateGate, buildResult.                       *)

Countable == {u \in unchecked : u.name \notin in.allow /\ ~Internal(u.name)}
Listed == IF DryRun
          THEN {[u EXCEPT !.reason = "online-disabled"] : u \in Countable}
          ELSE Countable
Final == IF Enabled THEN report ELSE in.offline
Visible == {f \in Final : KeyOf(f) \notin in.hidden}
IsBlocking(f) == in.failOn # "none" /\ SevRank[f.sev] >= SevRank[in.failOn]

(* Mutant: a gate that blocks nothing also waives the unchecked names.     *)
FailsIfGated == in.pr /\ Listed # {} /\ ~in.note /\ in.failOn # "none"
Fails == in.pr /\ Listed # {} /\ ~in.note

Finish ==
  /\ phase = "settle"
  /\ phase' = "done"
  /\ verdict' = [findings |-> Visible, names |-> Listed,
                 exit |-> IF Fails THEN 2
                          ELSE IF \E f \in Visible : IsBlocking(f) THEN 1 ELSE 0]
  /\ UNCHANGED <<in, todo, call, wire, now, age, report, unchecked, skipped,
                 sent, replies>>
-----------------------------------------------------------------------------
Local   == OutOfBudget \/ BulkOutOfBudget \/ Ask \/ AskDownloads
           \/ Advance \/ Finish
Answer  == UnknownAnswer \/ PypiAnswer \/ SquatAnswer \/ AgeAnswer
           \/ AsymmetryAnswer \/ SquatDownloadsAnswer
Respond == Answer \/ Unreachable \/ DownloadsUnreachable
Terminated == phase = "done" /\ UNCHANGED vars
Next    == Local \/ Respond \/ Tick \/ Terminated

(* The process runs, and every awaited call returns or throws.             *)
Fairness == WF_vars(Local) /\ WF_vars(Respond)
Spec == Init /\ [][Next]_vars /\ Fairness
-----------------------------------------------------------------------------
(* Properties.                                                             *)

(* Every variable stays in its type.                                       *)
TypeOK ==
  /\ in \in Scans
  /\ phase \in Phases
  /\ todo \subseteq Items /\ call \subseteq Items /\ wire \subseteq Names
  /\ now \in Nat /\ age \in Nat /\ skipped \in Nat
  /\ report \subseteq Finding
  /\ unchecked \subseteq Unchecked
  /\ sent \subseteq [step: Steps, name: Names]
  /\ replies \subseteq [step: Steps, name: Names, said: Said]
  /\ verdict \in Verdict

Running == Enabled \/ DryRun

(* The questions a scan raises: a name at each step that looks it up.      *)
OwedAt(s) ==
  CASE s = "unknown-package"  -> UnknownNames
    [] s = "pypi-existence"   -> PypiNames
    [] s = "asymmetry"        -> AsymmetryNames(in.offline)
    [] s = "registered-squat" -> SquatNames
    [] s = "publish-age"      -> AgeLookups

Was(s, n) == \E r \in replies : r.step = s /\ r.name = n
ReportedAt(s, n) == IF s = "publish-age" THEN {l.name : l \in AgeGroup(n)} ELSE {n}
GivenUp(s, n) == \A m \in ReportedAt(s, n) :
                   \E u \in unchecked : u.step = s /\ u.name = m

PhaseRank == [p \in Phases |->
  CASE p = "unknown-package"  -> 1
    [] p = "pypi-existence"   -> 2
    [] p = "asymmetry"        -> 3
    [] p = "squat-downloads"  -> 4
    [] p = "registered-squat" -> 5
    [] p = "publish-age"      -> 6
    [] p = "settle"           -> 7
    [] p = "done"             -> 8]
FirstPhase(s) == IF s = "registered-squat" THEN "squat-downloads" ELSE s
Ahead(s)      == PhaseRank[phase] < PhaseRank[FirstPhase(s)]
Waiting(s, n) == StepOf(phase) = s /\ \E i \in todo \cup call : NameOf(i) = n

(* No name falls between the steps: at any moment every name a step has to *)
(* look up is still ahead, waiting, answered, or in the unchecked list.    *)
NothingForgotten ==
  Running => \A s \in Steps : \A n \in OwedAt(s) :
    Ahead(s) \/ Waiting(s, n) \/ Was(s, n) \/ GivenUp(s, n)

(* A pull-request run that judges (exit 0 or 1) got an answer for every    *)
(* name it had to check, but for those an allow entry clears.              *)
PassMeansAnswered ==
  verdict.exit \in {0, 1} /\ in.pr /\ ~in.note /\ Running =>
    \A s \in Steps : \A n \in OwedAt(s) :
      Was(s, n) \/ ReportedAt(s, n) \subseteq in.allow

Replied(s, n, said) == [step |-> s, name |-> n, said |-> said] \in replies
SameKey(f, g) == KeyOf(f) = KeyOf(g)

(* A severity moves only on a registry's word: to low for an unknown       *)
(* package the registry has, to critical on a registry's 404, and from low *)
(* to high for a look-alike with few downloads.                            *)
OfflineSaid(f, sev) == \E o \in in.offline : SameKey(f, o) /\ o.sev = sev
SeverityJustified == \A f \in report : (\E o \in in.offline : SameKey(f, o)) =>
  \/ OfflineSaid(f, f.sev)
  \/ /\ f.rule = "unknown-package" /\ f.sev = "low"
     /\ Replied("unknown-package", f.name, "registry-present")
  \/ /\ f.rule = "unknown-package" /\ f.sev = "critical"
     /\ \E s \in Live : Replied(s, f.name, "registry-absent")
  \/ /\ f.rule = "typosquat" /\ f.sev = "high" /\ OfflineSaid(f, "low")
     /\ \E said \in {"tiny", "small"} : Replied("asymmetry", f.name, said)

(* A finding the offline checks did not make rests on an answer.           *)
AddedOnAnAnswer ==
  \A f \in report : (\A o \in in.offline : ~SameKey(f, o)) =>
    \/ f.rule = "unknown-package" /\ Replied("pypi-existence", f.name, "registry-absent")
    \/ f.rule = "registered-squat" /\ Replied("registered-squat", f.name, "young")
    \/ f.rule = "publish-age" /\ \E l \in AgeCandidates :
         l.name = f.name /\ Replied("publish-age", l.lookup, "dated")

(* The network moves a verdict only by what a registry said, in either     *)
(* direction: a failure, a timeout or a spent budget changes no finding.   *)
FindingsRestOnAnswers == SeverityJustified /\ AddedOnAnAnswer

(* A name the configuration declares internal is never sent to a registry. *)
InternalNamesNeverSent == \A s \in sent : ~Internal(s.name)

(* Except for publish-age, which sends the name its tarball URL vouches    *)
(* for, no step sends a name the project declares internal or private.     *)
NamesStayHome ==
  \A s \in sent : s.step # "publish-age" =>
    /\ ~Internal(s.name)
    /\ s.name \notin in.private

(* A spent budget is overrun by at most the one call it caught in flight.  *)
OverrunBounded ==
  now > 0 => now < EndsAt + (IF MaxCall > MaxBulk THEN MaxCall ELSE MaxBulk)

(* The reported number of skipped lookups never understates the names the  *)
(* budget left unchecked.                                                  *)
SkippedNotUnderstated ==
  skipped >= Cardinality({u \in unchecked : u.reason = "budget"})

(* With lookups turned off on the command line against the governing       *)
(* config nothing is sent, the findings stay the offline ones, and the     *)
(* list is every name a healthy online run would look up.                  *)
DisabledListsEveryName ==
  DryRun /\ phase = "done" =>
    /\ sent = {} /\ replies = {}
    /\ verdict.findings \subseteq in.offline
    /\ {u.name : u \in verdict.names} =
        (UNION {UNION {ReportedAt(s, n) : n \in OwedAt(s)} : s \in Steps}) \ in.allow

(* What the report says rests on what happened: its findings on answers,   *)
(* the number of skipped lookups on the names the budget left, and the     *)
(* list of a run with lookups turned off on what that run would ask.       *)
ReportIsHonest ==
  FindingsRestOnAnswers /\ SkippedNotUnderstated /\ DisabledListsEveryName

(* The network removes no finding.                                         *)
FindingsNeverRemoved ==
  [][{KeyOf(f) : f \in report} \subseteq {KeyOf(f) : f \in report'}]_vars

(* The online phase never hangs the scan.                                  *)
Termination == <>(phase = "done")
-----------------------------------------------------------------------------
(* The run as an OnlineVerdict: a question is a name at a step, for        *)
(* publish-age an installed key; it is answered when no lookup it depends  *)
(* on is outstanding or was given up.                                      *)

QuestionsAt(s) == {<<s, m>> : m \in UNION {ReportedAt(s, n) : n \in OwedAt(s)}}
QuestionsOf == IF Running THEN UNION {QuestionsAt(s) : s \in Steps} ELSE {}
MissedQs == {<<u.step, u.name>> : u \in unchecked}
Outstanding(s, n) ==
  \/ ~Was(s, n)
  \/ s = "registered-squat" /\ phase = s /\ \E c \in todo \cup call : c.name = n
AnsweredQs == {q \in QuestionsOf \ MissedQs :
  \A n \in OwedAt(q[1]) :
    q[2] \in ReportedAt(q[1], n) => ~Outstanding(q[1], n)}
CountedQs == IF in.pr /\ ~in.note THEN {q \in QuestionsOf : q[2] \notin in.allow}
             ELSE {}

Promise == INSTANCE OnlineVerdict WITH
  Questions <- Steps \X Names,
  open      <- QuestionsOf \ (MissedQs \cup AnsweredQs),
  answered  <- AnsweredQs,
  missed    <- MissedQs,
  counted   <- CountedQs,
  outcome   <- IF phase # "done" THEN "running"
               ELSE IF verdict.exit = 2 THEN "could-not-run" ELSE "judged"

(* The detailed run implements the promise: nothing is forgotten, nothing  *)
(* missed turns into an answer, and the exit code tells them apart.        *)
KeepsPromise == Promise!Spec
=============================================================================
