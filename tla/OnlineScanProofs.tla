-------------------------- MODULE OnlineScanProofs --------------------------
(* Proofs about OnlineScan, for every set of scan inputs and every bound.  *)
EXTENDS OnlineScan, FiniteSetTheorems, TLAPS

(* What a scan input is made of. *)
LEMMA InputType ==
  ASSUME in \in Scans
  PROVE  /\ in.offline \subseteq Finding /\ in.newNames \subseteq NewName
         /\ in.pypi \subseteq PyCandidate /\ in.locks \subseteq LockChange
         /\ in.internal \subseteq Names /\ in.private \subseteq Npm
         /\ in.allow \subseteq Names /\ in.budget \in Nat
<1>1. OfflineFinding \subseteq Finding
  BY DEF OfflineFinding
<1> QED BY <1>1, ScansAssumption DEF Scan

(* Every candidate of a step is a name, or a dated lock entry. *)
LEMMA CandidateType ==
  ASSUME TypeOK
  PROVE  /\ UnknownNames \subseteq Npm /\ PypiNames \subseteq Pypi
         /\ AsymmetryNames(report) \subseteq Npm
         /\ SquatCandidates \subseteq NewName /\ SquatNames \subseteq Npm
         /\ AgeCandidates \subseteq LockChange /\ AgeLookups \subseteq Npm
<1>1. in \in Scans /\ report \subseteq Finding
  BY DEF TypeOK
<1>2. UnknownNames \subseteq Npm
  BY DEF UnknownNames, UnknownCandidates
<1>3. PypiNames \subseteq Pypi
  BY <1>1, InputType DEF PypiNames, PypiSendable, PyCandidate
<1>4. AsymmetryNames(report) \subseteq Npm
  BY DEF AsymmetryNames, AsymmetryCandidates, LowTyposquats
<1>5. SquatCandidates \subseteq NewName /\ SquatNames \subseteq Npm
  BY <1>1, InputType DEF SquatCandidates, SquatNames, NewName
<1>6. AgeCandidates \subseteq LockChange /\ AgeLookups \subseteq Npm
  BY <1>1, InputType DEF AgeCandidates, AgeLookups, LockChange
<1> QED BY <1>2, <1>3, <1>4, <1>5, <1>6

(* The list of names to visit is well typed in whatever phase starts. *)
LEMMA TodoType ==
  ASSUME TypeOK, NEW p \in Phases, p # "registered-squat"
  PROVE  TodoOf(p) \subseteq Names
BY CandidateType DEF TodoOf, Names, Phases, Steps

LEMMA MissedType ==
  ASSUME TypeOK, phase \in PerName \cup Bulk, NEW S \in SUBSET Names,
         NEW why \in {"budget", "unreachable"}
  PROVE  Missed(S, why) \subseteq Unchecked
BY DEF TypeOK, Missed, Unchecked, StepOf, PerName, Bulk, Steps

LEMMA HeardType ==
  ASSUME TypeOK, phase \in PerName, NEW n \in Names, NEW said \in Said
  PROVE  Heard({n}, said) \subseteq [step: Steps, name: Names, said: Said]
BY DEF TypeOK, Heard, StepOf, PerName, Steps

LEMMA ResolveType ==
  ASSUME TypeOK, NEW group \in SUBSET report,
         NEW sev \in Severities \cup {"kept"}, NEW res \in Resolutions
  PROVE  Resolve(group, sev, res) \subseteq Finding
<1>1. ASSUME NEW f \in group
      PROVE  [f EXCEPT !.res = res, !.sev = IF sev = "kept" THEN @ ELSE sev] \in Finding
  BY <1>1, "kept" \notin Severities DEF TypeOK, Finding, Severities
<1> QED BY <1>1 DEF TypeOK, Resolve

LEMMA ReportedType ==
  ASSUME TypeOK, phase \in PerName, NEW i \in Items
  PROVE  Reported(i) \subseteq Names
<1>1. \A n : {l.name : l \in AgeGroup(n)} \subseteq Names
  BY CandidateType DEF AgeGroup, LockChange, Names
<1> QED BY <1>1 DEF Reported, NameOf, Items, NewName, Names, PerName

LEMMA GroupSizeType ==
  ASSUME TypeOK, NEW i
  PROVE  GroupSize(i) \in Nat
<1>1. IsFiniteSet(UnknownGroup(i))
  BY FiniteAssumption, FS_Subset DEF TypeOK, UnknownGroup
<1>2. IsFiniteSet({k \in Sites \X Npm \X Versions :
                      \E l \in AgeGroup(i) : k = <<l.site, l.name, l.ver>>})
  BY FiniteAssumption, FS_Subset
<1> QED BY <1>1, <1>2, FS_CardinalityType DEF GroupSize

LEMMA EnterType ==
  ASSUME TypeOK, NEW p \in DOMAIN Following, Enter(Following[p])
  PROVE  /\ phase' \in Phases /\ phase' \notin {"unknown-package", "done"}
         /\ todo' \subseteq Names
         /\ phase' = "registered-squat" => todo' = {}
<1>1. Following[p] \in Phases \ {"unknown-package", "done"}
  BY DEF Following, Phases, Steps
<1>2. CASE Following[p] = "registered-squat"
  BY <1>1, <1>2 DEF Enter, TodoOf
<1>3. CASE Following[p] # "registered-squat"
  BY <1>1, <1>3, TodoType DEF Enter
<1> QED BY <1>2, <1>3

LEMMA SendType ==
  ASSUME TypeOK, phase \in PerName \cup Bulk, NEW S \in SUBSET Items,
         NEW W \in SUBSET Names, Send(S, W), todo' \subseteq todo
  PROVE  TypeOK'
<1>1. StepOf(phase) \in Steps
  BY DEF StepOf, PerName, Bulk, Steps
<1>2. sent' \subseteq [step: Steps, name: Names]
  BY <1>1 DEF TypeOK, Send
<1> QED BY <1>2 DEF TypeOK, Send, Items

(* The parts of the type that the answers of the registry do not touch. *)
LEMMA AnswerType ==
  ASSUME TypeOK, Return, UNCHANGED <<in, now, sent, verdict>>,
         phase' \in Phases, todo' \subseteq Items', skipped' \in Nat,
         report' \subseteq Finding, unchecked' \subseteq Unchecked,
         replies' \subseteq [step: Steps, name: Names, said: Said]
  PROVE  TypeOK'
BY DEF TypeOK, Return

LEMMA OutOfBudgetType == TypeOK /\ OutOfBudget => TypeOK'
<1> SUFFICES ASSUME TypeOK, OutOfBudget PROVE TypeOK'
  OBVIOUS
<1>1. PICK i \in todo :
       /\ phase \in PerName /\ todo' = todo \ {i}
       /\ unchecked' = Missed(Reported(i), "budget")
       /\ skipped' = skipped + GroupSize(i)
       /\ report' = IF phase = "unknown-package"
                    THEN Resolve(UnknownGroup(i), "kept", "deadline-exceeded")
                    ELSE report
       /\ UNCHANGED <<in, phase, call, wire, now, age, sent, replies, verdict>>
  BY DEF OutOfBudget
<1>2. i \in Items
  BY DEF TypeOK
<1>3. unchecked' \subseteq Unchecked
  BY <1>1, <1>2, MissedType, ReportedType
<1>4. skipped' \in Nat
  BY <1>1, GroupSizeType DEF TypeOK
<1>5. report' \subseteq Finding
  BY <1>1, ResolveType DEF UnknownGroup, Resolutions, TypeOK
<1> QED BY <1>1, <1>3, <1>4, <1>5 DEF TypeOK, Items

LEMMA AskType == TypeOK /\ Ask => TypeOK'
<1> SUFFICES ASSUME TypeOK, Ask PROVE TypeOK'
  OBVIOUS
<1>1. PICK i \in todo, cached \in BOOLEAN :
       /\ phase \in PerName /\ todo' = todo \ {i}
       /\ Send({i}, IF cached THEN {} ELSE {NameOf(i)})
  BY DEF Ask
<1>2. i \in Items /\ NameOf(i) \in Names
  BY <1>1 DEF TypeOK, Items, NameOf, NewName, Names
<1> QED BY <1>1, <1>2, SendType

LEMMA UnreachableType == TypeOK /\ Unreachable => TypeOK'
<1> SUFFICES ASSUME TypeOK, Unreachable PROVE TypeOK'
  OBVIOUS
<1>1. PICK i \in call :
       /\ phase \in PerName /\ Return
       /\ unchecked' = Missed(Reported(i), "unreachable")
       /\ report' = IF phase = "unknown-package"
                    THEN Resolve(UnknownGroup(i), "kept", "unreachable")
                    ELSE report
       /\ UNCHANGED <<in, phase, todo, now, skipped, sent, replies, verdict>>
  BY DEF Unreachable
<1>2. unchecked' \subseteq Unchecked
  BY <1>1, MissedType, ReportedType DEF TypeOK
<1>3. report' \subseteq Finding
  BY <1>1, ResolveType DEF UnknownGroup, Resolutions, TypeOK
<1> QED BY <1>1, <1>2, <1>3, AnswerType DEF TypeOK, Items

LEMMA UnknownAnswerType == TypeOK /\ UnknownAnswer => TypeOK'
<1> SUFFICES ASSUME TypeOK, UnknownAnswer PROVE TypeOK'
  OBVIOUS
<1>1. PICK n \in call, said \in {"registry-present", "not-present", "registry-absent"} :
       /\ phase = "unknown-package" /\ Return
       /\ replies' = Heard({n}, said)
       /\ report' = Resolve(UnknownGroup(n), SeverityAfter(said), said)
       /\ UNCHANGED <<in, phase, todo, now, unchecked, skipped, sent, verdict>>
  BY DEF UnknownAnswer
<1>2. n \in Names /\ phase \in PerName
  BY <1>1 DEF TypeOK, Items, PerName
<1>3. replies' \subseteq [step: Steps, name: Names, said: Said]
  BY <1>1, <1>2, HeardType DEF Said
<1>4. /\ said \in Resolutions /\ UnknownGroup(n) \subseteq report
      /\ SeverityAfter(said) \in Severities \cup {"kept"}
  BY <1>1 DEF Resolutions, UnknownGroup, Severities, SeverityAfter
<1>5. report' \subseteq Finding
  BY <1>1, <1>4, ResolveType
<1> QED BY <1>1, <1>3, <1>5, AnswerType DEF TypeOK, Items

LEMMA PypiAnswerType == TypeOK /\ PypiAnswer => TypeOK'
<1> SUFFICES ASSUME TypeOK, PypiAnswer PROVE TypeOK'
  OBVIOUS
<1>1. PICK n \in call, said \in {"registry-present", "registry-absent"} :
       /\ phase = "pypi-existence" /\ Return
       /\ replies' = Heard({n}, said)
       /\ report' = report \cup PypiFindings(n, said)
       /\ UNCHANGED <<in, phase, todo, now, unchecked, skipped, sent, verdict>>
  BY DEF PypiAnswer
<1>2. n \in Names /\ phase \in PerName
  BY <1>1 DEF TypeOK, Items, PerName
<1>3. replies' \subseteq [step: Steps, name: Names, said: Said]
  BY <1>1, <1>2, HeardType DEF Said
<1>4. PypiSendable \subseteq PyCandidate
  BY InputType DEF TypeOK, PypiSendable
<1>5. PypiFindings(n, said) \subseteq Finding
  BY <1>2, <1>4 DEF PypiFindings, PypiFindingsAt, Finding, PyCandidate, Rules, Severities, Resolutions
<1>6. report' \subseteq Finding
  BY <1>1, <1>5 DEF TypeOK
<1> QED BY <1>1, <1>3, <1>6, AnswerType DEF TypeOK, Items

LEMMA SquatAnswerType == TypeOK /\ SquatAnswer => TypeOK'
<1> SUFFICES ASSUME TypeOK, SquatAnswer PROVE TypeOK'
  OBVIOUS
<1>1. PICK c \in call, said \in {"young", "old"} :
       /\ phase = "registered-squat" /\ Return
       /\ replies' = Heard({c.name}, said)
       /\ report' = report \cup IF said = "old" THEN {} ELSE
            {[rule |-> "registered-squat", name |-> c.name, site |-> c.site,
              ver |-> NoVersion, sev |-> "medium", res |-> "none"]}
       /\ UNCHANGED <<in, phase, todo, now, unchecked, skipped, sent, verdict>>
  BY DEF SquatAnswer
<1>2. c.name \in Names /\ c.site \in Sites /\ phase \in PerName
  BY <1>1 DEF TypeOK, Items, PerName, NewName, Names
<1>3. replies' \subseteq [step: Steps, name: Names, said: Said]
  BY <1>1, <1>2, HeardType DEF Said
<1>4. report' \subseteq Finding
  BY <1>1, <1>2 DEF TypeOK, Finding, Rules, Severities, Resolutions
<1> QED BY <1>1, <1>3, <1>4, AnswerType DEF TypeOK, Items

LEMMA AgeAnswerType == TypeOK /\ AgeAnswer => TypeOK'
<1> SUFFICES ASSUME TypeOK, AgeAnswer PROVE TypeOK'
  OBVIOUS
<1> DEFINE New(n, young) ==
       {[rule |-> "publish-age", name |-> l.name, site |-> l.site,
         ver |-> l.ver, sev |-> "high", res |-> "none"] :
          l \in {k \in AgeGroup(n) :
                 k.ver \in young /\ <<k.name, k.ver>> \notin in.minAgeAllow}}
<1>1. PICK n \in call : \E young \in SUBSET {l.ver : l \in AgeGroup(n)} :
       /\ phase = "publish-age" /\ Return
       /\ replies' = Heard({n}, "dated")
       /\ report' = report \cup New(n, young)
       /\ UNCHANGED <<in, phase, todo, now, unchecked, skipped, sent, verdict>>
  BY DEF AgeAnswer
<1>2. PICK young \in SUBSET {l.ver : l \in AgeGroup(n)} :
       /\ phase = "publish-age" /\ Return
       /\ replies' = Heard({n}, "dated")
       /\ report' = report \cup New(n, young)
       /\ UNCHANGED <<in, phase, todo, now, unchecked, skipped, sent, verdict>>
  BY <1>1
<1>3. n \in Names /\ phase \in PerName
  BY <1>2 DEF TypeOK, Items, PerName
<1>4. replies' \subseteq [step: Steps, name: Names, said: Said]
  BY <1>2, <1>3, HeardType DEF Said
<1>5. AgeGroup(n) \subseteq LockChange
  BY CandidateType DEF AgeGroup
<1>6. New(n, young) \subseteq Finding
  <2>1. \A l \in LockChange :
          [rule |-> "publish-age", name |-> l.name, site |-> l.site,
           ver |-> l.ver, sev |-> "high", res |-> "none"] \in Finding
    BY DEF LockChange, Names, Finding, Rules, Severities, Resolutions
  <2> QED BY <1>5, <2>1
<1>7. report' \subseteq Finding
  BY <1>2, <1>6 DEF TypeOK
<1> QED BY <1>2, <1>4, <1>7, AnswerType DEF TypeOK, Items

(* What a bulk answer pushes into the sink and the replies. *)
LEMMA CountsType ==
  ASSUME TypeOK, phase \in Bulk, NEW c \in Counts
  PROVE  /\ call \subseteq Names
         /\ \A S \in SUBSET {n \in call : c[n] # "unresolved"} :
              HeardCounts(c, S) \subseteq [step: Steps, name: Names, said: Said]
         /\ \A S \in SUBSET call : Missed(S, "unreachable") \subseteq Unchecked
<1>1. call \subseteq Names /\ StepOf(phase) \in Steps
  BY DEF TypeOK, Items, Bulk, StepOf, Steps
<1>2. \A n \in call : c[n] # "unresolved" => c[n] \in Said
  BY DEF Counts, Said
<1>3. \A S \in SUBSET call : Missed(S, "unreachable") \subseteq Unchecked
  BY <1>1, MissedType
<1> QED BY <1>1, <1>2, <1>3 DEF HeardCounts, TypeOK

LEMMA AsymmetryAnswerType == TypeOK /\ AsymmetryAnswer => TypeOK'
<1> SUFFICES ASSUME TypeOK, AsymmetryAnswer PROVE TypeOK'
  OBVIOUS
<1> DEFINE Weak(c) == {f \in AsymmetryCandidates(report) : c[f.name] \in {"tiny", "small"}}
<1>1. PICK c \in Counts :
       /\ phase = "asymmetry" /\ Return
       /\ replies' = HeardCounts(c, {n \in call : c[n] # "unresolved"})
       /\ unchecked' = Missed({n \in call : c[n] = "unresolved"}, "unreachable")
       /\ report' = (report \ Weak(c)) \cup {[f EXCEPT !.sev = "high"] : f \in Weak(c)}
       /\ Enter("squat-downloads")
       /\ UNCHANGED <<in, now, skipped, sent, verdict>>
  BY DEF AsymmetryAnswer
<1>2. /\ replies' \subseteq [step: Steps, name: Names, said: Said]
      /\ unchecked' \subseteq Unchecked
  BY <1>1, CountsType DEF Bulk
<1>3. Weak(c) \subseteq report
  BY DEF AsymmetryCandidates, LowTyposquats
<1>4. report' \subseteq Finding
  BY <1>1, <1>3 DEF TypeOK, Finding, Severities
<1>5. phase' \in Phases /\ todo' \subseteq Items'
  BY <1>1, TodoType DEF Enter, Phases, Items
<1> QED BY <1>1, <1>2, <1>4, <1>5, AnswerType DEF TypeOK

LEMMA SquatDownloadsAnswerType == TypeOK /\ SquatDownloadsAnswer => TypeOK'
<1> SUFFICES ASSUME TypeOK, SquatDownloadsAnswer PROVE TypeOK'
  OBVIOUS
<1>1. PICK c \in Counts :
       /\ phase = "squat-downloads" /\ Return
       /\ replies' = HeardCounts(c, {n \in call : c[n] \in {"small", "big"}})
       /\ unchecked' = Missed({n \in call : c[n] = "unresolved"}, "unreachable")
       /\ phase' = "registered-squat"
       /\ todo' = {k \in SquatCandidates : c[k.name] = "tiny"}
       /\ UNCHANGED <<in, now, report, skipped, sent, verdict>>
  BY DEF SquatDownloadsAnswer
<1>2. /\ replies' \subseteq [step: Steps, name: Names, said: Said]
      /\ unchecked' \subseteq Unchecked
  BY <1>1, CountsType DEF Bulk
<1>3. phase' \in Phases /\ todo' \subseteq Items'
  BY <1>1, CandidateType DEF Phases, Steps, Items
<1> QED BY <1>1, <1>2, <1>3, AnswerType DEF TypeOK

LEMMA BulkOutOfBudgetType == TypeOK /\ BulkOutOfBudget => TypeOK'
<1> SUFFICES ASSUME TypeOK, BulkOutOfBudget PROVE TypeOK'
  OBVIOUS
<1> USE DEF BulkOutOfBudget
<1>1. phase' \in Phases /\ todo' \subseteq Items'
  BY EnterType DEF Bulk, Following, Items
<1>2. unchecked' \subseteq Unchecked
  BY MissedType DEF TypeOK, Items, Bulk
<1>3. IsFiniteSet(LowTyposquats(report)) /\ IsFiniteSet(SquatCandidates)
  BY CandidateType, FiniteAssumption, FS_Subset DEF TypeOK, LowTyposquats
<1>4. skipped' \in Nat
  BY <1>3, FS_CardinalityType DEF TypeOK
<1> QED BY <1>1, <1>2, <1>4 DEF TypeOK, Items

LEMMA DownloadsUnreachableType == TypeOK /\ DownloadsUnreachable => TypeOK'
<1> SUFFICES ASSUME TypeOK, DownloadsUnreachable PROVE TypeOK'
  OBVIOUS
<1> USE DEF DownloadsUnreachable
<1>1. phase' \in Phases /\ todo' \subseteq Items'
  BY EnterType DEF Bulk, Following, Items
<1>2. unchecked' \subseteq Unchecked
  BY MissedType DEF TypeOK, Items, Bulk
<1> QED BY <1>1, <1>2, AnswerType DEF TypeOK

LEMMA AskDownloadsType == TypeOK /\ AskDownloads => TypeOK'
BY SendType DEF AskDownloads, TypeOK, Items, Bulk

LEMMA AdvanceType == TypeOK /\ Advance => TypeOK'
<1> SUFFICES ASSUME TypeOK, Advance PROVE TypeOK'
  OBVIOUS
<1>1. phase' \in Phases /\ todo' \subseteq Items'
  BY EnterType DEF Advance, Items
<1> QED BY <1>1 DEF Advance, TypeOK, Items

LEMMA FinishType == TypeOK /\ Finish => TypeOK'
<1> SUFFICES ASSUME TypeOK, Finish PROVE TypeOK'
  OBVIOUS
<1>1. Visible \subseteq Finding
  BY InputType DEF TypeOK, Visible, Final
<1>2. Listed \subseteq Unchecked
  BY DEF Listed, Countable, TypeOK, Unchecked
<1>3. verdict' \in Verdict
  BY <1>1, <1>2 DEF Finish, Verdict
<1>4. todo' \subseteq Items' /\ call' \subseteq Items'
  BY DEF Finish, TypeOK, Items
<1> QED BY <1>3, <1>4 DEF Finish, TypeOK, Phases

LEMMA TickType == TypeOK /\ Tick => TypeOK'
BY DEF TypeOK, Tick, Items

LEMMA InitType == Init => TypeOK
<1> SUFFICES ASSUME Init PROVE TypeOK
  OBVIOUS
<1> USE DEF Init
<1>1. UnknownNames \subseteq Names
  BY DEF UnknownNames, UnknownCandidates, Names
<1>2. in.offline \subseteq Finding
  BY InputType
<1>3. NoVerdict \in Verdict
  BY DEF NoVerdict, Verdict
<1> QED BY <1>1, <1>2, <1>3 DEF TypeOK, Phases, Steps, Items

LEMMA StepType == TypeOK /\ [Next]_vars => TypeOK'
<1> SUFFICES ASSUME TypeOK, [Next]_vars PROVE TypeOK'
  OBVIOUS
<1>1. CASE Local
  BY <1>1, OutOfBudgetType, BulkOutOfBudgetType, AskType, AskDownloadsType,
     AdvanceType, FinishType DEF Local
<1>2. CASE Respond
  BY <1>2, UnknownAnswerType, PypiAnswerType, SquatAnswerType, AgeAnswerType,
     AsymmetryAnswerType, SquatDownloadsAnswerType, UnreachableType,
     DownloadsUnreachableType DEF Respond, Answer
<1>3. CASE Tick
  BY <1>3, TickType
<1>4. CASE UNCHANGED vars
  BY <1>4 DEF vars, TypeOK, Items
<1> QED BY <1>1, <1>2, <1>3, <1>4 DEF Next, Terminated

(* Type correctness, for every set of scan inputs. *)
THEOREM TypeCorrect == Spec => []TypeOK
<1>1. TypeOK /\ [Next]_vars => TypeOK'
  BY StepType
<1> QED BY InitType, <1>1, PTL DEF Spec
-----------------------------------------------------------------------------
(* NothingForgotten.  Its induction needs two more facts: the asymmetry    *)
(* step, which reads its candidates off the working list, finds there the  *)
(* look-alikes the offline checks reported; and the loops await one call   *)
(* at a time, for one name or for all of them.                             *)

LowTyposquatsIntact ==
  PhaseRank[phase] <= 3 => LowTyposquats(report) = LowTyposquats(in.offline)

OneAtATime == phase \in PerName => \A i, j \in call : i = j

BulkLoop == phase \in Bulk /\ call # {} => todo = {}

Settling ==
  TypeOK /\ LowTyposquatsIntact /\ OneAtATime /\ BulkLoop /\ NothingForgotten

LEMMA RankFacts ==
  /\ PhaseRank["unknown-package"] = 1 /\ PhaseRank["pypi-existence"] = 2
  /\ PhaseRank["asymmetry"] = 3 /\ PhaseRank["squat-downloads"] = 4
  /\ PhaseRank["registered-squat"] = 5 /\ PhaseRank["publish-age"] = 6
  /\ PhaseRank["settle"] = 7 /\ PhaseRank["done"] = 8
BY DEF PhaseRank, Phases, Steps

(* What is owed depends on the scan's input only. *)
LEMMA OwedFixed ==
  ASSUME UNCHANGED in, NEW s \in Steps
  PROVE  /\ OwedAt(s)' = OwedAt(s)
         /\ \A n : ReportedAt(s, n)' = ReportedAt(s, n)
         /\ Running' = Running
<1> USE DEF Internal, NonPublic, Sendable
<1>1. UnknownNames' = UnknownNames /\ PypiNames' = PypiNames /\ SquatNames' = SquatNames
  BY DEF UnknownNames, UnknownCandidates, PypiNames, PypiSendable, SquatNames,
         SquatCandidates
<1>2. AsymmetryNames(in.offline)' = AsymmetryNames(in.offline)
  BY DEF AsymmetryNames, AsymmetryCandidates, LowTyposquats
<1>3. AgeCandidates' = AgeCandidates
  BY DEF AgeCandidates, NonPublicResolution
<1>4. AgeLookups' = AgeLookups /\ \A n : AgeGroup(n)' = AgeGroup(n)
  BY <1>3 DEF AgeLookups, AgeGroup
<1>5. Running' = Running
  BY DEF Running, Enabled, DryRun
<1>6. \A n : ReportedAt(s, n)' = ReportedAt(s, n)
  BY <1>4 DEF ReportedAt
<1>7. OwedAt(s)' = OwedAt(s)
  BY <1>1, <1>2, <1>4 DEF OwedAt, Steps
<1> QED BY <1>5, <1>6, <1>7

(* An answer stays given, an unchecked name stays listed. *)
LEMMA SettledStays ==
  ASSUME UNCHANGED in, replies \subseteq replies', unchecked \subseteq unchecked',
         NEW s \in Steps, NEW n
  PROVE  /\ Was(s, n) => Was(s, n)'
         /\ GivenUp(s, n) => GivenUp(s, n)'
BY OwedFixed DEF Was, GivenUp

LEMMA MissedCovers ==
  ASSUME NEW S, NEW why, unchecked' = Missed(S, why)
  PROVE  /\ unchecked \subseteq unchecked'
         /\ \A m \in S : \E u \in unchecked' : u.step = StepOf(phase) /\ u.name = m
<1>1. unchecked \subseteq unchecked'
  BY DEF Missed
<1>2. ASSUME NEW m \in S
      PROVE  \E u \in unchecked' : u.step = StepOf(phase) /\ u.name = m
  <2>1. CASE \E u \in unchecked : u.name = m /\ u.step = StepOf(phase)
    BY <1>1, <2>1
  <2>2. CASE \A u \in unchecked : ~(u.name = m /\ u.step = StepOf(phase))
    <3>1. [name |-> m, step |-> StepOf(phase), reason |-> why] \in unchecked'
      BY <1>2, <2>2 DEF Missed
    <3> QED BY <3>1
  <2> QED BY <2>1, <2>2
<1> QED BY <1>1, <1>2

(* A step that stays in its loop: it is enough that every item that leaves *)
(* the loop was answered or reported.                                      *)
LEMMA LoopStep ==
  ASSUME Settling, UNCHANGED <<in, phase>>,
         replies \subseteq replies', unchecked \subseteq unchecked',
         \A i \in (todo \cup call) \ (todo' \cup call') :
            StepOf(phase) \in Steps =>
              Was(StepOf(phase), NameOf(i))' \/ GivenUp(StepOf(phase), NameOf(i))'
  PROVE  NothingForgotten'
<1> SUFFICES ASSUME Running', NEW s \in Steps, NEW n \in OwedAt(s)'
             PROVE  (Ahead(s) \/ Waiting(s, n) \/ Was(s, n) \/ GivenUp(s, n))'
  BY DEF NothingForgotten
<1>1. Ahead(s) \/ Waiting(s, n) \/ Was(s, n) \/ GivenUp(s, n)
  BY OwedFixed DEF Settling, NothingForgotten
<1>2. CASE Ahead(s)
  BY <1>2 DEF Ahead
<1>3. CASE Was(s, n) \/ GivenUp(s, n)
  BY <1>3, SettledStays
<1>4. CASE Waiting(s, n)
  <2>1. PICK i \in todo \cup call : NameOf(i) = n
    BY <1>4 DEF Waiting
  <2>2. StepOf(phase) = s /\ StepOf(phase)' = s /\ NameOf(i)' = n
    BY <1>4, <2>1 DEF Waiting, StepOf, NameOf
  <2>3. CASE i \in todo' \cup call'
    BY <2>2, <2>3 DEF Waiting
  <2>4. CASE i \notin todo' \cup call'
    BY <2>1, <2>2, <2>4
  <2> QED BY <2>3, <2>4
<1> QED BY <1>1, <1>2, <1>3, <1>4

(* The names a call that did not happen is reported under settle it. *)
LEMMA ReportedGivesUp ==
  ASSUME Settling, phase \in PerName, NEW i, NEW why, UNCHANGED <<in, phase>>,
         unchecked' = Missed(Reported(i), why)
  PROVE  unchecked \subseteq unchecked' /\ GivenUp(StepOf(phase), NameOf(i))'
<1>1. StepOf(phase) = phase /\ phase \in Steps
  BY DEF StepOf, PerName, Steps
<1>2. ReportedAt(phase, NameOf(i)) = Reported(i)
  BY DEF ReportedAt, Reported, NameOf
<1>3. ReportedAt(phase, NameOf(i))' = ReportedAt(phase, NameOf(i))
  <2>1. NameOf(i)' = NameOf(i)
    BY DEF NameOf
  <2> QED BY <1>1, <2>1, OwedFixed
<1> QED BY <1>1, <1>2, <1>3, MissedCovers DEF GivenUp, StepOf

LEMMA OutOfBudgetSettles == Settling /\ OutOfBudget => NothingForgotten'
<1> SUFFICES ASSUME Settling, OutOfBudget PROVE NothingForgotten'
  OBVIOUS
<1>1. PICK i \in todo :
       /\ phase \in PerName /\ call = {} /\ todo' = todo \ {i}
       /\ unchecked' = Missed(Reported(i), "budget")
       /\ UNCHANGED <<in, phase, call, replies>>
  BY DEF OutOfBudget
<1>2. unchecked \subseteq unchecked' /\ GivenUp(StepOf(phase), NameOf(i))'
  BY <1>1, ReportedGivesUp
<1> QED BY <1>1, <1>2, LoopStep

LEMMA UnreachableSettles == Settling /\ Unreachable => NothingForgotten'
<1> SUFFICES ASSUME Settling, Unreachable PROVE NothingForgotten'
  OBVIOUS
<1>1. PICK i \in call :
       /\ phase \in PerName /\ call' = {}
       /\ unchecked' = Missed(Reported(i), "unreachable")
       /\ UNCHANGED <<in, phase, todo, replies>>
  BY DEF Unreachable, Return
<1>2. unchecked \subseteq unchecked' /\ GivenUp(StepOf(phase), NameOf(i))'
  BY <1>1, ReportedGivesUp
<1>3. call = {i}
  BY <1>1 DEF Settling, OneAtATime
<1> QED BY <1>1, <1>2, <1>3, LoopStep

(* One name's answer settles the one call that is out. *)
LEMMA AnswerSettles ==
  ASSUME Settling, phase \in PerName, NEW i \in call, NEW said,
         call' = {}, replies' = Heard({NameOf(i)}, said),
         UNCHANGED <<in, phase, todo, unchecked>>
  PROVE  NothingForgotten'
<1>1. replies \subseteq replies' /\ Was(StepOf(phase), NameOf(i))'
  <2>1. [step |-> StepOf(phase), name |-> NameOf(i), said |-> said] \in replies'
    BY DEF Heard
  <2>2. StepOf(phase)' = StepOf(phase) /\ NameOf(i)' = NameOf(i)
    BY DEF StepOf, NameOf
  <2> QED BY <2>1, <2>2 DEF Was, Heard
<1>2. call = {i}
  BY DEF Settling, OneAtATime
<1> QED BY <1>1, <1>2, LoopStep

LEMMA PerNameAnswersSettle ==
  Settling /\ (UnknownAnswer \/ PypiAnswer \/ SquatAnswer \/ AgeAnswer)
    => NothingForgotten'
<1> SUFFICES ASSUME Settling PROVE
      UnknownAnswer \/ PypiAnswer \/ SquatAnswer \/ AgeAnswer => NothingForgotten'
  OBVIOUS
<1> USE DEF Return, PerName, NameOf
<1>1. CASE UnknownAnswer
  BY <1>1, AnswerSettles DEF UnknownAnswer
<1>2. CASE PypiAnswer
  BY <1>2, AnswerSettles DEF PypiAnswer
<1>3. CASE SquatAnswer
  BY <1>3, AnswerSettles DEF SquatAnswer
<1>4. CASE AgeAnswer
  BY <1>4, AnswerSettles DEF AgeAnswer
<1> QED BY <1>1, <1>2, <1>3, <1>4

LEMMA AskSettles == Settling /\ (Ask \/ AskDownloads \/ Tick) => NothingForgotten'
<1> SUFFICES ASSUME Settling PROVE Ask \/ AskDownloads \/ Tick => NothingForgotten'
  OBVIOUS
<1>1. CASE Ask
  BY <1>1, LoopStep DEF Ask, Send
<1>2. CASE AskDownloads
  BY <1>2, LoopStep DEF AskDownloads, Send
<1>3. CASE Tick
  BY <1>3, LoopStep DEF Tick
<1> QED BY <1>1, <1>2, <1>3

(* A step to the next phase: it is enough that everything the old loop     *)
(* still held was answered or reported, and that a step that starts there  *)
(* finds its names to visit.                                               *)
LEMMA PhaseStep ==
  ASSUME Settling, UNCHANGED in, NEW p \in DOMAIN Following, phase = p,
         phase' = Following[p], replies \subseteq replies', unchecked \subseteq unchecked',
         \A n \in OwedAt(StepOf(p)) : Waiting(StepOf(p), n) =>
            Was(StepOf(p), n)' \/ GivenUp(StepOf(p), n)' \/ Waiting(StepOf(p), n)',
         p # "squat-downloads" => todo' = TodoOf(phase')
  PROVE  NothingForgotten'
<1> SUFFICES ASSUME Running', NEW s \in Steps, NEW n \in OwedAt(s)'
             PROVE  (Ahead(s) \/ Waiting(s, n) \/ Was(s, n) \/ GivenUp(s, n))'
  BY DEF NothingForgotten
<1>1. n \in OwedAt(s) /\ (Ahead(s) \/ Waiting(s, n) \/ Was(s, n) \/ GivenUp(s, n))
  BY OwedFixed DEF Settling, NothingForgotten
<1>2. CASE Was(s, n) \/ GivenUp(s, n)
  BY <1>2, SettledStays
<1>3. CASE Waiting(s, n)
  <2>1. s = StepOf(p)
    BY <1>3 DEF Waiting
  <2> QED BY <1>1, <1>3, <2>1
<1>4. CASE Ahead(s)
  <2>1. CASE Ahead(s)'
    BY <2>1
  <2>2. CASE ~Ahead(s)'
    <3>1. phase' = FirstPhase(s) /\ p # "squat-downloads"
      BY <1>4, <2>2, RankFacts DEF Ahead, FirstPhase, Following, Steps
    <3>2. n \in todo'
      BY <1>1, <3>1, RankFacts DEF TodoOf, OwedAt, FirstPhase, Steps, Settling,
         LowTyposquatsIntact, AsymmetryNames, AsymmetryCandidates, Following
    <3>3. StepOf(phase') = s /\ phase' # "registered-squat"
      BY <3>1 DEF StepOf, FirstPhase, Steps
    <3> QED BY <3>2, <3>3 DEF Waiting, StepOf, NameOf
  <2> QED BY <2>1, <2>2
<1> QED BY <1>1, <1>2, <1>3, <1>4

LEMMA AdvanceSettles == Settling /\ Advance => NothingForgotten'
<1> SUFFICES ASSUME Settling, Advance PROVE NothingForgotten'
  OBVIOUS
<1>1. \A n : ~Waiting(StepOf(phase), n)
  BY DEF Advance, Waiting
<1> QED BY <1>1, PhaseStep DEF Advance, Enter

(* A bulk call, made or not, leaves nothing of its loop behind. *)
LEMMA BulkLoopSettles ==
  ASSUME Settling, NEW p \in Bulk, phase = p, UNCHANGED <<in, replies>>,
         Enter(Following[p]),
         NEW S, NEW why, unchecked' = Missed(S, why), todo \cup call \subseteq S
  PROVE  NothingForgotten'
<1>1. StepOf(p) \in {"asymmetry", "registered-squat"} /\ p \in DOMAIN Following
  BY DEF Bulk, StepOf, Following
<1>2. unchecked \subseteq unchecked'
  BY MissedCovers
<1>3. ASSUME NEW n, Waiting(StepOf(p), n)
      PROVE  GivenUp(StepOf(p), n)'
  <2>1. n \in S
    BY <1>3 DEF Waiting, NameOf, Bulk
  <2>2. \E u \in unchecked' : u.step = StepOf(p) /\ u.name = n
    BY <2>1, MissedCovers
  <2>3. ReportedAt(StepOf(p), n) = {n}
    BY <1>1 DEF ReportedAt
  <2>4. ReportedAt(StepOf(p), n)' = ReportedAt(StepOf(p), n)
    BY <1>1, OwedFixed DEF Steps
  <2> QED BY <2>2, <2>3, <2>4 DEF GivenUp
<1>4. phase' = Following[p] /\ todo' = TodoOf(phase')
  BY DEF Enter
<1> QED BY <1>1, <1>2, <1>3, <1>4, PhaseStep

LEMMA BulkGivenUpSettles ==
  Settling /\ (BulkOutOfBudget \/ DownloadsUnreachable) => NothingForgotten'
<1> SUFFICES ASSUME Settling
             PROVE  BulkOutOfBudget \/ DownloadsUnreachable => NothingForgotten'
  OBVIOUS
<1>1. CASE BulkOutOfBudget
  BY <1>1, BulkLoopSettles DEF BulkOutOfBudget
<1>2. CASE DownloadsUnreachable
  <2>1. todo = {}
    BY <1>2 DEF Settling, BulkLoop, DownloadsUnreachable
  <2> QED BY <1>2, <2>1, BulkLoopSettles DEF DownloadsUnreachable
<1> QED BY <1>1, <1>2

(* A downloads answer settles each name by its count or as unreachable,    *)
(* but for a new name under both floors, which waits for its packument.    *)
LEMMA CountsSettle ==
  ASSUME Settling, NEW p \in Bulk, phase = p, NEW c \in Counts, todo = {},
         NEW S, replies' = HeardCounts(c, S), UNCHANGED in,
         unchecked' = Missed({n \in call : c[n] = "unresolved"}, "unreachable"),
         NEW n, Waiting(StepOf(p), n)
  PROVE  /\ replies \subseteq replies' /\ unchecked \subseteq unchecked'
         /\ n \in call
         /\ n \in S => Was(StepOf(p), n)'
         /\ c[n] = "unresolved" => GivenUp(StepOf(p), n)'
<1>1. StepOf(p) \in {"asymmetry", "registered-squat"}
  BY DEF Bulk, StepOf
<1>2. n \in call
  BY DEF Waiting, NameOf, Bulk
<1>3. ASSUME n \in S PROVE Was(StepOf(p), n)'
  <2>1. [step |-> StepOf(p), name |-> n, said |-> c[n]] \in replies'
    BY <1>3 DEF HeardCounts
  <2> QED BY <2>1 DEF Was
<1>4. ASSUME c[n] = "unresolved" PROVE GivenUp(StepOf(p), n)'
  <2>1. \E u \in unchecked' : u.step = StepOf(p) /\ u.name = n
    BY <1>2, <1>4, MissedCovers
  <2>2. ReportedAt(StepOf(p), n)' = ReportedAt(StepOf(p), n)
    BY <1>1, OwedFixed DEF Steps
  <2> QED BY <1>1, <2>1, <2>2 DEF GivenUp, ReportedAt
<1>5. replies \subseteq replies' /\ unchecked \subseteq unchecked'
  BY MissedCovers DEF HeardCounts
<1> QED BY <1>2, <1>3, <1>4, <1>5

LEMMA AsymmetryAnswerSettles == Settling /\ AsymmetryAnswer => NothingForgotten'
<1> SUFFICES ASSUME Settling, AsymmetryAnswer PROVE NothingForgotten'
  OBVIOUS
<1> DEFINE p == "asymmetry"
<1>1. PICK c \in Counts :
       /\ phase = p
       /\ replies' = HeardCounts(c, {n \in call : c[n] # "unresolved"})
       /\ unchecked' = Missed({n \in call : c[n] = "unresolved"}, "unreachable")
       /\ UNCHANGED in
  BY DEF AsymmetryAnswer
<1>2. todo = {} /\ p \in Bulk
  BY DEF Settling, BulkLoop, AsymmetryAnswer, Bulk
<1>3. ASSUME NEW n, Waiting(StepOf(p), n)
      PROVE  Was(StepOf(p), n)' \/ GivenUp(StepOf(p), n)'
  BY <1>1, <1>2, <1>3, CountsSettle
<1>4. replies \subseteq replies' /\ unchecked \subseteq unchecked'
  BY <1>1, MissedCovers DEF HeardCounts
<1>5. /\ p \in DOMAIN Following /\ phase' = Following[p] /\ todo' = TodoOf(phase')
  BY DEF AsymmetryAnswer, Enter, Following
<1> QED BY <1>1, <1>3, <1>4, <1>5, PhaseStep

LEMMA SquatDownloadsAnswerSettles ==
  Settling /\ SquatDownloadsAnswer => NothingForgotten'
<1> SUFFICES ASSUME Settling, SquatDownloadsAnswer PROVE NothingForgotten'
  OBVIOUS
<1> DEFINE p == "squat-downloads"
<1>1. PICK c \in Counts :
       /\ phase = p
       /\ replies' = HeardCounts(c, {n \in call : c[n] \in {"small", "big"}})
       /\ unchecked' = Missed({n \in call : c[n] = "unresolved"}, "unreachable")
       /\ phase' = "registered-squat"
       /\ todo' = {k \in SquatCandidates : c[k.name] = "tiny"}
       /\ UNCHANGED in
  BY DEF SquatDownloadsAnswer
<1>2. /\ todo = {} /\ p \in Bulk /\ p \in DOMAIN Following
      /\ phase' = Following[p] /\ StepOf(p) = "registered-squat"
  BY <1>1 DEF Settling, BulkLoop, SquatDownloadsAnswer, Bulk, Following, StepOf
<1>3. ASSUME NEW n \in OwedAt(StepOf(p)), Waiting(StepOf(p), n)
      PROVE  Was(StepOf(p), n)' \/ GivenUp(StepOf(p), n)' \/ Waiting(StepOf(p), n)'
  <2>1. n \in call
    BY <1>1, <1>2, <1>3, CountsSettle
  <2>2. CASE c[n] = "tiny"
    <3>1. PICK k \in SquatCandidates : k.name = n
      BY <1>2, <1>3 DEF OwedAt, SquatNames
    <3>2. k \in todo'
      BY <1>1, <2>2, <3>1
    <3> QED BY <1>1, <1>2, <3>1, <3>2 DEF Waiting, NameOf, StepOf
  <2>3. CASE c[n] \in {"small", "big", "unresolved"}
    BY <1>1, <1>2, <1>3, <2>1, <2>3, CountsSettle
  <2> QED BY <2>1, <2>2, <2>3 DEF Counts
<1>4. replies \subseteq replies' /\ unchecked \subseteq unchecked'
  BY <1>1, MissedCovers DEF HeardCounts
<1> QED BY <1>1, <1>2, <1>3, <1>4, PhaseStep

LEMMA FinishSettles == Settling /\ Finish => NothingForgotten'
<1> SUFFICES ASSUME Settling, Finish, Running', NEW s \in Steps, NEW n \in OwedAt(s)'
             PROVE  (Was(s, n) \/ GivenUp(s, n))'
  BY DEF NothingForgotten
<1>1. n \in OwedAt(s) /\ (Ahead(s) \/ Waiting(s, n) \/ Was(s, n) \/ GivenUp(s, n))
  BY OwedFixed DEF Settling, NothingForgotten, Finish
<1>2. ~Waiting(s, n)
  BY DEF Finish, Waiting, StepOf, Steps
<1>3. ~Ahead(s)
  BY RankFacts DEF Finish, Ahead, FirstPhase, Steps
<1> QED BY <1>1, <1>2, <1>3, SettledStays DEF Finish

LEMMA SettlingStep == Settling /\ [Next]_vars => NothingForgotten'
<1> SUFFICES ASSUME Settling, [Next]_vars PROVE NothingForgotten'
  OBVIOUS
<1>1. CASE Local
  BY <1>1, OutOfBudgetSettles, BulkGivenUpSettles, AskSettles, AdvanceSettles,
     FinishSettles DEF Local
<1>2. CASE Respond
  BY <1>2, PerNameAnswersSettle, AsymmetryAnswerSettles,
     SquatDownloadsAnswerSettles, UnreachableSettles, BulkGivenUpSettles
     DEF Respond, Answer
<1>3. CASE Tick
  BY <1>3, AskSettles
<1>4. CASE UNCHANGED vars
  BY <1>4, LoopStep DEF vars
<1> QED BY <1>1, <1>2, <1>3, <1>4 DEF Next, Terminated

(* Only the unknown-package and asymmetry answers rewrite a finding, and   *)
(* the first of them no look-alike.                                        *)
LEMMA ResolveKeepsTyposquats ==
  ASSUME TypeOK, NEW n, NEW sev, NEW res,
         report' = Resolve(UnknownGroup(n), sev, res)
  PROVE  LowTyposquats(report') = LowTyposquats(report)
<1>1. \A f \in UnknownGroup(n) :
        /\ f.rule = "unknown-package"
        /\ [f EXCEPT !.res = res, !.sev = IF sev = "kept" THEN @ ELSE sev].rule
             = "unknown-package"
  BY DEF TypeOK, Finding, UnknownGroup
<1> QED BY <1>1 DEF LowTyposquats, Resolve

LEMMA TyposquatsStep ==
  TypeOK /\ LowTyposquatsIntact /\ [Next]_vars => LowTyposquatsIntact'
<1> SUFFICES ASSUME TypeOK, LowTyposquatsIntact, [Next]_vars, PhaseRank[phase'] <= 3
             PROVE  LowTyposquats(report') = LowTyposquats(in'.offline)
  BY DEF LowTyposquatsIntact, LowTyposquats, PhaseRank
<1>1. in' = in
  BY DEF Next, Local, Respond, Answer, Terminated, OutOfBudget, BulkOutOfBudget,
     Ask, AskDownloads, Advance, Finish, Unreachable, DownloadsUnreachable,
     UnknownAnswer, PypiAnswer, SquatAnswer, AgeAnswer, AsymmetryAnswer,
     SquatDownloadsAnswer, Tick, Send, vars
<1>2. PhaseRank[phase] <= 3
  <2>1. phase' = phase \/ (phase \in DOMAIN Following /\ phase' = Following[phase])
                       \/ phase' = "done"
    BY DEF Next, Local, Respond, Answer, Terminated, OutOfBudget, BulkOutOfBudget,
     Ask, AskDownloads, Advance, Finish, Unreachable, DownloadsUnreachable,
     UnknownAnswer, PypiAnswer, SquatAnswer, AgeAnswer, AsymmetryAnswer,
     SquatDownloadsAnswer, Tick, Send, Enter, Following, Bulk, vars
  <2> QED BY <2>1, RankFacts DEF Following
<1>3. LowTyposquats(report') = LowTyposquats(report)
  <2>1. CASE OutOfBudget \/ Unreachable
    BY <2>1, ResolveKeepsTyposquats DEF OutOfBudget, Unreachable
  <2>2. CASE UnknownAnswer
    <3>1. \E n, sev, res : report' = Resolve(UnknownGroup(n), sev, res)
      BY <2>2 DEF UnknownAnswer
    <3> QED BY <3>1, ResolveKeepsTyposquats
  <2>3. CASE PypiAnswer
    BY <2>3 DEF PypiAnswer, PypiFindings, PypiFindingsAt, LowTyposquats
  <2>4. CASE AsymmetryAnswer \/ SquatAnswer \/ AgeAnswer
    <3>1. phase' \in {"squat-downloads", "registered-squat", "publish-age"}
      BY <2>4 DEF AsymmetryAnswer, SquatAnswer, AgeAnswer, Enter
    <3> QED BY <3>1, RankFacts
  <2>5. CASE report' = report
    BY <2>5
  <2>6. report' = report \/ OutOfBudget \/ Unreachable \/ UnknownAnswer
        \/ PypiAnswer \/ AsymmetryAnswer \/ SquatAnswer \/ AgeAnswer
    BY DEF Next, Local, Respond, Answer, Terminated, BulkOutOfBudget,
     Ask, AskDownloads, Advance, Finish, DownloadsUnreachable,
     SquatDownloadsAnswer, Tick, Send, vars
  <2> QED BY <2>1, <2>2, <2>3, <2>4, <2>5, <2>6
<1> QED BY <1>1, <1>2, <1>3 DEF LowTyposquatsIntact

LEMMA OneCallStep ==
  OneAtATime /\ BulkLoop /\ [Next]_vars => OneAtATime' /\ BulkLoop'
<1> SUFFICES ASSUME OneAtATime, BulkLoop, [Next]_vars
             PROVE  OneAtATime' /\ BulkLoop'
  OBVIOUS
<1>1. CASE call' = {}
  BY <1>1 DEF OneAtATime, BulkLoop
<1>2. CASE UNCHANGED <<phase, todo, call>>
  BY <1>2 DEF OneAtATime, BulkLoop
<1>3. CASE Ask \/ AskDownloads
  BY <1>3 DEF Ask, AskDownloads, Send, OneAtATime, BulkLoop, PerName, Bulk
<1>4. CASE Finish
  BY <1>4 DEF Finish, OneAtATime, BulkLoop, PerName, Bulk
<1>5. CASE OutOfBudget
  BY <1>5 DEF OutOfBudget, OneAtATime, BulkLoop, PerName, Bulk
<1>6. \/ call' = {} \/ UNCHANGED <<phase, todo, call>> \/ Ask \/ AskDownloads
      \/ Finish \/ OutOfBudget
  BY DEF Next, Local, Respond, Answer, Terminated, BulkOutOfBudget,
     Advance, Unreachable, DownloadsUnreachable, Return, PerName, Bulk,
     UnknownAnswer, PypiAnswer, SquatAnswer, AgeAnswer, AsymmetryAnswer,
     SquatDownloadsAnswer, Tick, vars
<1> QED BY <1>1, <1>2, <1>3, <1>4, <1>5, <1>6

LEMMA InitSettling == Init => Settling
<1> SUFFICES ASSUME Init PROVE Settling
  OBVIOUS
<1>1. LowTyposquatsIntact /\ OneAtATime /\ BulkLoop
  BY DEF Init, LowTyposquatsIntact, OneAtATime, BulkLoop
<1>2. ASSUME Running, NEW s \in Steps, NEW n \in OwedAt(s)
      PROVE  Ahead(s) \/ Waiting(s, n)
  <2>1. phase = "unknown-package" /\ todo = UnknownNames
    BY <1>2 DEF Init, Running
  <2>2. CASE s = "unknown-package"
    BY <1>2, <2>1, <2>2 DEF OwedAt, Waiting, StepOf, NameOf
  <2>3. CASE s # "unknown-package"
    BY <2>1, <2>3, RankFacts DEF Ahead, FirstPhase, Steps
  <2> QED BY <2>2, <2>3
<1> QED BY <1>1, <1>2, InitType DEF Settling, NothingForgotten

LEMMA SettlingInductive == Settling /\ [Next]_vars => Settling'
BY StepType, TyposquatsStep, OneCallStep, SettlingStep DEF Settling

(* No name falls between the five steps, for every scan input, every       *)
(* budget and every mix of answers, failures and delays.                   *)
THEOREM NothingIsForgotten == Spec => []NothingForgotten
<1>1. Settling => NothingForgotten
  BY DEF Settling
<1> QED BY InitSettling, SettlingInductive, <1>1, PTL DEF Spec
-----------------------------------------------------------------------------
(* PassMeansAnswered.  A verdict appears when the run finishes, and one    *)
(* that judged left no name in the list that counts; with nothing          *)
(* forgotten, every other name was answered.                               *)

VerdictEarned ==
  /\ phase # "done" => verdict.exit = 3
  /\ phase = "done" /\ verdict.exit # 2 /\ in.pr /\ ~in.note => Countable = {}

LEMMA OwedNotInternal ==
  ASSUME NEW s \in Steps, NEW n \in OwedAt(s)
  PROVE  \A m \in ReportedAt(s, n) : ~Internal(m)
<1>1. CASE s = "publish-age"
  BY <1>1 DEF ReportedAt, AgeGroup, AgeCandidates
<1>2. CASE s # "publish-age"
  BY <1>2 DEF ReportedAt, OwedAt, Steps, Sendable, UnknownNames,
     UnknownCandidates, PypiNames, PypiSendable, AsymmetryNames,
     AsymmetryCandidates, SquatNames, SquatCandidates
<1> QED BY <1>1, <1>2

LEMMA VerdictStep == VerdictEarned /\ [Next]_vars => VerdictEarned'
<1> SUFFICES ASSUME VerdictEarned, [Next]_vars PROVE VerdictEarned'
  OBVIOUS
<1>1. CASE Finish
  <2>1. in' = in /\ Countable' = Countable /\ phase' = "done"
    BY <1>1 DEF Finish, Countable, Internal
  <2>2. Listed = {} => Countable = {}
    BY DEF Listed
  <2>3. verdict'.exit # 2 => ~Fails
    BY <1>1 DEF Finish
  <2> QED BY <2>1, <2>2, <2>3 DEF VerdictEarned, Fails
<1>2. CASE UNCHANGED <<in, phase, unchecked, verdict>>
  BY <1>2 DEF VerdictEarned, Countable, Internal
<1>3. CASE ~Finish /\ ~UNCHANGED <<in, phase, unchecked, verdict>>
  <2>1. verdict' = verdict /\ phase # "done" /\ phase' # "done"
    BY <1>3 DEF Next, Local, Respond, Answer, Terminated, OutOfBudget,
       BulkOutOfBudget, Ask, AskDownloads, Advance, Unreachable,
       DownloadsUnreachable, UnknownAnswer, PypiAnswer, SquatAnswer, AgeAnswer,
       AsymmetryAnswer, SquatDownloadsAnswer, Tick, Send, Enter, Following, Bulk,
       PerName, vars
  <2> QED BY <2>1 DEF VerdictEarned
<1> QED BY <1>1, <1>2, <1>3

LEMMA EarnedMeansAnswered ==
  TypeOK /\ NothingForgotten /\ VerdictEarned => PassMeansAnswered
<1> SUFFICES ASSUME TypeOK, NothingForgotten, VerdictEarned,
                    verdict.exit \in {0, 1}, in.pr, ~in.note, Running,
                    NEW s \in Steps, NEW n \in OwedAt(s), ~Was(s, n)
             PROVE  ReportedAt(s, n) \subseteq in.allow
  BY DEF PassMeansAnswered
<1>1. phase = "done" /\ Countable = {}
  BY DEF VerdictEarned
<1>2. GivenUp(s, n)
  BY <1>1, RankFacts DEF NothingForgotten, Ahead, FirstPhase, Waiting, StepOf, Steps
<1>3. ASSUME NEW m \in ReportedAt(s, n) PROVE m \in in.allow
  <2>1. PICK u \in unchecked : u.name = m
    BY <1>2, <1>3 DEF GivenUp
  <2> QED BY <1>1, <2>1, <1>3, OwedNotInternal DEF Countable
<1> QED BY <1>3

(* A pull-request run that judges got an answer for every name it had to   *)
(* check, but for those an allow entry clears.                             *)
THEOREM JudgedMeansAnswered == Spec => []PassMeansAnswered
<1>1. Init => VerdictEarned
  BY DEF Init, VerdictEarned, NoVerdict
<1> QED BY <1>1, TypeCorrect, NothingIsForgotten, VerdictStep,
           EarnedMeansAnswered, PTL DEF Spec
-----------------------------------------------------------------------------
(* NamesStayHome: what a loop has still to visit was sendable when it was  *)
(* put there.                                                              *)

Home == phase # "publish-age" =>
          \A i \in todo : ~Internal(NameOf(i)) /\ NameOf(i) \notin in.private

LEMMA TodoHome ==
  ASSUME TypeOK, NEW p \in Phases, p # "publish-age", p # "registered-squat"
  PROVE  \A n \in TodoOf(p) : ~Internal(n) /\ n \notin in.private
<1>1. \A n \in PypiNames : ~Internal(n) /\ n \notin in.private
  BY InputType, CandidateType, NamesAssumption DEF TypeOK, PypiNames, PypiSendable
<1>2. \A n \in AsymmetryNames(report) \cup SquatNames : Sendable(n)
  BY DEF AsymmetryNames, AsymmetryCandidates, SquatNames, SquatCandidates
<1> QED BY <1>1, <1>2 DEF TodoOf, Sendable, NonPublic, Phases, Steps

LEMMA HomeStep == TypeOK /\ Home /\ [Next]_vars => Home'
<1> SUFFICES ASSUME TypeOK, Home, [Next]_vars PROVE Home'
  OBVIOUS
<1>1. CASE UNCHANGED <<in, phase>> /\ todo' \subseteq todo
  BY <1>1 DEF Home, NameOf, Internal
<1>2. CASE /\ phase \in DOMAIN Following /\ Enter(Following[phase]) /\ in' = in
  <2>1. phase' \in Phases /\ (phase' = "registered-squat" => todo' = {})
    BY <1>2, EnterType
  <2>2. CASE phase' \in {"publish-age", "registered-squat"}
    BY <2>1, <2>2 DEF Home
  <2>3. CASE phase' \notin {"publish-age", "registered-squat"}
    BY <1>2, <2>1, <2>3, TodoHome DEF Enter, Home, NameOf, Internal
  <2> QED BY <2>2, <2>3
<1>3. CASE SquatDownloadsAnswer
  BY <1>3 DEF SquatDownloadsAnswer, Home, NameOf, Internal, SquatCandidates,
     Sendable, NonPublic
<1>4. CASE Finish
  BY <1>4 DEF Finish, Home, NameOf, Internal
<1>5. \/ UNCHANGED <<in, phase>> /\ todo' \subseteq todo
      \/ phase \in DOMAIN Following /\ Enter(Following[phase]) /\ in' = in
      \/ SquatDownloadsAnswer \/ Finish
  BY DEF Next, Local, Respond, Answer, Terminated, OutOfBudget, BulkOutOfBudget,
     Ask, AskDownloads, Advance, Unreachable, DownloadsUnreachable,
     UnknownAnswer, PypiAnswer, SquatAnswer, AgeAnswer, AsymmetryAnswer, Tick,
     Send, Following, Bulk, vars
<1> QED BY <1>1, <1>2, <1>3, <1>4, <1>5

LEMMA SentStep == Home /\ NamesStayHome /\ [Next]_vars => NamesStayHome'
<1> SUFFICES ASSUME Home, NamesStayHome, [Next]_vars PROVE NamesStayHome'
  OBVIOUS
<1>1. CASE UNCHANGED <<in, sent>>
  BY <1>1 DEF NamesStayHome, Internal
<1>2. CASE Ask \/ AskDownloads
  <2>1. PICK S :
         /\ \A n \in S : \E i \in todo : n = NameOf(i)
         /\ sent' = sent \cup {[step |-> StepOf(phase), name |-> n] : n \in S}
    <3>1. CASE Ask
      BY <3>1 DEF Ask, Send
    <3>2. CASE AskDownloads
      BY <3>2 DEF AskDownloads, Send, NameOf, Bulk
    <3> QED BY <1>2, <3>1, <3>2
  <2>2. in' = in
    BY <1>2 DEF Ask, AskDownloads, Send
  <2>3. StepOf(phase) # "publish-age" => phase # "publish-age"
    BY DEF StepOf
  <2> QED BY <2>1, <2>2, <2>3 DEF NamesStayHome, Home, Internal
<1>3. UNCHANGED <<in, sent>> \/ Ask \/ AskDownloads
  BY DEF Next, Local, Respond, Answer, Terminated, OutOfBudget, BulkOutOfBudget,
     Advance, Finish, Unreachable, DownloadsUnreachable, UnknownAnswer,
     PypiAnswer, SquatAnswer, AgeAnswer, AsymmetryAnswer, SquatDownloadsAnswer,
     Tick, vars
<1> QED BY <1>1, <1>2, <1>3

(* Except for publish-age, no step sends a name declared internal or       *)
(* private, whatever the scan found.                                       *)
THEOREM NoDeclaredNameSent == Spec => []NamesStayHome
<1>1. Init => Home /\ NamesStayHome
  BY DEF Init, Home, NamesStayHome, NameOf, UnknownNames, UnknownCandidates,
     Sendable, NonPublic
<1> QED BY <1>1, TypeCorrect, HomeStep, SentStep, PTL DEF Spec
-----------------------------------------------------------------------------
(* OverrunBounded.  A call goes out before the budget ends, and the clock  *)
(* advances only while it is out.                                          *)

InTime ==
  /\ wire # {} => now - age < EndsAt /\ age <= LongestCall
  /\ call = {} => wire = {}

LEMMA ClockFixed ==
  ASSUME UNCHANGED <<in, phase>>
  PROVE  EndsAt' = EndsAt /\ LongestCall' = LongestCall
BY DEF EndsAt, DryRun, Enabled, LongestCall

LEMMA InTimeStep ==
  TypeOK /\ InTime /\ OverrunBounded /\ [Next]_vars => InTime' /\ OverrunBounded'
<1> SUFFICES ASSUME TypeOK, InTime, OverrunBounded, [Next]_vars
             PROVE  InTime' /\ OverrunBounded'
  OBVIOUS
<1>1. /\ now \in Nat /\ age \in Nat /\ EndsAt \in Nat
      /\ LongestCall \in {MaxCall, MaxBulk}
  BY InputType DEF TypeOK, EndsAt, LongestCall
<1>2. CASE Tick
  <2>1. /\ UNCHANGED <<in, phase, call, wire>> /\ now' = now + 1 /\ age' = age + 1
        /\ wire # {} /\ age < LongestCall
    BY <1>2 DEF Tick
  <2>2. now' - age' < EndsAt /\ age' <= LongestCall
    BY <1>1, <2>1, BoundsAssumption DEF InTime
  <2>3. now' < EndsAt + LongestCall
    BY <1>1, <2>1, <2>2, BoundsAssumption
  <2> QED BY <1>1, <2>1, <2>2, <2>3, ClockFixed, BoundsAssumption
          DEF InTime, OverrunBounded
<1>3. CASE Ask \/ AskDownloads
  <2>1. /\ UNCHANGED <<in, phase, now>> /\ age' = 0 /\ ~Expired
        /\ call' = {} => wire' = {}
    BY <1>3 DEF Ask, AskDownloads, Send
  <2>2. EndsAt' = EndsAt /\ LongestCall' = LongestCall
    BY <2>1, ClockFixed
  <2> QED BY <1>1, <2>1, <2>2, BoundsAssumption DEF Expired, InTime, OverrunBounded
<1>4. CASE UNCHANGED <<in, now>> /\ wire' = {}
  BY <1>4 DEF InTime, OverrunBounded, EndsAt, DryRun, Enabled
<1>5. CASE UNCHANGED <<in, now, wire, age, call>> /\ LongestCall' = LongestCall
  BY <1>5 DEF InTime, OverrunBounded, EndsAt, DryRun, Enabled
<1>6. \/ UNCHANGED <<in, now, wire, age, call>> /\ LongestCall' = LongestCall
      \/ UNCHANGED <<in, now>> /\ wire' = {}
      \/ Tick \/ Ask \/ AskDownloads
  BY DEF Next, Local, Respond, Answer, Terminated, OutOfBudget, BulkOutOfBudget,
     Advance, Finish, Unreachable, DownloadsUnreachable, UnknownAnswer,
     PypiAnswer, SquatAnswer, AgeAnswer, AsymmetryAnswer, SquatDownloadsAnswer,
     Return, InTime, LongestCall, PerName, vars
<1> QED BY <1>2, <1>3, <1>4, <1>5, <1>6

(* A spent budget is overrun by at most the one call it caught in flight,  *)
(* however many names a change brings.                                     *)
THEOREM BudgetBoundsTheRun == Spec => []OverrunBounded
<1>1. Init => InTime /\ OverrunBounded
  BY DEF Init, InTime, OverrunBounded
<1> QED BY <1>1, TypeCorrect, InTimeStep, PTL DEF Spec
-----------------------------------------------------------------------------
(* FindingsNeverRemoved.  Every rewrite of a finding keeps its key.        *)

LEMMA ResolveKeepsKeys ==
  ASSUME TypeOK, NEW n, NEW sev, NEW res,
         report' = Resolve(UnknownGroup(n), sev, res)
  PROVE  {KeyOf(f) : f \in report} \subseteq {KeyOf(f) : f \in report'}
<1> DEFINE New(f) == [f EXCEPT !.res = res, !.sev = IF sev = "kept" THEN @ ELSE sev]
<1>1. \A f \in Finding : KeyOf(New(f)) = KeyOf(f)
  BY DEF KeyOf, Finding
<1>2. \A f \in report : f \in report' \/ New(f) \in report'
  BY DEF Resolve
<1>3. \A f \in report : f \in Finding
  BY DEF TypeOK
<1> QED BY <1>1, <1>2, <1>3

LEMMA KeysStep ==
  TypeOK /\ [Next]_vars =>
    {KeyOf(f) : f \in report} \subseteq {KeyOf(f) : f \in report'}
<1> SUFFICES ASSUME TypeOK, [Next]_vars
             PROVE  {KeyOf(f) : f \in report} \subseteq {KeyOf(f) : f \in report'}
  OBVIOUS
<1>1. CASE report \subseteq report'
  BY <1>1
<1>2. CASE OutOfBudget \/ Unreachable \/ UnknownAnswer
  <2>1. report' = report \/ \E n, sev, res : report' = Resolve(UnknownGroup(n), sev, res)
    <3>1. CASE OutOfBudget
      BY <3>1 DEF OutOfBudget
    <3>2. CASE Unreachable
      BY <3>2 DEF Unreachable
    <3>3. CASE UnknownAnswer
      BY <3>3 DEF UnknownAnswer
    <3> QED BY <1>2, <3>1, <3>2, <3>3
  <2> QED BY <2>1, ResolveKeepsKeys
<1>3. CASE AsymmetryAnswer
  <2>1. PICK weak \in SUBSET report :
          report' = (report \ weak) \cup {[f EXCEPT !.sev = "high"] : f \in weak}
    BY <1>3 DEF AsymmetryAnswer, AsymmetryCandidates, LowTyposquats
  <2>2. \A f \in Finding : KeyOf([f EXCEPT !.sev = "high"]) = KeyOf(f)
    BY DEF KeyOf, Finding
  <2>3. \A f \in report :
          f \in report' \/ (f \in Finding /\ [f EXCEPT !.sev = "high"] \in report')
    BY <2>1 DEF TypeOK
  <2> QED BY <2>2, <2>3
<1>4. report \subseteq report' \/ OutOfBudget \/ Unreachable \/ UnknownAnswer
      \/ AsymmetryAnswer
  BY DEF Next, Local, Respond, Answer, Terminated, BulkOutOfBudget, Ask,
     AskDownloads, Advance, Finish, DownloadsUnreachable, PypiAnswer,
     SquatAnswer, AgeAnswer, SquatDownloadsAnswer, Tick, Send, vars
<1> QED BY <1>1, <1>2, <1>3, <1>4

(* The network removes no finding, for every scan input.                   *)
THEOREM NothingRemoved == Spec => FindingsNeverRemoved
<1>1. TypeOK /\ [Next]_vars =>
        [{KeyOf(f) : f \in report} \subseteq {KeyOf(f) : f \in report'}]_vars
  BY KeysStep
<1> QED BY <1>1, TypeCorrect, PTL DEF Spec, FindingsNeverRemoved
-----------------------------------------------------------------------------
(* ReportIsHonest, first part: findings rest on answers.  A finding rests  *)
(* on what was said of its key and its severity, and what was said stays.  *)

Moved(f) == (\E o \in in.offline : SameKey(f, o)) =>
  \/ OfflineSaid(f, f.sev)
  \/ /\ f.rule = "unknown-package" /\ f.sev = "low"
     /\ Replied("unknown-package", f.name, "registry-present")
  \/ /\ f.rule = "unknown-package" /\ f.sev = "critical"
     /\ \E s \in Live : Replied(s, f.name, "registry-absent")
  \/ /\ f.rule = "typosquat" /\ f.sev = "high" /\ OfflineSaid(f, "low")
     /\ \E said \in {"tiny", "small"} : Replied("asymmetry", f.name, said)

Added(f) == (\A o \in in.offline : ~SameKey(f, o)) =>
  \/ f.rule = "unknown-package" /\ Replied("pypi-existence", f.name, "registry-absent")
  \/ f.rule = "registered-squat" /\ Replied("registered-squat", f.name, "young")
  \/ f.rule = "publish-age" /\ \E l \in AgeCandidates :
       l.name = f.name /\ Replied("publish-age", l.lookup, "dated")

Rests(f) == Moved(f) /\ Added(f)

LEMMA RestsIsFindings == FindingsRestOnAnswers <=> \A f \in report : Rests(f)
BY DEF FindingsRestOnAnswers, SeverityJustified, AddedOnAnAnswer, Rests, Moved, Added

LEMMA InputFixed == [Next]_vars => in' = in
BY DEF Next, Local, Respond, Answer, Terminated, OutOfBudget, BulkOutOfBudget,
   Ask, AskDownloads, Advance, Finish, Unreachable, DownloadsUnreachable,
   UnknownAnswer, PypiAnswer, SquatAnswer, AgeAnswer, AsymmetryAnswer,
   SquatDownloadsAnswer, Tick, Send, vars

LEMMA RepliesStay == [Next]_vars => replies \subseteq replies'
BY DEF Next, Local, Respond, Answer, Terminated, OutOfBudget, BulkOutOfBudget,
   Ask, AskDownloads, Advance, Finish, Unreachable, DownloadsUnreachable,
   UnknownAnswer, PypiAnswer, SquatAnswer, AgeAnswer, AsymmetryAnswer,
   SquatDownloadsAnswer, Tick, Send, Heard, HeardCounts, vars

LEMMA AgeFixed ==
  ASSUME in' = in PROVE AgeCandidates' = AgeCandidates
BY DEF AgeCandidates, NonPublicResolution, Internal, NonPublic

LEMMA KeyFields ==
  ASSUME NEW f, NEW g, KeyOf(f) = KeyOf(g)
  PROVE  f.rule = g.rule /\ f.name = g.name /\ f.site = g.site /\ f.ver = g.ver
<1> DEFINE K(x) == KeyOf(x)
<1>1. \A x : /\ KeyOf(x).rule = x.rule /\ KeyOf(x).name = x.name
             /\ KeyOf(x).site = x.site /\ KeyOf(x).ver = x.ver
  BY DEF KeyOf
<1> QED BY <1>1

(* A finding with the key and the severity of one that rested still rests. *)
LEMMA StillRests ==
  ASSUME in' = in, replies \subseteq replies',
         NEW f, Rests(f), NEW g, KeyOf(g) = KeyOf(f), g.sev = f.sev
  PROVE  Rests(g)'
<1>1. g.rule = f.rule /\ g.name = f.name
  BY KeyFields
<1>2. \A o : SameKey(g, o)' <=> SameKey(f, o)
  BY DEF SameKey
<1>3. \A s, n, said : Replied(s, n, said) => Replied(s, n, said)'
  BY DEF Replied
<1>4. \A sev : OfflineSaid(g, sev)' <=> OfflineSaid(f, sev)
  BY <1>2 DEF OfflineSaid
<1>5. Moved(g)'
  BY <1>1, <1>2, <1>3, <1>4 DEF Rests, Moved
<1>6. Added(g)'
  BY <1>1, <1>2, <1>3, AgeFixed DEF Rests, Added
<1> QED BY <1>5, <1>6 DEF Rests

(* One that an answer gave another severity rests on that answer.          *)
LEMMA RestsOnAnAnswer ==
  ASSUME in' = in, replies \subseteq replies',
         NEW f, Rests(f), NEW g, KeyOf(g) = KeyOf(f),
         \/ /\ f.rule = "unknown-package" /\ g.sev = "low"
            /\ Replied("unknown-package", f.name, "registry-present")'
         \/ /\ f.rule = "unknown-package" /\ g.sev = "critical"
            /\ Replied("unknown-package", f.name, "registry-absent")'
         \/ /\ f.rule = "typosquat" /\ g.sev = "high" /\ OfflineSaid(f, "low")
            /\ \E said \in {"tiny", "small"} : Replied("asymmetry", f.name, said)'
  PROVE  Rests(g)'
<1>1. g.rule = f.rule /\ g.name = f.name
  BY KeyFields
<1>2. \A o : SameKey(g, o)' <=> SameKey(f, o)
  BY DEF SameKey
<1>3. \A s, n, said : Replied(s, n, said) => Replied(s, n, said)'
  BY DEF Replied
<1>4. \A sev : OfflineSaid(g, sev)' <=> OfflineSaid(f, sev)
  BY <1>2 DEF OfflineSaid
<1>5. Moved(g)'
  BY <1>1, <1>4 DEF Moved, Live
<1>6. Added(g)'
  BY <1>1, <1>2, <1>3, AgeFixed DEF Rests, Added
<1> QED BY <1>5, <1>6 DEF Rests

AllRest == \A f \in report : Rests(f)

(* A step that leaves every finding as it was or rewrites only how its     *)
(* resolution reads.                                                       *)
LEMMA UnmovedRests ==
  ASSUME in' = in, replies \subseteq replies', AllRest,
         \A g \in report' : \E f \in report : KeyOf(g) = KeyOf(f) /\ g.sev = f.sev
  PROVE  AllRest'
<1> SUFFICES ASSUME NEW g \in report' PROVE Rests(g)'
  BY DEF AllRest
<1>1. PICK f \in report : KeyOf(g) = KeyOf(f) /\ g.sev = f.sev
  OBVIOUS
<1> QED BY <1>1, StillRests DEF AllRest

(* What recordResolution makes of the working list.                        *)
LEMMA ResolveMakes ==
  ASSUME TypeOK, NEW group \in SUBSET report, NEW sev, NEW res
  PROVE  \A g \in Resolve(group, sev, res) :
           \/ g \in report
           \/ \E f \in group : /\ KeyOf(g) = KeyOf(f)
                               /\ g.sev = IF sev = "kept" THEN f.sev ELSE sev
<1> DEFINE New(f) == [f EXCEPT !.res = res, !.sev = IF sev = "kept" THEN @ ELSE sev]
<1>1. \A f \in Finding : /\ KeyOf(New(f)) = KeyOf(f)
                         /\ New(f).sev = IF sev = "kept" THEN f.sev ELSE sev
  BY DEF KeyOf, Finding
<1>2. group \subseteq Finding
  BY DEF TypeOK
<1>3. \A g \in Resolve(group, sev, res) : g \in report \/ \E f \in group : g = New(f)
  BY DEF Resolve
<1> HIDE DEF New
<1> QED BY <1>1, <1>2, <1>3

LEMMA KeptRests ==
  ASSUME TypeOK, AllRest, in' = in, replies \subseteq replies', NEW n, NEW res,
         report' = Resolve(UnknownGroup(n), "kept", res)
  PROVE  AllRest'
<1>1. UnknownGroup(n) \subseteq report
  BY DEF UnknownGroup
<1>2. \A g \in report' : \E f \in report : KeyOf(g) = KeyOf(f) /\ g.sev = f.sev
  BY <1>1, ResolveMakes
<1> QED BY <1>2, UnmovedRests

LEMMA UnknownAnswerRests ==
  TypeOK /\ AllRest /\ UnknownAnswer => AllRest'
<1> SUFFICES ASSUME TypeOK, AllRest, UnknownAnswer, NEW g \in report' PROVE Rests(g)'
  BY DEF AllRest
<1>1. PICK n \in call, said \in {"registry-present", "not-present", "registry-absent"} :
       /\ phase = "unknown-package" /\ in' = in
       /\ replies' = Heard({n}, said)
       /\ report' = Resolve(UnknownGroup(n), SeverityAfter(said), said)
  BY DEF UnknownAnswer
<1>2. replies \subseteq replies' /\ Replied("unknown-package", n, said)'
  BY <1>1 DEF Heard, Replied, StepOf
<1>3. UnknownGroup(n) \subseteq report
        /\ \A f \in UnknownGroup(n) : f.rule = "unknown-package" /\ f.name = n
  BY DEF UnknownGroup
<1>4. CASE g \in report
  BY <1>1, <1>2, <1>4, StillRests DEF AllRest
<1>5. CASE \E f \in UnknownGroup(n) : /\ KeyOf(g) = KeyOf(f)
              /\ g.sev = IF SeverityAfter(said) = "kept" THEN f.sev ELSE SeverityAfter(said)
  <2>1. PICK f \in UnknownGroup(n) : /\ KeyOf(g) = KeyOf(f)
          /\ g.sev = IF SeverityAfter(said) = "kept" THEN f.sev ELSE SeverityAfter(said)
    BY <1>5
  <2>2. Rests(f) /\ f.rule = "unknown-package" /\ f.name = n
    BY <1>3 DEF AllRest
  <2>3. CASE said = "not-present"
    <3>1. g.sev = f.sev
      BY <2>1, <2>3 DEF SeverityAfter
    <3> QED BY <1>1, <1>2, <2>1, <2>2, <3>1, StillRests
  <2>4. CASE said = "registry-present"
    <3>1. g.sev = "low"
      BY <2>1, <2>4 DEF SeverityAfter
    <3> QED BY <1>1, <1>2, <2>1, <2>2, <2>4, <3>1, RestsOnAnAnswer
  <2>5. CASE said = "registry-absent"
    <3>1. g.sev = "critical"
      BY <2>1, <2>5 DEF SeverityAfter
    <3> QED BY <1>1, <1>2, <2>1, <2>2, <2>5, <3>1, RestsOnAnAnswer
  <2> QED BY <1>1, <2>3, <2>4, <2>5
<1> QED BY <1>1, <1>3, <1>4, <1>5, ResolveMakes

(* A finding the step adds rests on the answer that made it.               *)
LEMMA AddedRests ==
  ASSUME in' = in, replies \subseteq replies', AllRest,
         \A g \in report' \ report : Rests(g)'
  PROVE  AllRest'
BY StillRests DEF AllRest

LEMMA PypiAnswerRests == TypeOK /\ AllRest /\ PypiAnswer => AllRest'
<1> SUFFICES ASSUME TypeOK, AllRest, PypiAnswer PROVE AllRest'
  OBVIOUS
<1>1. PICK n \in call, said \in {"registry-present", "registry-absent"} :
       /\ phase = "pypi-existence" /\ in' = in
       /\ replies' = Heard({n}, said)
       /\ report' = report \cup PypiFindings(n, said)
  BY DEF PypiAnswer
<1>2. replies \subseteq replies' /\ Replied("pypi-existence", n, said)'
  BY <1>1 DEF Heard, Replied, StepOf
<1>3. ASSUME NEW g \in report' \ report PROVE Rests(g)'
  <2>1. said = "registry-absent"
    BY <1>1, <1>3 DEF PypiFindings
  <2>2. g.rule = "unknown-package" /\ g.name = n /\ g.sev = "critical"
    BY <1>1, <1>3 DEF PypiFindings, PypiFindingsAt
  <2> QED BY <1>2, <2>1, <2>2 DEF Rests, Moved, Added, Live
<1> QED BY <1>1, <1>2, <1>3, AddedRests

LEMMA SquatAnswerRests == TypeOK /\ AllRest /\ SquatAnswer => AllRest'
<1> SUFFICES ASSUME TypeOK, AllRest, SquatAnswer PROVE AllRest'
  OBVIOUS
<1>1. PICK c \in call, said \in {"young", "old"} :
       /\ phase = "registered-squat" /\ in' = in
       /\ replies' = Heard({c.name}, said)
       /\ report' = report \cup IF said = "old" THEN {} ELSE
            {[rule |-> "registered-squat", name |-> c.name, site |-> c.site,
              ver |-> NoVersion, sev |-> "medium", res |-> "none"]}
  BY DEF SquatAnswer
<1>2. replies \subseteq replies' /\ Replied("registered-squat", c.name, said)'
  BY <1>1 DEF Heard, Replied, StepOf
<1>3. ASSUME NEW g \in report' \ report PROVE Rests(g)'
  <2>1. said = "young" /\ g.rule = "registered-squat" /\ g.name = c.name
    BY <1>1, <1>3
  <2>2. \A o \in in'.offline : ~SameKey(g, o)'
    BY <1>1, <2>1, InputType, KeyFields, ScansAssumption
       DEF TypeOK, Scan, OfflineFinding, SameKey
  <2> QED BY <1>2, <2>1, <2>2 DEF Rests, Moved, Added
<1> QED BY <1>1, <1>2, <1>3, AddedRests

LEMMA AgeAnswerRests == TypeOK /\ AllRest /\ AgeAnswer => AllRest'
<1> SUFFICES ASSUME TypeOK, AllRest, AgeAnswer PROVE AllRest'
  OBVIOUS
<1> DEFINE New(n, young) ==
       {[rule |-> "publish-age", name |-> l.name, site |-> l.site,
         ver |-> l.ver, sev |-> "high", res |-> "none"] :
          l \in {k \in AgeGroup(n) :
                 k.ver \in young /\ <<k.name, k.ver>> \notin in.minAgeAllow}}
<1>1. PICK n \in call : \E young \in SUBSET {l.ver : l \in AgeGroup(n)} :
       /\ phase = "publish-age" /\ in' = in
       /\ replies' = Heard({n}, "dated")
       /\ report' = report \cup New(n, young)
  BY DEF AgeAnswer
<1>2. replies \subseteq replies' /\ Replied("publish-age", n, "dated")'
  BY <1>1 DEF Heard, Replied, StepOf
<1>3. ASSUME NEW g \in report' \ report PROVE Rests(g)'
  <2>1. PICK l \in AgeGroup(n) : g.rule = "publish-age" /\ g.name = l.name
    <3>1. PICK young \in SUBSET {l.ver : l \in AgeGroup(n)} : g \in New(n, young)
      BY <1>1, <1>3
    <3>2. PICK l \in AgeGroup(n) : g = [rule |-> "publish-age", name |-> l.name,
            site |-> l.site, ver |-> l.ver, sev |-> "high", res |-> "none"]
      BY <3>1
    <3> QED BY <3>2
  <2>2. l \in AgeCandidates' /\ l.lookup = n
    BY <1>1, AgeFixed DEF AgeGroup
  <2>3. \A o \in in'.offline : ~SameKey(g, o)'
    BY <1>1, <2>1, InputType, KeyFields, ScansAssumption
       DEF TypeOK, Scan, OfflineFinding, SameKey
  <2>4. Added(g)'
    BY <1>2, <2>1, <2>2 DEF Added
  <2> QED BY <2>3, <2>4 DEF Rests, Moved
<1> QED BY <1>1, <1>2, <1>3, AddedRests

(* The names the asymmetry step asks about are those of the look-alikes on *)
(* the working list.                                                       *)
AsksTheLookAlikes == phase = "asymmetry" => AsymmetryNames(report) = todo \cup call

LEMMA AsksStep == AsksTheLookAlikes /\ [Next]_vars => AsksTheLookAlikes'
<1> SUFFICES ASSUME AsksTheLookAlikes, [Next]_vars, phase' = "asymmetry"
             PROVE  AsymmetryNames(report)' = todo' \cup call'
  BY DEF AsksTheLookAlikes
<1> USE DEF AsymmetryNames, AsymmetryCandidates, LowTyposquats, Sendable, Internal, NonPublic
<1>1. CASE phase = "asymmetry" /\ (AskDownloads \/ Tick \/ UNCHANGED vars)
  BY <1>1 DEF AskDownloads, Tick, Send, vars, AsksTheLookAlikes
<1>2. CASE Advance
  BY <1>2 DEF Advance, Enter, TodoOf
<1>3. \/ phase = "asymmetry" /\ (AskDownloads \/ Tick \/ UNCHANGED vars)
      \/ Advance
  BY DEF Next, Local, Respond, Answer, Terminated, OutOfBudget, BulkOutOfBudget,
     Ask, AskDownloads, Finish, Unreachable, DownloadsUnreachable,
     UnknownAnswer, PypiAnswer, SquatAnswer, AgeAnswer, AsymmetryAnswer,
     SquatDownloadsAnswer, Tick, Send, Enter, Following, Bulk, PerName, vars
<1> QED BY <1>1, <1>2, <1>3

(* A look-alike raised to high was low offline, whatever happened since.   *)
LEMMA AsymmetryAnswerRests ==
  Settling /\ AsksTheLookAlikes /\ AllRest /\ AsymmetryAnswer => AllRest'
<1> SUFFICES ASSUME Settling, AsksTheLookAlikes, AllRest, AsymmetryAnswer,
                    NEW g \in report'
             PROVE  Rests(g)'
  BY DEF AllRest
<1> DEFINE Weak(c) == {f \in AsymmetryCandidates(report) : c[f.name] \in {"tiny", "small"}}
<1>1. PICK c \in Counts :
       /\ phase = "asymmetry" /\ in' = in /\ todo = {}
       /\ replies' = HeardCounts(c, {n \in call : c[n] # "unresolved"})
       /\ report' = (report \ Weak(c)) \cup {[f EXCEPT !.sev = "high"] : f \in Weak(c)}
  BY DEF AsymmetryAnswer, Settling, BulkLoop, Bulk
<1>2. replies \subseteq replies'
  BY <1>1 DEF HeardCounts
<1>3. CASE g \in report
  BY <1>1, <1>2, <1>3, StillRests DEF AllRest
<1>4. CASE g \notin report
  <2>1. PICK f \in Weak(c) : g = [f EXCEPT !.sev = "high"]
    BY <1>1, <1>4
  <2>2. /\ f \in report /\ f \in Finding /\ f.rule = "typosquat" /\ f.sev = "low"
        /\ f \in LowTyposquats(report)
    BY DEF AsymmetryCandidates, LowTyposquats, Settling, TypeOK
  <2>3. KeyOf(g) = KeyOf(f) /\ g.sev = "high"
    BY <2>1, <2>2 DEF KeyOf, Finding
  <2>4. f \in in.offline
    BY <1>1, <2>2, RankFacts DEF Settling, LowTyposquatsIntact, LowTyposquats
  <2>5. OfflineSaid(f, "low")
    BY <2>2, <2>4 DEF OfflineSaid, SameKey
  <2>6. f.name \in call /\ c[f.name] \in {"tiny", "small"}
    <3>1. f.name \in AsymmetryNames(report)
      BY DEF AsymmetryNames
    <3> QED BY <1>1, <3>1 DEF AsksTheLookAlikes
  <2>7. \E said \in {"tiny", "small"} : Replied("asymmetry", f.name, said)'
    BY <1>1, <2>6 DEF Replied, HeardCounts, StepOf
  <2> QED BY <1>1, <1>2, <2>2, <2>3, <2>5, <2>7, RestsOnAnAnswer DEF AllRest
<1> QED BY <1>3, <1>4

LEMMA RestStep ==
  Settling /\ AsksTheLookAlikes /\ AllRest /\ [Next]_vars => AllRest'
<1> SUFFICES ASSUME Settling, AsksTheLookAlikes, AllRest, [Next]_vars PROVE AllRest'
  OBVIOUS
<1>1. in' = in /\ replies \subseteq replies' /\ TypeOK
  BY InputFixed, RepliesStay DEF Settling
<1>2. CASE UNCHANGED report
  BY <1>1, <1>2, UnmovedRests
<1>3. CASE OutOfBudget \/ Unreachable
  <2>1. report' = report \/ \E n, res : report' = Resolve(UnknownGroup(n), "kept", res)
    BY <1>3 DEF OutOfBudget, Unreachable
  <2> QED BY <1>1, <1>2, <2>1, KeptRests
<1>4. CASE UnknownAnswer
  BY <1>1, <1>4, UnknownAnswerRests
<1>5. CASE PypiAnswer
  BY <1>1, <1>5, PypiAnswerRests
<1>6. CASE SquatAnswer
  BY <1>1, <1>6, SquatAnswerRests
<1>7. CASE AgeAnswer
  BY <1>1, <1>7, AgeAnswerRests
<1>8. CASE AsymmetryAnswer
  BY <1>8, AsymmetryAnswerRests
<1>9. UNCHANGED report \/ OutOfBudget \/ Unreachable \/ UnknownAnswer
      \/ PypiAnswer \/ SquatAnswer \/ AgeAnswer \/ AsymmetryAnswer
  BY DEF Next, Local, Respond, Answer, Terminated, BulkOutOfBudget,
     Ask, AskDownloads, Advance, Finish, DownloadsUnreachable,
     SquatDownloadsAnswer, Tick, Send, vars
<1> QED BY <1>2, <1>3, <1>4, <1>5, <1>6, <1>7, <1>8, <1>9

LEMMA RestInit == Init => AllRest /\ AsksTheLookAlikes
<1> SUFFICES ASSUME Init, NEW f \in report PROVE Rests(f)
  BY DEF AllRest, Init, AsksTheLookAlikes
<1>1. f \in in.offline
  BY DEF Init
<1> QED BY <1>1 DEF Rests, Moved, Added, OfflineSaid, SameKey
-----------------------------------------------------------------------------
(* Only what a step owes is ever looked up or given up, and nothing is     *)
(* looked up twice.                                                        *)

Asking == phase \notin {"settle", "done"}

OwesName(s, m) == \E n \in OwedAt(s) : m \in ReportedAt(s, n)

OnlyOwed ==
  /\ Asking => Running
  /\ \A i \in todo \cup call : Asking /\ NameOf(i) \in OwedAt(StepOf(phase))
  /\ \A u \in unchecked : Running /\ OwesName(u.step, u.name)

LEMMA OwesFixed ==
  ASSUME in' = in, NEW s \in Steps, NEW m, OwesName(s, m)
  PROVE  OwesName(s, m)'
BY OwedFixed DEF OwesName

(* Once in the list, a name was owed: this is so of every name a step      *)
(* pushes into the sink.                                                   *)
LEMMA MissedOwed ==
  ASSUME TypeOK, OnlyOwed, in' = in, Asking, NEW S, NEW why, unchecked' = Missed(S, why),
         \A m \in S : OwesName(StepOf(phase), m)
  PROVE  \A u \in unchecked' : Running' /\ OwesName(u.step, u.name)'
<1> SUFFICES ASSUME NEW u \in unchecked' PROVE Running' /\ OwesName(u.step, u.name)'
  OBVIOUS
<1>1. Running' = Running
  BY OwedFixed DEF Steps
<1>2. StepOf(phase) \in Steps
  BY DEF TypeOK, Asking, StepOf, Phases, Steps
<1>3. CASE u \in unchecked
  <2>1. u.step \in Steps
    BY <1>3 DEF TypeOK, Unchecked
  <2> QED BY <1>1, <1>3, <2>1, OwesFixed DEF OnlyOwed
<1>4. CASE u \notin unchecked
  <2>1. u.step = StepOf(phase) /\ u.name \in S
    BY <1>4 DEF Missed
  <2> QED BY <1>1, <1>2, <2>1, OwesFixed DEF OnlyOwed
<1> QED BY <1>3, <1>4

LEMMA SinkOwed ==
  ASSUME TypeOK, OnlyOwed, in' = in, UNCHANGED unchecked
  PROVE  \A u \in unchecked' : Running' /\ OwesName(u.step, u.name)'
<1> SUFFICES ASSUME NEW u \in unchecked PROVE Running' /\ OwesName(u.step, u.name)'
  OBVIOUS
<1>1. u.step \in Steps /\ Running /\ OwesName(u.step, u.name)
  BY DEF TypeOK, Unchecked, OnlyOwed
<1> QED BY <1>1, OwesFixed, OwedFixed

(* What a step that stays in its loop leaves to visit was there before.    *)
LEMMA LoopOwed ==
  ASSUME TypeOK, OnlyOwed, in' = in, phase' = phase, todo' \cup call' \subseteq todo \cup call
  PROVE  /\ Asking' => Running'
         /\ \A i \in todo' \cup call' : Asking' /\ NameOf(i)' \in OwedAt(StepOf(phase))'
<1>1. Asking' = Asking /\ Running' = Running
  BY OwedFixed DEF Asking, Steps
<1>2. ASSUME NEW i \in todo \cup call
      PROVE  Asking' /\ NameOf(i)' \in OwedAt(StepOf(phase))'
  <2>1. Asking /\ NameOf(i) \in OwedAt(StepOf(phase))
    BY DEF OnlyOwed
  <2>2. StepOf(phase) \in Steps /\ StepOf(phase)' = StepOf(phase) /\ NameOf(i)' = NameOf(i)
    BY <2>1 DEF TypeOK, Asking, StepOf, Phases, Steps, NameOf
  <2> QED BY <1>1, <2>1, <2>2, OwedFixed
<1> QED BY <1>1, <1>2 DEF OnlyOwed

(* A step that starts a phase takes what that phase owes.                  *)
LEMMA EnterOwed ==
  ASSUME Settling, OnlyOwed, in' = in, NEW p \in DOMAIN Following, phase = p,
         Enter(Following[p]), call' = {}
  PROVE  /\ Asking' => Running'
         /\ \A i \in todo' \cup call' : Asking' /\ NameOf(i)' \in OwedAt(StepOf(phase))'
<1>1. Running /\ Running' /\ TypeOK
  BY OwedFixed DEF OnlyOwed, Asking, Following, Steps, Settling
<1>2. ASSUME NEW i \in todo'
      PROVE  Asking' /\ NameOf(i)' \in OwedAt(StepOf(phase))'
  <2> DEFINE q == Following[p]
  <2>1. phase' = q /\ i \in TodoOf(q)
    BY DEF Enter
  <2>2. q \in {"pypi-existence", "asymmetry", "squat-downloads", "publish-age"}
    BY <2>1 DEF TodoOf
  <2>3. q = "asymmetry" => LowTyposquats(report) = LowTyposquats(in.offline)
    BY <2>1, RankFacts DEF Settling, LowTyposquatsIntact, Following
  <2> HIDE DEF q
  <2>4. i \in OwedAt(StepOf(q))
    BY <2>1, <2>2, <2>3 DEF TodoOf, OwedAt, StepOf, AsymmetryNames, AsymmetryCandidates
  <2>5. StepOf(q) \in Steps /\ NameOf(i)' = i /\ Asking'
    BY <2>1, <2>2 DEF StepOf, NameOf, Asking, Steps
  <2>6. OwedAt(StepOf(q))' = OwedAt(StepOf(q))
    BY <2>5, OwedFixed DEF StepOf
  <2>7. StepOf(phase)' = StepOf(q)
    BY <2>1 DEF StepOf
  <2> QED BY <2>4, <2>5, <2>6, <2>7
<1> QED BY <1>1, <1>2

(* The names a lookup that did not happen is reported under are owed.      *)
LEMMA ReportedOwed ==
  ASSUME TypeOK, OnlyOwed, NEW i \in todo \cup call, phase \in PerName
  PROVE  \A m \in Reported(i) : OwesName(StepOf(phase), m)
<1>1. StepOf(phase) = phase
  BY DEF StepOf, PerName
<1>2. ReportedAt(phase, NameOf(i)) = Reported(i)
  BY DEF ReportedAt, Reported, NameOf
<1>3. NameOf(i) \in OwedAt(phase)
  BY <1>1 DEF OnlyOwed
<1> QED BY <1>1, <1>2, <1>3 DEF OwesName

LEMMA BulkOwed ==
  ASSUME TypeOK, OnlyOwed, NEW i \in todo \cup call, phase \in Bulk
  PROVE  OwesName(StepOf(phase), i)
<1>1. StepOf(phase) # "publish-age" /\ NameOf(i) = i
  BY DEF StepOf, Bulk, NameOf
<1>2. i \in OwedAt(StepOf(phase))
  BY <1>1 DEF OnlyOwed
<1> QED BY <1>1, <1>2 DEF OwesName, ReportedAt

LEMMA OnlyOwedLoop ==
  ASSUME Settling, OnlyOwed, in' = in, phase' = phase,
         todo' \cup call' \subseteq todo \cup call,
         \/ UNCHANGED unchecked
         \/ \E i \in todo \cup call, why \in {"budget", "unreachable"} :
              phase \in PerName /\ unchecked' = Missed(Reported(i), why)
  PROVE  OnlyOwed'
<1>1. TypeOK
  BY DEF Settling
<1>2. CASE UNCHANGED unchecked
  BY <1>1, <1>2, LoopOwed, SinkOwed DEF OnlyOwed
<1>3. CASE \E i \in todo \cup call, why \in {"budget", "unreachable"} :
              phase \in PerName /\ unchecked' = Missed(Reported(i), why)
  <2>1. PICK i \in todo \cup call, why \in {"budget", "unreachable"} :
          phase \in PerName /\ unchecked' = Missed(Reported(i), why)
    BY <1>3
  <2>2. Asking /\ \A m \in Reported(i) : OwesName(StepOf(phase), m)
    BY <1>1, <2>1, ReportedOwed DEF Asking, PerName
  <2>3. \A u \in unchecked' : Running' /\ OwesName(u.step, u.name)'
    BY <1>1, <2>1, <2>2, MissedOwed
  <2> QED BY <1>1, <2>3, LoopOwed DEF OnlyOwed
<1> QED BY <1>2, <1>3

LEMMA OnlyOwedEnter ==
  ASSUME Settling, OnlyOwed, in' = in, NEW p \in DOMAIN Following, phase = p,
         Enter(Following[p]), call' = {},
         \/ UNCHANGED unchecked
         \/ \E S \in SUBSET (todo \cup call), why \in {"budget", "unreachable"} :
              phase \in Bulk /\ unchecked' = Missed(S, why)
  PROVE  OnlyOwed'
<1>1. TypeOK
  BY DEF Settling
<1>2. CASE UNCHANGED unchecked
  BY <1>1, <1>2, EnterOwed, SinkOwed DEF OnlyOwed
<1>3. CASE \E S \in SUBSET (todo \cup call), why \in {"budget", "unreachable"} :
              phase \in Bulk /\ unchecked' = Missed(S, why)
  <2>1. PICK S \in SUBSET (todo \cup call), why \in {"budget", "unreachable"} :
          phase \in Bulk /\ unchecked' = Missed(S, why)
    BY <1>3
  <2>2. Asking /\ \A m \in S : OwesName(StepOf(phase), m)
    BY <1>1, <2>1, BulkOwed DEF Asking, Bulk
  <2>3. \A u \in unchecked' : Running' /\ OwesName(u.step, u.name)'
    BY <1>1, <2>1, <2>2, MissedOwed
  <2> QED BY <1>1, <2>3, EnterOwed DEF OnlyOwed
<1> QED BY <1>2, <1>3

LEMMA SquatDownloadsOwed == Settling /\ OnlyOwed /\ SquatDownloadsAnswer => OnlyOwed'
<1> SUFFICES ASSUME Settling, OnlyOwed, SquatDownloadsAnswer PROVE OnlyOwed'
  OBVIOUS
<1>1. PICK c \in Counts :
       /\ phase = "squat-downloads" /\ in' = in /\ call' = {}
       /\ unchecked' = Missed({n \in call : c[n] = "unresolved"}, "unreachable")
       /\ phase' = "registered-squat"
       /\ todo' = {k \in SquatCandidates : c[k.name] = "tiny"}
  BY DEF SquatDownloadsAnswer, Return
<1>2. TypeOK /\ Asking /\ Asking' /\ Running /\ Running'
  BY <1>1, OwedFixed DEF Settling, OnlyOwed, Asking, Steps
<1>3. \A u \in unchecked' : Running' /\ OwesName(u.step, u.name)'
  <2> DEFINE S == {n \in call : c[n] = "unresolved"}
  <2>1. \A m \in S : OwesName(StepOf(phase), m)
    BY <1>1, <1>2, BulkOwed DEF Bulk
  <2> QED BY <1>1, <1>2, <2>1, MissedOwed
<1>4. ASSUME NEW i \in todo' PROVE NameOf(i)' \in OwedAt(StepOf(phase))'
  <2>1. StepOf(phase)' = "registered-squat" /\ NameOf(i)' = i.name
    BY <1>1 DEF StepOf, NameOf
  <2>2. i.name \in OwedAt("registered-squat")
    BY <1>1, <1>4 DEF OwedAt, SquatNames
  <2>3. OwedAt("registered-squat")' = OwedAt("registered-squat")
    BY <1>1, OwedFixed DEF Steps
  <2> QED BY <2>1, <2>2, <2>3
<1> QED BY <1>1, <1>2, <1>3, <1>4 DEF OnlyOwed

LEMMA OnlyOwedStep == Settling /\ OnlyOwed /\ [Next]_vars => OnlyOwed'
<1> SUFFICES ASSUME Settling, OnlyOwed, [Next]_vars PROVE OnlyOwed'
  OBVIOUS
<1>1. in' = in
  BY InputFixed
<1>2. CASE OutOfBudget
  <2>1. PICK i \in todo : /\ phase \in PerName /\ todo' = todo \ {i} /\ call' = call
                          /\ phase' = phase /\ unchecked' = Missed(Reported(i), "budget")
    BY <1>2 DEF OutOfBudget
  <2> QED BY <1>1, <2>1, OnlyOwedLoop
<1>3. CASE Unreachable
  <2>1. PICK i \in call : /\ phase \in PerName /\ todo' = todo /\ call' = {}
                          /\ phase' = phase /\ unchecked' = Missed(Reported(i), "unreachable")
    BY <1>3 DEF Unreachable, Return
  <2> QED BY <1>1, <2>1, OnlyOwedLoop
<1>4. CASE UNCHANGED <<phase, unchecked>> /\ todo' \cup call' \subseteq todo \cup call
  BY <1>1, <1>4, OnlyOwedLoop
<1>5. CASE Advance
  BY <1>1, <1>5, OnlyOwedEnter DEF Advance
<1>6. CASE BulkOutOfBudget
  BY <1>1, <1>6, OnlyOwedEnter DEF BulkOutOfBudget, Bulk, Following
<1>7. CASE DownloadsUnreachable
  BY <1>1, <1>7, OnlyOwedEnter DEF DownloadsUnreachable, Return, Bulk, Following
<1>8. CASE AsymmetryAnswer
  <2>1. PICK c \in Counts :
         /\ phase = "asymmetry" /\ call' = {}
         /\ unchecked' = Missed({n \in call : c[n] = "unresolved"}, "unreachable")
         /\ Enter("squat-downloads")
    BY <1>8 DEF AsymmetryAnswer, Return
  <2>2. "asymmetry" \in DOMAIN Following /\ Following["asymmetry"] = "squat-downloads"
        /\ "asymmetry" \in Bulk
    BY DEF Following, Bulk
  <2>3. {n \in call : c[n] = "unresolved"} \in SUBSET (todo \cup call)
    OBVIOUS
  <2> QED BY <1>1, <2>1, <2>2, <2>3, OnlyOwedEnter
<1>9. CASE SquatDownloadsAnswer
  BY <1>9, SquatDownloadsOwed
<1>10. CASE Finish
  <2>1. phase = "settle" /\ phase' = "done" /\ UNCHANGED <<todo, call, unchecked>>
    BY <1>10 DEF Finish
  <2>2. ~Asking /\ ~Asking' /\ todo \cup call = {}
    BY <2>1 DEF OnlyOwed, Asking
  <2> QED BY <1>1, <2>1, <2>2, SinkOwed DEF Settling, OnlyOwed
<1>11. \/ UNCHANGED <<phase, unchecked>> /\ todo' \cup call' \subseteq todo \cup call
       \/ OutOfBudget \/ Unreachable \/ Advance \/ BulkOutOfBudget
       \/ DownloadsUnreachable \/ AsymmetryAnswer \/ SquatDownloadsAnswer \/ Finish
  BY DEF Next, Local, Respond, Answer, Terminated, Ask, AskDownloads, Return,
     UnknownAnswer, PypiAnswer, SquatAnswer, AgeAnswer, Tick, Send, vars
<1> QED BY <1>2, <1>3, <1>4, <1>5, <1>6, <1>7, <1>8, <1>9, <1>10, <1>11

LEMMA OnlyOwedInit == Init => OnlyOwed
<1> SUFFICES ASSUME Init PROVE OnlyOwed
  OBVIOUS
<1>1. CASE Running
  BY <1>1 DEF Init, OnlyOwed, Running, Asking, OwedAt, StepOf, NameOf
<1>2. CASE ~Running
  BY <1>2 DEF Init, OnlyOwed, Running, Asking
<1> QED BY <1>1, <1>2
-----------------------------------------------------------------------------
(* A run with lookups turned off: the budget is spent before it starts.    *)

Idle == DryRun => call = {} /\ sent = {} /\ replies = {}
VerdictIsList == phase = "done" => verdict.findings \subseteq Final /\ verdict.names = Listed

LEMMA IdleStep == TypeOK /\ Idle /\ [Next]_vars => Idle'
<1> SUFFICES ASSUME TypeOK, Idle, [Next]_vars, DryRun'
             PROVE  call' = {} /\ sent' = {} /\ replies' = {}
  BY DEF Idle
<1>1. in' = in /\ DryRun
  BY InputFixed DEF DryRun, Enabled
<1>2. call = {} /\ sent = {} /\ replies = {}
  BY <1>1 DEF Idle
<1>3. Expired
  BY <1>1 DEF Expired, EndsAt, TypeOK
<1>4. ~Ask /\ ~AskDownloads /\ ~Answer /\ ~Unreachable /\ ~DownloadsUnreachable
  BY <1>2, <1>3 DEF Ask, AskDownloads, Answer, UnknownAnswer, PypiAnswer, SquatAnswer,
     AgeAnswer, AsymmetryAnswer, SquatDownloadsAnswer, Unreachable, DownloadsUnreachable
<1>5. UNCHANGED <<call, sent, replies>>
  BY <1>4 DEF Next, Local, Respond, Terminated, OutOfBudget, BulkOutOfBudget, Advance,
     Finish, Tick, vars
<1> QED BY <1>2, <1>5

LEMMA VerdictListStep == VerdictIsList /\ [Next]_vars => VerdictIsList'
<1> SUFFICES ASSUME VerdictIsList, [Next]_vars, phase' = "done"
             PROVE  verdict'.findings \subseteq Final' /\ verdict'.names = Listed'
  BY DEF VerdictIsList
<1>1. in' = in
  BY InputFixed
<1>2. CASE Finish
  <2>1. UNCHANGED <<report, unchecked>>
    BY <1>2 DEF Finish
  <2>2. Final' = Final /\ Listed' = Listed
    BY <1>1, <2>1 DEF Final, Listed, Countable, Internal, DryRun, Enabled
  <2>3. verdict'.findings = Visible /\ verdict'.names = Listed
    BY <1>2 DEF Finish
  <2> QED BY <2>2, <2>3 DEF Visible
<1>3. CASE UNCHANGED <<phase, report, unchecked, verdict>>
  BY <1>1, <1>3 DEF VerdictIsList, Final, Listed, Countable, Internal, DryRun, Enabled
<1>4. Finish \/ UNCHANGED <<phase, report, unchecked, verdict>>
  BY DEF Next, Local, Respond, Answer, Terminated, OutOfBudget, BulkOutOfBudget,
     Ask, AskDownloads, Advance, Unreachable, DownloadsUnreachable,
     UnknownAnswer, PypiAnswer, SquatAnswer, AgeAnswer, AsymmetryAnswer,
     SquatDownloadsAnswer, Tick, Send, Enter, Following, Bulk, PerName, vars
<1> QED BY <1>2, <1>3, <1>4

(* Its list is every name a healthy run would have looked up: nothing was  *)
(* forgotten, nothing answered, and nothing listed that is not owed.       *)
LEMMA IdleLists ==
  TypeOK /\ NothingForgotten /\ OnlyOwed /\ Idle /\ VerdictIsList => DisabledListsEveryName
<1> SUFFICES ASSUME TypeOK, NothingForgotten, OnlyOwed, Idle, VerdictIsList,
                    DryRun, phase = "done"
             PROVE  /\ verdict.findings \subseteq in.offline
                    /\ {u.name : u \in verdict.names} =
                        (UNION {UNION {ReportedAt(s, n) : n \in OwedAt(s)} : s \in Steps}) \ in.allow
  BY DEF DisabledListsEveryName, Idle
<1>1. verdict.findings \subseteq in.offline /\ verdict.names = Listed
  BY DEF VerdictIsList, Final, DryRun
<1>2. Listed = {[u EXCEPT !.reason = "online-disabled"] : u \in Countable}
  BY DEF Listed
<1>3. \A u \in Countable : [u EXCEPT !.reason = "online-disabled"].name = u.name
  BY DEF Countable, TypeOK, Unchecked
<1>4. {u.name : u \in verdict.names} = {u.name : u \in Countable}
  <2> DEFINE Off(u) == [u EXCEPT !.reason = "online-disabled"]
  <2>1. verdict.names = {Off(u) : u \in Countable} /\ \A u \in Countable : Off(u).name = u.name
    BY <1>1, <1>2, <1>3
  <2> HIDE DEF Off
  <2> QED BY <2>1
<1> DEFINE Owed == UNION {UNION {ReportedAt(s, n) : n \in OwedAt(s)} : s \in Steps}
<1>5. \A m : m \in Owed <=> \E s \in Steps : OwesName(s, m)
  BY DEF OwesName
<1> HIDE DEF Owed
<1>6. ASSUME NEW u \in Countable PROVE u.name \in Owed \ in.allow
  <2>1. u.step \in Steps /\ OwesName(u.step, u.name) /\ u.name \notin in.allow
    BY DEF Countable, OnlyOwed, TypeOK, Unchecked
  <2> QED BY <1>5, <2>1
<1>7. ASSUME NEW m \in Owed \ in.allow PROVE \E u \in Countable : u.name = m
  <2>0. PICK s \in Steps : OwesName(s, m)
    BY <1>5
  <2>1. PICK n \in OwedAt(s) : m \in ReportedAt(s, n)
    BY <2>0 DEF OwesName
  <2>2. ~Was(s, n) /\ ~Waiting(s, n) /\ ~Ahead(s)
    <3>1. ~Was(s, n)
      BY DEF Idle, Was
    <3>2. ~Waiting(s, n)
      BY <2>1 DEF Waiting, StepOf, Steps
    <3>3. ~Ahead(s)
      BY RankFacts DEF Ahead, FirstPhase, Steps
    <3> QED BY <3>1, <3>2, <3>3
  <2>3. GivenUp(s, n)
    BY <2>1, <2>2 DEF NothingForgotten, Running
  <2>4. PICK u \in unchecked : u.name = m
    BY <2>1, <2>3 DEF GivenUp
  <2>5. ~Internal(m)
    BY <2>1, OwedNotInternal
  <2> QED BY <2>4, <2>5 DEF Countable
<1>8. {u.name : u \in Countable} = Owed \ in.allow
  BY <1>6, <1>7
<1>9. {u.name : u \in verdict.names} = Owed \ in.allow
  BY <1>4, <1>8
<1> QED BY Zenon, <1>1, <1>9 DEF Owed
-----------------------------------------------------------------------------
(* The number of skipped lookups.                                          *)

Budgeted == {u \in unchecked : u.reason = "budget"}
Counted ==
  /\ IsFiniteSet(Budgeted) /\ Cardinality(Budgeted) <= skipped
  /\ {KeyOf(f) : f \in in.offline} \subseteq {KeyOf(f) : f \in report}

(* An image is no larger than what it is the image of.                     *)
LEMMA ImageBound ==
  ASSUME NEW S, NEW T, NEW g, IsFiniteSet(S), g \in [S -> T],
         \A t \in T : \E s \in S : g[s] = t
  PROVE  IsFiniteSet(T) /\ Cardinality(T) <= Cardinality(S)
<1>1. g \in Surjection(S, T)
  BY DEF Surjection
<1> QED BY <1>1, FS_Surjection

(* The sink grows by at most one entry per name pushed.                    *)
LEMMA MissedBound ==
  ASSUME NEW S, IsFiniteSet(S), NEW why, IsFiniteSet(Budgeted), unchecked' = Missed(S, why)
  PROVE  /\ IsFiniteSet(Budgeted')
         /\ Cardinality(Budgeted') <= Cardinality(Budgeted) + Cardinality(S)
<1> DEFINE New == [n \in S |-> [name |-> n, step |-> StepOf(phase), reason |-> why]]
           T == {New[n] : n \in S}
<1>1. IsFiniteSet(T) /\ Cardinality(T) <= Cardinality(S)
  BY ImageBound
<1>2. Budgeted' \subseteq Budgeted \cup T
  BY DEF Budgeted, Missed
<1> HIDE DEF T
<1>3. /\ IsFiniteSet(Budgeted \cup T)
      /\ Cardinality(Budgeted \cup T) = Cardinality(Budgeted) + Cardinality(T)
                                         - Cardinality(Budgeted \cap T)
  BY <1>1, FS_Union
<1>4. /\ Cardinality(Budgeted) \in Nat /\ Cardinality(T) \in Nat /\ Cardinality(S) \in Nat
      /\ Cardinality(Budgeted \cap T) \in Nat
  BY <1>1, FS_CardinalityType, FS_Intersection
<1>5. IsFiniteSet(Budgeted') /\ Cardinality(Budgeted') <= Cardinality(Budgeted \cup T)
  BY <1>2, <1>3, FS_Subset
<1>6. Cardinality(Budgeted') \in Nat /\ Cardinality(Budgeted \cup T) \in Nat
  BY <1>3, <1>5, FS_CardinalityType
<1> QED BY <1>1, <1>3, <1>4, <1>5, <1>6

(* A name a loop still has to visit stands for at least as many lookups as *)
(* it is reported under.                                                   *)
LEMMA GroupCovers ==
  ASSUME Settling, OnlyOwed, Counted, NEW i \in todo, phase \in PerName
  PROVE  /\ IsFiniteSet(Reported(i)) /\ GroupSize(i) \in Nat
         /\ Cardinality(Reported(i)) <= GroupSize(i)
<1>1. GroupSize(i) \in Nat
  BY GroupSizeType DEF Settling
<1>2. CASE phase = "unknown-package"
  <2>1. i \in UnknownNames
    BY <1>2 DEF OnlyOwed, StepOf, NameOf, OwedAt
  <2>2. PICK f \in in.offline : f.rule = "unknown-package" /\ f.name = i /\ i \in Npm
    BY <2>1 DEF UnknownNames, UnknownCandidates
  <2>3. PICK g \in report : KeyOf(g) = KeyOf(f)
    BY DEF Counted
  <2>4. g \in UnknownGroup(i)
    BY <2>2, <2>3, KeyFields DEF UnknownGroup
  <2>5. IsFiniteSet(UnknownGroup(i))
    BY FiniteAssumption, FS_Subset DEF Settling, TypeOK, UnknownGroup
  <2>6. Cardinality(UnknownGroup(i)) # 0 /\ Cardinality(UnknownGroup(i)) \in Nat
    BY <2>4, <2>5, FS_EmptySet, FS_CardinalityType
  <2>7. GroupSize(i) = Cardinality(UnknownGroup(i)) /\ Reported(i) = {i}
    BY <1>2 DEF GroupSize, Reported, NameOf
  <2>8. IsFiniteSet({i}) /\ Cardinality({i}) = 1
    BY FS_Singleton
  <2> HIDE DEF Settling, OnlyOwed, Counted
  <2> DEFINE s == Cardinality(UnknownGroup(i))
             r == Cardinality({i})
  <2>9. s # 0 /\ s \in Nat /\ r = 1
    BY <2>6, <2>8
  <2>10. r <= s
    <3> HIDE DEF s, r
    <3> QED BY <2>9
  <2> QED BY <2>6, <2>7, <2>8, <2>10
<1>3. CASE phase = "publish-age"
  <2> DEFINE K == {k \in Sites \X Npm \X Versions :
                      \E l \in AgeGroup(i) : k = <<l.site, l.name, l.ver>>}
             g == [k \in K |-> k[2]]
  <2>1. IsFiniteSet(K)
    BY FiniteAssumption, FS_Subset
  <2>2. Reported(i) = {l.name : l \in AgeGroup(i)} /\ GroupSize(i) = Cardinality(K)
    BY <1>3 DEF Reported, GroupSize
  <2>3. ASSUME NEW k \in K PROVE g[k] \in Reported(i)
    <3>1. PICK l \in AgeGroup(i) : k = <<l.site, l.name, l.ver>>
      OBVIOUS
    <3>2. g[k] = l.name
      BY <3>1
    <3> QED BY <2>2, <3>2
  <2>4. ASSUME NEW m \in Reported(i) PROVE \E k \in K : g[k] = m
    <3>1. PICK l \in AgeGroup(i) : m = l.name
      BY <2>2
    <3>2. l \in AgeCandidates /\ l \in LockChange /\ l.ver # NoVersion
      BY CandidateType DEF AgeGroup, AgeCandidates, Settling
    <3>3. l.site \in Sites /\ l.name \in Npm /\ l.ver \in Versions
      BY <3>2 DEF LockChange
    <3>4. <<l.site, l.name, l.ver>> \in K
      BY <3>3
    <3>5. g[<<l.site, l.name, l.ver>>] = m
      BY <3>1, <3>4
    <3> QED BY <3>4, <3>5
  <2>5. g \in [K -> Reported(i)]
    BY <2>3
  <2> HIDE DEF K, g
  <2>6. IsFiniteSet(Reported(i)) /\ Cardinality(Reported(i)) <= Cardinality(K)
    BY <2>1, <2>4, <2>5, ImageBound
  <2> QED BY <1>1, <2>2, <2>6
<1>4. CASE phase \notin {"unknown-package", "publish-age"}
  <2>1. GroupSize(i) = 1 /\ Reported(i) = {NameOf(i)}
    BY <1>4 DEF GroupSize, Reported
  <2>2. IsFiniteSet(Reported(i)) /\ Cardinality(Reported(i)) = 1
    BY <2>1, FS_Singleton
  <2> QED BY <2>1, <2>2
<1> QED BY <1>1, <1>2, <1>3, <1>4

(* Nor has a bulk lookup more names than it has candidates.                *)
LEMMA BulkCovers ==
  ASSUME Settling, OnlyOwed, AsksTheLookAlikes, phase \in Bulk
  PROVE  LET C == IF phase = "asymmetry" THEN LowTyposquats(report) ELSE SquatCandidates IN
         /\ IsFiniteSet(todo) /\ Cardinality(C) \in Nat
         /\ Cardinality(todo) <= Cardinality(C)
<1>1. CASE phase = "asymmetry"
  <2> DEFINE A == AsymmetryCandidates(report)
             g == [f \in A |-> f.name]
  <2>1. IsFiniteSet(LowTyposquats(report)) /\ A \subseteq LowTyposquats(report)
    BY FiniteAssumption, FS_Subset DEF Settling, TypeOK, LowTyposquats, AsymmetryCandidates
  <2>2. /\ IsFiniteSet(A) /\ Cardinality(A) <= Cardinality(LowTyposquats(report))
        /\ Cardinality(A) \in Nat /\ Cardinality(LowTyposquats(report)) \in Nat
    BY <2>1, FS_Subset, FS_CardinalityType
  <2>3. AsymmetryNames(report) = {f.name : f \in A}
    BY DEF AsymmetryNames
  <2>4. g \in [A -> AsymmetryNames(report)] /\ \A n \in AsymmetryNames(report) : \E f \in A : g[f] = n
    BY <2>3
  <2>5. /\ IsFiniteSet(AsymmetryNames(report))
        /\ Cardinality(AsymmetryNames(report)) <= Cardinality(A)
    BY <2>2, <2>4, ImageBound
  <2>6. todo \subseteq AsymmetryNames(report)
    BY <1>1 DEF AsksTheLookAlikes
  <2>7. /\ IsFiniteSet(todo) /\ Cardinality(todo) <= Cardinality(AsymmetryNames(report))
        /\ Cardinality(todo) \in Nat /\ Cardinality(AsymmetryNames(report)) \in Nat
    BY <2>5, <2>6, FS_Subset, FS_CardinalityType
  <2> QED BY <1>1, <2>2, <2>5, <2>7
<1>2. CASE phase = "squat-downloads"
  <2> DEFINE g == [k \in SquatCandidates |-> k.name]
  <2>1. IsFiniteSet(SquatCandidates)
    BY CandidateType, FiniteAssumption, FS_Subset DEF Settling
  <2>2. g \in [SquatCandidates -> SquatNames] /\ \A n \in SquatNames : \E k \in SquatCandidates : g[k] = n
    BY DEF SquatNames
  <2>3. /\ IsFiniteSet(SquatNames)
        /\ Cardinality(SquatNames) <= Cardinality(SquatCandidates)
    BY <2>1, <2>2, ImageBound
  <2>4. todo \subseteq SquatNames
    BY <1>2 DEF OnlyOwed, StepOf, NameOf, OwedAt
  <2>5. /\ IsFiniteSet(todo) /\ Cardinality(todo) <= Cardinality(SquatNames)
        /\ Cardinality(todo) \in Nat /\ Cardinality(SquatNames) \in Nat
        /\ Cardinality(SquatCandidates) \in Nat
    BY <2>1, <2>3, <2>4, FS_Subset, FS_CardinalityType
  <2> QED BY <1>2, <2>3, <2>5
<1> QED BY <1>1, <1>2 DEF Bulk

LEMMA CountedStep ==
  Settling /\ OnlyOwed /\ AsksTheLookAlikes /\ Counted /\ [Next]_vars => Counted'
<1> SUFFICES ASSUME Settling, OnlyOwed, AsksTheLookAlikes, Counted, [Next]_vars
             PROVE  IsFiniteSet(Budgeted') /\ Cardinality(Budgeted') <= skipped'
  BY InputFixed, KeysStep DEF Counted, Settling
<1>1. skipped \in Nat /\ Cardinality(Budgeted) \in Nat
  BY FS_CardinalityType DEF Settling, TypeOK, Counted
<1>2. CASE OutOfBudget
  <2>1. PICK i \in todo : /\ phase \in PerName /\ skipped' = skipped + GroupSize(i)
                          /\ unchecked' = Missed(Reported(i), "budget")
    BY <1>2 DEF OutOfBudget
  <2>2. /\ IsFiniteSet(Reported(i)) /\ GroupSize(i) \in Nat
        /\ Cardinality(Reported(i)) <= GroupSize(i) /\ Cardinality(Reported(i)) \in Nat
    BY <2>1, GroupCovers, FS_CardinalityType
  <2>3. /\ IsFiniteSet(Budgeted')
        /\ Cardinality(Budgeted') <= Cardinality(Budgeted) + Cardinality(Reported(i))
    BY <2>1, <2>2, MissedBound DEF Counted
  <2>4. Cardinality(Budgeted') \in Nat
    BY <2>3, FS_CardinalityType
  <2> QED BY <1>1, <2>1, <2>2, <2>3, <2>4 DEF Counted
<1>3. CASE BulkOutOfBudget
  <2> DEFINE C == IF phase = "asymmetry" THEN LowTyposquats(report) ELSE SquatCandidates
  <2>1. /\ phase \in Bulk /\ unchecked' = Missed(todo, "budget")
        /\ skipped' = skipped + Cardinality(C)
    BY <1>3 DEF BulkOutOfBudget
  <2>2. /\ IsFiniteSet(todo) /\ Cardinality(C) \in Nat
        /\ Cardinality(todo) <= Cardinality(C) /\ Cardinality(todo) \in Nat
    BY <2>1, BulkCovers, FS_CardinalityType
  <2>3. /\ IsFiniteSet(Budgeted')
        /\ Cardinality(Budgeted') <= Cardinality(Budgeted) + Cardinality(todo)
    BY <2>1, <2>2, MissedBound DEF Counted
  <2>4. Cardinality(Budgeted') \in Nat
    BY <2>3, FS_CardinalityType
  <2> HIDE DEF C
  <2> QED BY <1>1, <2>1, <2>2, <2>3, <2>4 DEF Counted
<1>4. CASE skipped' = skipped /\ Budgeted' = Budgeted
  BY <1>4 DEF Counted
<1>5. CASE skipped' = skipped /\ \E S : unchecked' = Missed(S, "unreachable")
  <2>1. Budgeted' = Budgeted
    BY <1>5 DEF Budgeted, Missed
  <2> QED BY <1>4, <1>5, <2>1
<1>6. CASE Unreachable \/ DownloadsUnreachable
  <2>1. skipped' = skipped /\ \E S : unchecked' = Missed(S, "unreachable")
    BY <1>6 DEF Unreachable, DownloadsUnreachable
  <2> QED BY <1>5, <2>1
<1>7. CASE AsymmetryAnswer
  <2>1. PICK c \in Counts :
          unchecked' = Missed({n \in call : c[n] = "unresolved"}, "unreachable")
    BY <1>7 DEF AsymmetryAnswer
  <2>2. skipped' = skipped
    BY <1>7 DEF AsymmetryAnswer
  <2> QED BY <1>5, <2>1, <2>2
<1>8. CASE SquatDownloadsAnswer
  <2>1. PICK c \in Counts :
          unchecked' = Missed({n \in call : c[n] = "unresolved"}, "unreachable")
    BY <1>8 DEF SquatDownloadsAnswer
  <2>2. skipped' = skipped
    BY <1>8 DEF SquatDownloadsAnswer
  <2> QED BY <1>5, <2>1, <2>2
<1>9. CASE skipped' = skipped /\ unchecked' = unchecked
  BY <1>4, <1>9 DEF Budgeted
<1>10. \/ OutOfBudget \/ BulkOutOfBudget \/ (skipped' = skipped /\ unchecked' = unchecked)
       \/ Unreachable \/ DownloadsUnreachable \/ AsymmetryAnswer \/ SquatDownloadsAnswer
  <2>1. \/ Ask \/ AskDownloads \/ Advance \/ Finish \/ Tick
        \/ UnknownAnswer \/ PypiAnswer \/ SquatAnswer \/ AgeAnswer
        => skipped' = skipped /\ unchecked' = unchecked
    BY DEF Ask, AskDownloads, Advance, Finish, Tick, Send,
       UnknownAnswer, PypiAnswer, SquatAnswer, AgeAnswer
  <2> QED BY <2>1 DEF Next, Local, Respond, Answer, Terminated, vars
<1> QED BY <1>2, <1>3, <1>6, <1>7, <1>8, <1>9, <1>10

(* The report is honest about what happened, for every scan input, every   *)
(* budget and every mix of answers, failures and delays.                   *)
THEOREM TheReportIsHonest == Spec => []ReportIsHonest
<1> DEFINE Inv == /\ Settling /\ OnlyOwed /\ AsksTheLookAlikes /\ AllRest /\ Counted
                  /\ Idle /\ VerdictIsList
<1>1. Init => Inv
  <2>1. Init => Counted /\ Idle /\ VerdictIsList
    <3> SUFFICES ASSUME Init PROVE Counted /\ Idle /\ VerdictIsList
      OBVIOUS
    <3>1. Budgeted = {} /\ phase # "done" /\ report = in.offline /\ skipped = 0
      BY DEF Init, Budgeted
    <3> QED BY <3>1, FS_EmptySet DEF Init, Counted, Idle, VerdictIsList
  <2> QED BY <2>1, InitSettling, OnlyOwedInit, RestInit
<1>2. Inv /\ [Next]_vars => Inv'
  BY SettlingInductive, OnlyOwedStep, AsksStep, RestStep, CountedStep, IdleStep,
     VerdictListStep DEF Settling
<1>3. Inv => ReportIsHonest
  <2> SUFFICES ASSUME Inv PROVE ReportIsHonest
    OBVIOUS
  <2>1. FindingsRestOnAnswers
    BY RestsIsFindings DEF AllRest
  <2>2. SkippedNotUnderstated
    BY DEF Counted, Budgeted, SkippedNotUnderstated
  <2>3. DisabledListsEveryName
    BY IdleLists DEF Settling
  <2> QED BY <2>1, <2>2, <2>3 DEF ReportIsHonest
<1> QED BY <1>1, <1>2, <1>3, PTL DEF Spec
-----------------------------------------------------------------------------
(* The run implements OnlineVerdict.  A question is not answered before    *)
(* its step has been through with it, so that what a step gives up was     *)
(* open until then: no answer is on record for a name a loop has still to  *)
(* visit, but in registered-squat, which asks about its names twice.       *)

Since(s) == IF s = "asymmetry" THEN PhaseRank["squat-downloads"] ELSE PhaseRank[s]

Unheard ==
  /\ \A r \in replies : Since(r.step) <= PhaseRank[phase]
  /\ todo \cap call = {}
  /\ phase # "registered-squat" => \A i \in todo \cup call : ~Was(StepOf(phase), i)

LEMMA SinceFacts ==
  /\ Since("unknown-package") = 1 /\ Since("pypi-existence") = 2
  /\ Since("asymmetry") = 4 /\ Since("registered-squat") = 5 /\ Since("publish-age") = 6
BY RankFacts DEF Since

(* A step that keeps the phase and what was answered.                      *)
LEMMA UnheardLoop ==
  ASSUME Unheard, phase' = phase, replies' = replies,
         todo' \cup call' \subseteq todo \cup call, todo' \cap call' = {}
  PROVE  Unheard'
<1>1. \A s, n : Was(s, n)' <=> Was(s, n)
  BY DEF Was
<1>2. StepOf(phase)' = StepOf(phase) /\ PhaseRank[phase]' = PhaseRank[phase]
  BY DEF StepOf
<1>3. \A s : Since(s)' = Since(s)
  BY DEF Since, PhaseRank, Phases
<1> QED BY <1>1, <1>2, <1>3 DEF Unheard

(* A per-name answer is about the one name being called.                   *)
LEMMA UnheardAnswer ==
  ASSUME TypeOK, Unheard, OneAtATime, NEW i \in call, NEW said, phase \in PerName,
         phase' = phase, todo' = todo, call' = {}, replies' = Heard({NameOf(i)}, said)
  PROVE  Unheard'
<1>1. StepOf(phase)' = StepOf(phase) /\ StepOf(phase) = phase /\ phase \in Steps
  BY DEF StepOf, PerName, Steps
<1>2. \A r \in replies' : r \in replies \/ (r.step = phase /\ r.name = NameOf(i))
  BY <1>1 DEF Heard
<1>3. Since(phase) = PhaseRank[phase] /\ PhaseRank[phase] \in Nat
  BY SinceFacts, RankFacts DEF PerName
<1>4. \A r \in replies' : Since(r.step) <= PhaseRank[phase]
  BY <1>2, <1>3 DEF Unheard
<1>5. ASSUME phase # "registered-squat", NEW j \in todo PROVE ~Was(phase, j)'
  <2>1. ~Was(phase, j) /\ j # i /\ NameOf(i) = i
    BY <1>1, <1>5 DEF Unheard, NameOf
  <2> QED BY <1>2, <2>1 DEF Was
<1>6. \A s : Since(s)' = Since(s)
  BY DEF Since, PhaseRank, Phases
<1> QED BY <1>1, <1>4, <1>5, <1>6 DEF Unheard

(* A phase that starts has heard nothing of its step yet.                  *)
LEMMA UnheardEnter ==
  ASSUME TypeOK, Unheard, NEW p \in DOMAIN Following, phase = p,
         Enter(Following[p]), call' = {},
         \A r \in replies' : r \in replies \/ (p = "asymmetry" /\ r.step = "asymmetry")
  PROVE  Unheard'
<1> DEFINE q == Following[p]
<1>1. phase' = q /\ todo' = TodoOf(q)
  BY DEF Enter
<1>2. /\ p = "unknown-package"  => q = "pypi-existence"
      /\ p = "pypi-existence"   => q = "asymmetry"
      /\ p = "asymmetry"        => q = "squat-downloads"
      /\ p = "squat-downloads"  => q = "registered-squat"
      /\ p = "registered-squat" => q = "publish-age"
      /\ p = "publish-age"      => q = "settle"
      /\ p \in Steps \cup {"squat-downloads"}
  BY DEF Following, Steps
<1> HIDE DEF q
<1>3. \A r \in replies : Since(r.step) \in Nat
  BY SinceFacts DEF TypeOK, Steps
<1>4. \A r \in replies' : Since(r.step) <= PhaseRank[q]
  BY <1>2, <1>3, SinceFacts, RankFacts DEF Unheard, Steps
<1>5. ASSUME NEW i \in TodoOf(q), q # "registered-squat" PROVE ~\E r \in replies' : r.step = StepOf(q)
  <2>1. q \in {"pypi-existence", "asymmetry", "squat-downloads", "publish-age"}
    BY <1>5 DEF TodoOf
  <2>2. \A r \in replies : Since(r.step) <= PhaseRank[p]
    BY DEF Unheard
  <2> QED BY <1>2, <1>3, <2>1, <2>2, SinceFacts, RankFacts DEF StepOf, Steps
<1>6. \A s : Since(s)' = Since(s)
  BY DEF Since, PhaseRank, Phases
<1>7. StepOf(phase)' = StepOf(q) /\ PhaseRank[phase]' = PhaseRank[q]
  BY <1>1 DEF StepOf
<1>8. phase' # "registered-squat" => \A i \in todo' \cup call' : ~Was(StepOf(phase), i)'
  BY <1>1, <1>5, <1>7 DEF Was
<1> QED BY <1>4, <1>6, <1>7, <1>8 DEF Unheard

LEMMA UnheardStep == Settling /\ OnlyOwed /\ Unheard /\ [Next]_vars => Unheard'
<1> SUFFICES ASSUME TypeOK, OnlyOwed, OneAtATime, Unheard, [Next]_vars PROVE Unheard'
  BY DEF Settling
<1>1. CASE Ask
  <2>1. PICK i \in todo : todo' = todo \ {i} /\ call' = {i} /\ UNCHANGED <<phase, replies>>
    BY <1>1 DEF Ask, Send
  <2> QED BY <2>1, UnheardLoop
<1>2. CASE AskDownloads
  BY <1>2, UnheardLoop DEF AskDownloads, Send
<1>3. CASE UNCHANGED <<phase, replies>> /\ todo' \subseteq todo /\ call' \subseteq call
  <2>1. todo' \cap call' = {}
    BY <1>3 DEF Unheard
  <2> QED BY <1>3, <2>1, UnheardLoop
<1>4. CASE UnknownAnswer
  <2>1. PICK n \in call, said \in {"registry-present", "not-present", "registry-absent"} :
          /\ phase = "unknown-package" /\ phase' = phase /\ todo' = todo /\ call' = {}
          /\ replies' = Heard({n}, said)
    BY <1>4 DEF UnknownAnswer, Return
  <2>2. NameOf(n) = n /\ phase \in PerName
    BY <2>1 DEF NameOf, PerName
  <2> QED BY <2>1, <2>2, UnheardAnswer
<1>5. CASE PypiAnswer
  <2>1. PICK n \in call, said \in {"registry-present", "registry-absent"} :
          /\ phase = "pypi-existence" /\ phase' = phase /\ todo' = todo /\ call' = {}
          /\ replies' = Heard({n}, said)
    BY <1>5 DEF PypiAnswer, Return
  <2>2. NameOf(n) = n /\ phase \in PerName
    BY <2>1 DEF NameOf, PerName
  <2> QED BY <2>1, <2>2, UnheardAnswer
<1>6. CASE SquatAnswer
  <2>1. PICK c \in call, said \in {"young", "old"} :
          /\ phase = "registered-squat" /\ phase' = phase /\ todo' = todo /\ call' = {}
          /\ replies' = Heard({c.name}, said)
    BY <1>6 DEF SquatAnswer, Return
  <2>2. NameOf(c) = c.name /\ phase \in PerName
    BY <2>1 DEF NameOf, PerName
  <2> QED BY <2>1, <2>2, UnheardAnswer
<1>7. CASE AgeAnswer
  <2>1. PICK n \in call :
          /\ phase = "publish-age" /\ phase' = phase /\ todo' = todo /\ call' = {}
          /\ replies' = Heard({n}, "dated")
    BY <1>7 DEF AgeAnswer, Return
  <2>2. NameOf(n) = n /\ phase \in PerName
    BY <2>1 DEF NameOf, PerName
  <2> QED BY <2>1, <2>2, UnheardAnswer
<1>8. CASE Advance
  BY <1>8, UnheardEnter DEF Advance
<1>9. CASE BulkOutOfBudget
  BY <1>9, UnheardEnter DEF BulkOutOfBudget, Bulk, Following
<1>10. CASE DownloadsUnreachable
  BY <1>10, UnheardEnter DEF DownloadsUnreachable, Return, Bulk, Following
<1>11. CASE AsymmetryAnswer
  <2>1. PICK c \in Counts :
         /\ phase = "asymmetry" /\ call' = {} /\ Enter("squat-downloads")
         /\ replies' = HeardCounts(c, {n \in call : c[n] # "unresolved"})
    BY <1>11 DEF AsymmetryAnswer, Return
  <2>2. "asymmetry" \in DOMAIN Following /\ Following["asymmetry"] = "squat-downloads"
    BY DEF Following
  <2>3. \A r \in replies' : r \in replies \/ r.step = "asymmetry"
    BY <2>1 DEF HeardCounts, StepOf
  <2> QED BY <2>1, <2>2, <2>3, UnheardEnter
<1>12. CASE SquatDownloadsAnswer
  <2>1. PICK c \in Counts :
         /\ phase = "squat-downloads" /\ call' = {} /\ phase' = "registered-squat"
         /\ replies' = HeardCounts(c, {n \in call : c[n] \in {"small", "big"}})
    BY <1>12 DEF SquatDownloadsAnswer, Return
  <2>2. \A r \in replies' : r \in replies \/ r.step = "registered-squat"
    BY <2>1 DEF HeardCounts, StepOf
  <2>3. \A r \in replies : Since(r.step) \in Nat
    BY SinceFacts DEF TypeOK, Steps
  <2>4. \A r \in replies' : Since(r.step) <= 5
    BY <2>1, <2>2, <2>3, SinceFacts, RankFacts DEF Unheard
  <2>5. \A s : Since(s)' = Since(s)
    BY DEF Since, PhaseRank, Phases
  <2>6. PhaseRank[phase]' = 5
    BY <2>1, RankFacts
  <2> QED BY <2>1, <2>4, <2>5, <2>6 DEF Unheard
<1>13. CASE Finish
  <2>1. phase = "settle" /\ phase' = "done" /\ UNCHANGED <<todo, call, replies>>
    BY <1>13 DEF Finish
  <2>2. todo \cup call = {}
    BY <2>1 DEF OnlyOwed, Asking
  <2>3. \A r \in replies : Since(r.step) \in Nat /\ Since(r.step) <= 7
    BY <2>1, SinceFacts, RankFacts DEF TypeOK, Steps, Unheard
  <2>4. \A s : Since(s)' = Since(s)
    BY DEF Since, PhaseRank, Phases
  <2>5. PhaseRank[phase]' = 8
    BY <2>1, RankFacts
  <2> QED BY <2>1, <2>2, <2>3, <2>4, <2>5 DEF Unheard
<1>14. \/ UNCHANGED <<phase, replies>> /\ todo' \subseteq todo /\ call' \subseteq call
       \/ Ask \/ AskDownloads \/ UnknownAnswer \/ PypiAnswer \/ SquatAnswer
       \/ AgeAnswer \/ Advance \/ BulkOutOfBudget \/ DownloadsUnreachable
       \/ AsymmetryAnswer \/ SquatDownloadsAnswer \/ Finish
  BY DEF Next, Local, Respond, Answer, Terminated, OutOfBudget, Unreachable,
     Return, Tick, vars
<1> QED BY <1>1, <1>2, <1>3, <1>4, <1>5, <1>6, <1>7, <1>8, <1>9, <1>10, <1>11,
           <1>12, <1>13, <1>14

(* What a question is, and that the scan's input alone decides it.         *)
LEMMA QuestionMeans ==
  \A q : q \in QuestionsOf <=>
    Running /\ \E s \in Steps : \E m : OwesName(s, m) /\ q = <<s, m>>
BY DEF QuestionsOf, QuestionsAt, OwesName

LEMMA QuestionsFixed ==
  ASSUME in' = in PROVE QuestionsOf' = QuestionsOf /\ CountedQs' = CountedQs
<1>1. Running' = Running /\ \A s \in Steps : QuestionsAt(s)' = QuestionsAt(s)
  BY OwedFixed DEF QuestionsAt, Steps
<1>2. QuestionsOf' = QuestionsOf
  BY <1>1 DEF QuestionsOf
<1> QED BY <1>2 DEF CountedQs

LEMMA QuestionsType == TypeOK => QuestionsOf \subseteq Steps \X Names
<1> SUFFICES ASSUME TypeOK, NEW q \in QuestionsOf PROVE q \in Steps \X Names
  OBVIOUS
<1>0. PICK s \in Steps : \E m : OwesName(s, m) /\ q = <<s, m>>
  BY QuestionMeans
<1>1. PICK m : OwesName(s, m) /\ q = <<s, m>>
  BY <1>0
<1>2. PICK n \in OwedAt(s) : m \in ReportedAt(s, n)
  BY <1>1 DEF OwesName
<1>3. m \in Names
  <2>1. CASE s = "publish-age"
    BY <1>2, <2>1, CandidateType DEF ReportedAt, AgeGroup, LockChange, Names
  <2>2. CASE s # "publish-age"
    <3>1. m = n
      BY <1>2, <2>2 DEF ReportedAt
    <3>2. AsymmetryNames(in.offline) \subseteq Npm
      BY DEF AsymmetryNames, AsymmetryCandidates, LowTyposquats
    <3> QED BY <2>2, <3>1, <3>2, CandidateType DEF OwedAt, Steps, Names
  <2> QED BY <2>1, <2>2
<1> QED BY <1>1, <1>3

(* Nothing leaves the sink, and what enters it was asked by this step.     *)
LEMMA SinkStep ==
  ASSUME TypeOK, OnlyOwed, [Next]_vars
  PROVE  /\ unchecked \subseteq unchecked'
         /\ \A u \in unchecked' \ unchecked :
              /\ u.step = StepOf(phase) /\ u.step \in Steps
              /\ \E i \in todo \cup call : /\ NameOf(i) \in OwedAt(u.step)
                                           /\ u.name \in ReportedAt(u.step, NameOf(i))
<1> DEFINE AskedFor(m) == \E i \in todo \cup call :
             /\ NameOf(i) \in OwedAt(StepOf(phase))
             /\ m \in ReportedAt(StepOf(phase), NameOf(i))
<1>1. ASSUME NEW S, NEW why, unchecked' = Missed(S, why), Asking,
             \A m \in S : AskedFor(m)
      PROVE  /\ unchecked \subseteq unchecked'
             /\ \A u \in unchecked' \ unchecked :
                  u.step = StepOf(phase) /\ u.step \in Steps /\ AskedFor(u.name)
  <2>1. StepOf(phase) \in Steps
    BY <1>1 DEF TypeOK, Asking, StepOf, Phases, Steps
  <2>2. unchecked \subseteq unchecked'
    BY <1>1 DEF Missed
  <2>3. \A u \in unchecked' \ unchecked : u.step = StepOf(phase) /\ u.name \in S
    BY <1>1 DEF Missed
  <2> HIDE DEF AskedFor
  <2> QED BY <1>1, <2>1, <2>2, <2>3
<1>2. ASSUME phase \in PerName, NEW i \in todo \cup call, NEW m \in Reported(i)
      PROVE  AskedFor(m) /\ Asking
  <2>1. StepOf(phase) = phase /\ Asking
    BY <1>2 DEF StepOf, PerName, Asking
  <2>2. ReportedAt(phase, NameOf(i)) = Reported(i)
    BY <1>2 DEF ReportedAt, Reported, NameOf
  <2>3. NameOf(i) \in OwedAt(phase)
    BY <2>1 DEF OnlyOwed
  <2> QED BY <2>1, <2>2, <2>3
<1>3. ASSUME phase \in Bulk, NEW i \in todo \cup call
      PROVE  AskedFor(i) /\ Asking
  <2>1. StepOf(phase) # "publish-age" /\ NameOf(i) = i /\ Asking
    BY <1>3 DEF StepOf, Bulk, NameOf, Asking
  <2>2. i \in OwedAt(StepOf(phase))
    BY <2>1 DEF OnlyOwed
  <2> QED BY <2>1, <2>2 DEF ReportedAt
<1>4. CASE OutOfBudget
  <2>1. PICK i \in todo : phase \in PerName /\ unchecked' = Missed(Reported(i), "budget")
    BY <1>4 DEF OutOfBudget
  <2>2. Asking
    BY <2>1 DEF Asking, PerName
  <2> HIDE DEF AskedFor
  <2>3. \A m \in Reported(i) : AskedFor(m)
    BY <1>2, <2>1
  <2>4. /\ unchecked \subseteq unchecked'
        /\ \A u \in unchecked' \ unchecked :
             u.step = StepOf(phase) /\ u.step \in Steps /\ AskedFor(u.name)
    BY <1>1, <2>1, <2>2, <2>3
  <2> QED BY <2>4 DEF AskedFor
<1>5. CASE Unreachable
  <2>1. PICK i \in call : phase \in PerName /\ unchecked' = Missed(Reported(i), "unreachable")
    BY <1>5 DEF Unreachable
  <2>2. Asking
    BY <2>1 DEF Asking, PerName
  <2> HIDE DEF AskedFor
  <2>3. \A m \in Reported(i) : AskedFor(m)
    BY <1>2, <2>1
  <2>4. /\ unchecked \subseteq unchecked'
        /\ \A u \in unchecked' \ unchecked :
             u.step = StepOf(phase) /\ u.step \in Steps /\ AskedFor(u.name)
    BY <1>1, <2>1, <2>2, <2>3
  <2> QED BY <2>4 DEF AskedFor
<1>6. CASE BulkOutOfBudget \/ DownloadsUnreachable \/ AsymmetryAnswer \/ SquatDownloadsAnswer
  <2>1. phase \in Bulk /\ Asking /\ \E S \in SUBSET (todo \cup call) :
          \E why \in {"budget", "unreachable"} : unchecked' = Missed(S, why)
    <3>1. CASE BulkOutOfBudget \/ DownloadsUnreachable
      BY <3>1 DEF BulkOutOfBudget, DownloadsUnreachable, Asking, Bulk
    <3>2. CASE AsymmetryAnswer
      <4>1. PICK c \in Counts : phase = "asymmetry" /\
              unchecked' = Missed({n \in call : c[n] = "unresolved"}, "unreachable")
        BY <3>2 DEF AsymmetryAnswer
      <4>2. {n \in call : c[n] = "unresolved"} \in SUBSET (todo \cup call)
        OBVIOUS
      <4> QED BY <4>1, <4>2 DEF Asking, Bulk
    <3>3. CASE SquatDownloadsAnswer
      <4>1. PICK c \in Counts : phase = "squat-downloads" /\
              unchecked' = Missed({n \in call : c[n] = "unresolved"}, "unreachable")
        BY <3>3 DEF SquatDownloadsAnswer
      <4>2. {n \in call : c[n] = "unresolved"} \in SUBSET (todo \cup call)
        OBVIOUS
      <4> QED BY <4>1, <4>2 DEF Asking, Bulk
    <3> QED BY <1>6, <3>1, <3>2, <3>3
  <2>2. PICK S \in SUBSET (todo \cup call) :
          \E why \in {"budget", "unreachable"} : unchecked' = Missed(S, why)
    BY <2>1
  <2>3. PICK why \in {"budget", "unreachable"} : unchecked' = Missed(S, why)
    BY <2>2
  <2> HIDE DEF AskedFor
  <2>4. \A m \in S : AskedFor(m)
    BY <1>3, <2>1
  <2>5. /\ unchecked \subseteq unchecked'
        /\ \A u \in unchecked' \ unchecked :
             u.step = StepOf(phase) /\ u.step \in Steps /\ AskedFor(u.name)
    BY <1>1, <2>1, <2>3, <2>4
  <2> QED BY <2>5 DEF AskedFor
<1>7. CASE UNCHANGED unchecked
  BY <1>7
<1>8. \/ UNCHANGED unchecked \/ OutOfBudget \/ Unreachable \/ BulkOutOfBudget
      \/ DownloadsUnreachable \/ AsymmetryAnswer \/ SquatDownloadsAnswer
  BY DEF Next, Local, Respond, Answer, Terminated, Ask, AskDownloads, Advance, Finish,
     UnknownAnswer, PypiAnswer, SquatAnswer, AgeAnswer, Tick, Send, vars
<1> QED BY <1>4, <1>5, <1>6, <1>7, <1>8

(* A name a step gives up had a lookup outstanding.                        *)
LEMMA AskedIsOutstanding ==
  ASSUME TypeOK, Unheard, NEW i \in todo \cup call
  PROVE  Outstanding(StepOf(phase), NameOf(i))
<1>1. CASE phase = "registered-squat"
  BY <1>1 DEF Outstanding, StepOf, NameOf
<1>2. CASE phase # "registered-squat"
  BY <1>2 DEF Outstanding, Unheard, NameOf
<1> QED BY <1>1, <1>2

(* A settled lookup is not taken up again.                                 *)
LEMMA SettledLookupStays ==
  ASSUME TypeOK, Unheard, [Next]_vars, NEW s \in Steps, NEW n, ~Outstanding(s, n)
  PROVE  ~Outstanding(s, n)'
<1>1. Was(s, n)'
  BY RepliesStay DEF Outstanding, Was
<1>2. CASE s = "registered-squat" /\ phase' = s
  <2>1. PICK r \in replies : r.step = s /\ r.name = n
    BY DEF Outstanding, Was
  <2>2. phase \notin {"unknown-package", "pypi-existence", "asymmetry", "squat-downloads"}
    BY <1>2, <2>1, SinceFacts, RankFacts DEF Unheard
  <2>3. phase = s /\ todo' \cup call' \subseteq todo \cup call
    BY <1>2, <2>2 DEF Next, Local, Respond, Answer, Terminated, OutOfBudget,
       BulkOutOfBudget, Ask, AskDownloads, Advance, Finish, Unreachable,
       DownloadsUnreachable, UnknownAnswer, PypiAnswer, SquatAnswer, AgeAnswer,
       AsymmetryAnswer, SquatDownloadsAnswer, Tick, Send, Return, Enter, Following,
       Bulk, PerName, vars
  <2> QED BY <1>1, <1>2, <2>3 DEF Outstanding
<1>3. CASE ~(s = "registered-squat" /\ phase' = s)
  BY <1>1, <1>3 DEF Outstanding
<1> QED BY <1>2, <1>3

LEMMA AnsweredStays ==
  ASSUME TypeOK, OnlyOwed, Unheard, [Next]_vars
  PROVE  AnsweredQs \subseteq AnsweredQs'
<1> SUFFICES ASSUME NEW q \in AnsweredQs PROVE q \in AnsweredQs'
  OBVIOUS
<1>0. in' = in
  BY InputFixed
<1>1. q \in QuestionsOf /\ q \notin MissedQs
  BY DEF AnsweredQs
<1>2. \A n \in OwedAt(q[1]) : q[2] \in ReportedAt(q[1], n) => ~Outstanding(q[1], n)
  BY DEF AnsweredQs
<1>3. PICK s \in Steps : \E m : OwesName(s, m) /\ q = <<s, m>>
  BY <1>1, QuestionMeans
<1>4. PICK m : OwesName(s, m) /\ q = <<s, m>>
  BY <1>3
<1>5. OwedAt(s)' = OwedAt(s) /\ \A n : ReportedAt(s, n)' = ReportedAt(s, n)
  BY <1>0, OwedFixed
<1>6. \A n \in OwedAt(s)' : m \in ReportedAt(s, n)' => ~Outstanding(s, n)'
  BY <1>2, <1>4, <1>5, SettledLookupStays
<1>7. q \notin MissedQs'
  <2> SUFFICES ASSUME NEW u \in unchecked', u.step = s, u.name = m PROVE FALSE
    BY <1>4 DEF MissedQs
  <2>1. u \notin unchecked
    BY <1>1, <1>4 DEF MissedQs
  <2>2. PICK i \in todo \cup call : /\ s = StepOf(phase) /\ NameOf(i) \in OwedAt(s)
                                    /\ m \in ReportedAt(s, NameOf(i))
    BY <2>1, SinkStep
  <2> QED BY <1>2, <1>4, <2>2, AskedIsOutstanding
<1>8. q \in QuestionsOf'
  BY <1>0, <1>1, QuestionsFixed
<1> QED BY <1>4, <1>6, <1>7, <1>8 DEF AnsweredQs

LEMMA MissedAreQuestions ==
  ASSUME TypeOK, OnlyOwed PROVE MissedQs \subseteq QuestionsOf
<1> SUFFICES ASSUME NEW u \in unchecked PROVE <<u.step, u.name>> \in QuestionsOf
  BY DEF MissedQs
<1>1. Running /\ u.step \in Steps /\ OwesName(u.step, u.name)
  BY DEF OnlyOwed, TypeOK, Unchecked
<1> QED BY <1>1, QuestionMeans

(* A step of the online phase settles the questions it answers and those   *)
(* it gives up; the rest stay open.                                        *)
LEMMA StepSettles ==
  ASSUME TypeOK, OnlyOwed, Unheard, [Next]_vars,
         phase # "done", phase' # "done"
  PROVE  [Promise!Next]_(Promise!vars)
<1> DEFINE A == AnsweredQs' \ AnsweredQs
           M == MissedQs' \ MissedQs
           open == QuestionsOf \ (MissedQs \cup AnsweredQs)
<1>1. in' = in /\ QuestionsOf' = QuestionsOf /\ CountedQs' = CountedQs
  BY InputFixed, QuestionsFixed
<1>2. MissedQs \subseteq MissedQs'
  BY SinkStep DEF MissedQs
<1>3. AnsweredQs \subseteq AnsweredQs'
  BY AnsweredStays
<1>4. MissedQs' \subseteq QuestionsOf
  <2> SUFFICES ASSUME NEW u \in unchecked' PROVE <<u.step, u.name>> \in QuestionsOf
    BY DEF MissedQs
  <2>1. CASE u \in unchecked
    BY <2>1, MissedAreQuestions DEF MissedQs
  <2>2. CASE u \notin unchecked
    <3>1. PICK i \in todo \cup call : /\ u.step \in Steps /\ NameOf(i) \in OwedAt(u.step)
                                      /\ u.name \in ReportedAt(u.step, NameOf(i))
      BY <2>2, SinkStep
    <3>2. Running
      BY <3>1 DEF OnlyOwed
    <3> QED BY <3>1, <3>2, QuestionMeans DEF OwesName
  <2> QED BY <2>1, <2>2
<1>5. AnsweredQs \subseteq QuestionsOf \ MissedQs /\ AnsweredQs' \subseteq QuestionsOf' \ MissedQs'
  BY DEF AnsweredQs
<1>6. A \subseteq open /\ M \subseteq open /\ A \cap M = {}
  BY <1>1, <1>2, <1>3, <1>4, <1>5
<1>7. /\ AnsweredQs' = AnsweredQs \cup A /\ MissedQs' = MissedQs \cup M
      /\ open' = open \ (A \cup M)
  <2>1. AnsweredQs' = AnsweredQs \cup A /\ MissedQs' = MissedQs \cup M
    BY <1>2, <1>3
  <2>2. open' = QuestionsOf \ (MissedQs' \cup AnsweredQs')
    BY <1>1
  <2> HIDE DEF A, M
  <2> QED BY <2>1, <2>2
<1> HIDE DEF A, M
<1>8. CASE A \cup M # {}
  <2>1. Promise!Settle
    BY <1>1, <1>6, <1>7, <1>8 DEF Promise!Settle
  <2> QED BY <2>1 DEF Promise!Next
<1>9. CASE A \cup M = {}
  BY <1>1, <1>7, <1>9 DEF Promise!vars
<1> QED BY <1>8, <1>9

(* When the loops are through, a question not answered is in the list.     *)
LEMMA FinishedIsThrough ==
  ASSUME TypeOK, NothingForgotten, phase = "settle"
  PROVE  QuestionsOf \ (MissedQs \cup AnsweredQs) = {}
<1> SUFFICES ASSUME NEW q \in QuestionsOf, q \notin MissedQs PROVE q \in AnsweredQs
  OBVIOUS
<1>1. PICK s \in Steps : \E m : OwesName(s, m) /\ q = <<s, m>>
  BY QuestionMeans
<1>2. PICK m : OwesName(s, m) /\ q = <<s, m>>
  BY <1>1
<1>3. ASSUME NEW n \in OwedAt(s), m \in ReportedAt(s, n) PROVE ~Outstanding(s, n)
  <2>1. ~GivenUp(s, n)
    BY <1>2, <1>3 DEF GivenUp, MissedQs
  <2>2. ~Ahead(s) /\ ~Waiting(s, n)
    BY RankFacts DEF Ahead, FirstPhase, Waiting, StepOf, Steps
  <2>3. Was(s, n)
    BY <2>1, <2>2, QuestionMeans DEF NothingForgotten
  <2> QED BY <2>3 DEF Outstanding
<1> QED BY <1>2, <1>3 DEF AnsweredQs

(* The verdict is the promised one: the run could not run exactly when a   *)
(* question that counts was given up.                                      *)
LEMMA FinishJudges ==
  ASSUME TypeOK, NothingForgotten, OnlyOwed, Finish PROVE Promise!Judge
<1>1. /\ phase = "settle" /\ phase' = "done"
      /\ UNCHANGED <<in, todo, call, unchecked, replies>>
      /\ verdict'.exit = 2 <=> Fails
  BY DEF Finish
<1>2. QuestionsOf \ (MissedQs \cup AnsweredQs) = {}
  BY <1>1, FinishedIsThrough
<1>3. QuestionsOf' = QuestionsOf /\ CountedQs' = CountedQs /\ MissedQs' = MissedQs
  BY <1>1, QuestionsFixed DEF MissedQs
<1>4. AnsweredQs' = AnsweredQs
  <2>1. \A s, n : Outstanding(s, n)' <=> Outstanding(s, n)
    BY <1>1 DEF Outstanding, Was
  <2>2. ASSUME NEW q \in QuestionsOf
        PROVE  /\ OwedAt(q[1])' = OwedAt(q[1])
               /\ \A n : ReportedAt(q[1], n)' = ReportedAt(q[1], n)
    <3>1. q[1] \in Steps
      BY QuestionMeans
    <3> QED BY <1>1, <3>1, OwedFixed
  <2> QED BY <1>3, <2>1, <2>2 DEF AnsweredQs
<1>5. Fails <=> MissedQs \cap CountedQs # {}
  <2>1. CASE ~(in.pr /\ ~in.note)
    BY <2>1 DEF Fails, CountedQs
  <2>2. CASE in.pr /\ ~in.note
    <3>1. Fails <=> Countable # {}
      BY <2>2 DEF Fails, Listed
    <3>2. ASSUME NEW u \in Countable PROVE MissedQs \cap CountedQs # {}
      <4>1. <<u.step, u.name>> \in MissedQs /\ u.name \notin in.allow
        BY DEF Countable, MissedQs
      <4>2. <<u.step, u.name>> \in CountedQs
        BY <2>2, <4>1, MissedAreQuestions DEF CountedQs
      <4> QED BY <4>1, <4>2
    <3>3. ASSUME NEW q \in MissedQs \cap CountedQs PROVE Countable # {}
      <4>1. PICK u \in unchecked : q = <<u.step, u.name>>
        BY DEF MissedQs
      <4>2. u.name \notin in.allow
        BY <4>1, <2>2 DEF CountedQs
      <4>3. u.step \in Steps /\ OwesName(u.step, u.name)
        BY DEF OnlyOwed, TypeOK, Unchecked
      <4>4. ~Internal(u.name)
        BY <4>3, OwedNotInternal DEF OwesName
      <4> QED BY <4>2, <4>4 DEF Countable
    <3> QED BY <3>1, <3>2, <3>3
  <2> QED BY <2>1, <2>2
<1> QED BY <1>1, <1>2, <1>3, <1>4, <1>5 DEF Promise!Judge

LEMMA StillDone ==
  ASSUME TypeOK, OnlyOwed, phase = "done", [Next]_vars
  PROVE  UNCHANGED <<in, phase, todo, call, unchecked, replies, verdict>>
<1>1. todo = {} /\ call = {}
  BY DEF OnlyOwed, Asking
<1> QED BY <1>1 DEF Next, Local, Respond, Answer, Terminated, OutOfBudget,
       BulkOutOfBudget, Ask, AskDownloads, Advance, Finish, Unreachable,
       DownloadsUnreachable, UnknownAnswer, PypiAnswer, SquatAnswer, AgeAnswer,
       AsymmetryAnswer, SquatDownloadsAnswer, Tick, Bulk, Following, vars

LEMMA DoneStutters ==
  ASSUME UNCHANGED <<in, phase, todo, call, unchecked, replies, verdict>>
  PROVE  UNCHANGED Promise!vars
<1>1. QuestionsOf' = QuestionsOf /\ CountedQs' = CountedQs /\ MissedQs' = MissedQs
  BY QuestionsFixed DEF MissedQs
<1>2. \A s, n : Outstanding(s, n)' <=> Outstanding(s, n)
  BY DEF Outstanding, Was
<1>3. ASSUME NEW q \in QuestionsOf
      PROVE  /\ OwedAt(q[1])' = OwedAt(q[1])
             /\ \A n : ReportedAt(q[1], n)' = ReportedAt(q[1], n)
  <2>1. q[1] \in Steps
    BY QuestionMeans
  <2> QED BY <2>1, OwedFixed
<1>4. AnsweredQs' = AnsweredQs
  BY <1>1, <1>2, <1>3 DEF AnsweredQs
<1> QED BY <1>1, <1>4 DEF Promise!vars

LEMMA PromiseStep ==
  ASSUME Settling, OnlyOwed, Unheard, [Next]_vars
  PROVE  [Promise!Next]_(Promise!vars)
<1>1. TypeOK /\ NothingForgotten
  BY DEF Settling
<1>2. CASE phase = "done"
  BY <1>1, <1>2, StillDone, DoneStutters
<1>3. CASE Finish
  BY <1>1, <1>3, FinishJudges DEF Promise!Next
<1>4. CASE phase # "done" /\ ~Finish
  <2>1. phase' # "done"
    BY <1>4 DEF Next, Local, Respond, Answer, Terminated, OutOfBudget,
       BulkOutOfBudget, Ask, AskDownloads, Advance, Unreachable,
       DownloadsUnreachable, UnknownAnswer, PypiAnswer, SquatAnswer, AgeAnswer,
       AsymmetryAnswer, SquatDownloadsAnswer, Tick, Send, Enter, Following,
       Bulk, PerName, vars
  <2> QED BY <1>1, <1>4, <2>1, StepSettles
<1> QED BY <1>2, <1>3, <1>4

LEMMA PromiseInit == Init => Promise!Init /\ Unheard
<1> SUFFICES ASSUME Init PROVE Promise!Init /\ Unheard
  OBVIOUS
<1>1. TypeOK
  BY InitType
<1>2. QuestionsOf \subseteq Steps \X Names /\ CountedQs \subseteq Steps \X Names
  BY <1>1, QuestionsType DEF CountedQs
<1>3. MissedQs = {} /\ phase # "done" /\ replies = {} /\ call = {}
  BY DEF Init, MissedQs
<1>4. AnsweredQs = {}
  <2> SUFFICES ASSUME NEW q \in QuestionsOf
               PROVE  \E n \in OwedAt(q[1]) : q[2] \in ReportedAt(q[1], n) /\ Outstanding(q[1], n)
    BY DEF AnsweredQs
  <2>1. OwesName(q[1], q[2])
    BY QuestionMeans
  <2> QED BY <1>3, <2>1 DEF OwesName, Outstanding, Was
<1>5. Unheard
  BY <1>3 DEF Unheard, Was
<1>6. Promise!Init
  BY <1>2, <1>3, <1>4 DEF Promise!Init
<1> QED BY <1>5, <1>6

(* The online phase implements OnlineVerdict, for every scan input and     *)
(* every mix of answers, failures and delays: it starts as the abstract    *)
(* run does, and each of its steps is one of the abstract run or changes   *)
(* nothing there.  That it settles every question in the end is            *)
(* KeepsPromise, which the run checks.                                     *)
THEOREM RunKeepsItsPromise == Spec => Promise!Init /\ [][Promise!Next]_(Promise!vars)
<1> DEFINE Inv == Settling /\ OnlyOwed /\ Unheard
<1>1. Init => Inv /\ Promise!Init
  BY InitSettling, OnlyOwedInit, PromiseInit
<1>2. Inv /\ [Next]_vars => Inv'
  BY SettlingInductive, OnlyOwedStep, UnheardStep
<1>3. Inv /\ [Next]_vars => [Promise!Next]_(Promise!vars)
  BY PromiseStep
<1> QED BY <1>1, <1>2, <1>3, PTL DEF Spec
=============================================================================
