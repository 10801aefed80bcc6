------------------------- MODULE TrustControlsProofs -------------------------
(* What governs a pull-request run, for every pair of control files, every *)
(* set of keys, and whichever git processes fail.                          *)
EXTENDS TrustControls, TLAPS

Faults == {"entry", "text", "none"}

(* What was read of the base is the base's own entry, or the trace of a    *)
(* failed read of it.                                                      *)
SeenIsBase == stage = "judge" =>
  \A f \in Files : \E x \in Faults : seen["base"][f] = ReadAs(repo.tree["base"][f], x)

EnforcedIsBase ==
  /\ \A k \in Keys : enforced.config[k] \in {Default[k]} \cup Said("config", k) \cup Said("local", k)
  /\ enforced.baseline \in {{}} \cup Said("baseline", "fingerprints")
  /\ enforced.npmrc \in {Empty, repo.tree["base"]["npmrc"].doc}

Inv == /\ repo \in Repos
       /\ SeenIsBase
       /\ stage \in {"compare", "loaded"} => EnforcedIsBase

(* A key found in what was read of a file is said by the file: a failed    *)
(* read leaves no keys.                                                    *)
LEMMA ReadSays ==
  ASSUME NEW e \in Entry, NEW x \in Faults, NEW k, k \in DOMAIN ReadAs(e, x).doc
  PROVE  ReadAs(e, x).doc = e.doc
<1>1. DOMAIN Empty = {}
  BY DEF Empty
<1>2. CASE x = "entry"
  BY <1>1, <1>2 DEF ReadAs, Absent
<1>3. CASE x = "text" \/ (x = "none" /\ e.mode = "160000")
  BY <1>1, <1>3 DEF ReadAs, Entry
<1>4. CASE x = "none" /\ e.mode # "160000"
  BY <1>4 DEF ReadAs
<1>5. QED BY <1>2, <1>3, <1>4 DEF Faults

LEMMA BaseEntries ==
  ASSUME repo \in Repos, NEW f \in Files PROVE repo.tree["base"][f] \in Entry
BY RepoAssumption DEF Repo, Sides

LEMMA InitInv == Init => Inv
BY DEF Init, Inv, SeenIsBase

(* The judgement takes its word from what was read of the base.            *)
LEMMA JudgeInv == Inv /\ Judge => Inv'
<1> SUFFICES ASSUME Inv, Judge PROVE Inv'
  OBVIOUS
<1> DEFINE b == seen["base"]
<1>1. repo' = repo /\ seen' = seen /\ stage' # "judge" /\ stage = "judge"
  BY DEF Judge, Refuse
<1>2. CASE stage' = "refused"
  BY <1>1, <1>2 DEF Inv, SeenIsBase
<1>3. CASE stage' # "refused"
  <2>1. /\ ~Irregular(b) /\ Readable(b)
        /\ ~(There(b["baseline"]) /\ ~b["baseline"].valid)
        /\ enforced' = [config |-> Resolve(b), npmrc |-> b["npmrc"].doc,
                        baseline |-> Fingerprints(b["baseline"])]
    BY <1>3 DEF Judge, Refuse
  <2>2. ASSUME NEW f \in Files
        PROVE  \E x \in Faults : b[f] = ReadAs(repo.tree["base"][f], x)
    BY <1>1 DEF Inv, SeenIsBase
  <2>3. ASSUME NEW f \in Files, NEW k, k \in DOMAIN b[f].doc
        PROVE  b[f].doc[k] \in Said(f, k)
    <3>1. PICK x \in Faults : b[f] = ReadAs(repo.tree["base"][f], x)
      BY <2>2, <2>3
    <3>2. b[f].doc = repo.tree["base"][f].doc
      BY <2>3, <3>1, BaseEntries, ReadSays DEF Inv
    <3>3. QED BY <2>3, <3>2 DEF Said
  <2>4. ASSUME NEW k \in Keys
        PROVE  enforced'.config[k] \in {Default[k]} \cup Said("config", k) \cup Said("local", k)
    <3>1. enforced'.config[k] = Resolve(b)[k]
      BY <2>1
    <3>2. QED BY <2>4, <3>1, <2>3 DEF Resolve, Files
  <2>5. enforced'.baseline \in {{}} \cup Said("baseline", "fingerprints")
    <3>1. enforced'.baseline = Fingerprints(b["baseline"])
      BY <2>1
    <3>2. CASE ~There(b["baseline"])
      BY <3>1, <3>2 DEF Fingerprints
    <3>3. CASE There(b["baseline"])
      <4> DEFINE t == repo.tree["base"]["baseline"]
      <4>1. PICK x \in Faults : b["baseline"] = ReadAs(t, x)
        BY <2>2 DEF Files
      <4>2. b["baseline"].valid
        BY <2>1, <3>3
      <4>3. t \in Entry
        BY BaseEntries DEF Inv, Files
      <4>4. b["baseline"] = t
        <5>1. CASE x = "entry"
          BY <5>1, <4>1, <3>3 DEF ReadAs, There, Absent
        <5>2. CASE x = "text" \/ (x = "none" /\ t.mode = "160000")
          BY <5>2, <4>1, <4>2, <4>3 DEF ReadAs, Entry
        <5>3. CASE x = "none" /\ t.mode # "160000"
          BY <5>3, <4>1 DEF ReadAs
        <5>4. QED BY <5>1, <5>2, <5>3 DEF Faults
      <4>5. "fingerprints" \in DOMAIN b["baseline"].doc
        BY <4>2, <4>4, BaselineAssumption DEF Inv, Sides
      <4>6. b["baseline"].doc["fingerprints"] \in Said("baseline", "fingerprints")
        BY <4>5, <2>3 DEF Files
      <4>7. QED BY <3>1, <3>3, <4>6 DEF Fingerprints
    <3>4. QED BY <3>2, <3>3
  <2>6. enforced'.npmrc \in {Empty, repo.tree["base"]["npmrc"].doc}
    <3> DEFINE t == repo.tree["base"]["npmrc"]
    <3>1. PICK x \in Faults : b["npmrc"] = ReadAs(t, x)
      BY <2>2 DEF Files
    <3>2. t \in Entry
      BY BaseEntries DEF Inv, Files
    <3>3. ReadAs(t, x).doc \in {Empty, t.doc}
      BY <3>2 DEF ReadAs, Absent, Entry
    <3>4. QED BY <2>1, <3>1, <3>3
  <2>7. EnforcedIsBase'
    BY <1>1, <2>4, <2>5, <2>6 DEF EnforcedIsBase, Said
  <2>8. QED BY <1>1, <2>7 DEF Inv, SeenIsBase
<1>4. QED BY <1>2, <1>3

LEMMA NextInv == Inv /\ [Next]_vars => Inv'
<1> SUFFICES ASSUME Inv, [Next]_vars PROVE Inv'
  OBVIOUS
<1>1. CASE ResolveBase
  BY <1>1 DEF ResolveBase, Refuse, Inv, SeenIsBase
<1>2. CASE ResolveHead
  BY <1>2 DEF ResolveHead, Refuse, Inv, SeenIsBase
<1>3. CASE CompareTrees
  BY <1>3 DEF CompareTrees, Refuse, Inv, SeenIsBase
<1>4. CASE ReadControls
  <2>1. repo' = repo /\ stage' = "judge"
    BY <1>4 DEF ReadControls
  <2>2. SeenIsBase'
    <3> SUFFICES ASSUME NEW f \in Files
                 PROVE  \E x \in Faults : seen'["base"][f] = ReadAs(repo.tree["base"][f], x)
      BY <2>1 DEF SeenIsBase
    <3>1. QED BY <1>4 DEF ReadControls, FromSide, Faults, Sides
  <2>3. QED BY <2>1, <2>2 DEF Inv
<1>5. CASE Judge
  BY <1>5, JudgeInv
<1>6. CASE CompareBase
  <2>1. /\ stage = "compare" /\ stage' \in {"loaded", "refused"}
        /\ repo' = repo /\ enforced' = enforced
    BY <1>6 DEF CompareBase, Refuse
  <2>2. EnforcedIsBase'
    BY <2>1 DEF Inv, EnforcedIsBase, Said
  <2>3. QED BY <2>1, <2>2 DEF Inv, SeenIsBase
<1>7. CASE UNCHANGED vars
  BY <1>7 DEF vars, Inv, SeenIsBase, EnforcedIsBase, Said
<1>8. QED
  BY <1>1, <1>2, <1>3, <1>4, <1>5, <1>6, <1>7 DEF Next, Over

(* The head side is never obeyed: every value the run enforces is one the  *)
(* base wrote, or the default (loadTrustedControls).                       *)
THEOREM HeadIsNotObeyed == Spec => []HeadNeverObeyed
<1>1. Inv => HeadNeverObeyed
  BY DEF Inv, EnforcedIsBase, HeadNeverObeyed, Loaded
<1>2. QED BY InitInv, NextInv, <1>1, PTL DEF Spec

(* A run that got through assertTrustBaseUsable has a base that is another *)
(* commit, with another tree unless one of them could not be resolved.     *)
Distinct == stage \in {"trees", "read", "judge", "compare", "loaded"} =>
  /\ repo.base = "other"
  /\ stage # "trees" /\ <<"either", "tree">> \notin failed => ~SameTree(repo)

Apart == repo \in Repos /\ (stage = "head" => repo.base # "none") /\ Distinct

LEMMA ApartInv == Apart /\ [Next]_vars => Apart'
<1> SUFFICES ASSUME Apart, [Next]_vars PROVE Apart'
  OBVIOUS
<1>1. CASE ResolveBase
  BY <1>1 DEF Apart, ResolveBase, Refuse, Distinct
<1>2. CASE ResolveHead
  BY <1>2, RepoAssumption DEF Apart, ResolveHead, Refuse, Distinct, Repo
<1>3. CASE CompareTrees
  BY <1>3 DEF Apart, CompareTrees, Refuse, Distinct, SameTree
<1>4. CASE ReadControls
  <2>1. /\ repo' = repo /\ stage = "read" /\ stage' = "judge"
        /\ failed \subseteq failed'
    BY <1>4 DEF ReadControls
  <2>2. QED BY <2>1 DEF Apart, Distinct, SameTree
<1>5. CASE Judge
  BY <1>5 DEF Apart, Judge, Refuse, Distinct, SameTree
<1>6. CASE CompareBase
  BY <1>6 DEF Apart, CompareBase, Refuse, Distinct, SameTree
<1>7. CASE UNCHANGED vars
  BY <1>7 DEF Apart, vars, Distinct, SameTree
<1>8. QED
  BY <1>1, <1>2, <1>3, <1>4, <1>5, <1>6, <1>7 DEF Next, Over

(* No run that got through the refusals is judged by its own tree          *)
(* (assertTrustBaseUsable), unless a tree could not be resolved.           *)
THEOREM JudgesAnotherTree == Spec => []NeverJudgesItself
<1>1. Init => Apart
  BY DEF Init, Apart, Distinct
<1>2. Apart => NeverJudgesItself
  BY DEF Apart, Distinct, NeverJudgesItself, Loaded, SameTree
<1>3. QED BY <1>1, <1>2, ApartInv, PTL DEF Spec
-----------------------------------------------------------------------------
(* What was read of each side is the side's own entry, unless that read is *)
(* among those that failed; and a run past its judgement enforces and      *)
(* reports what follows from what was read.                                *)
Read(s, f, x) ==
  seen[s][f] = ReadAs(repo.tree[s][f], x) /\ (x # "none" => <<s, f>> \in failed)

SeenIsRead == \A s \in Sides, f \in Files : \E x \in Faults : Read(s, f, x)

Judged == LET b == seen["base"] h == seen["head"] IN
  /\ ~Irregular(b) /\ Readable(b) /\ (There(b["baseline"]) => b["baseline"].valid)
  /\ enforced = [config |-> Resolve(b), npmrc |-> b["npmrc"].doc,
                 baseline |-> Fingerprints(b["baseline"])]
  /\ proposals = Proposals(b, h)

Seen == /\ repo \in Repos
        /\ stage \in {"judge", "compare", "loaded"} => SeenIsRead
        /\ stage \in {"compare", "loaded"} => Judged

LEMMA SeenInv == Seen /\ [Next]_vars => Seen'
<1> SUFFICES ASSUME Seen, [Next]_vars PROVE Seen'
  OBVIOUS
<1>1. CASE ResolveBase
  BY <1>1 DEF ResolveBase, Refuse, Seen
<1>2. CASE ResolveHead
  BY <1>2 DEF ResolveHead, Refuse, Seen
<1>3. CASE CompareTrees
  BY <1>3 DEF CompareTrees, Refuse, Seen
<1>4. CASE ReadControls
  <2>1. repo' = repo /\ stage' = "judge"
    BY <1>4 DEF ReadControls
  <2>2. SeenIsRead'
    <3> SUFFICES ASSUME NEW s \in Sides, NEW f \in Files
                 PROVE  \E x \in Faults : Read(s, f, x)'
      BY DEF SeenIsRead
    <3>1. QED BY <1>4, <2>1 DEF ReadControls, FromSide, Faults, Read
  <2>3. QED BY <2>1, <2>2 DEF Seen
<1>5. CASE Judge
  <2>1. repo' = repo /\ seen' = seen /\ failed' = failed /\ stage = "judge"
    BY <1>5 DEF Judge, Refuse
  <2>2. SeenIsRead'
    BY <2>1 DEF Seen, SeenIsRead, Read
  <2>3. CASE stage' = "refused"
    BY <2>1, <2>3 DEF Seen
  <2>4. CASE stage' # "refused"
    <3>1. Judged'
      BY <1>5, <2>1, <2>4 DEF Judge, Refuse, Judged
    <3>2. QED BY <2>1, <2>2, <3>1 DEF Seen
  <2>5. QED BY <2>3, <2>4
<1>6. CASE CompareBase
  <2>1. /\ stage = "compare" /\ stage' \in {"loaded", "refused"} /\ failed \subseteq failed'
        /\ repo' = repo /\ seen' = seen /\ enforced' = enforced /\ proposals' = proposals
    BY <1>6 DEF CompareBase, Refuse
  <2>2. SeenIsRead'
    BY <2>1 DEF Seen, SeenIsRead, Read
  <2>3. Judged'
    BY <2>1 DEF Seen, Judged
  <2>4. QED BY <2>1, <2>2, <2>3 DEF Seen
<1>7. CASE UNCHANGED vars
  BY <1>7 DEF vars, Seen, SeenIsRead, Read, Judged
<1>8. QED
  BY <1>1, <1>2, <1>3, <1>4, <1>5, <1>6, <1>7 DEF Next, Over

(* A successful read gives the entry, a gitlink's text excepted.           *)
LEMMA ReadEntry ==
  ASSUME NEW e \in Entry
  PROVE  LET r == ReadAs(e, "none") IN
         /\ r.mode = e.mode
         /\ e.mode # "160000" => r = e
         /\ e.mode = "160000" => ~r.valid
BY DEF ReadAs, Entry

(* A head file that is none of a regular file as the base's, with the same *)
(* text, is reported by its shape or as different.                         *)
LEMMA SameFile ==
  ASSUME NEW b, NEW h, IsRegular(b) \/ ~There(b), Shape(b, h) = {}, ~Differs(b, h)
  PROVE  /\ There(b) <=> There(h)
         /\ There(h) => IsRegular(b) /\ IsRegular(h) /\ b.doc = h.doc
BY DEF Shape, Differs, There, IsRegular, Regular

(* What a run that loaded knows, when no read failed.                      *)
LEMMA ReadWhole ==
  ASSUME Seen, Loaded, failed \cap (Sides \X Files) = {}, NEW f \in Files
  PROVE  LET b == seen["base"][f] h == seen["head"][f]
             b0 == repo.tree["base"][f] h0 == repo.tree["head"][f] IN
         /\ b = b0 /\ (IsRegular(b) \/ ~There(b))
         /\ h.mode = h0.mode
         /\ h0.mode # "160000" => h = h0
         /\ h0.mode = "160000" => ~h.valid
         /\ b0 \in Entry /\ h0 \in Entry
<1>1. ASSUME NEW s \in Sides PROVE seen[s][f] = ReadAs(repo.tree[s][f], "none")
  <2>1. PICK x \in Faults : Read(s, f, x)
    BY DEF Seen, Loaded, SeenIsRead
  <2>2. <<s, f>> \notin failed
    OBVIOUS
  <2>3. QED BY <2>1, <2>2 DEF Read
<1>2. repo.tree["base"][f] \in Entry /\ repo.tree["head"][f] \in Entry
  BY RepoAssumption DEF Seen, Repo, Sides
<1>3. IsRegular(seen["base"][f]) \/ ~There(seen["base"][f])
  BY DEF Seen, Loaded, Judged, Irregular
<1>4. seen["base"][f] = repo.tree["base"][f]
  BY <1>1, <1>2, <1>3, ReadEntry DEF Sides, IsRegular, Regular, There
<1>5. QED BY <1>1, <1>2, <1>3, <1>4, ReadEntry DEF Sides

(* A proposal is made of every input that changed.                         *)
LEMMA ChangedIsProposed ==
  ASSUME NEW b, NEW h, NEW i \in Inputs, Changed(b, h, i)
  PROVE  \E p \in Proposals(b, h) : p.input = i /\ p.detail = Detail(b, h, i)
<1> DEFINE Change(j) == [input |-> j, what |-> IF Added(b, h, j) THEN "added" ELSE "changed",
                         detail |-> Detail(b, h, j)]
           Changes == {Change(j) : j \in {j \in Inputs : Changed(b, h, j)}}
<1>1. i \in {j \in Inputs : Changed(b, h, j)}
  OBVIOUS
<1>2. Change(i) \in Changes
  <2> HIDE DEF Change
  <2> QED BY <1>1
<1>3. Changes \subseteq Proposals(b, h)
  BY Zenon DEF Proposals
<1>4. Change(i) \in Proposals(b, h)
  <2> HIDE DEF Change, Changes
  <2> QED BY <1>2, <1>3
<1>5. Change(i).input = i /\ Change(i).detail = Detail(b, h, i)
  OBVIOUS
<1>6. QED
  <2> HIDE DEF Change
  <2> QED BY <1>4, <1>5

(* A proposal is made of every shape an input took on.                     *)
LEMMA ShapeIsProposed ==
  ASSUME NEW b, NEW h, NEW i \in Inputs, NEW w \in ShapeOf(b, h, i)
  PROVE  \E p \in Proposals(b, h) : p.input = i /\ p.what = w
<1> DEFINE Shaped(j, v) == [input |-> j, what |-> v, detail |-> {}]
           Shapes(j) == {Shaped(j, v) : v \in ShapeOf(b, h, j)}
<1>1. Shaped(i, w) \in Shapes(i)
  <2> HIDE DEF Shaped
  <2> QED OBVIOUS
<1>2. Shapes(i) \in {Shapes(j) : j \in Inputs}
  <2> HIDE DEF Shapes
  <2> QED OBVIOUS
<1>3. (UNION {Shapes(j) : j \in Inputs}) \subseteq Proposals(b, h)
  BY Zenon DEF Proposals
<1>4. Shaped(i, w) \in Proposals(b, h)
  <2> HIDE DEF Shaped, Shapes
  <2> QED BY <1>1, <1>2, <1>3
<1>5. Shaped(i, w).input = i /\ Shaped(i, w).what = w
  OBVIOUS
<1>6. QED
  <2> HIDE DEF Shaped
  <2> QED BY <1>4, <1>5

(* A baseline that would govern otherwise is reported: the two sides' files   *)
(* are read whole, and the same text of regular files is as valid. *)
LEMMA BaselineReported ==
  ASSUME Seen, Loaded, failed \cap (Sides \X Files) = {}, WouldGovern("baseline")
  PROVE  Changed(seen["base"], seen["head"], "baseline")
<1> DEFINE b == seen["base"]["baseline"]
           h == seen["head"]["baseline"]
           h0 == repo.tree["head"]["baseline"]
<1> SUFFICES ASSUME ~Changed(seen["base"], seen["head"], "baseline") PROVE FALSE
  OBVIOUS
<1>1. "baseline" \in Files
  BY DEF Files
<1>2. Shape(b, h) = {} /\ ~Differs(b, h)
  BY DEF Changed, ShapeOf
<1>3. /\ b = repo.tree["base"]["baseline"] /\ (IsRegular(b) \/ ~There(b))
      /\ h.mode = h0.mode /\ (h0.mode # "160000" => h = h0)
  BY <1>1, ReadWhole
<1>4. /\ There(b) <=> There(h)
      /\ There(h) => IsRegular(b) /\ IsRegular(h) /\ b.doc = h.doc
  BY <1>2, <1>3, SameFile
<1>5. h = h0
  BY <1>3, <1>4 DEF There, IsRegular, Regular
<1>6. There(h) => b.valid = h.valid
  BY <1>1, <1>3, <1>4, <1>5, TextAssumption DEF Seen, IsRegular
<1>7. There(b) => b.valid
  BY DEF Seen, Loaded, Judged
<1>8. enforced.baseline = Fingerprints(b)
  BY DEF Seen, Loaded, Judged
<1>9. Fingerprints(h) = Fingerprints(b)
  BY <1>4 DEF Fingerprints
<1>10. QED BY <1>4, <1>5, <1>6, <1>7, <1>8, <1>9 DEF WouldGovern

(* So is an .npmrc: its scopes and its registry are all its pins. *)
LEMMA NpmrcReported ==
  ASSUME Seen, Loaded, failed \cap (Sides \X Files) = {}, WouldGovern("npmrc")
  PROVE  Changed(seen["base"], seen["head"], "npmrc")
<1> DEFINE b == seen["base"]["npmrc"]
           h == seen["head"]["npmrc"]
           h0 == repo.tree["head"]["npmrc"]
<1> SUFFICES ASSUME ~Changed(seen["base"], seen["head"], "npmrc") PROVE FALSE
  OBVIOUS
<1>1. "npmrc" \in Files
  BY DEF Files
<1>2. /\ b = repo.tree["base"]["npmrc"] /\ (IsRegular(b) \/ ~There(b))
      /\ h.mode = h0.mode /\ (h0.mode # "160000" => h = h0)
      /\ b \in Entry /\ h0 \in Entry
  BY <1>1, ReadWhole
<1>3. Pins(h) = Pins(h0)
  BY <1>2 DEF Pins, IsRegular, Regular
<1>4. Pins(b) = b.doc
  BY <1>1, <1>2, TextAssumption DEF Seen, Pins, There, Absent
<1>5. enforced.npmrc = Pins(b)
  BY <1>4 DEF Seen, Loaded, Judged
<1>6. Scopes(Pins(b)) = Scopes(Pins(h)) /\ Registry(Pins(b)) = Registry(Pins(h))
  BY DEF Changed
<1>7. Pins(b) \in Docs /\ Pins(h) \in Docs
  BY <1>2, <1>3, DocAssumption DEF Pins, Entry
<1>8. Pins(b) = Pins(h)
  <2> DEFINE p == Pins(b)  q == Pins(h)
  <2> HIDE DEF p, q
  <2>1. p = [k \in DOMAIN p |-> p[k]] /\ q = [k \in DOMAIN q |-> q[k]]
    BY <1>7, DocAssumption DEF p, q
  <2>2. DOMAIN p \ {"registry"} = DOMAIN q \ {"registry"}
        /\ \A k \in DOMAIN p \ {"registry"} : p[k] = q[k]
    <3>1. Scopes(p) = Scopes(q)
      BY <1>6 DEF p, q
    <3>2. DOMAIN Scopes(p) = DOMAIN p \ {"registry"} /\ DOMAIN Scopes(q) = DOMAIN q \ {"registry"}
      BY DEF Scopes
    <3>3. \A k \in DOMAIN p \ {"registry"} : Scopes(p)[k] = p[k]
      BY DEF Scopes
    <3>4. \A k \in DOMAIN q \ {"registry"} : Scopes(q)[k] = q[k]
      BY DEF Scopes
    <3>5. QED BY <3>1, <3>2, <3>3, <3>4
  <2>3. ("registry" \in DOMAIN p <=> "registry" \in DOMAIN q)
        /\ ("registry" \in DOMAIN p => p["registry"] = q["registry"])
    BY <1>6 DEF Registry, p, q
  <2>4. DOMAIN p = DOMAIN q
    BY <2>2, <2>3
  <2>5. \A k \in DOMAIN p : p[k] = q[k]
    BY <2>2, <2>3
  <2>6. QED BY <2>1, <2>4, <2>5 DEF p, q
<1>9. QED BY <1>3, <1>5, <1>8 DEF WouldGovern

(* Two configurations that differ are described by something.              *)
LEMMA DescribesADifference ==
  ASSUME NEW b, NEW h, b = [k \in Keys |-> b[k]], h = [k \in Keys |-> h[k]], b # h
  PROVE  Describe(b, h) # {}
<1>1. PICK k \in Keys : b[k] # h[k]
  OBVIOUS
<1>2. CASE k \in ScalarKeys
  <2>1. <<"set", k>> \in Describe(b, h)
    BY <1>1, <1>2 DEF Describe
  <2>2. QED BY <2>1
<1>3. CASE k \in ListKeys
  <2>1. h[k] \ b[k] # {} \/ b[k] \ h[k] # {}
    BY <1>1
  <2>2. CASE h[k] \ b[k] # {}
    <3>1. <<"proposed", k>> \in Describe(b, h)
      BY <1>3, <2>2 DEF Describe
    <3>2. QED BY <3>1
  <2>3. CASE b[k] \ h[k] # {}
    <3>1. k \in {l \in ListKeys : b[l] \ h[l] # {}}
      BY <1>3, <2>3
    <3>2. <<"removed", "entries">> \in Describe(b, h)
      BY <3>1 DEF Describe
    <3>3. QED BY <3>2
  <2>4. QED BY <2>1, <2>2, <2>3
<1>4. QED BY <1>2, <1>3 DEF Keys

(* So is a configuration, and the report says what it would change. *)
LEMMA ConfigReported ==
  ASSUME Seen, Loaded, failed \cap (Sides \X Files) = {}, WouldGovern("config")
  PROVE  /\ Changed(seen["base"], seen["head"], "config")
         /\ Detail(seen["base"], seen["head"], "config") # {}
<1> DEFINE b == seen["base"]
           h == seen["head"]
           h0 == repo.tree["head"]
           Both == {"config", "local"}
<1>1. Both \subseteq Files
  BY DEF Files
<1>2. ASSUME NEW f \in Both
      PROVE  /\ b[f] = repo.tree["base"][f] /\ (IsRegular(b[f]) \/ ~There(b[f]))
             /\ h[f].mode = h0[f].mode
             /\ h0[f].mode # "160000" => h[f] = h0[f]
             /\ h0[f].mode = "160000" => ~h[f].valid
  BY <1>1, ReadWhole
<1>3. Readable(b) /\ enforced.config = Resolve(b)
  BY DEF Seen, Loaded, Judged
<1>4. Readable(h) => Readable(h0) /\ Resolve(h) = Resolve(h0)
  <2>1. Readable(h) => \A f \in Both : h0[f].mode # "160000"
    BY <1>2 DEF Readable, There
  <2>2. Readable(h) => \A f \in Both : h[f] = h0[f]
    BY <1>2, <2>1
  <2>3. QED BY <2>2 DEF Readable, Resolve
<1>5. ~Readable(h) \/ Resolve(h) # Resolve(b)
  BY <1>3, <1>4 DEF WouldGovern
<1>6. Changed(b, h, "config")
  <2> SUFFICES ASSUME ~Changed(b, h, "config") PROVE FALSE
    OBVIOUS
  <2>1. ASSUME NEW f \in Both
        PROVE  /\ There(b[f]) <=> There(h[f])
               /\ There(h[f]) => b[f].valid = h[f].valid /\ b[f].doc = h[f].doc
    <3>1. Shape(b[f], h[f]) = {} /\ ~Differs(b[f], h[f])
      BY DEF Changed, ShapeOf, ConfigShape
    <3>2. /\ There(b[f]) <=> There(h[f])
          /\ There(h[f]) => IsRegular(b[f]) /\ IsRegular(h[f]) /\ b[f].doc = h[f].doc
      BY <1>2, <3>1, SameFile
    <3>3. There(h[f]) => h[f] = h0[f]
      BY <1>2, <3>2 DEF IsRegular, Regular
    <3>4. QED BY <1>1, <1>2, <3>2, <3>3, TextAssumption DEF Seen, IsRegular
  <2>2. Readable(h)
    BY <1>3, <2>1 DEF Readable
  <2>3. Resolve(h) = Resolve(b)
    BY <2>1 DEF Resolve
  <2>4. QED BY <1>5, <2>2, <2>3
<1>7. Detail(b, h, "config") # {}
  <2>1. CASE ~Readable(h)
    BY <2>1 DEF Detail
  <2>2. CASE Readable(h)
    <3>1. Describe(Resolve(b), Resolve(h)) # {}
      <4>1. /\ Resolve(b) = [k \in Keys |-> Resolve(b)[k]]
            /\ Resolve(h) = [k \in Keys |-> Resolve(h)[k]]
        BY DEF Resolve
      <4>2. QED BY <4>1, <1>5, <2>2, DescribesADifference
    <3>2. QED BY <2>2, <3>1 DEF Detail
  <2>3. QED BY <2>1, <2>2
<1>8. QED BY <1>6, <1>7

(* A link on the head's side has a shape, and every shape is proposed.     *)
LEMMA LinksReported ==
  ASSUME Seen, Loaded PROVE LinksAreReported
<1> DEFINE b == seen["base"]
           h == seen["head"]
<1>1. proposals = Proposals(b, h)
  BY DEF Seen, Loaded, Judged
<1>2. ASSUME NEW f \in Files, IsLink(f)
      PROVE  Shape(b[f], h[f]) # {} /\ Shape(b[f], h[f]) \subseteq {"symlink", "not-a-file"}
  BY <1>2 DEF IsLink, Shape, There, IsRegular, Regular
<1>3. ASSUME NEW i \in Inputs, IsLink(i)
      PROVE  \E p \in proposals : p.input = i /\ p.what \in {"symlink", "not-a-file"}
  <2>1. PICK w \in Shape(b[i], h[i]) : w \in {"symlink", "not-a-file"}
    BY <1>2, <1>3 DEF Inputs, Files
  <2>2. w \in ShapeOf(b, h, i)
    BY <2>1 DEF ShapeOf, ConfigShape
  <2>3. QED BY <1>1, <2>1, <2>2, ShapeIsProposed
<1>4. ASSUME IsLink("local")
      PROVE  \E p \in proposals : p.input = "config" /\ p.what # "changed"
  <2>1. ConfigShape(b, h) # {}
    BY <1>2, <1>4 DEF ConfigShape, Files
  <2>2. PICK w : w \in ConfigShape(b, h)
    BY <2>1
  <2>3. w \in ShapeOf(b, h, "config") /\ w # "changed"
    BY <2>2 DEF ShapeOf, ConfigShape, Shape
  <2>4. QED BY <1>1, <2>3, ShapeIsProposed DEF Inputs
<1>5. QED BY <1>3, <1>4 DEF LinksAreReported

(* The judgement refuses a base file that was read and is not regular.     *)
LEMMA BaseRegular ==
  ASSUME Seen, Loaded PROVE BaseIsRegular
<1> SUFFICES ASSUME failed \cap BaseReads = {}, NEW f \in Files
             PROVE  repo.tree["base"][f].mode \in Regular \cup {"absent"}
  BY DEF BaseIsRegular
<1>1. <<"base", f>> \notin failed
  BY DEF BaseReads
<1>2. PICK x \in Faults : Read("base", f, x)
  BY DEF Seen, Loaded, SeenIsRead, Sides
<1>3. seen["base"][f] = ReadAs(repo.tree["base"][f], "none")
  BY <1>1, <1>2 DEF Read
<1>4. repo.tree["base"][f] \in Entry
  BY BaseEntries DEF Seen
<1>5. IsRegular(seen["base"][f]) \/ ~There(seen["base"][f])
  BY DEF Seen, Loaded, Judged, Irregular
<1>6. QED BY <1>3, <1>4, <1>5, ReadEntry DEF IsRegular, There

(* What is enforced came from regular files of the base, and whatever the  *)
(* head would change of it is reported (loadTrustedControls), for every    *)
(* pair of trees and every set of keys, as far as the reads succeeded; a   *)
(* link the head brings is reported whatever failed.                       *)
THEOREM NothingIsMissed == Spec => []NothingSlipsPast
<1>1. Init => Seen
  BY DEF Init, Seen
<1>2. Seen => NothingSlipsPast
  <2> SUFFICES ASSUME Seen PROVE NothingSlipsPast
    OBVIOUS
  <2>1. EveryDifferenceReported
    <3> SUFFICES ASSUME Loaded, failed \cap (Sides \X Files) = {}, NEW i \in Inputs, WouldGovern(i)
                 PROVE  \E p \in proposals : p.input = i /\ (i = "config" => p.detail # {})
      BY DEF EveryDifferenceReported
    <3>1. proposals = Proposals(seen["base"], seen["head"])
      BY DEF Seen, Loaded, Judged
    <3>2. Changed(seen["base"], seen["head"], i)
      BY ConfigReported, BaselineReported, NpmrcReported DEF Inputs
    <3>3. i = "config" => Detail(seen["base"], seen["head"], i) # {}
      BY ConfigReported
    <3>4. QED BY <3>1, <3>2, <3>3, ChangedIsProposed
  <2>2. LinksAreReported
    BY LinksReported DEF LinksAreReported
  <2>3. BaseIsRegular
    BY BaseRegular DEF BaseIsRegular
  <2>4. QED BY <2>1, <2>2, <2>3 DEF NothingSlipsPast
<1>3. QED BY <1>1, <1>2, SeenInv, PTL DEF Spec
=============================================================================
