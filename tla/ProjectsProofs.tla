--------------------------- MODULE ProjectsProofs ---------------------------
(***************************************************************************)
(* What is proved of the runs about the projects of a repository:          *)
(*   - every manifest a promotion names is read, and nothing else under a  *)
(*     node_modules is unless something named could not be placed;         *)
(*   - a scan of a subdirectory is not weaker than one of the root;        *)
(*   - of the included requirements files only those beyond the depth     *)
(*     limit are cut, whatever longer chain comes first;                   *)
(*   - a name is left out of the name checks only for a member npm links,  *)
(*     or one of the base's field that the pull request dropped.           *)
(***************************************************************************)
EXTENDS MCProjects, WellFoundedInduction, FiniteSetTheorems, SequenceTheorems, TLAPS

------------------------------------------------------------------------------
(* Induction and recursion on the numbers, with sets and functions.        *)
LEMMA Induction ==
  ASSUME NEW S \in SUBSET Nat, 0 \in S, \A n \in S : n + 1 \in S
  PROVE  S = Nat
<1> DEFINE R == OpToRel(<, Nat)
           T == Nat \ S
<1> SUFFICES ASSUME T # {} PROVE FALSE
  OBVIOUS
<1>1. IsWellFoundedOn(R, Nat)
  BY NatLessThanWellFounded
<1>2. \A x, y \in Nat : x < y => <<x, y>> \in R
  BY DEF OpToRel
<1> HIDE DEF R
<1>3. PICK x \in T : \A y \in T : ~(<<y, x>> \in R)
  BY <1>1, WFMin
<1>4. x \in Nat /\ x # 0 /\ x - 1 \in Nat /\ x - 1 < x
  OBVIOUS
<1>5. x - 1 \in S
  BY <1>2, <1>3, <1>4
<1>6. (x - 1) + 1 = x
  BY <1>4
<1> QED BY <1>5, <1>6

Iterates(g, a, f, n) == g[0] = a /\ \A k \in 1..n : g[k] = f[g[k - 1]]

(* What is defined by recursion on the numbers up to n exists.             *)
LEMMA Iteration ==
  ASSUME NEW D, NEW a \in D, NEW f \in [D -> D], NEW n \in Nat
  PROVE  \E g \in [0..n -> D] : Iterates(g, a, f, n)
<1> USE DEF Iterates
<1> DEFINE Good(m) == \E g \in [0..m -> D] : Iterates(g, a, f, m)
           S == {m \in Nat : Good(m)}
<1>1. 0 \in S
  <2>1. [k \in 0..0 |-> a] \in [0..0 -> D] /\ [k \in 0..0 |-> a][0] = a /\ 1..0 = {}
    OBVIOUS
  <2> QED BY <2>1
<1>2. ASSUME NEW m \in S PROVE m + 1 \in S
  <2>1. PICK g \in [0..m -> D] : g[0] = a /\ \A k \in 1..m : g[k] = f[g[k - 1]]
    OBVIOUS
  <2> DEFINE h == [k \in 0..m + 1 |-> IF k = m + 1 THEN f[g[m]] ELSE g[k]]
  <2>2. m \in Nat /\ m \in 0..m /\ f[g[m]] \in D
    BY <2>1
  <2>3. h \in [0..m + 1 -> D]
    BY <2>1, <2>2
  <2>4. h[0] = a
    BY <2>1, <2>2
  <2>5. ASSUME NEW k \in 1..m + 1 PROVE h[k] = f[h[k - 1]]
    <3>1. k - 1 \in 0..m /\ h[k - 1] = g[k - 1]
      BY <2>2
    <3>2. CASE k = m + 1
      BY <2>2, <3>1, <3>2
    <3>3. CASE k \in 1..m
      BY <2>1, <2>2, <3>1, <3>3
    <3> QED BY <2>2, <3>2, <3>3
  <2> HIDE DEF h
  <2> QED BY <2>2, <2>3, <2>4, <2>5
<1>3. S = Nat
  <2> HIDE DEF Good
  <2> QED BY <1>1, <1>2, Induction
<1> HIDE DEF Iterates
<1> QED BY <1>3
------------------------------------------------------------------------------
(* Which manifests are read.                                               *)
WellFormed(t) ==
  /\ t.status \in [Files -> Statuses]
  /\ t.members \in [Manifests -> SUBSET (Manifests \cup {Nowhere})]
  /\ t.refs \in [Npm \cup NpmLocks -> SUBSET (Npm \cup {Nowhere})]

ClassType == [positions : SUBSET Manifests, promoted : SUBSET Manifests,
              failures : SUBSET Files, followed : SUBSET Manifests]

(* What is read past a skipped directory name without a position is read   *)
(* because something could not be placed, and then every package.json is.  *)
StoodIn(t, c) == c.promoted \subseteq c.positions \/ Listed(t, Npm) \subseteq c.promoted

Sorted ==
  /\ \A s \in Sides : WellFormed(tree[s])
  /\ class \in [Sides -> ClassType]
  /\ \A s \in Sides : StoodIn(tree[s], class[s])

(* The kinds of files, as the assumption on the constants has them.        *)
LEMMA KindsDisjoint ==
  /\ \A f \in NpmLocks : f \notin Manifests /\ f \notin Skipped /\ f \in Files
  /\ Skipped \subseteq Manifests /\ Vendored \subseteq Skipped /\ Manifests \subseteq Files
  /\ Prefix \subseteq Files /\ Npm \subseteq Manifests /\ Npm \cap Python = {}
  /\ Nowhere \notin Files
BY DiscoveryConstants DEF Locks, Manifests, Files

(* A reference leads to a package.json that is listed, or nowhere.         *)
LEMMA TargetsAreListed ==
  ASSUME NEW t, WellFormed(t), NEW S
  PROVE  /\ Targets(t, S \cap (Npm \cup NpmLocks)) \subseteq Listed(t, Npm)
         /\ Listed(t, Npm) \subseteq Npm
         /\ Named(t, Parsed(t, S \cap (Npm \cup NpmLocks))) \subseteq Npm \cup {Nowhere}
BY DEF WellFormed, Targets, Named, Parsed, Listed

LEMMA CoveredAreListed ==
  ASSUME NEW t, WellFormed(t), NEW S \in SUBSET Manifests
  PROVE  Covered(t, S) \subseteq Listed(t, Manifests)
BY DEF WellFormed, Covered, Listed

(* Following what some inputs name promotes what they lead to, and every   *)
(* listed package.json when something they name has no place.              *)
LEMMA FollowKeeps ==
  ASSUME NEW t, WellFormed(t), NEW c \in ClassType, StoodIn(t, c),
         NEW S \in SUBSET (Npm \cup NpmLocks)
  PROVE  /\ Follow(t, c, S) \in ClassType /\ StoodIn(t, Follow(t, c, S))
         /\ Follow(t, c, S).promoted =
              (c.promoted \cup Targets(t, S)) \cup StandIn(t, {}, Named(t, Parsed(t, S)))
         /\ Follow(t, c, S).positions = c.positions \cup Targets(t, S)
         /\ Follow(t, c, S).failures = c.failures
         /\ Follow(t, c, S).followed = c.followed
<1> DEFINE T == Targets(t, S)
           I == StandIn(t, {}, Named(t, Parsed(t, S)))
           d == Follow(t, c, S)
<1>1. T \subseteq Manifests /\ (I = {} \/ I = Listed(t, Npm)) /\ Listed(t, Npm) \subseteq Manifests
  <2>1. S \cap (Npm \cup NpmLocks) = S
    OBVIOUS
  <2>2. T \subseteq Listed(t, Npm) /\ Listed(t, Npm) \subseteq Npm
    BY <2>1, TargetsAreListed
  <2>3. I = {} \/ I = Listed(t, Npm)
    BY DEF StandIn
  <2> QED BY <2>2, <2>3, KindsDisjoint
<1>2. d = [c EXCEPT !.positions = @ \cup T, !.promoted = (@ \cup T) \cup I]
  BY DEF Follow
<1> HIDE DEF T, I, d
<1>3. /\ d.promoted = (c.promoted \cup T) \cup I
      /\ d.positions = c.positions \cup T
      /\ d.failures = c.failures /\ d.followed = c.followed
  BY <1>2 DEF ClassType
<1>4. d \in ClassType
  BY <1>1, <1>2 DEF ClassType
<1>5. StoodIn(t, d)
  BY <1>1, <1>3 DEF StoodIn
<1> QED BY <1>3, <1>4, <1>5 DEF T, I, d

(* What the rules before rule 5 promote, the stand-in of lost members apart.*)
Outright(t) ==
  ({m \in Npm : Dir[m] = ""} \cup Covered(t, PromotingRoots(t))) \cup BesideLock(t, NpmLocks)
MemberStandIn(t) == StandIn(t, UNION {t.members[m] : m \in PromotingRoots(t)}, {})
Sources(t) == Listed(t, (Npm \ Vendored) \cup NpmLocks)

(* What the rules promote before anything under node_modules is followed.  *)
LEMMA RulesKeep ==
  ASSUME NEW t, WellFormed(t), NEW s
  PROVE  /\ Rules(t, s) \in ClassType /\ StoodIn(t, Rules(t, s))
         /\ Rules(t, s).promoted =
              ((Outright(t) \cup MemberStandIn(t)) \cup Targets(t, Sources(t)))
                \cup StandIn(t, {}, Named(t, Parsed(t, Sources(t))))
         /\ Rules(t, s).followed = {}
<1> DEFINE root == {m \in Npm : Dir[m] = ""}
           uv == Parsed(t, UvRoots(t))
           promoted == root \cup Covered(t, PromotingRoots(t)) \cup BesideLock(t, NpmLocks)
           P == promoted \cup Covered(t, InstallRoots(t) \cup uv) \cup BesideLock(t, UvLocks)
           M == MemberStandIn(t)
           F == Failing(t, s, Inputs(t))
           first == [positions |-> P, promoted |-> promoted \cup M, failures |-> F, followed |-> {}]
<1>1. promoted \subseteq Manifests /\ P \subseteq Manifests
  <2>1. PromotingRoots(t) \subseteq Manifests /\ InstallRoots(t) \cup uv \subseteq Manifests
    BY DEF PromotingRoots, InstallRoots, Parsed, UvRoots, Listed, Manifests
  <2>2. /\ Covered(t, PromotingRoots(t)) \subseteq Manifests
        /\ Covered(t, InstallRoots(t) \cup uv) \subseteq Manifests
    BY <2>1, CoveredAreListed DEF Listed
  <2>3. BesideLock(t, NpmLocks) \subseteq Manifests /\ BesideLock(t, UvLocks) \subseteq Manifests
    BY DEF BesideLock, Listed
  <2>4. root \subseteq Manifests
    BY KindsDisjoint
  <2> QED BY <2>2, <2>3, <2>4
<1>2. M = {} \/ M = Listed(t, Npm)
  BY DEF StandIn, MemberStandIn
<1>3. Listed(t, Npm) \subseteq Manifests
  BY KindsDisjoint DEF Listed
<1>4. F \subseteq Files
  <2>1. Inputs(t) \subseteq Files
    BY DEF Inputs, UvRoots, Listed, Files, Manifests, Locks
  <2> QED BY <2>1 DEF Failing
<1>5. Inputs(t) \cap (Npm \cup NpmLocks) = Sources(t)
  BY KindsDisjoint DEF Inputs, UvRoots, Listed, Sources, Manifests
<1>6. Rules(t, s) = Follow(t, first, Sources(t))
  BY <1>5 DEF Rules, MemberStandIn
<1>7. promoted = Outright(t)
  BY DEF Outright
<1>8. P = P \cup promoted
  OBVIOUS
<1> HIDE DEF P, M, F, promoted
<1>9. first \in ClassType
  BY <1>1, <1>2, <1>3, <1>4 DEF ClassType
<1>10. StoodIn(t, first)
  BY <1>2, <1>8 DEF StoodIn
<1>11. Sources(t) \in SUBSET (Npm \cup NpmLocks)
  BY DEF Sources, Listed
<1>12. first.promoted = promoted \cup M /\ first.followed = {}
  OBVIOUS
<1> HIDE DEF first
<1> QED BY <1>6, <1>7, <1>9, <1>10, <1>11, <1>12, FollowKeeps DEF M

LEMMA PendingIsVendored ==
  ASSUME NEW t, NEW c
  PROVE  /\ Pending(t, c) \subseteq Listed(t, Npm) /\ Pending(t, c) \subseteq Vendored
         /\ Pending(t, c) \subseteq c.promoted /\ Pending(t, c) \subseteq Npm
BY DEF Pending, Listed

(* One turn of the loop over the manifests under node_modules.             *)
Turn(t, s, c) ==
  [Follow(t, c, Pending(t, c)) EXCEPT
     !.followed = @ \cup Pending(t, c), !.failures = @ \cup Failing(t, s, Pending(t, c))]

(* What one turn adds.                                                     *)
LEMMA TurnKeeps ==
  ASSUME NEW t, WellFormed(t), NEW s, NEW c \in ClassType, StoodIn(t, c)
  PROVE  /\ Turn(t, s, c) \in ClassType /\ StoodIn(t, Turn(t, s, c))
         /\ Turn(t, s, c).promoted =
              (c.promoted \cup Targets(t, Pending(t, c)))
                \cup StandIn(t, {}, Named(t, Parsed(t, Pending(t, c))))
         /\ Turn(t, s, c).followed = c.followed \cup Pending(t, c)
<1> DEFINE N == Pending(t, c)
           d == Follow(t, c, N)
           F == Failing(t, s, N)
           e == Turn(t, s, c)
<1>1. N \in SUBSET (Npm \cup NpmLocks) /\ N \subseteq Manifests /\ F \subseteq Files
  <2>1. N \subseteq Npm /\ F \subseteq N
    BY PendingIsVendored DEF Failing
  <2> QED BY <2>1, KindsDisjoint
<1>2. /\ d \in ClassType /\ StoodIn(t, d) /\ d.followed = c.followed
      /\ d.promoted = (c.promoted \cup Targets(t, N)) \cup StandIn(t, {}, Named(t, Parsed(t, N)))
  BY <1>1, FollowKeeps
<1>3. e = [d EXCEPT !.followed = @ \cup N, !.failures = @ \cup F]
  BY DEF Turn
<1> HIDE DEF N, d, F, e
<1>4. /\ e.promoted = d.promoted /\ e.positions = d.positions
      /\ e.followed = d.followed \cup N
  BY <1>2, <1>3 DEF ClassType
<1>5. e \in ClassType
  BY <1>1, <1>2, <1>3 DEF ClassType
<1>6. StoodIn(t, e)
  BY <1>2, <1>4 DEF StoodIn
<1> QED BY <1>2, <1>4, <1>5, <1>6 DEF N, d, F, e

LEMMA TreesFormed == Init => \A s \in Sides : WellFormed(tree[s])
<1> SUFFICES ASSUME Init, NEW s \in Sides PROVE WellFormed(tree[s])
  OBVIOUS
<1>1. PICK c \in Changes : tree = [comparison |-> c[1], judged |-> c[2]]
  BY DEF Init
<1>2. tree[s] \in {d[1] : d \in Changes} \cup {d[2] : d \in Changes}
  BY <1>1 DEF Sides
<1> QED BY <1>2, DiscoveryConstants DEF WellFormed

LEMMA NoClassFits == NoClass \in ClassType /\ \A t : StoodIn(t, NoClass)
BY DEF NoClass, ClassType, StoodIn

(* A step classifies a side, takes one more turn or goes on.               *)
LEMMA StepKinds ==
  ASSUME Next, class \in [Sides -> ClassType]
  PROVE  /\ UNCHANGED <<tree, ignored>>
         /\ \/ \E s \in Sides : /\ step = s /\ class[s] = NoClass /\ UNCHANGED step
                                /\ class' = [class EXCEPT ![s] = Rules(tree[s], s)]
            \/ \E s \in Sides : /\ step = s /\ class[s] # NoClass /\ UNCHANGED step
                                /\ class' = [class EXCEPT ![s] = Turn(tree[s], s, class[s])]
            \/ \E s \in Sides : /\ step = s /\ class[s] # NoClass /\ UNCHANGED class
                                /\ Pending(tree[s], class[s]) = {}
                                /\ step' = IF s = "comparison" THEN "judged" ELSE "done"
            \/ UNCHANGED vars
<1>1. CASE \E s \in Sides : Classify(s)
  BY <1>1 DEF Classify
<1>2. CASE \E s \in Sides : FollowVendored(s)
  BY <1>2 DEF FollowVendored, Turn
<1>3. CASE \E s \in Sides : Loaded(s)
  BY <1>3 DEF Loaded
<1>4. CASE step = "done" /\ UNCHANGED vars
  BY <1>4 DEF vars
<1> QED BY <1>1, <1>2, <1>3, <1>4 DEF Next

LEMMA SortedInit == Init => Sorted
<1> SUFFICES ASSUME Init PROVE Sorted
  OBVIOUS
<1>1. class = [s \in Sides |-> NoClass]
  BY DEF Init
<1>2. class \in [Sides -> ClassType] /\ \A s \in Sides : StoodIn(tree[s], class[s])
  BY <1>1, NoClassFits
<1> QED BY <1>2, TreesFormed DEF Sorted

LEMMA SortedNext == Sorted /\ [Next]_vars => Sorted'
<1> SUFFICES ASSUME Sorted, [Next]_vars PROVE Sorted'
  OBVIOUS
<1>1. ASSUME NEW s \in Sides, UNCHANGED <<tree, ignored>>,
             NEW c \in ClassType, StoodIn(tree[s], c), class' = [class EXCEPT ![s] = c]
      PROVE  Sorted'
  BY <1>1 DEF Sorted
<1>2. CASE UNCHANGED vars
  BY <1>2 DEF vars, Sorted
<1>3. CASE Next
  <2>1. ASSUME NEW s \in Sides, UNCHANGED <<tree, ignored>>,
               class' = [class EXCEPT ![s] = Rules(tree[s], s)]
        PROVE  Sorted'
    BY <2>1, <1>1, RulesKeep DEF Sorted
  <2>2. ASSUME NEW s \in Sides, UNCHANGED <<tree, ignored>>,
               class' = [class EXCEPT ![s] = Turn(tree[s], s, class[s])]
        PROVE  Sorted'
    BY <2>2, <1>1, TurnKeeps DEF Sorted
  <2>3. ASSUME UNCHANGED <<tree, ignored, class>> PROVE Sorted'
    BY <2>3 DEF Sorted
  <2> QED BY <1>2, <1>3, <2>1, <2>2, <2>3, StepKinds DEF Sorted
<1> QED BY <1>2, <1>3

(* The rounds of Chained.                                                  *)
LEMMA ChainedRounds ==
  ASSUME NEW t, WellFormed(t)
  PROVE  \E g \in [0..Cardinality(Npm) -> SUBSET Npm] :
           /\ g[0] = Targets(t, Starting(t))
           /\ \A k \in 1..Cardinality(Npm) : g[k] = g[k - 1] \cup Targets(t, g[k - 1])
           /\ Chained(t) = g[Cardinality(Npm)]
<1> DEFINE C == Cardinality(Npm)
           a == Targets(t, Starting(t))
           f == [S \in SUBSET Npm |-> S \cup Targets(t, S)]
<1>1. C \in Nat
  BY DiscoveryConstants, FS_CardinalityType
<1>2. a \in SUBSET Npm
  <2>1. Starting(t) \cap (Npm \cup NpmLocks) = Starting(t)
    BY DEF Starting, Listed
  <2> QED BY <2>1, TargetsAreListed
<1>3. \A S \in SUBSET Npm : Targets(t, S) \in SUBSET Npm
  <2>1. ASSUME NEW S \in SUBSET Npm PROVE Targets(t, S) \in SUBSET Npm
    <3>1. S \cap (Npm \cup NpmLocks) = S
      OBVIOUS
    <3> QED BY <3>1, TargetsAreListed
  <2> QED BY <2>1
<1>4. f \in [SUBSET Npm -> SUBSET Npm]
  BY <1>3
<1>5. PICK g \in [0..C -> SUBSET Npm] : g[0] = a /\ \A k \in 1..C : g[k] = f[g[k - 1]]
  <2> DEFINE D == SUBSET Npm
  <2>1. a \in D /\ f \in [D -> D]
    BY <1>2, <1>4
  <2> HIDE DEF C, a, f, D
  <2>2. \E h \in [0..C -> D] : Iterates(h, a, f, C)
    BY <1>1, <2>1, Iteration
  <2> QED BY <2>2 DEF D, Iterates
<1>6. ASSUME NEW k \in 1..C PROVE g[k] = g[k - 1] \cup Targets(t, g[k - 1])
  <2>1. k - 1 \in 0..C
    BY <1>1
  <2>2. g[k - 1] \in SUBSET Npm
    BY <1>5, <2>1
  <2> QED BY <1>5, <2>2
<1>7. g = [k \in 0..C |-> IF k = 0 THEN Targets(t, Starting(t)) ELSE g[k - 1] \cup Targets(t, g[k - 1])]
  <2>1. ASSUME NEW k \in 0..C, k # 0 PROVE k \in 1..C
    BY <1>1, <2>1
  <2> HIDE DEF C, f
  <2> QED BY <1>5, <1>6, <2>1
<1> DEFINE close[k \in 0..C] ==
             IF k = 0 THEN Targets(t, Starting(t)) ELSE close[k - 1] \cup Targets(t, close[k - 1])
<1>8. close = [k \in 0..C |->
                 IF k = 0 THEN Targets(t, Starting(t)) ELSE close[k - 1] \cup Targets(t, close[k - 1])]
  <2> HIDE DEF C
  <2> QED BY <1>7
<1>9. \A k \in 0..C :
        close[k] = IF k = 0 THEN Targets(t, Starting(t)) ELSE close[k - 1] \cup Targets(t, close[k - 1])
  <2> HIDE DEF C, close
  <2> QED BY <1>8
<1>10. Chained(t) = close[C]
  BY DEF Chained
<1>11. \A k \in 0..C : close[k] = g[k]
  <2> DEFINE S == {k \in Nat : k <= C => close[k] = g[k]}
  <2> HIDE DEF C, close, f
  <2>1. 0 \in S
    <3>1. 0 \in 0..C
      BY <1>1
    <3>2. close[0] = a
      BY <1>9, <3>1
    <3> QED BY <1>5, <3>2
  <2>2. ASSUME NEW k \in S PROVE k + 1 \in S
    <3> SUFFICES ASSUME k + 1 <= C PROVE close[k + 1] = g[k + 1]
      OBVIOUS
    <3>1. k \in Nat /\ k + 1 \in 1..C /\ k + 1 \in 0..C /\ (k + 1) - 1 = k /\ close[k] = g[k]
      BY <1>1
    <3>2. close[k + 1] = close[k] \cup Targets(t, close[k])
      <4>1. k + 1 # 0
        BY <3>1
      <4>2. close[k + 1] = close[(k + 1) - 1] \cup Targets(t, close[(k + 1) - 1])
        BY <1>9, <3>1, <4>1 
      <4> QED BY <3>1, <4>2
    <3>3. g[k + 1] = g[k] \cup Targets(t, g[k])
      BY <1>6, <3>1
    <3> QED BY <3>1, <3>2, <3>3
  <2>3. S = Nat
    <3> HIDE DEF S
    <3>1. S \in SUBSET Nat
      BY DEF S
    <3> QED BY <2>1, <2>2, <3>1, Induction
  <2> QED BY <1>1, <2>3
<1>12. Chained(t) = g[C]
  BY <1>1, <1>10, <1>11
<1> QED BY <1>5, <1>6, <1>12
------------------------------------------------------------------------------
(* ReadIffNamed.  Chained is the least set of listed package.json files    *)
(* that holds what the starting files name and what it names itself.       *)
LEMMA TargetsGrow ==
  ASSUME NEW t, NEW S, NEW U, S \subseteq U
  PROVE  /\ Targets(t, S) \subseteq Targets(t, U)
         /\ Named(t, Parsed(t, S)) \subseteq Named(t, Parsed(t, U))
BY DEF Targets, Named, Parsed, Listed

LEMMA TargetsSplit ==
  ASSUME NEW t, NEW S, NEW U
  PROVE  Targets(t, S \cup U) = Targets(t, S) \cup Targets(t, U)
BY DEF Targets, Named, Parsed, Listed

(* Chained is closed, and the least such set: each round that does not     *)
(* close it adds a file, and there are no more rounds than files.          *)
LEMMA ChainedCloses ==
  ASSUME NEW t, WellFormed(t)
  PROVE  /\ Chained(t) \subseteq Listed(t, Npm) /\ Chained(t) \subseteq Npm
         /\ Targets(t, Starting(t)) \subseteq Chained(t)
         /\ Targets(t, Chained(t)) \subseteq Chained(t)
         /\ \A S \in SUBSET Npm :
              Targets(t, Starting(t)) \subseteq S /\ Targets(t, S) \subseteq S => Chained(t) \subseteq S
<1> DEFINE C == Cardinality(Npm)
           a == Targets(t, Starting(t))
           Closed(S) == Targets(t, S) \subseteq S
<1>1. PICK g \in [0..C -> SUBSET Npm] :
        /\ g[0] = a
        /\ \A k \in 1..C : g[k] = g[k - 1] \cup Targets(t, g[k - 1])
        /\ Chained(t) = g[C]
  BY ChainedRounds
<1>2. C \in Nat /\ IsFiniteSet(Npm)
  BY DiscoveryConstants, FS_CardinalityType
<1>3. \A S : S \subseteq Npm => IsFiniteSet(S) /\ Cardinality(S) \in Nat /\ Cardinality(S) <= C
  <2>1. \A S \in SUBSET Npm : IsFiniteSet(S) /\ Cardinality(S) <= C
    BY <1>2, FS_Subset
  <2> QED BY <2>1, FS_CardinalityType
<1>4. \A k \in Nat : k + 1 <= C =>
        k \in 0..C /\ k + 1 \in 0..C /\ g[k + 1] = g[k] \cup Targets(t, g[k])
  <2> SUFFICES ASSUME NEW k \in Nat, k + 1 <= C
               PROVE  k \in 0..C /\ k + 1 \in 0..C /\ g[k + 1] = g[k] \cup Targets(t, g[k])
    OBVIOUS
  <2>1. k + 1 \in 1..C /\ (k + 1) - 1 = k /\ k \in 0..C /\ k + 1 \in 0..C
    BY <1>2
  <2> HIDE DEF C, a
  <2>2. g[k + 1] = g[(k + 1) - 1] \cup Targets(t, g[(k + 1) - 1])
    BY <1>1, <2>1
  <2> QED BY <2>1, <2>2
<1> HIDE DEF C, a
<1>5. 0 \in 0..C /\ C \in 0..C
  BY <1>2
<1>6. ASSUME NEW S \in SUBSET Npm, a \subseteq S, Closed(S) PROVE Chained(t) \subseteq S
  <2> DEFINE K == {k \in Nat : k <= C => g[k] \subseteq S}
  <2>1. 0 \in K
    BY <1>1, <1>6
  <2>2. ASSUME NEW k \in K PROVE k + 1 \in K
    <3> SUFFICES ASSUME k + 1 <= C PROVE g[k + 1] \subseteq S
      OBVIOUS
    <3>1. k <= C /\ g[k] \subseteq S
      BY <1>2
    <3>2. Targets(t, g[k]) \subseteq S
      BY <1>6, <3>1, TargetsGrow
    <3> QED BY <1>4, <3>1, <3>2
  <2>3. K = Nat
    <3>1. K \in SUBSET Nat
      OBVIOUS
    <3> HIDE DEF K
    <3> QED BY <2>1, <2>2, <3>1, Induction
  <2> QED BY <1>1, <1>2, <2>3
<1>7. a \subseteq Chained(t) /\ Chained(t) \subseteq Listed(t, Npm)
  <2> DEFINE K == {k \in Nat : k <= C => a \subseteq g[k] /\ g[k] \subseteq Listed(t, Npm)}
  <2>1. 0 \in K
    <3>1. Starting(t) \cap (Npm \cup NpmLocks) = Starting(t)
      BY DEF Starting, Listed
    <3>2. a \subseteq Listed(t, Npm)
      BY <3>1, TargetsAreListed DEF a
    <3> QED BY <1>1, <3>2
  <2>2. ASSUME NEW k \in K PROVE k + 1 \in K
    <3> SUFFICES ASSUME k + 1 <= C PROVE a \subseteq g[k + 1] /\ g[k + 1] \subseteq Listed(t, Npm)
      OBVIOUS
    <3>1. k <= C /\ a \subseteq g[k] /\ g[k] \subseteq Listed(t, Npm) /\ k \in 0..C
      BY <1>2, <1>4
    <3>2. g[k] \cap (Npm \cup NpmLocks) = g[k]
      BY <1>1, <3>1
    <3>3. Targets(t, g[k]) \subseteq Listed(t, Npm)
      BY <3>2, TargetsAreListed
    <3> QED BY <1>4, <3>1, <3>3
  <2>3. K = Nat
    <3>1. K \in SUBSET Nat
      OBVIOUS
    <3> HIDE DEF K
    <3> QED BY <2>1, <2>2, <3>1, Induction
  <2> QED BY <1>1, <1>2, <2>3
<1>8. Closed(g[C])
  <2> DEFINE K == {k \in Nat : k <= C => Closed(g[k]) \/ k + 1 <= Cardinality(g[k])}
  <2>1. 0 \in K
    <3>1. CASE g[0] = {}
      <4>1. Targets(t, {}) = {}
        BY DEF Targets, Named, Parsed, Listed
      <4> QED BY <3>1, <4>1
    <3>2. CASE g[0] # {}
      <4>1. g[0] \subseteq Npm
        BY <1>1, <1>5
      <4>2. IsFiniteSet(g[0]) /\ Cardinality(g[0]) \in Nat
        BY <1>3, <4>1
      <4>3. Cardinality(g[0]) # 0
        BY <3>2, <4>2, FS_EmptySet
      <4> QED BY <4>2, <4>3
    <3> QED BY <3>1, <3>2
  <2>2. ASSUME NEW k \in K PROVE k + 1 \in K
    <3> SUFFICES ASSUME k + 1 <= C
                 PROVE  Closed(g[k + 1]) \/ (k + 1) + 1 <= Cardinality(g[k + 1])
      OBVIOUS
    <3>1. k \in Nat /\ k <= C /\ (Closed(g[k]) \/ k + 1 <= Cardinality(g[k]))
      BY <1>2
    <3>2. /\ k \in 0..C /\ k + 1 \in 0..C /\ g[k + 1] = g[k] \cup Targets(t, g[k])
      BY <1>4, <3>1
    <3>3. CASE Closed(g[k])
      <4>1. g[k + 1] = g[k]
        BY <3>2, <3>3
      <4> QED BY <3>3, <4>1
    <3>4. CASE ~Closed(g[k])
      <4>1. g[k + 1] \subseteq Npm /\ g[k] \subseteq g[k + 1] /\ g[k] # g[k + 1]
        BY <1>1, <3>2, <3>4
      <4>2. IsFiniteSet(g[k + 1]) /\ Cardinality(g[k + 1]) \in Nat
        BY <1>3, <4>1
      <4>3. Cardinality(g[k]) \in Nat /\ Cardinality(g[k]) < Cardinality(g[k + 1])
        <5>1. IsFiniteSet(g[k]) /\ Cardinality(g[k]) \in Nat
          BY <1>3, <4>1
        <5>2. Cardinality(g[k]) <= Cardinality(g[k + 1])
          BY <4>1, <4>2, FS_Subset
        <5>3. Cardinality(g[k]) # Cardinality(g[k + 1])
          BY <4>1, <4>2, FS_Subset
        <5> QED BY <4>2, <5>1, <5>2, <5>3
      <4> QED BY <3>1, <3>4, <4>2, <4>3
    <3> QED BY <3>3, <3>4
  <2>3. K = Nat
    <3>1. K \in SUBSET Nat
      OBVIOUS
    <3> HIDE DEF K
    <3> QED BY <2>1, <2>2, <3>1, Induction
  <2>4. Closed(g[C]) \/ C + 1 <= Cardinality(g[C])
    <3> HIDE DEF Closed
    <3> QED BY <1>2, <2>3
  <2>5. Cardinality(g[C]) \in Nat /\ Cardinality(g[C]) <= C
    BY <1>1, <1>3, <1>5
  <2> QED BY <1>2, <2>4, <2>5
<1> QED BY <1>1, <1>6, <1>7, <1>8, <1>5 DEF a

NamedIn(t) == Chained(t) \cup Covered(t, PromotingRoots(t))
Unplaced(t) ==
  \/ ~ (Named(t, Parsed(t, Chained(t) \cup Starting(t))) \subseteq Listed(t, Npm))
  \/ Nowhere \in UNION {t.members[m] : m \in PromotingRoots(t)}

(* What is named outside node_modules is promoted, and what is named by    *)
(* the manifests under it that were followed; unless something was lost,   *)
(* nothing else under node_modules is.                                     *)
Followed(t, c) ==
  /\ Covered(t, PromotingRoots(t)) \cup Targets(t, Sources(t)) \subseteq c.promoted
  /\ c.followed \subseteq Npm /\ Targets(t, c.followed) \subseteq c.promoted
  /\ ~Unplaced(t) => c.promoted \cap Vendored \subseteq NamedIn(t)

Settled(s) == class[s] # NoClass /\ Pending(tree[s], class[s]) = {}

Reading ==
  /\ Sorted
  /\ \A s \in Sides : class[s] # NoClass => Followed(tree[s], class[s])
  /\ step \in {"comparison", "judged", "done"}
  /\ step \in {"judged", "done"} => Settled("comparison")
  /\ step = "done" => Settled("judged")

LEMMA MembersStart ==
  ASSUME NEW t
  PROVE  /\ Starting(t) = Sources(t) \cup (Npm \cap Covered(t, PromotingRoots(t)))
         /\ Npm \cap NamedIn(t) \subseteq Chained(t) \cup Starting(t)
BY DEF Starting, Sources, NamedIn

(* Nothing that is named is lost: then it stands in for nothing.           *)
LEMMA NothingStandsIn ==
  ASSUME NEW t, ~Unplaced(t), NEW S \in SUBSET (Chained(t) \cup Starting(t))
  PROVE  StandIn(t, {}, Named(t, Parsed(t, S))) = {}
<1>1. Named(t, Parsed(t, S)) \subseteq Named(t, Parsed(t, Chained(t) \cup Starting(t)))
  BY TargetsGrow
<1> QED BY <1>1 DEF StandIn, Unplaced

LEMMA NamedTargets ==
  ASSUME NEW t, WellFormed(t), NEW S \in SUBSET (Chained(t) \cup Starting(t))
  PROVE  Targets(t, S) \subseteq Chained(t)
<1>1. Targets(t, S) \subseteq Targets(t, Chained(t) \cup Starting(t))
  BY TargetsGrow
<1>2. Targets(t, Chained(t) \cup Starting(t)) = Targets(t, Chained(t)) \cup Targets(t, Starting(t))
  BY TargetsSplit
<1> QED BY <1>1, <1>2, ChainedCloses

LEMMA RulesFollow ==
  ASSUME NEW t, WellFormed(t), NEW s
  PROVE  Followed(t, Rules(t, s))
<1> DEFINE c == Rules(t, s)
           I == StandIn(t, {}, Named(t, Parsed(t, Sources(t))))
<1>1. /\ c.promoted = ((Outright(t) \cup MemberStandIn(t)) \cup Targets(t, Sources(t))) \cup I
      /\ c.followed = {}
  BY RulesKeep
<1>2. Covered(t, PromotingRoots(t)) \subseteq Outright(t)
  BY DEF Outright
<1>3. Targets(t, {}) = {}
  BY DEF Targets, Named, Parsed, Listed
<1>4. ASSUME ~Unplaced(t) PROVE c.promoted \cap Vendored \subseteq NamedIn(t)
  <2>1. MemberStandIn(t) = {}
    BY <1>4 DEF MemberStandIn, StandIn, Unplaced
  <2>2. Sources(t) \subseteq Chained(t) \cup Starting(t)
    BY MembersStart
  <2>3. I = {} /\ Targets(t, Sources(t)) \subseteq Chained(t)
    BY <1>4, <2>2, NothingStandsIn, NamedTargets
  <2>4. Outright(t) \cap Vendored \subseteq Covered(t, PromotingRoots(t))
    BY DiscoveryConstants DEF Outright, BesideLock
  <2> HIDE DEF c, I
  <2> QED BY <1>1, <2>1, <2>3, <2>4 DEF NamedIn
<1> HIDE DEF c, I
<1> QED BY <1>1, <1>2, <1>3, <1>4 DEF Followed, c

(* A turn follows only what is named, as long as nothing was lost.         *)
LEMMA TurnFollows ==
  ASSUME NEW t, WellFormed(t), NEW s, NEW c \in ClassType, StoodIn(t, c), Followed(t, c)
  PROVE  Followed(t, Turn(t, s, c))
<1> DEFINE N == Pending(t, c)
           I == StandIn(t, {}, Named(t, Parsed(t, N)))
           d == Turn(t, s, c)
<1>1. /\ d.promoted = (c.promoted \cup Targets(t, N)) \cup I
      /\ d.followed = c.followed \cup N
  BY TurnKeeps
<1>2. N \subseteq Npm /\ N \subseteq c.promoted \cap Vendored
  BY PendingIsVendored
<1>3. Targets(t, c.followed \cup N) = Targets(t, c.followed) \cup Targets(t, N)
  BY TargetsSplit
<1>4. ASSUME ~Unplaced(t) PROVE d.promoted \cap Vendored \subseteq NamedIn(t)
  <2>1. N \subseteq Npm \cap NamedIn(t)
    BY <1>2, <1>4 DEF Followed
  <2>2. N \in SUBSET (Chained(t) \cup Starting(t))
    BY <2>1, MembersStart
  <2>3. I = {} /\ Targets(t, N) \subseteq Chained(t)
    BY <1>4, <2>2, NothingStandsIn, NamedTargets
  <2> HIDE DEF N, I, d
  <2> QED BY <1>1, <1>4, <2>3 DEF Followed, NamedIn
<1> HIDE DEF N, I, d
<1> QED BY <1>1, <1>2, <1>3, <1>4 DEF Followed, d

LEMMA ReadingInit == Init => Reading
<1> SUFFICES ASSUME Init PROVE Reading
  OBVIOUS
<1>1. step = "comparison" /\ class = [s \in Sides |-> NoClass]
  BY DEF Init
<1> QED BY <1>1, SortedInit DEF Reading

LEMMA ReadingNext == Reading /\ [Next]_vars => Reading'
<1> SUFFICES ASSUME Reading, [Next]_vars PROVE Reading'
  OBVIOUS
<1>1. Sorted /\ Sorted' /\ class \in [Sides -> ClassType]
  BY SortedNext DEF Reading, Sorted
<1>2. CASE UNCHANGED vars
  BY <1>1, <1>2 DEF vars, Reading, Settled
<1>3. CASE Next
  <2>1. ASSUME NEW s \in Sides, step = s, UNCHANGED <<step, tree>>,
               NEW c, Followed(tree[s], c), class' = [class EXCEPT ![s] = c]
        PROVE  Reading'
    <3>1. /\ s \in {"comparison", "judged"} /\ step' = s
          /\ class'[s] = c /\ \A r \in Sides : r # s => class'[r] = class[r]
      BY <1>1, <2>1 DEF Sides
    <3>2. \A r \in Sides : class'[r] # NoClass => Followed(tree[r], class'[r])
      BY <2>1, <3>1 DEF Reading
    <3>3. s = "judged" => Settled("comparison")'
      BY <2>1, <3>1 DEF Reading, Settled, Sides
    <3> QED BY <1>1, <2>1, <3>1, <3>2, <3>3 DEF Reading
  <2>2. ASSUME NEW s \in Sides, step = s, UNCHANGED <<step, tree>>,
               class' = [class EXCEPT ![s] = Rules(tree[s], s)]
        PROVE  Reading'
    BY <1>1, <2>1, <2>2, RulesFollow DEF Sorted
  <2>3. ASSUME NEW s \in Sides, step = s, class[s] # NoClass, UNCHANGED <<step, tree>>,
               class' = [class EXCEPT ![s] = Turn(tree[s], s, class[s])]
        PROVE  Reading'
    BY <1>1, <2>1, <2>3, TurnFollows DEF Sorted, Reading
  <2>4. ASSUME NEW s \in Sides, step = s, class[s] # NoClass, UNCHANGED <<tree, class>>,
               Pending(tree[s], class[s]) = {},
               step' = IF s = "comparison" THEN "judged" ELSE "done"
        PROVE  Reading'
    BY <1>1, <2>4 DEF Reading, Settled, Sides
  <2> QED BY <1>1, <1>2, <1>3, <2>2, <2>3, <2>4, StepKinds
<1> QED BY <1>2, <1>3

(* When the loop has ended, what was promoted holds the starting files'    *)
(* targets and is closed, so it holds the least such set.                  *)
LEMMA NamedIsRead == Reading => ReadIffNamed
<1> SUFFICES ASSUME Reading, step = "done", NEW s \in Sides
             PROVE  /\ Parsed(tree[s], NamedIn(tree[s])) \subseteq ReadFor(s, Files)
                    /\ ~Unplaced(tree[s]) => ReadFor(s, Files) \cap Vendored \subseteq NamedIn(tree[s])
  BY DEF ReadIffNamed, NamedIn, Unplaced
<1> DEFINE t == tree[s]
           c == class[s]
           S == c.promoted \cap Listed(t, Npm)
<1>1. WellFormed(t) /\ Followed(t, c) /\ Settled(s)
  BY DEF Reading, Sorted, Settled, Sides
<1>2. /\ Pending(t, c) = {}
      /\ Covered(t, PromotingRoots(t)) \cup Targets(t, Sources(t)) \subseteq c.promoted
      /\ Targets(t, c.followed) \subseteq c.promoted
      /\ ~Unplaced(t) => c.promoted \cap Vendored \subseteq NamedIn(t)
  BY <1>1 DEF Settled, Followed
<1>3. S \subseteq Sources(t) \cup c.followed
  BY <1>2 DEF Pending, Sources, Listed
<1>4. Covered(t, PromotingRoots(t)) \subseteq Listed(t, Manifests)
  <2>1. PromotingRoots(t) \subseteq Manifests
    BY DEF PromotingRoots, InstallRoots, Listed, Manifests
  <2> QED BY <1>1, <2>1, CoveredAreListed
<1>5. Starting(t) \subseteq Sources(t) \cup c.followed
  <2>1. Npm \cap Covered(t, PromotingRoots(t)) \subseteq S
    BY <1>2, <1>4 DEF Listed
  <2> QED BY <1>3, <2>1, MembersStart
<1>6. Targets(t, Sources(t) \cup c.followed) \subseteq c.promoted
  BY <1>2, TargetsSplit
<1>7. Chained(t) \subseteq S
  <2>1. S \cap (Npm \cup NpmLocks) = S /\ S \subseteq Npm
    BY DEF Listed
  <2>2. Starting(t) \cap (Npm \cup NpmLocks) = Starting(t)
    BY DEF Starting, Listed
  <2>3. Targets(t, S) \subseteq Listed(t, Npm) /\ Targets(t, Starting(t)) \subseteq Listed(t, Npm)
    BY <1>1, <2>1, <2>2, TargetsAreListed
  <2>4. Targets(t, S) \subseteq c.promoted /\ Targets(t, Starting(t)) \subseteq c.promoted
    BY <1>3, <1>5, <1>6, TargetsGrow
  <2> HIDE DEF t, c
  <2> QED BY <1>1, <2>1, <2>3, <2>4, ChainedCloses
<1>8. NamedIn(t) \subseteq c.promoted \cap Listed(t, Manifests)
  BY <1>2, <1>4, <1>7, KindsDisjoint DEF NamedIn, Listed
<1>9. Parsed(t, NamedIn(t)) \subseteq ReadFor(s, Files)
  BY <1>8, KindsDisjoint DEF ReadFor, Selected, Parsed, Listed
<1>10. ReadFor(s, Files) \cap Vendored \subseteq c.promoted
  BY KindsDisjoint DEF ReadFor, Selected, Parsed, StandsIn, IsRoot
<1> QED BY <1>2, <1>9, <1>10
------------------------------------------------------------------------------
(* SubdirectoryNotWeaker.  The root scan reads by promotion alone, which a *)
(* scan of a directory reads by too.                                       *)
LEMMA RootReads ==
  ASSUME NEW s, NEW m \in ReadFor(s, Files) \cap Prefix
  PROVE  m \in ReadFor(s, Prefix)
BY DEF ReadFor, Parsed, Selected, Listed, StandsIn, IsRoot

(* An input that stops the root scan and that this one looked at is unread *)
(* here.                                                                   *)
LEMMA LookedAtIsUnread ==
  ASSUME NEW s \in Sides, NEW f \in (class[s].failures \cap Stoppers(s, Files)) \ Prefix,
         LookedAt(s, f)
  PROVE  f \in Unread(s, Prefix)
<1> DEFINE t == tree[s]
<1>1. CASE f \in LoadStoppers(s, Files)
  <2>1. \/ t.status[f] = "unreadable"
        \/ t.status[f] = "link" /\ s = "judged"
        \/ f \in NpmLocks /\ FailureKind(t, s, f) = "other"
    BY <1>1 DEF LoadStoppers
  <2>2. CASE t.status[f] = "unreadable"
    <3>1. FailureKind(t, s, f) = "other"
      BY <2>2 DEF FailureKind
    <3> QED BY <3>1 DEF Unread
  <2>3. CASE t.status[f] = "link" /\ s = "judged"
    <3>1. FailureKind(t, s, f) = "symlink"
      BY <2>3 DEF FailureKind
    <3> QED BY <2>3, <3>1 DEF Unread
  <2>4. CASE f \in NpmLocks /\ FailureKind(t, s, f) = "other"
    BY <2>4 DEF Unread
  <2> QED BY <2>1, <2>2, <2>3, <2>4
<1>2. CASE f \in Fatal(s, Files)
  <2>1. t.status[f] \in {"bad", "shape"} /\ f \in Manifests
    BY <1>2 DEF Fatal, ParseFailures, Selected, Listed
  <2>2. FailureKind(t, s, f) = "manifest"
    BY <2>1, KindsDisjoint DEF FailureKind
  <2>3. \/ f \in class[s].positions
        \/ s = "judged" /\ f \in class["comparison"].positions
        \/ f \notin ignored
    BY <1>2 DEF Fatal, Protected, StandsIn, IsRoot
  <2> QED BY <2>2, <2>3 DEF Unread
<1> QED BY <1>1, <1>2 DEF Stoppers

(* One that nobody looked at is read there only as a stand-in, and then    *)
(* every package.json is read here.                                        *)
LEMMA MissedIsStandIn ==
  ASSUME Sorted, NEW s \in Sides,
         NEW f \in (class[s].failures \cap Stoppers(s, Files)) \ Prefix, ~LookedAt(s, f),
         f \notin Unread(s, Prefix)
  PROVE  Listed(tree[s], Npm) \subseteq class[s].promoted
<1>1. f \in Skipped /\ f \notin class[s].positions
  BY DEF LookedAt
<1>2. f \notin NpmLocks
  BY <1>1, KindsDisjoint
<1>3. tree[s].status[f] # "unreadable"
  <2> SUFFICES ASSUME tree[s].status[f] = "unreadable" PROVE FALSE
    OBVIOUS
  <2>1. FailureKind(tree[s], s, f) = "other"
    BY DEF FailureKind
  <2> QED BY <2>1 DEF Unread
<1>4. f \in Selected(s, Files)
  BY <1>1, <1>2, <1>3 DEF Stoppers, LoadStoppers, Fatal, ParseFailures, Listed
<1>5. f \in class[s].promoted
  BY <1>1, <1>4 DEF Selected, StandsIn, IsRoot
<1> QED BY <1>1, <1>5 DEF Sorted, StoodIn

LEMMA DirectoryNotWeaker == Sorted => SubdirectoryNotWeaker
<1> SUFFICES ASSUME Sorted, step = "done", ~Stops(Prefix), NEW s \in Sides
             PROVE  LET missed == (class[s].failures \cap Stoppers(s, Files)) \ Prefix
                        readsAll(files) == Parsed(tree[s], (files \cap Prefix) \ Vendored) \subseteq ReadFor(s, Prefix)
                    IN /\ ~Stops(Files) => ReadFor(s, Files) \cap Prefix \subseteq ReadFor(s, Prefix)
                       /\ missed # {} => readsAll(Npm)
                       /\ (\E f \in missed : LookedAt(s, f)) => readsAll(Manifests)
  BY DEF SubdirectoryNotWeaker
<1> DEFINE missed == (class[s].failures \cap Stoppers(s, Files)) \ Prefix
           readsAll(files) == Parsed(tree[s], (files \cap Prefix) \ Vendored) \subseteq ReadFor(s, Prefix)
<1>1. ReadFor(s, Files) \cap Prefix \subseteq ReadFor(s, Prefix)
  BY RootReads
<1>2. \A m \in Parsed(tree[s], Manifests) : m \in Listed(tree[s], Manifests)
  BY DEF Parsed, Listed
<1>3. ASSUME NEW f \in missed, f \in Unread(s, Prefix) PROVE readsAll(Manifests)
  <2>1. ~IsRoot(Prefix)
    <3>1. f \in Files
      BY DEF Sorted, ClassType
    <3> QED BY <3>1 DEF IsRoot
  <2>2. StandsIn(s, Prefix)
    BY <1>3, <2>1 DEF StandsIn
  <2> QED BY <2>2 DEF ReadFor, Selected, Parsed, Listed
<1>4. ASSUME NEW f \in missed, LookedAt(s, f) PROVE readsAll(Manifests)
  BY <1>3, <1>4, LookedAtIsUnread
<1>5. readsAll(Manifests) => readsAll(Npm)
  BY KindsDisjoint DEF Parsed
<1>6. ASSUME NEW f \in missed PROVE readsAll(Npm)
  <2>1. CASE f \in Unread(s, Prefix)
    BY <1>3, <1>5, <2>1
  <2>2. CASE LookedAt(s, f)
    BY <1>4, <1>5, <2>2
  <2>3. CASE f \notin Unread(s, Prefix) /\ ~LookedAt(s, f)
    <3>1. Listed(tree[s], Npm) \subseteq class[s].promoted
      BY <2>3, MissedIsStandIn
    <3> QED BY <3>1, KindsDisjoint DEF ReadFor, Selected, Parsed, Listed
  <2> QED BY <2>1, <2>2, <2>3
<1> QED BY <1>1, <1>4, <1>6
------------------------------------------------------------------------------
(* A search by levels.  Both walks over the include lines are one: they    *)
(* differ in the files they start from and in whether a link is followed.  *)
IncludeEntry == [to : IncludeFiles \cup {Nowhere}, constraint : BOOLEAN, link : BOOLEAN]
GraphType == [IncludeFiles -> Seq(IncludeEntry)]
Item == [file : Present, constraint : BOOLEAN, depth : 0..MaxDepth]

Beginning(w) == IF w = "classify" THEN Recognised ELSE Scanned
Goes(w, e) == e.to \in Present /\ (e.link => w = "classify")
Follows(G, w, f) == {g \in Present : \E i \in DOMAIN G[f] : Goes(w, G[f][i]) /\ G[f][i].to = g}
Onward(G, w, S) == {g \in Present : \E f \in S : g \in Follows(G, w, f)}

(* L[k] are the files that some chain of at most k lines reaches.          *)
Leveled(G, w, L) ==
  /\ L \in [0..MaxDepth -> SUBSET Present]
  /\ L[0] = Beginning(w)
  /\ \A k \in 0..MaxDepth : k < MaxDepth => L[k + 1] = L[k] \cup Onward(G, w, L[k])

Queued(q, f) == \E i \in 1..Len(q) : q[i].file = f

(* A queued file has its least depth, and the queue is in their order.     *)
Ordered(L, q, K) ==
  \A i \in 1..Len(q) :
    /\ q[i].file \in K /\ q[i].file \in L[q[i].depth]
    /\ \A k \in 0..MaxDepth : q[i].file \in L[k] => q[i].depth <= k
    /\ \A j \in 1..Len(q) : i <= j => q[i].depth <= q[j].depth
    /\ q[i].depth <= q[1].depth + 1

(* T has what the files expanded so far, and the lines taken of the head   *)
(* of the queue, lead to; files at the depth limit apart.                  *)
Taken(G, w, L, q, l, K, T) ==
  /\ \A f \in K : ~Queued(q, f) =>
       \A k \in 0..MaxDepth : k < MaxDepth /\ f \in L[k] => Follows(G, w, f) \subseteq T
  /\ q # <<>> /\ q[1].depth < MaxDepth =>
       \A i \in 1..l : Goes(w, G[q[1].file][i]) => G[q[1].file][i].to \in T

Search(G, w, L, q, l, K) ==
  /\ q \in Seq(Item) /\ l \in Nat
  /\ q = <<>> => l = 0
  /\ q # <<>> => l <= Len(G[q[1].file])
  /\ Beginning(w) \subseteq K /\ K \subseteq L[MaxDepth]
  /\ Ordered(L, q, K)
  /\ Taken(G, w, L, q, l, K, K)

LEMMA IncludeFacts == MaxDepth \in Nat /\ Present \subseteq IncludeFiles /\ Nowhere \notin Present
                    /\ Scanned \subseteq Recognised /\ Recognised \subseteq Present /\ IsFiniteSet(Present)
                    /\ IncludeGraphs \subseteq GraphType
<1>1. /\ Scanned \subseteq Recognised /\ Recognised \subseteq Present /\ Present \subseteq IncludeFiles
      /\ MaxDepth \in Nat /\ Nowhere \notin IncludeFiles
      /\ IncludeGraphs \subseteq GraphType
  BY IncludesAssumption DEF Includes!IncludesConstants, GraphType, IncludeEntry
<1>2. IsFiniteSet(IncludeFiles)
  <2>1. Includes!IsFiniteSet(IncludeFiles)
    BY IncludesAssumption DEF Includes!IncludesConstants
  <2> QED BY <2>1 DEF Includes!IsFiniteSet, IsFiniteSet
<1>3. IsFiniteSet(Present)
  BY <1>1, <1>2, FS_Subset
<1> QED BY <1>1, <1>3

(* A chain of fewer lines is a chain within a greater limit.               *)
LEMMA LevelsRise ==
  ASSUME NEW G, NEW w, NEW L, Leveled(G, w, L),
         NEW j \in 0..MaxDepth, NEW k \in 0..MaxDepth, j <= k
  PROVE  L[j] \subseteq L[k]
<1> DEFINE S == {n \in Nat : j + n <= MaxDepth => L[j] \subseteq L[j + n]}
<1>1. 0 \in S
  BY IncludeFacts
<1>2. ASSUME NEW n \in S PROVE n + 1 \in S
  <2> SUFFICES ASSUME j + (n + 1) <= MaxDepth PROVE L[j] \subseteq L[j + (n + 1)]
    OBVIOUS
  <2>1. j + n \in 0..MaxDepth /\ j + n < MaxDepth /\ j + (n + 1) = (j + n) + 1
    BY IncludeFacts
  <2>2. L[(j + n) + 1] = L[j + n] \cup Onward(G, w, L[j + n])
    BY <2>1 DEF Leveled
  <2> QED BY <2>1, <2>2
<1>3. S = Nat
  <2>1. S \in SUBSET Nat
    OBVIOUS
  <2> HIDE DEF S
  <2> QED BY <1>1, <1>2, <2>1, Induction
<1>4. k - j \in Nat /\ j + (k - j) = k /\ k <= MaxDepth
  BY IncludeFacts
<1>5. k - j \in S
  BY <1>3, <1>4
<1> QED BY <1>4, <1>5

(* What lies above the head of the queue is known.                         *)
LEMMA AboveIsKnown ==
  ASSUME NEW G, NEW w, NEW L, NEW q, NEW l, NEW K, Leveled(G, w, L), Search(G, w, L, q, l, K),
         NEW d \in 0..MaxDepth, \A i \in 1..Len(q) : d <= q[i].depth
  PROVE  L[d] \subseteq K
<1> DEFINE S == {n \in Nat : n <= d => L[n] \subseteq K}
<1>0. d \in Nat
  BY IncludeFacts
<1>1. 0 \in S
  BY DEF Leveled, Search
<1>2. ASSUME NEW n \in S PROVE n + 1 \in S
  <2> SUFFICES ASSUME n + 1 <= d PROVE L[n + 1] \subseteq K
    OBVIOUS
  <2>1. n \in 0..MaxDepth /\ n < MaxDepth /\ L[n] \subseteq K
    BY IncludeFacts
  <2>2. L[n + 1] = L[n] \cup Onward(G, w, L[n])
    BY <2>1 DEF Leveled
  <2>3. ASSUME NEW f \in L[n] PROVE Follows(G, w, f) \subseteq K
    <3>1. ASSUME NEW i \in 1..Len(q), q[i].file = f PROVE FALSE
      <4>1. q[i].depth <= n
        BY <2>1, <2>3, <3>1 DEF Search, Ordered
      <4>2. q[i].depth \in 0..MaxDepth
        <5>1. q \in Seq(Item)
          BY DEF Search
        <5>2. q[i] \in Item
          BY <5>1, ElementOfSeq
        <5> QED BY <5>2 DEF Item
      <4> QED BY <1>0, <4>1, <4>2, IncludeFacts
    <3> QED BY <2>1, <2>3, <3>1 DEF Search, Taken, Queued
  <2> QED BY <2>1, <2>2, <2>3 DEF Onward
<1>3. S = Nat
  <2>1. S \in SUBSET Nat
    OBVIOUS
  <2> HIDE DEF S
  <2> QED BY <1>1, <1>2, <2>1, Induction
<1> QED BY <1>0, <1>3

(* When the queue is empty, the search has found what is within the limit. *)
LEMMA SearchEnds ==
  ASSUME NEW G, NEW w, NEW L, NEW l, NEW K, Leveled(G, w, L), Search(G, w, L, <<>>, l, K)
  PROVE  K = L[MaxDepth]
<1>1. L[MaxDepth] \subseteq K
  BY AboveIsKnown, IncludeFacts
<1> QED BY <1>1 DEF Search

LEMMA QueueOf ==
  ASSUME NEW q \in Seq(Item), q # <<>>
  PROVE  /\ Head(q) = q[1] /\ q[1] \in Item /\ Len(q) \in Nat /\ 1 <= Len(q)
         /\ \A i \in 1..Len(q) : q[i] \in Item
<1>1. \A i \in 1..Len(q) : q[i] \in Item
  BY ElementOfSeq
<1>2. Len(q) \in Nat /\ Len(q) # 0
  BY EmptySeq, LenProperties
<1> QED BY <1>1, <1>2

(* One more line of the head is taken, and nothing or one file is queued.  *)
LEMMA TakenMore ==
  ASSUME NEW G \in GraphType, NEW w, NEW L, NEW q \in Seq(Item), q # <<>>, NEW l \in Nat, NEW K, NEW T,
         Taken(G, w, L, q, l, K, T),
         NEW p \in Seq(Item), Len(q) <= Len(p), \A i \in 1..Len(q) : p[i] = q[i],
         NEW M, \A f \in M : f \in K \/ Queued(p, f), NEW U, T \subseteq U,
         q[1].depth < MaxDepth /\ Goes(w, G[q[1].file][l + 1]) => G[q[1].file][l + 1].to \in U
  PROVE  Taken(G, w, L, p, l + 1, M, U)
<1>1. Len(q) \in Nat /\ 1 \in 1..Len(q) /\ Len(p) \in Nat
  BY QueueOf, LenProperties
<1>2. p[1] = q[1] /\ \A f : Queued(q, f) => Queued(p, f)
  <2>1. 1..Len(q) \subseteq 1..Len(p)
    BY <1>1
  <2> QED BY <1>1, <2>1 DEF Queued
<1>3. ASSUME NEW f \in M, ~Queued(p, f), NEW k \in 0..MaxDepth, k < MaxDepth /\ f \in L[k]
      PROVE  Follows(G, w, f) \subseteq U
  BY <1>2, <1>3 DEF Taken
<1>4. ASSUME p[1].depth < MaxDepth, NEW i \in 1..l + 1, Goes(w, G[p[1].file][i])
      PROVE  G[p[1].file][i].to \in U
  <2>1. CASE i = l + 1
    BY <1>2, <1>4, <2>1
  <2>2. CASE i \in 1..l
    BY <1>2, <1>4, <2>2 DEF Taken
  <2> QED BY <2>1, <2>2
<1> QED BY <1>3, <1>4 DEF Taken

(* Only the head leaves the queue.                                         *)
LEMMA OnlyTheHeadLeaves ==
  ASSUME NEW q \in Seq(Item), q # <<>>, NEW f, Queued(q, f), ~Queued(Tail(q), f)
  PROVE  f = q[1].file
<1>1. /\ Len(q) \in Nat /\ 1 <= Len(q)
      /\ Len(Tail(q)) = Len(q) - 1 /\ \A i \in 1..Len(Tail(q)) : Tail(q)[i] = q[i + 1]
  BY QueueOf, HeadTailProperties
<1>2. PICK i \in 1..Len(q) : q[i].file = f
  BY DEF Queued
<1>3. CASE i # 1
  <2>1. i - 1 \in 1..Len(Tail(q)) /\ (i - 1) + 1 = i
    BY <1>1, <1>3
  <2>2. Tail(q)[i - 1] = q[i]
    BY <1>1, <2>1
  <2> QED BY <1>2, <2>1, <2>2 DEF Queued
<1> QED BY <1>2, <1>3

(* The head has no more lines.                                             *)
LEMMA TakenDrops ==
  ASSUME NEW G \in GraphType, NEW w, NEW L, NEW q \in Seq(Item), q # <<>>, NEW K, NEW T,
         Ordered(L, q, K), Taken(G, w, L, q, Len(G[q[1].file]), K, T)
  PROVE  Taken(G, w, L, Tail(q), 0, K, T)
<1>1. /\ q[1] \in Item /\ Len(q) \in Nat /\ 1 <= Len(q)
      /\ Len(Tail(q)) = Len(q) - 1 /\ \A i \in 1..Len(Tail(q)) : Tail(q)[i] = q[i + 1]
  BY QueueOf, HeadTailProperties
<1>3. ASSUME NEW f \in K, ~Queued(Tail(q), f), NEW k \in 0..MaxDepth, k < MaxDepth, f \in L[k]
      PROVE  Follows(G, w, f) \subseteq T
  <2>1. CASE ~Queued(q, f)
    BY <1>3, <2>1 DEF Taken
  <2>2. CASE Queued(q, f)
    <3>1. f = q[1].file
      BY <1>3, <2>2, OnlyTheHeadLeaves
    <3>2. q[1].depth <= k
      BY <1>1, <1>3, <3>1 DEF Ordered
    <3>3. q[1].depth < MaxDepth
      BY <1>1, <1>3, <3>2, IncludeFacts DEF Item
    <3>4. f \in IncludeFiles
      BY <1>1, <3>1, IncludeFacts DEF Item
    <3>5. G[f] \in Seq(IncludeEntry)
      BY <3>4 DEF GraphType
    <3>6. DOMAIN G[f] = 1..Len(G[f])
      BY <3>5, LenProperties
    <3> QED BY <3>1, <3>3, <3>6 DEF Taken, Follows
  <2> QED BY <2>1, <2>2
<1>4. Tail(q) # <<>> /\ Tail(q)[1].depth < MaxDepth =>
        \A i \in 1..0 : Goes(w, G[Tail(q)[1].file][i]) => G[Tail(q)[1].file][i].to \in T
  OBVIOUS
<1> QED BY <1>3, <1>4 DEF Taken

LEMMA SearchSkips ==
  ASSUME NEW G \in GraphType, NEW w, NEW L, NEW q, NEW l, NEW K, Search(G, w, L, q, l, K), q # <<>>,
         l < Len(G[q[1].file]),
         q[1].depth < MaxDepth /\ Goes(w, G[q[1].file][l + 1]) => G[q[1].file][l + 1].to \in K
  PROVE  Search(G, w, L, q, l + 1, K)
<1>1. q \in Seq(Item) /\ l \in Nat /\ Taken(G, w, L, q, l, K, K)
  BY DEF Search
<1>2. Len(G[q[1].file]) \in Nat
  <2>1. q[1].file \in IncludeFiles
    BY <1>1, QueueOf, IncludeFacts DEF Item
  <2> QED BY <2>1, LenProperties DEF GraphType
<1>3. Len(q) \in Nat
  BY <1>1, LenProperties
<1>4. Taken(G, w, L, q, l + 1, K, K)
  BY <1>1, <1>3, TakenMore
<1> QED BY <1>2, <1>4 DEF Search

(* A file that is new is queued with its least depth: every file of a      *)
(* lesser one is known already.                                            *)
LEMMA SearchAdds ==
  ASSUME NEW G \in GraphType, NEW w, NEW L, NEW q, NEW l, NEW K,
         Leveled(G, w, L), Search(G, w, L, q, l, K), q # <<>>,
         l < Len(G[q[1].file]), q[1].depth < MaxDepth,
         NEW g, g = G[q[1].file][l + 1].to, Goes(w, G[q[1].file][l + 1]), g \notin K,
         NEW c \in BOOLEAN
  PROVE  Search(G, w, L, Append(q, [file |-> g, constraint |-> c, depth |-> q[1].depth + 1]), l + 1, K \cup {g})
<1> DEFINE d == q[1].depth
           e == [file |-> g, constraint |-> c, depth |-> d + 1]
           p == Append(q, e)
           n == Len(q)
<1>1. /\ q \in Seq(Item) /\ l \in Nat /\ Taken(G, w, L, q, l, K, K) /\ Ordered(L, q, K)
      /\ Beginning(w) \subseteq K /\ K \subseteq L[MaxDepth]
  BY DEF Search
<1>2. /\ q[1] \in Item /\ n \in Nat /\ 1 <= n /\ 1 \in 1..n /\ \A i \in 1..n : q[i] \in Item
  BY <1>1, QueueOf
<1>3. g \in Present /\ d \in 0..MaxDepth /\ d + 1 \in 0..MaxDepth /\ d \in Nat
  BY <1>2, IncludeFacts DEF Goes, Item
<1>4. e \in Item
  BY <1>3 DEF Item
<1>5. /\ p \in Seq(Item) /\ Len(p) = n + 1 /\ p # <<>>
      /\ p[n + 1] = e /\ \A i \in 1..n : p[i] = q[i]
  BY <1>1, <1>2, <1>4
<1>6. Len(G[q[1].file]) \in Nat /\ DOMAIN G[q[1].file] = 1..Len(G[q[1].file])
  <2>1. q[1].file \in IncludeFiles
    BY <1>2, IncludeFacts DEF Item
  <2>2. G[q[1].file] \in Seq(IncludeEntry)
    BY <2>1 DEF GraphType
  <2> QED BY <2>2, LenProperties
<1>7. g \in L[d + 1]
  <2>1. L[d + 1] = L[d] \cup Onward(G, w, L[d])
    BY <1>3 DEF Leveled
  <2>2. l + 1 \in DOMAIN G[q[1].file]
    BY <1>1, <1>6
  <2>3. q[1].file \in L[d] /\ g \in Follows(G, w, q[1].file)
    BY <1>1, <1>2, <1>3, <2>2 DEF Ordered, Follows
  <2> QED BY <1>3, <2>1, <2>3 DEF Onward
<1>8. \A k \in 0..MaxDepth : g \in L[k] => d + 1 <= k
  <2> SUFFICES ASSUME NEW k \in 0..MaxDepth, g \in L[k], ~(d + 1 <= k) PROVE FALSE
    OBVIOUS
  <2>1. k <= d
    BY <1>3
  <2>2. L[k] \subseteq L[d]
    BY <1>3, <2>1, LevelsRise
  <2>3. \A i \in 1..n : d <= q[i].depth
    BY <1>1, <1>2 DEF Ordered
  <2>4. L[d] \subseteq K
    BY <1>3, <2>3, AboveIsKnown
  <2> QED BY <2>2, <2>4
<1>9. g \in L[MaxDepth]
  BY <1>3, <1>7, LevelsRise, IncludeFacts
<1>10. Ordered(L, p, K \cup {g})
  <2>1. \A i \in 1..n : q[i].depth \in Nat
    BY <1>2, IncludeFacts DEF Item
  <2>2. ASSUME NEW i \in 1..n
        PROVE  /\ p[i].file \in K \cup {g} /\ p[i].file \in L[p[i].depth]
               /\ \A k \in 0..MaxDepth : p[i].file \in L[k] => p[i].depth <= k
               /\ \A j \in 1..n : i <= j => p[i].depth <= p[j].depth
               /\ p[i].depth <= p[n + 1].depth
               /\ p[i].depth <= p[1].depth + 1
    BY <1>1, <1>2, <1>5, <2>2 DEF Ordered
  <2>3. /\ p[n + 1].file = g /\ p[n + 1].depth = d + 1 /\ p[1].depth = d
    BY <1>2, <1>5
  <2> HIDE DEF p, e, n
  <2>4. \A i \in 1..n + 1 : i = n + 1 \/ i \in 1..n
    BY <1>2
  <2>5. ASSUME NEW i \in 1..n + 1
        PROVE  /\ p[i].file \in K \cup {g} /\ p[i].file \in L[p[i].depth]
               /\ \A k \in 0..MaxDepth : p[i].file \in L[k] => p[i].depth <= k
               /\ \A j \in 1..n + 1 : i <= j => p[i].depth <= p[j].depth
               /\ p[i].depth <= p[1].depth + 1
    <3>1. CASE i \in 1..n
      BY <2>2, <2>4, <3>1
    <3>2. CASE i = n + 1
      <4>1. \A j \in 1..n + 1 : i <= j => j = i
        BY <1>2, <3>2
      <4> QED BY <1>3, <1>7, <1>8, <2>3, <3>2, <4>1
    <3> QED BY <2>4, <3>1, <3>2
  <2> QED BY <1>5, <2>5 DEF Ordered
<1>11. Taken(G, w, L, p, l + 1, K \cup {g}, K \cup {g})
  <2>1. \A f \in K \cup {g} : f \in K \/ Queued(p, f)
    <3>1. n + 1 \in 1..Len(p) /\ p[n + 1].file = g
      BY <1>2, <1>5
    <3> QED BY <3>1 DEF Queued
  <2>2. Len(q) <= Len(p)
    BY <1>2, <1>5
  <2> HIDE DEF p, e
  <2> QED BY <1>1, <1>5, <2>1, <2>2, TakenMore
<1>12. p[1] = q[1] /\ l + 1 \in Nat /\ l + 1 <= Len(G[q[1].file])
  BY <1>1, <1>2, <1>5, <1>6
<1> HIDE DEF p, d, n
<1> QED BY <1>1, <1>5, <1>9, <1>10, <1>11, <1>12 DEF Search, p, d

(* An expanded file has led to all it can.                                 *)
LEMMA SearchDrops ==
  ASSUME NEW G \in GraphType, NEW w, NEW L, NEW q, NEW l, NEW K, Search(G, w, L, q, l, K), q # <<>>,
         ~(l < Len(G[q[1].file]))
  PROVE  /\ l = Len(G[q[1].file])
         /\ Search(G, w, L, Tail(q), 0, K)
<1>1. /\ q \in Seq(Item) /\ l \in Nat /\ Taken(G, w, L, q, l, K, K) /\ Ordered(L, q, K)
      /\ l <= Len(G[q[1].file])
  BY DEF Search
<1>2. /\ q[1] \in Item /\ Len(q) \in Nat /\ 1 <= Len(q)
      /\ Tail(q) \in Seq(Item) /\ \A i \in 1..Len(q) : q[i] \in Item
      /\ Len(Tail(q)) = Len(q) - 1 /\ \A i \in 1..Len(Tail(q)) : Tail(q)[i] = q[i + 1]
  BY <1>1, QueueOf, HeadTailProperties
<1>3. Len(G[q[1].file]) \in Nat
  <2>1. q[1].file \in IncludeFiles
    BY <1>2, IncludeFacts DEF Item
  <2> QED BY <2>1, LenProperties DEF GraphType
<1>4. l = Len(G[q[1].file])
  BY <1>1, <1>3
<1>5. Taken(G, w, L, Tail(q), 0, K, K)
  BY <1>1, <1>4, TakenDrops
<1>6. Ordered(L, Tail(q), K)
  <2> SUFFICES ASSUME NEW i \in 1..Len(Tail(q))
               PROVE  /\ Tail(q)[i].file \in K /\ Tail(q)[i].file \in L[Tail(q)[i].depth]
                      /\ \A k \in 0..MaxDepth : Tail(q)[i].file \in L[k] => Tail(q)[i].depth <= k
                      /\ \A j \in 1..Len(Tail(q)) : i <= j => Tail(q)[i].depth <= Tail(q)[j].depth
                      /\ Tail(q)[i].depth <= Tail(q)[1].depth + 1
    BY DEF Ordered
  <2>1. /\ i + 1 \in 1..Len(q) /\ 1 \in 1..Len(q) /\ 2 \in 1..Len(q) /\ 1 \in 1..Len(Tail(q))
        /\ Tail(q)[i] = q[i + 1] /\ Tail(q)[1] = q[2]
    BY <1>2
  <2>2. \A j \in 1..Len(Tail(q)) : i <= j => j + 1 \in 1..Len(q) /\ i + 1 <= j + 1 /\ Tail(q)[j] = q[j + 1]
    BY <1>2
  <2>3. q[1].depth <= q[2].depth /\ q[i + 1].depth <= q[1].depth + 1
    BY <1>1, <2>1 DEF Ordered
  <2>4. q[1].depth \in Nat /\ q[2].depth \in Nat /\ q[i + 1].depth \in Nat
    BY <1>2, <2>1, IncludeFacts DEF Item
  <2>5. q[i + 1].depth <= q[2].depth + 1
    BY <2>3, <2>4
  <2>6. /\ q[i + 1].file \in K /\ q[i + 1].file \in L[q[i + 1].depth]
        /\ \A k \in 0..MaxDepth : q[i + 1].file \in L[k] => q[i + 1].depth <= k
        /\ \A j \in 1..Len(q) : i + 1 <= j => q[i + 1].depth <= q[j].depth
    BY <1>1, <2>1 DEF Ordered
  <2> QED BY <2>1, <2>2, <2>5, <2>6
<1>7. Tail(q) # <<>> => 0 <= Len(G[Tail(q)[1].file])
  <2> SUFFICES ASSUME Tail(q) # <<>> PROVE 0 <= Len(G[Tail(q)[1].file])
    OBVIOUS
  <2>1. Tail(q)[1].file \in IncludeFiles
    BY <1>2, QueueOf, IncludeFacts DEF Item
  <2>2. G[Tail(q)[1].file] \in Seq(IncludeEntry)
    BY <2>1 DEF GraphType
  <2>3. Len(G[Tail(q)[1].file]) \in Nat
    BY <2>2, LenProperties
  <2> QED BY <2>3
<1> QED BY <1>2, <1>4, <1>5, <1>6, <1>7 DEF Search

(* The queue a walk starts with.                                           *)
LEMMA StartsHold ==
  ASSUME NEW S \in SUBSET Present
  PROVE  /\ Includes!Starts(S) \in Seq(Item)
         /\ \A i \in 1..Len(Includes!Starts(S)) :
              Includes!Starts(S)[i].file \in S /\ Includes!Starts(S)[i].depth = 0
         /\ \A f \in S : Queued(Includes!Starts(S), f)
<1> DEFINE n == Cardinality(S)
           s == SetToSeq(S)
<1>1. IsFiniteSet(S) /\ n \in Nat /\ ExistsBijection(1..n, S)
  BY IncludeFacts, FS_Subset, FS_CardinalityType
<1>2. s \in [1..n -> S] /\ s \in Injection(1..n, S)
  <2>1. \E f \in [1..n -> S] : IsInjective(f)
    BY <1>1 DEF ExistsBijection, Bijection, Injection
  <2>2. s \in [1..n -> S] /\ IsInjective(s)
    BY <2>1 DEF SetToSeq
  <2> QED BY <2>2 DEF Injection
<1>3. s \in Surjection(1..n, S)
  <2>1. Cardinality(1..n) = n
    BY <1>1, FS_Interval
  <2> QED BY <1>1, <1>2, <2>1, FS_Injection
<1>4. Includes!SetToSeq(S) = s
  BY DEF SetToSeq, Includes!SetToSeq, Includes!IsInjective, IsInjective, Includes!Cardinality, Cardinality
<1> HIDE DEF s, n
<1>5. Includes!Starts(S) = [i \in 1..n |-> [file |-> s[i], constraint |-> FALSE, depth |-> 0]]
  BY <1>2, <1>4 DEF Includes!Starts
<1>6. \A i \in 1..n : s[i] \in S /\ s[i] \in Present
  BY <1>2
<1>7. \A i \in 1..n : [file |-> s[i], constraint |-> FALSE, depth |-> 0] \in Item
  BY <1>6, IncludeFacts DEF Item
<1>8. Includes!Starts(S) \in Seq(Item) /\ Len(Includes!Starts(S)) = n
  BY <1>1, <1>5, <1>7
<1>9. \A f \in S : \E i \in 1..n : s[i] = f
  BY <1>3 DEF Surjection
<1>10. \A i \in 1..n : Includes!Starts(S)[i].file = s[i] /\ Includes!Starts(S)[i].depth = 0
  BY <1>5
<1> QED BY <1>6, <1>8, <1>9, <1>10 DEF Queued

(* A walk begins with level 0, all of it queued.                           *)
LEMMA SearchStarts ==
  ASSUME NEW G \in GraphType, NEW w \in {"classify", "load"}, NEW L, Leveled(G, w, L), NEW T
  PROVE  /\ Search(G, w, L, Includes!Starts(Beginning(w)), 0, Beginning(w))
         /\ Taken(G, w, L, Includes!Starts(Beginning(w)), 0, Beginning(w), T)
<1> DEFINE S == Beginning(w)
           q == Includes!Starts(S)
<1>1. S \in SUBSET Present
  BY IncludeFacts DEF Beginning
<1>2. /\ q \in Seq(Item) /\ \A i \in 1..Len(q) : q[i].file \in S /\ q[i].depth = 0
      /\ \A f \in S : Queued(q, f)
  BY <1>1, StartsHold
<1>3. L[0] = S /\ S \subseteq L[MaxDepth]
  <2>1. L[0] = S
    BY DEF Leveled
  <2>2. 0 \in 0..MaxDepth /\ MaxDepth \in 0..MaxDepth /\ 0 <= MaxDepth
    BY IncludeFacts
  <2>3. L[0] \subseteq L[MaxDepth]
    BY <2>2, LevelsRise
  <2> QED BY <2>1, <2>3
<1> HIDE DEF q
<1>4. \A U : Taken(G, w, L, q, 0, S, U)
  BY <1>2 DEF Taken
<1>5. Ordered(L, q, S)
  <2>1. \A i \in 1..Len(q) : i \in 1..Len(q) => 1 \in 1..Len(q)
    BY <1>2, LenProperties
  <2> QED BY <1>2, <1>3, <2>1 DEF Ordered
<1>6. q # <<>> => 0 <= Len(G[q[1].file])
  <2> SUFFICES ASSUME q # <<>> PROVE 0 <= Len(G[q[1].file])
    OBVIOUS
  <2>1. q[1].file \in IncludeFiles
    BY <1>2, QueueOf, IncludeFacts DEF Item
  <2>2. G[q[1].file] \in Seq(IncludeEntry)
    BY <2>1 DEF GraphType
  <2>3. Len(G[q[1].file]) \in Nat
    BY <2>2, LenProperties
  <2> QED BY <2>3
<1> QED BY <1>2, <1>3, <1>4, <1>5, <1>6 DEF Search, q

Level(G, w) == CHOOSE L \in [0..MaxDepth -> SUBSET Present] : Leveled(G, w, L)

LEMMA LevelsExist ==
  ASSUME NEW G, NEW w \in {"classify", "load"}
  PROVE  Leveled(G, w, Level(G, w))
<1> DEFINE D == SUBSET Present
           a == Beginning(w)
           f == [S \in D |-> S \cup Onward(G, w, S)]
<1>1. a \in D /\ f \in [D -> D] /\ MaxDepth \in Nat
  BY IncludeFacts DEF Beginning, Onward
<1>2. PICK g \in [0..MaxDepth -> D] : Iterates(g, a, f, MaxDepth)
  <2> HIDE DEF D, a, f
  <2>1. \E g \in [0..MaxDepth -> D] : Iterates(g, a, f, MaxDepth)
    BY <1>1, Iteration
  <2> QED BY <2>1
<1>3. \A S \in D : f[S] = S \cup Onward(G, w, S)
  OBVIOUS
<1>4. ASSUME NEW k \in 0..MaxDepth, k < MaxDepth PROVE g[k + 1] = g[k] \cup Onward(G, w, g[k])
  <2>1. k + 1 \in 1..MaxDepth /\ (k + 1) - 1 = k
    BY <1>1, <1>4
  <2> HIDE DEF f, a
  <2>2. g[k + 1] = f[g[(k + 1) - 1]]
    BY <1>2, <2>1 DEF Iterates
  <2>3. g[k + 1] = f[g[k]]
    BY <2>1, <2>2
  <2>4. g[k] \in D
    OBVIOUS
  <2> QED BY <1>3, <2>3, <2>4
<1>5. Leveled(G, w, g)
  BY <1>2, <1>4 DEF Leveled, Iterates
<1> QED BY <1>5 DEF Level

(* What the property says is within the limit is the last level.           *)
LEMMA WithinIsLevel == Includes!Within(FALSE) = Level(graph, "load")[MaxDepth]
<1> DEFINE n == MaxDepth
           g == Level(graph, "load")
           Step(S) == S \cup {f \in Present : \E h \in S : \E i \in DOMAIN graph[h] :
                                /\ graph[h][i].to = f /\ ~graph[h][i].link
                                /\ FALSE => ~graph[h][i].constraint}
<1>1. /\ g \in [0..n -> SUBSET Present] /\ g[0] = Scanned
      /\ \A k \in 0..n : k < n => g[k + 1] = g[k] \cup Onward(graph, "load", g[k])
  BY LevelsExist DEF Leveled, Beginning
<1>2. n \in Nat
  BY IncludeFacts
<1>3. \A S : S \cup Onward(graph, "load", S) = Step(S)
  BY DEF Onward, Follows, Goes
<1> HIDE DEF g, n, Step
<1>4. \A k \in 1..n : k - 1 \in 0..n /\ k - 1 < n /\ (k - 1) + 1 = k
  BY <1>2
<1>5. \A k \in 1..n : g[k] = Step(g[k - 1])
  <2> SUFFICES ASSUME NEW k \in 1..n PROVE g[k] = Step(g[k - 1])
    OBVIOUS
  <2>1. g[(k - 1) + 1] = g[k - 1] \cup Onward(graph, "load", g[k - 1])
    BY <1>1, <1>4
  <2> QED BY <1>3, <1>4, <2>1
<1>6. g = [k \in 0..n |-> IF k = 0 THEN Scanned ELSE Step(g[k - 1])]
  <2>1. \A k \in 0..n : k = 0 \/ k \in 1..n
    BY <1>2
  <2> QED BY <1>1, <1>5, <2>1
<1> DEFINE at[k \in 0..n] == IF k = 0 THEN Scanned ELSE Step(at[k - 1])
<1>7. at = [k \in 0..n |-> IF k = 0 THEN Scanned ELSE Step(at[k - 1])]
  BY <1>6
<1>8. Includes!Within(FALSE) = at[n]
  BY DEF Includes!Within, Step, n
<1>9. \A k \in 0..n : at[k] = IF k = 0 THEN Scanned ELSE Step(at[k - 1])
  <2> HIDE DEF at
  <2> QED BY <1>7
<1> HIDE DEF at
<1>10. \A k \in 0..n : at[k] = g[k]
  <2> DEFINE S == {k \in Nat : k <= n => at[k] = g[k]}
  <2>1. 0 \in S
    <3>1. 0 \in 0..n
      BY <1>2
    <3>2. at[0] = Scanned
      BY <1>9, <3>1
    <3> QED BY <1>1, <3>2
  <2>2. ASSUME NEW k \in S PROVE k + 1 \in S
    <3> SUFFICES ASSUME k + 1 <= n PROVE at[k + 1] = g[k + 1]
      OBVIOUS
    <3>1. k \in Nat /\ k + 1 \in 1..n /\ k + 1 \in 0..n /\ (k + 1) - 1 = k /\ k + 1 # 0 /\ at[k] = g[k]
      BY <1>2
    <3>2. at[k + 1] = Step(at[(k + 1) - 1])
      BY <1>9, <3>1
    <3>3. g[k + 1] = Step(g[(k + 1) - 1])
      BY <1>5, <3>1
    <3> QED BY <3>1, <3>2, <3>3
  <2>3. S = Nat
    <3>1. S \in SUBSET Nat
      OBVIOUS
    <3> HIDE DEF S
    <3> QED BY <2>1, <2>2, <3>1, Induction
  <2> QED BY <1>2, <2>3
<1>11. Includes!Within(FALSE) = g[n]
  <2>1. n \in 0..n /\ at[n] = g[n]
    BY <1>2, <1>10
  <2> QED BY <1>8, <2>1
<1> QED BY <1>11 DEF g, n

LEMMA FirstOfMore ==
  ASSUME NEW R, NEW a, NEW b
  PROVE  /\ {r[1] : r \in R \cup {<<a, b>>}} = {r[1] : r \in R} \cup {a}
         /\ {r[1] : r \in R \X {b}} = R
<1> DEFINE F(S) == {r[1] : r \in S}
<1>1. \A S, x : x \in F(S) <=> \E r \in S : r[1] = x
  OBVIOUS
<1> HIDE DEF F
<1>2. F(R \cup {<<a, b>>}) = F(R) \cup {a}
  <2>1. ASSUME NEW x PROVE x \in F(R \cup {<<a, b>>}) <=> x \in F(R) \/ x = a
    <3>0. x \in F(R \cup {<<a, b>>}) <=> \E r \in R \cup {<<a, b>>} : r[1] = x
      BY <1>1
    <3>1. x \in F(R \cup {<<a, b>>}) <=> (\E r \in R : r[1] = x) \/ <<a, b>>[1] = x
      BY <3>0
    <3>2. x \in F(R) <=> \E r \in R : r[1] = x
      BY <1>1
    <3>3. <<a, b>>[1] = a
      OBVIOUS
    <3> QED BY <3>1, <3>2, <3>3
  <2> QED BY <2>1
<1>3. ASSUME NEW x PROVE x \in F(R \X {b}) <=> x \in R
  <2>1. CASE x \in R
    <3>1. <<x, b>> \in R \X {b} /\ <<x, b>>[1] = x
      BY <2>1
    <3> QED BY <1>1, <2>1, <3>1
  <2>2. CASE x \in F(R \X {b})
    <3>1. PICK r \in R \X {b} : r[1] = x
      BY <1>1, <2>2
    <3> QED BY <2>2, <3>1
  <2> QED BY <2>1, <2>2
<1>4. F(R \X {b}) = R
  BY <1>3
<1> QED BY <1>2, <1>4 DEF F

(* The lines of the files read: each leads to a file that is read, or is   *)
(* counted.                                                                *)
Accounted(G, f, i, K, N) == (~G[f][i].link /\ G[f][i].to \in K) \/ <<f, i>> \in N

Counted(G, q, l, K, N) ==
  /\ \A f \in K : ~Queued(q, f) => \A i \in DOMAIN G[f] : Accounted(G, f, i, K, N)
  /\ q # <<>> => \A i \in 1..l : Accounted(G, q[1].file, i, K, N)

LEMMA CountedMore ==
  ASSUME NEW G, NEW q \in Seq(Item), q # <<>>, NEW l \in Nat, NEW K, NEW N, Counted(G, q, l, K, N),
         NEW p \in Seq(Item), Len(q) <= Len(p), \A i \in 1..Len(q) : p[i] = q[i],
         NEW J, K \subseteq J, \A f \in J : f \in K \/ Queued(p, f), NEW M, N \subseteq M,
         Accounted(G, q[1].file, l + 1, J, M)
  PROVE  Counted(G, p, l + 1, J, M)
<1>1. Len(q) \in Nat /\ 1 \in 1..Len(q) /\ Len(p) \in Nat
  BY QueueOf, LenProperties
<1>2. p[1] = q[1] /\ \A f : Queued(q, f) => Queued(p, f)
  <2>1. 1..Len(q) \subseteq 1..Len(p)
    BY <1>1
  <2> QED BY <1>1, <2>1 DEF Queued
<1>3. \A f, i : Accounted(G, f, i, K, N) => Accounted(G, f, i, J, M)
  BY DEF Accounted
<1>4. ASSUME NEW f \in J, ~Queued(p, f), NEW i \in DOMAIN G[f] PROVE Accounted(G, f, i, J, M)
  BY <1>2, <1>3, <1>4 DEF Counted
<1>5. ASSUME NEW i \in 1..l + 1 PROVE Accounted(G, p[1].file, i, J, M)
  <2>1. CASE i = l + 1
    BY <1>2, <2>1
  <2>2. CASE i \in 1..l
    BY <1>2, <1>3, <2>2 DEF Counted
  <2> QED BY <2>1, <2>2
<1> QED BY <1>4, <1>5 DEF Counted

LEMMA CountedDrops ==
  ASSUME NEW G \in GraphType, NEW q \in Seq(Item), q # <<>>, NEW K, NEW N,
         Counted(G, q, Len(G[q[1].file]), K, N)
  PROVE  Counted(G, Tail(q), 0, K, N)
<1>1. ASSUME NEW f \in K, ~Queued(Tail(q), f), NEW i \in DOMAIN G[f] PROVE Accounted(G, f, i, K, N)
  <2>1. CASE ~Queued(q, f)
    BY <1>1, <2>1 DEF Counted
  <2>2. CASE Queued(q, f)
    <3>1. f = q[1].file
      BY <1>1, <2>2, OnlyTheHeadLeaves
    <3>2. f \in IncludeFiles
      BY <3>1, QueueOf, IncludeFacts DEF Item
    <3>3. G[f] \in Seq(IncludeEntry)
      BY <3>2 DEF GraphType
    <3>4. DOMAIN G[f] = 1..Len(G[f])
      BY <3>3, LenProperties
    <3> QED BY <1>1, <3>1, <3>4 DEF Counted
  <2> QED BY <2>1, <2>2
<1>2. \A i \in 1..0 : FALSE
  OBVIOUS
<1> QED BY <1>1, <1>2 DEF Counted

(* What classifying records: all that a file within the limit leads to.    *)
Classified(G, F) ==
  \A k \in 0..MaxDepth : k < MaxDepth =>
    \A f \in Level(G, "classify")[k] : Follows(G, "classify", f) \subseteq F

Including ==
  /\ graph \in GraphType
  /\ walk \in {"classify", "load", "done"}
  /\ walk # "done" => Search(graph, walk, Level(graph, walk), queue, line, known)
  /\ walk = "classify" => Taken(graph, "classify", Level(graph, "classify"), queue, line, known, found)
  /\ walk # "classify" =>
       /\ Classified(graph, found)
       /\ Includes!ReadFiles = known
       /\ Counted(graph, queue, line, known, noted)
  /\ walk = "done" => queue = <<>> /\ known = Level(graph, "load")[MaxDepth]

LEMMA IncludingInit == Includes!Init => Including
<1> SUFFICES ASSUME Includes!Init PROVE Including
  OBVIOUS
<1>1. /\ graph \in GraphType /\ walk = "classify" /\ queue = Includes!Starts(Recognised)
      /\ line = 0 /\ known = Recognised /\ found = {}
  BY IncludeFacts DEF Includes!Init
<1>2. Leveled(graph, "classify", Level(graph, "classify")) /\ Beginning("classify") = Recognised
  BY LevelsExist DEF Beginning
<1>3. /\ Search(graph, "classify", Level(graph, "classify"), queue, line, known)
      /\ Taken(graph, "classify", Level(graph, "classify"), queue, line, known, found)
  BY <1>1, <1>2, SearchStarts
<1> QED BY <1>1, <1>3 DEF Including

(* The line a walk is about to take.                                       *)
LEMMA LineTaken ==
  ASSUME Including, walk # "done", Includes!More
  PROVE  /\ queue # <<>> /\ line < Len(graph[queue[1].file])
         /\ Head(queue) = queue[1] /\ queue[1] \in Item
         /\ queue \in Seq(Item) /\ Len(queue) \in Nat /\ line \in Nat
         /\ queue[1].file \in IncludeFiles
         /\ Includes!Include = graph[queue[1].file][line + 1]
         /\ Includes!Include \in IncludeEntry
<1>1. queue \in Seq(Item) /\ line \in Nat /\ queue # <<>>
  BY DEF Including, Search, Includes!More
<1>2. /\ Head(queue) = queue[1] /\ queue[1] \in Item /\ Len(queue) \in Nat
      /\ queue[1].file \in IncludeFiles
  BY <1>1, QueueOf, IncludeFacts DEF Item
<1>3. line < Len(graph[queue[1].file]) /\ Includes!Include = graph[queue[1].file][line + 1]
  BY <1>2 DEF Includes!More, Includes!Include, Includes!Lines
<1>4. graph[queue[1].file] \in Seq(IncludeEntry)
  BY <1>2 DEF Including, GraphType
<1>5. line + 1 \in 1..Len(graph[queue[1].file])
  BY <1>1, <1>3, <1>4, LenProperties
<1> QED BY <1>1, <1>2, <1>3, <1>4, <1>5, ElementOfSeq

(* The steps of the two walks.                                             *)
LEMMA ClassifyLineKeeps == Including /\ Includes!ClassifyLine => Including'
<1> SUFFICES ASSUME Including, Includes!ClassifyLine PROVE Including'
  OBVIOUS
<1> DEFINE L == Level(graph, "classify")
           e == Includes!Include
<1>1. walk = "classify" /\ Includes!More /\ line' = line + 1 /\ UNCHANGED <<graph, walk>>
  BY DEF Includes!ClassifyLine
<1>2. /\ queue # <<>> /\ line < Len(graph[queue[1].file])
      /\ Head(queue) = queue[1] /\ queue[1] \in Item
      /\ queue \in Seq(Item) /\ Len(queue) \in Nat /\ line \in Nat
      /\ queue[1].file \in IncludeFiles
      /\ e = graph[queue[1].file][line + 1] /\ e \in IncludeEntry
  BY <1>1, LineTaken
<1>3. /\ graph \in GraphType /\ Leveled(graph, "classify", L)
      /\ Search(graph, "classify", L, queue, line, known)
      /\ Taken(graph, "classify", L, queue, line, known, found)
  BY <1>1, LevelsExist DEF Including
<1>4. MaxDepth \in Nat /\ queue[1].depth \in 0..MaxDepth /\ Nowhere \notin Present
  BY <1>2, IncludeFacts DEF Item
<1> HIDE DEF L, e
<1>5. ASSUME /\ UNCHANGED <<queue, known>> /\ found \subseteq found'
             /\ queue[1].depth < MaxDepth /\ Goes("classify", e) => e.to \in known /\ e.to \in found'
      PROVE  /\ Search(graph, "classify", L, queue', line', known')
             /\ Taken(graph, "classify", L, queue', line', known', found')
  <2>1. Search(graph, "classify", L, queue, line + 1, known)
    BY <1>2, <1>3, <1>5, SearchSkips
  <2>2. Taken(graph, "classify", L, queue, line + 1, known, found')
    BY <1>2, <1>3, <1>5, TakenMore
  <2> QED BY <1>1, <1>5, <2>1, <2>2
<1>6. ASSUME e.to \in known \cup {Nowhere}, Includes!Record, UNCHANGED <<queue, known>>
      PROVE  /\ Search(graph, "classify", L, queue', line', known')
             /\ Taken(graph, "classify", L, queue', line', known', found')
  BY <1>4, <1>5, <1>6 DEF Includes!Record, Goes, e
<1>7. ASSUME e.to \notin known \cup {Nowhere}, Includes!TooDeep \/ e.to \notin Present,
             UNCHANGED <<queue, known, found>>
      PROVE  /\ Search(graph, "classify", L, queue', line', known')
             /\ Taken(graph, "classify", L, queue', line', known', found')
  BY <1>2, <1>4, <1>5, <1>7 DEF Includes!TooDeep, Goes
<1>8. ASSUME e.to \in Present \ known, ~Includes!TooDeep, known' = known \cup {e.to},
             Includes!Record, Includes!Enqueue
      PROVE  /\ Search(graph, "classify", L, queue', line', known')
             /\ Taken(graph, "classify", L, queue', line', known', found')
  <2> DEFINE c == Includes!AsConstraint
             p == Append(queue, [file |-> e.to, constraint |-> c, depth |-> queue[1].depth + 1])
  <2>1. queue' = p
    BY <1>2, <1>8 DEF Includes!Enqueue, Includes!Reached, e
  <2>2. c \in BOOLEAN /\ queue[1].depth < MaxDepth /\ queue[1].depth + 1 \in 0..MaxDepth
    BY <1>2, <1>4, <1>8 DEF Includes!AsConstraint, Includes!TooDeep, Item, IncludeEntry, e
  <2>3. Goes("classify", e)
    BY <1>8 DEF Goes
  <2>4. found' = found \cup {e.to}
    BY <1>8 DEF Includes!Record, e
  <2> HIDE DEF c
  <2>5. Search(graph, "classify", L, p, line + 1, known \cup {e.to})
    BY <1>2, <1>3, <1>8, <2>2, <2>3, SearchAdds
  <2>6. p \in Seq(Item) /\ Len(p) = Len(queue) + 1 /\ p[Len(queue) + 1].file = e.to
        /\ \A i \in 1..Len(queue) : p[i] = queue[i]
    BY <1>2, <1>8, <2>2 DEF Item
  <2> HIDE DEF p
  <2>7. \A f \in known \cup {e.to} : f \in known \/ Queued(p, f)
    <3>1. Len(queue) + 1 \in 1..Len(p)
      BY <1>2, <2>6
    <3> QED BY <2>6, <3>1 DEF Queued
  <2>8. Len(queue) <= Len(p)
    BY <1>2, <2>6
  <2>9. Taken(graph, "classify", L, p, line + 1, known \cup {e.to}, found')
    BY <1>2, <1>3, <2>4, <2>6, <2>7, <2>8, TakenMore
  <2> QED BY <1>1, <1>8, <2>1, <2>5, <2>9
<1>9. /\ Search(graph, "classify", L, queue', line', known')
      /\ Taken(graph, "classify", L, queue', line', known', found')
  BY <1>6, <1>7, <1>8 DEF Includes!ClassifyLine, e
<1> QED BY <1>1, <1>3, <1>9 DEF Including, L

LEMMA LoadLineKeeps == Including /\ Includes!LoadLine => Including'
<1> SUFFICES ASSUME Including, Includes!LoadLine PROVE Including'
  OBVIOUS
<1> DEFINE L == Level(graph, "load")
           e == Includes!Include
           h == queue[1].file
<1>1. walk = "load" /\ Includes!More /\ line' = line + 1 /\ UNCHANGED <<graph, walk, found>>
  BY DEF Includes!LoadLine
<1>2. /\ queue # <<>> /\ line < Len(graph[h])
      /\ Head(queue) = queue[1] /\ queue[1] \in Item
      /\ queue \in Seq(Item) /\ Len(queue) \in Nat /\ line \in Nat
      /\ h \in IncludeFiles
      /\ e = graph[h][line + 1] /\ e \in IncludeEntry
  BY <1>1, LineTaken
<1>3. /\ graph \in GraphType /\ Leveled(graph, "load", L)
      /\ Search(graph, "load", L, queue, line, known)
      /\ Counted(graph, queue, line, known, noted)
      /\ Includes!ReadFiles = known /\ Classified(graph, found)
  BY <1>1, LevelsExist DEF Including
<1>4. MaxDepth \in Nat /\ queue[1].depth \in 0..MaxDepth /\ Nowhere \notin Present
  BY <1>2, IncludeFacts DEF Item
<1> HIDE DEF L, e, h
<1>5. ASSUME UNCHANGED <<queue, known, read>>, noted \subseteq noted',
             queue[1].depth < MaxDepth /\ Goes("load", e) => e.to \in known,
             Accounted(graph, h, line + 1, known, noted')
      PROVE  /\ Search(graph, "load", L, queue', line', known')
             /\ Counted(graph, queue', line', known', noted')
             /\ Includes!ReadFiles' = known'
  <2>1. Search(graph, "load", L, queue, line + 1, known)
    BY <1>2, <1>3, <1>5, SearchSkips DEF h
  <2>2. Counted(graph, queue, line + 1, known, noted')
    BY <1>2, <1>3, <1>5, CountedMore DEF h
  <2>3. Includes!ReadFiles' = Includes!ReadFiles
    BY <1>5 DEF Includes!ReadFiles
  <2> QED BY <1>1, <1>3, <1>5, <2>1, <2>2, <2>3
<1>6. ASSUME Includes!Unfollowed \/ (e.to \notin known /\ (Includes!TooDeep \/ e.to \notin Present)),
             noted' = noted \cup {<<Head(queue).file, line + 1>>}, UNCHANGED <<queue, known, read>>
      PROVE  /\ Search(graph, "load", L, queue', line', known')
             /\ Counted(graph, queue', line', known', noted')
             /\ Includes!ReadFiles' = known'
  <2>1. Accounted(graph, h, line + 1, known, noted')
    BY <1>2, <1>6 DEF Accounted, h
  <2>2. queue[1].depth < MaxDepth /\ Goes("load", e) => e.to \in known
    BY <1>2, <1>4, <1>6 DEF Includes!Unfollowed, Includes!TooDeep, Goes, e
  <2> QED BY <1>5, <1>6, <2>1, <2>2
<1>7. ASSUME ~Includes!Unfollowed, e.to \in known, UNCHANGED <<queue, known, read, noted>>
      PROVE  /\ Search(graph, "load", L, queue', line', known')
             /\ Counted(graph, queue', line', known', noted')
             /\ Includes!ReadFiles' = known'
  <2>1. Accounted(graph, h, line + 1, known, noted')
    <3>1. ~e.link
      BY <1>7 DEF Includes!Unfollowed, e
    <3> QED BY <1>2, <1>7, <3>1 DEF Accounted
  <2> QED BY <1>5, <1>7, <2>1
<1>8. ASSUME ~Includes!Unfollowed, e.to \in Present \ known, ~Includes!TooDeep,
             known' = known \cup {e.to}, read' = read \cup {<<e.to, Includes!AsConstraint>>},
             Includes!Enqueue, UNCHANGED noted
      PROVE  /\ Search(graph, "load", L, queue', line', known')
             /\ Counted(graph, queue', line', known', noted')
             /\ Includes!ReadFiles' = known'
  <2> DEFINE c == Includes!AsConstraint
             p == Append(queue, [file |-> e.to, constraint |-> c, depth |-> queue[1].depth + 1])
  <2>1. queue' = p
    BY <1>2, <1>8 DEF Includes!Enqueue, Includes!Reached, e
  <2>2. c \in BOOLEAN /\ queue[1].depth < MaxDepth /\ queue[1].depth + 1 \in 0..MaxDepth
    BY <1>2, <1>4, <1>8 DEF Includes!AsConstraint, Includes!TooDeep, Item, IncludeEntry, e
  <2>3. Goes("load", e) /\ ~e.link
    BY <1>8 DEF Goes, Includes!Unfollowed, e
  <2> HIDE DEF c
  <2>4. Includes!ReadFiles' = Includes!ReadFiles \cup {e.to}
    <3>1. read' = read \cup {<<e.to, c>>}
      BY <1>8 DEF c
    <3> QED BY <3>1, FirstOfMore DEF Includes!ReadFiles
  <2>5. Search(graph, "load", L, p, line + 1, known \cup {e.to})
    BY <1>2, <1>3, <1>8, <2>2, <2>3, SearchAdds DEF h
  <2>6. p \in Seq(Item) /\ Len(p) = Len(queue) + 1 /\ p[Len(queue) + 1].file = e.to
        /\ \A i \in 1..Len(queue) : p[i] = queue[i]
    BY <1>2, <1>8, <2>2 DEF Item
  <2> HIDE DEF p
  <2>7. \A f \in known \cup {e.to} : f \in known \/ Queued(p, f)
    <3>1. Len(queue) + 1 \in 1..Len(p)
      BY <1>2, <2>6
    <3> QED BY <2>6, <3>1 DEF Queued
  <2>8. Len(queue) <= Len(p)
    BY <1>2, <2>6
  <2>9. Accounted(graph, queue[1].file, line + 1, known \cup {e.to}, noted)
    BY <1>2, <2>3 DEF Accounted, h
  <2>10. Counted(graph, p, line + 1, known \cup {e.to}, noted)
    BY <1>2, <1>3, <2>6, <2>7, <2>8, <2>9, CountedMore
  <2> QED BY <1>1, <1>3, <1>8, <2>1, <2>4, <2>5, <2>10
<1>9. /\ Search(graph, "load", L, queue', line', known')
      /\ Counted(graph, queue', line', known', noted')
      /\ Includes!ReadFiles' = known'
  BY <1>6, <1>7, <1>8 DEF Includes!LoadLine, e
<1> QED BY <1>1, <1>3, <1>9 DEF Including, L

LEMMA NextFileKeeps == Including /\ Includes!NextFile => Including'
<1> SUFFICES ASSUME Including, Includes!NextFile PROVE Including'
  OBVIOUS
<1>1. /\ walk \in {"classify", "load"} /\ queue # <<>> /\ ~Includes!More
      /\ queue' = Tail(queue) /\ line' = 0
      /\ UNCHANGED <<graph, walk, known, found, read, noted>>
  BY DEF Includes!NextFile, Including
<1>2. /\ graph \in GraphType /\ Search(graph, walk, Level(graph, walk), queue, line, known)
      /\ queue \in Seq(Item)
  BY <1>1 DEF Including, Search
<1>3. ~(line < Len(graph[queue[1].file]))
  <2>1. Head(queue) = queue[1]
    BY <1>1, <1>2, QueueOf
  <2> QED BY <1>1, <2>1 DEF Includes!More, Includes!Lines
<1>4. /\ line = Len(graph[queue[1].file])
      /\ Search(graph, walk, Level(graph, walk), Tail(queue), 0, known)
  BY <1>1, <1>2, <1>3, SearchDrops
<1>5. walk = "classify" =>
        Taken(graph, "classify", Level(graph, "classify"), Tail(queue), 0, known, found)
  BY <1>1, <1>2, <1>4, TakenDrops DEF Including, Search
<1>6. walk = "load" => Counted(graph, Tail(queue), 0, known, noted)
  BY <1>1, <1>2, <1>4, CountedDrops DEF Including
<1>7. Includes!ReadFiles' = Includes!ReadFiles
  BY <1>1 DEF Includes!ReadFiles
<1> QED BY <1>1, <1>2, <1>4, <1>5, <1>6, <1>7 DEF Including

LEMMA StartLoadingKeeps == Including /\ Includes!StartLoading => Including'
<1> SUFFICES ASSUME Including, Includes!StartLoading PROVE Including'
  OBVIOUS
<1> DEFINE L == Level(graph, "classify")
           M == Level(graph, "load")
<1>1. /\ walk = "classify" /\ queue = <<>> /\ walk' = "load"
      /\ queue' = Includes!Starts(Scanned) /\ known' = Scanned /\ read' = Scanned \X {FALSE}
      /\ UNCHANGED <<graph, line, found, noted>>
  BY DEF Includes!StartLoading
<1>2. /\ graph \in GraphType /\ Leveled(graph, "classify", L) /\ Leveled(graph, "load", M)
      /\ Search(graph, "classify", L, <<>>, line, known)
      /\ Taken(graph, "classify", L, <<>>, line, known, found)
  BY <1>1, LevelsExist DEF Including
<1> HIDE DEF L, M
<1>3. known = L[MaxDepth] /\ line = 0
  BY <1>2, SearchEnds DEF Search
<1>4. ASSUME NEW k \in 0..MaxDepth, k < MaxDepth, NEW f \in L[k]
      PROVE  Follows(graph, "classify", f) \subseteq found
  <2>1. MaxDepth \in 0..MaxDepth
    BY IncludeFacts
  <2>2. L[k] \subseteq L[MaxDepth]
    BY <1>2, <1>4, <2>1, LevelsRise
  <2>3. ~Queued(<<>>, f)
    BY DEF Queued
  <2> QED BY <1>2, <1>3, <1>4, <2>2, <2>3 DEF Taken
<1>5. Beginning("load") = Scanned
  BY DEF Beginning
<1>6. Search(graph, "load", M, queue', 0, Scanned)
  BY <1>1, <1>2, <1>5, SearchStarts
<1>7. Counted(graph, queue', 0, Scanned, noted)
  <2>1. \A f \in Scanned : Queued(Includes!Starts(Scanned), f)
    BY IncludeFacts, StartsHold
  <2> QED BY <1>1, <2>1 DEF Counted
<1>8. Includes!ReadFiles' = Scanned
  BY <1>1, FirstOfMore DEF Includes!ReadFiles
<1>9. Classified(graph, found)
  BY <1>4 DEF Classified, L
<1> QED BY <1>1, <1>2, <1>3, <1>6, <1>7, <1>8, <1>9 DEF Including, M

LEMMA FinishKeeps == Including /\ Includes!Finish => Including'
<1> SUFFICES ASSUME Including, Includes!Finish PROVE Including'
  OBVIOUS
<1>1. /\ walk = "load" /\ queue = <<>> /\ walk' = "done"
      /\ UNCHANGED <<graph, queue, line, known, found, read, noted>>
  BY DEF Includes!Finish
<1>2. known = Level(graph, "load")[MaxDepth]
  BY <1>1, LevelsExist, SearchEnds DEF Including
<1>3. Includes!ReadFiles' = Includes!ReadFiles
  BY <1>1 DEF Includes!ReadFiles
<1> QED BY <1>1, <1>2, <1>3 DEF Including

LEMMA IncludingNext == Including /\ [Includes!Next]_includeVars => Including'
<1> SUFFICES ASSUME Including, [Includes!Next]_includeVars PROVE Including'
  OBVIOUS
<1>1. CASE UNCHANGED includeVars
  <2>1. Includes!ReadFiles' = Includes!ReadFiles
    BY <1>1 DEF Includes!ReadFiles, includeVars
  <2> QED BY <1>1, <2>1 DEF Including, includeVars
<1>2. UNCHANGED Includes!vars => UNCHANGED includeVars
  BY DEF Includes!vars, includeVars
<1> QED BY <1>1, <1>2, ClassifyLineKeeps, LoadLineKeeps, NextFileKeeps, StartLoadingKeeps, FinishKeeps
        DEF Includes!Next

(* A file read that was not scanned is included by one that the classifier *)
(* reaches no later than the loader.                                       *)
LEMMA LoadedIsClassified ==
  ASSUME NEW G, NEW k \in 0..MaxDepth
  PROVE  Level(G, "load")[k] \subseteq Level(G, "classify")[k]
<1> DEFINE L == Level(G, "classify")
           M == Level(G, "load")
           S == {n \in Nat : n <= MaxDepth => M[n] \subseteq L[n]}
<1>1. Leveled(G, "classify", L) /\ Leveled(G, "load", M)
  BY LevelsExist
<1> HIDE DEF L, M
<1>2. 0 \in S
  BY <1>1, IncludeFacts DEF Leveled, Beginning
<1>3. ASSUME NEW n \in S PROVE n + 1 \in S
  <2> SUFFICES ASSUME n + 1 <= MaxDepth PROVE M[n + 1] \subseteq L[n + 1]
    OBVIOUS
  <2>1. n \in 0..MaxDepth /\ n < MaxDepth /\ M[n] \subseteq L[n]
    BY IncludeFacts
  <2>2. /\ M[n + 1] = M[n] \cup Onward(G, "load", M[n])
        /\ L[n + 1] = L[n] \cup Onward(G, "classify", L[n])
    BY <1>1, <2>1 DEF Leveled
  <2>3. Onward(G, "load", M[n]) \subseteq Onward(G, "classify", L[n])
    BY <2>1 DEF Onward, Follows, Goes
  <2> QED BY <2>1, <2>2, <2>3
<1>4. S = Nat
  <2>1. S \in SUBSET Nat
    OBVIOUS
  <2> HIDE DEF S
  <2> QED BY <1>2, <1>3, <2>1, Induction
<1>5. k \in S /\ k <= MaxDepth
  BY <1>4, IncludeFacts
<1> QED BY <1>5 DEF L, M

(* The last file of a chain of the loader is included by the one before    *)
(* it, which the classifier expands within the limit too.                  *)
LEMMA ReadIsFound ==
  ASSUME NEW G, NEW F, Classified(G, F), NEW k \in 0..MaxDepth
  PROVE  Level(G, "load")[k] \ Scanned \subseteq F
<1> DEFINE M == Level(G, "load")
           S == {n \in Nat : n <= MaxDepth => M[n] \ Scanned \subseteq F}
<1>1. Leveled(G, "load", M)
  BY LevelsExist
<1>2. \A n \in 0..MaxDepth : M[n] \subseteq Level(G, "classify")[n]
  BY LoadedIsClassified
<1> HIDE DEF M
<1>3. 0 \in S
  BY <1>1, IncludeFacts DEF Leveled, Beginning
<1>4. ASSUME NEW n \in S PROVE n + 1 \in S
  <2> SUFFICES ASSUME n + 1 <= MaxDepth PROVE M[n + 1] \ Scanned \subseteq F
    OBVIOUS
  <2>1. n \in 0..MaxDepth /\ n < MaxDepth /\ M[n] \ Scanned \subseteq F
    BY IncludeFacts
  <2>2. M[n + 1] = M[n] \cup Onward(G, "load", M[n])
    BY <1>1, <2>1 DEF Leveled
  <2>3. ASSUME NEW g \in Onward(G, "load", M[n]) PROVE g \in F
    <3>1. PICK f \in M[n] : g \in Follows(G, "load", f)
      BY <2>3 DEF Onward
    <3>2. g \in Follows(G, "classify", f)
      BY <3>1 DEF Follows, Goes
    <3>3. f \in Level(G, "classify")[n]
      BY <1>2, <2>1
    <3> QED BY <2>1, <3>2, <3>3 DEF Classified
  <2> QED BY <2>1, <2>2, <2>3
<1>5. S = Nat
  <2>1. S \in SUBSET Nat
    OBVIOUS
  <2> HIDE DEF S
  <2> QED BY <1>3, <1>4, <2>1, Induction
<1>6. k \in S /\ k <= MaxDepth
  BY <1>5, IncludeFacts
<1> QED BY <1>6 DEF M

LEMMA LimitCutsOnlyTheDeep == Including => Includes!DepthCutsOnlyTheDeep
<1> SUFFICES ASSUME Including, walk = "done"
             PROVE  /\ Includes!ReadFiles = Includes!Within(FALSE)
                    /\ \A f \in Includes!ReadFiles : \A i \in DOMAIN graph[f] :
                         \/ ~graph[f][i].link /\ graph[f][i].to \in Includes!ReadFiles
                         \/ <<f, i>> \in noted
                    /\ Includes!ReadFiles \ Scanned \subseteq found
  BY DEF Includes!DepthCutsOnlyTheDeep
<1>1. /\ Includes!ReadFiles = known /\ queue = <<>> /\ known = Level(graph, "load")[MaxDepth]
      /\ Counted(graph, <<>>, line, known, noted) /\ Classified(graph, found)
  BY DEF Including
<1>2. \A f : ~Queued(<<>>, f)
  BY DEF Queued
<1>3. known \ Scanned \subseteq found
  <2>1. MaxDepth \in 0..MaxDepth
    BY IncludeFacts
  <2> QED BY <1>1, <2>1, ReadIsFound
<1> QED BY <1>1, <1>2, <1>3, WithinIsLevel DEF Counted, Accounted
------------------------------------------------------------------------------
(* The names left out of the name checks.                                  *)
Base == IF judged = "against the base" THEN trusted ELSE NoManifest

(* What a scan exempts is what the claims of its tree confirm, against the *)
(* base or, alone, against nothing.                                        *)
Exempted ==
  judged # "no" => head # NoTree /\ exempt = Claims!confirmWorkspaceLocalNames(head, Base)

LEMMA ExemptedInit == Claims!Init => Exempted
BY DEF Claims!Init, Exempted

(* A scan judges the claims of the tree it has, by the field it trusts.    *)
LEMMA ExemptedNext == Exempted /\ [Claims!Next]_linkVars => Exempted'
<1> SUFFICES ASSUME Exempted, [Claims!Next]_linkVars PROVE Exempted'
  OBVIOUS
<1>1. CASE Claims!Scan
  <2>1. judged' = "alone" /\ head # NoTree /\ UNCHANGED <<trusted, head>>
    BY <1>1 DEF Claims!Scan
  <2>2. exempt' = Claims!confirmWorkspaceLocalNames(head, NoManifest)
    BY <1>1 DEF Claims!Scan, Claims!Results
  <2> QED BY <2>1, <2>2 DEF Exempted, Base
<1>2. CASE Claims!ScanPullRequest
  <2>1. judged' = "against the base" /\ head # NoTree /\ UNCHANGED <<trusted, head>>
    BY <1>2 DEF Claims!ScanPullRequest
  <2>2. exempt' = Claims!confirmWorkspaceLocalNames(head, trusted)
    BY <1>2 DEF Claims!ScanPullRequest, Claims!Results
  <2> QED BY <2>1, <2>2 DEF Exempted, Base
<1>3. CASE Claims!Merge
  BY <1>3 DEF Claims!Merge, Exempted
<1>4. ASSUME NEW t \in LinkTrees, Claims!Open(t) PROVE Exempted'
  <2>1. /\ UNCHANGED <<trusted, judged, exempt, notes>> /\ head = NoTree /\ head' = t
    BY <1>4 DEF Claims!Open
  <2> QED BY <2>1 DEF Exempted
<1>5. CASE UNCHANGED linkVars
  BY <1>5 DEF linkVars, Exempted, Base
<1> QED BY <1>1, <1>2, <1>3, <1>4, <1>5 DEF Claims!Next

(* A confirmed claim is of a member the patterns cover, in the lockfile    *)
(* npm installs from.                                                      *)
LEMMA ConfirmedIsClaimed ==
  ASSUME NEW t, NEW base, NEW n \in Claims!confirmWorkspaceLocalNames(t, base)
  PROVE  \E link \in t.lock[Claims!InstalledFrom(t)] :
           /\ t.lock[Claims!InstalledFrom(t)] # NoFile
           /\ link[1] = n /\ t.name[link[2]] = n
           /\ link[2] \in Claims!Patterns(t, base)
<1>1. PICK d \in Claims!Claims(t) : Claims!Confirms(t, base, d[1], d[2]) /\ d[2][1] = n
  BY DEF Claims!confirmWorkspaceLocalNames
<1>2. PICK f \in {g \in Claims!NpmLockfiles : t.lock[g] /= NoFile} : d \in {<<f, link>> : link \in t.lock[f]}
  BY <1>1 DEF Claims!Claims
<1>3. PICK link \in t.lock[f] : d = <<f, link>>
  BY <1>2
<1>4. Claims!Confirms(t, base, f, link) /\ link[1] = n
  BY <1>1, <1>3
<1>5. f = Claims!InstalledFrom(t)
  <2>1. CASE f = "npm-shrinkwrap.json"
    BY <1>2, <2>1 DEF Claims!InstalledFrom
  <2>2. CASE f = "package-lock.json"
    BY <1>4, <2>2 DEF Claims!Confirms, Claims!Active, Claims!InstalledFrom
  <2> QED BY <1>2, <2>1, <2>2 DEF Claims!NpmLockfiles
<1>6. t.name[link[2]] = n /\ link[2] \in Claims!Patterns(t, base)
  BY <1>4 DEF Claims!Confirms
<1> QED BY <1>2, <1>4, <1>5, <1>6

LEMMA ExemptedIsLinked == Exempted => Claims!ExemptIsLinked
<1> SUFFICES ASSUME Exempted, judged # "no" PROVE Claims!ExemptIsLinked
  BY DEF Claims!ExemptIsLinked
<1>1. exempt = Claims!confirmWorkspaceLocalNames(head, Base)
  BY DEF Exempted
<1>2. ASSUME NEW n \in exempt, NEW ms, Claims!Patterns(head, Base) \subseteq ms
      PROVE  n \in Claims!LinkedTo(head, ms)
  <2>1. PICK link \in head.lock[Claims!InstalledFrom(head)] :
           /\ head.lock[Claims!InstalledFrom(head)] # NoFile
           /\ link[1] = n /\ head.name[link[2]] = n
           /\ link[2] \in Claims!Patterns(head, Base)
    BY <1>1, ConfirmedIsClaimed
  <2> QED BY <1>2, <2>1 DEF Claims!LinkedTo, Claims!Entries
<1>3. ASSUME judged = "against the base", Claims!Parsed(trusted)
      PROVE  exempt \subseteq Claims!LinkedTo(head, trusted)
  <2>1. Claims!Patterns(head, Base) \subseteq trusted
    BY <1>3 DEF Base, Claims!Patterns
  <2> QED BY <1>2, <2>1
<1>4. exempt \subseteq Claims!NpmLinks(head) \cup Claims!LinkedTo(head, Claims!Dropped)
  <2>1. CASE judged = "against the base" /\ Claims!Parsed(trusted)
    <3>1. Claims!Dropped = trusted \ Claims!HeadPatterns(head)
      BY <2>1 DEF Claims!Dropped
    <3> QED BY <1>3, <2>1, <3>1 DEF Claims!LinkedTo, Claims!NpmLinks
  <2>2. CASE ~(judged = "against the base" /\ Claims!Parsed(trusted))
    <3>1. Claims!Patterns(head, Base) \subseteq Claims!HeadPatterns(head)
      BY <2>2 DEF Base, Claims!Patterns, Claims!Parsed
    <3> QED BY <1>2, <3>1 DEF Claims!NpmLinks
  <2> QED BY <2>1, <2>2
<1> QED BY <1>3, <1>4 DEF Claims!ExemptIsLinked
------------------------------------------------------------------------------
(* The three subjects share no variable, and a behaviour keeps the subject *)
(* it starts with.  A scan of projects is done in no other.                *)
Kept ==
  /\ subject = "projects" => Reading
  /\ subject = "includes" => Including
  /\ subject = "claims" => Exempted
  /\ subject # "projects" => step = Idle

LEMMA IdleSubjects == MCInit => Kept
<1>1. CASE subject = "projects" /\ Init
  BY <1>1, ReadingInit DEF Kept
<1>2. CASE subject = "includes" /\ Includes!Init /\ NoProjects
  BY <1>2, IncludingInit DEF Kept, NoProjects
<1>3. CASE subject = "claims" /\ Claims!Init /\ NoProjects
  BY <1>3, ExemptedInit DEF Kept, NoProjects
<1> QED BY <1>1, <1>2, <1>3 DEF MCInit

LEMMA KeptReading == subject' = subject /\ [Next]_vars /\ (subject = "projects" => Reading)
                       => (subject = "projects" => Reading)'
BY ReadingNext

LEMMA KeptIncluding == subject' = subject /\ [Includes!Next]_includeVars /\ (subject = "includes" => Including)
                         => (subject = "includes" => Including)'
BY IncludingNext

LEMMA KeptExempted == subject' = subject /\ [Claims!Next]_linkVars /\ (subject = "claims" => Exempted)
                        => (subject = "claims" => Exempted)'
BY ExemptedNext

LEMMA KeptNext == Kept /\ [MCNext]_<<subject, vars, includeVars, linkVars>> => Kept'
<1> SUFFICES ASSUME Kept, [MCNext]_<<subject, vars, includeVars, linkVars>> PROVE Kept'
  OBVIOUS
<1>1. subject' = subject
  BY DEF MCNext, ProjectStep, IncludeStep, ClaimStep
<1>2. (subject = "projects" => Reading)'
  <2>1. CASE subject # "projects"
    BY <1>1, <2>1
  <2>2. CASE subject = "projects"
    <3>1. [Next]_vars
      BY <2>2 DEF MCNext, ProjectStep, IncludeStep, ClaimStep
    <3> QED BY <1>1, <3>1, KeptReading DEF Kept
  <2> QED BY <2>1, <2>2
<1>3. (subject = "claims" => Exempted)'
  <2>1. CASE subject # "claims"
    BY <1>1, <2>1
  <2>2. CASE subject = "claims"
    <3>1. [Claims!Next]_linkVars
      BY <2>2 DEF MCNext, ProjectStep, IncludeStep, ClaimStep
    <3> QED BY <1>1, <3>1, KeptExempted DEF Kept
  <2> QED BY <2>1, <2>2
<1>4. (subject = "includes" => Including)'
  <2>1. CASE subject # "includes"
    BY <1>1, <2>1
  <2>2. CASE subject = "includes"
    <3>1. [Includes!Next]_includeVars
      BY <2>2 DEF MCNext, ProjectStep, IncludeStep, ClaimStep
    <3> QED BY <1>1, <3>1, KeptIncluding DEF Kept
  <2> QED BY <2>1, <2>2
<1>5. (subject # "projects" => step = Idle)'
  <2>1. CASE subject = "projects"
    BY <1>1, <2>1
  <2>2. CASE subject # "projects"
    <3>1. UNCHANGED vars
      BY <2>2 DEF MCNext, ProjectStep, IncludeStep, ClaimStep
    <3>2. step' = step
      BY <3>1 DEF vars
    <3> QED BY <1>1, <2>2, <3>2 DEF Kept
  <2> QED BY <2>1, <2>2
<1> QED BY <1>2, <1>3, <1>4, <1>5 DEF Kept

LEMMA AlwaysKept == MCSpec => []Kept
<1>1. MCInit => Kept
  BY IdleSubjects
<1>2. Kept /\ [MCNext]_<<subject, vars, includeVars, linkVars>> => Kept'
  BY KeptNext
<1> QED BY <1>1, <1>2, PTL DEF MCSpec

(* What a project file names is read: the manifests it names, those these  *)
(* name in turn, and its workspace members; and under a node_modules       *)
(* directory nothing else is, unless something named could not be placed.  *)
THEOREM NamedManifestsAreRead == MCSpec => []ReadIffNamed
<1>1. Kept => ReadIffNamed
  <2>1. CASE subject = "projects"
    BY <2>1, NamedIsRead DEF Kept
  <2>2. CASE subject # "projects"
    BY <2>2 DEF Kept, Idle, ReadIffNamed
  <2> QED BY <2>1, <2>2
<1> QED BY <1>1, AlwaysKept, PTL

(* A scan of a subdirectory reads what the scan of the root would read of  *)
(* it, and where an input outside it would have stopped the root scan, the *)
(* manifests that input might have named.                                  *)
THEOREM SubdirectoryIsGated == MCSpec => []SubdirectoryNotWeaker
<1>1. Kept => SubdirectoryNotWeaker
  <2>1. CASE subject = "projects"
    BY <2>1, DirectoryNotWeaker DEF Kept, Reading
  <2>2. CASE subject # "projects"
    BY <2>2 DEF Kept, Idle, SubdirectoryNotWeaker
  <2> QED BY <2>1, <2>2
<1> QED BY <1>1, AlwaysKept, PTL

(* A requirements file is read exactly when some chain of includes within  *)
(* the depth limit reaches it, every other include is counted, and what is *)
(* read because of an include is known as included to the classifier.      *)
THEOREM OnlyTheDeepAreCut == MCSpec => []DepthCutsOnlyTheDeep
<1>1. Kept => DepthCutsOnlyTheDeep
  BY LimitCutsOnlyTheDeep DEF Kept, DepthCutsOnlyTheDeep
<1> QED BY <1>1, AlwaysKept, PTL

(* For any sequence of pull requests, a name left out of the name checks   *)
(* has a link entry npm reads, to a directory with that package, which npm *)
(* links or which the base's field covered and the pull request dropped;   *)
(* where the base has a field to read, only for members it covered.        *)
THEOREM ExemptNamesAreLinkedOrDropped == MCSpec => []ExemptIsLinked
<1>1. Kept => ExemptIsLinked
  BY ExemptedIsLinked DEF Kept, ExemptIsLinked
<1> QED BY <1>1, AlwaysKept, PTL
=============================================================================
