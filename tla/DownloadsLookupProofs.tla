------------------------ MODULE DownloadsLookupProofs ------------------------
(* What the sentinel of the downloads lookup promises, what a lookup may   *)
(* cost and that it loses no name, for every list of names, batch size,    *)
(* attempt limit and budget.                                               *)
EXTENDS DownloadsLookup, FiniteSetTheorems, SequenceTheorems, TLAPS

(* Zeros enter by three doors: a body, which a dead API does not send; a   *)
(* 404 after the probe has resolved; and the probe resolving.  The probe   *)
(* is memoized, so that it has not resolved is part of the invariant.      *)
NoZero == noRecord = {} /\ \A n \in Names : cache[n] # "zero"
Unprobed == ~healthy
Inv == /\ cache \in [Names -> {"absent", "zero", "positive"}]
       /\ api = "dead" => Unprobed /\ NoZero

LEMMA InitInv == Init => Inv
BY DEF Init, Inv, Unprobed, NoZero

(* Every request's outcome keeps it.                                       *)
LEMMA AnsweredInv == Inv /\ Answered => Inv'
<1> SUFFICES ASSUME Inv, Answered PROVE Inv'
  OBVIOUS
<1>1. CASE Retryable
  BY <1>1 DEF Retryable, Throw, lookup, Inv, Unprobed, NoZero
<1>2. CASE Refused
  BY <1>2 DEF Refused, Throw, lookup, Inv, Unprobed, NoZero
<1>3. CASE Body
  BY <1>3 DEF Body, Inv, Unprobed, NoZero
<1>4. CASE NotFound
  <2>1. CASE Len(Head(plan)) # 1
    BY <1>4, <2>1 DEF NotFound, Throw, lookup, Inv, Unprobed, NoZero
  <2>2. CASE Len(Head(plan)) = 1 /\ healthy
    BY <1>4, <2>2 DEF NotFound, Trusted, Inv, Unprobed, NoZero
  <2>3. CASE Len(Head(plan)) = 1 /\ ~healthy
    BY <1>4, <2>3 DEF NotFound, Trusted, Inv, Unprobed, NoZero
  <2>4. QED BY <2>1, <2>2, <2>3
<1>5. CASE ProbeAnswered
  BY <1>5 DEF ProbeAnswered, Inv, Unprobed, NoZero
<1>6. CASE ProbeFailed
  BY <1>6 DEF ProbeFailed, Throw, lookup, Inv, Unprobed, NoZero
<1>7. QED BY <1>1, <1>2, <1>3, <1>4, <1>5, <1>6 DEF Answered

(* So does everything between requests; a save writes zeros only for the   *)
(* names confirmed without record.                                         *)
LEMMA NextInv == Inv /\ [Next]_vars => Inv'
<1> SUFFICES ASSUME Inv, [Next]_vars PROVE Inv'
  OBVIOUS
<1>1. CASE Skip
  BY <1>1 DEF Skip, lookup, Inv, Unprobed, NoZero
<1>2. CASE Start
  BY <1>2 DEF Start, Inv, Unprobed, NoZero
<1>3. CASE Fetch
  BY <1>3 DEF Fetch, Inv, Unprobed, NoZero
<1>4. CASE Wake
  BY <1>4 DEF Wake, lookup, Inv, Unprobed, NoZero
<1>5. CASE Save
  BY <1>5 DEF Save, lookup, Inv, Unprobed, NoZero
<1>6. CASE Answered
  BY <1>6, AnsweredInv
<1>7. CASE Tick
  BY <1>7 DEF Tick, lookup, Inv, Unprobed, NoZero
<1>8. CASE UNCHANGED vars
  BY <1>8 DEF vars, lookup, Inv, Unprobed, NoZero
<1>9. QED
  BY <1>1, <1>2, <1>3, <1>4, <1>5, <1>6, <1>7, <1>8 DEF Next, Step, Finished

(* A downloads API that answers 404 to everything never makes a name look  *)
(* like one nobody downloads, in a result or in the cache that outlives it *)
(* (probeDownloadsApiHealth).                                              *)
THEOREM DeadApiFabricatesNothing == Spec => []DeadApiNeverZero
<1>1. Inv => DeadApiNeverZero
  BY DEF Inv, NoZero, DeadApiNeverZero
<1>2. QED
  BY InitInv, NextInv, <1>1, PTL DEF Spec
-----------------------------------------------------------------------------
(* The entries of a list that are in a set: each is an entry of the list,  *)
(* and each entry of the list that is in the set is there.                 *)
LEMMA AmongKeeps ==
  ASSUME NEW X, NEW s \in Seq(X), NEW S
  PROVE  Among(s, S) \in Seq(X \cap S) /\ ToSet(Among(s, S)) = ToSet(s) \cap S
<1> DEFINE at == {i \in DOMAIN s : s[i] \in S}
           Upto(i) == {j \in at : j <= i}
           rank == [i \in at |-> Cardinality(Upto(i))]
           c == Cardinality(at)
           pick == [k \in 1 .. c |-> CHOOSE i \in at : Cardinality(Upto(i)) = k]
           t == [k \in 1 .. c |-> s[pick[k]]]
<1>1. Among(s, S) = t
  BY DEF Among
<1>2. at \subseteq 1 .. Len(s) /\ Len(s) \in Nat /\ DOMAIN s = 1 .. Len(s)
  OBVIOUS
<1>3. IsFiniteSet(at) /\ c \in Nat
  <2>1. IsFiniteSet(1 .. Len(s))
    BY <1>2, FS_Interval
  <2> HIDE DEF at
  <2> QED BY <1>2, <2>1, FS_Subset, FS_CardinalityType
<1>4. ASSUME NEW i \in at PROVE IsFiniteSet(Upto(i)) /\ Cardinality(Upto(i)) \in 1 .. c
  <2>1. Upto(i) \in SUBSET at /\ i \in Upto(i)
    BY <1>2
  <2> HIDE DEF Upto, at
  <2>2. /\ IsFiniteSet(Upto(i)) /\ Cardinality(Upto(i)) <= Cardinality(at)
        /\ Cardinality(Upto(i)) \in Nat
    BY <1>3, <2>1, FS_Subset, FS_CardinalityType
  <2>3. Cardinality(Upto(i)) # 0
    BY <2>1, <2>2, FS_EmptySet
  <2> QED BY <2>2, <2>3, <1>3
<1>5. ASSUME NEW i \in at, NEW j \in at, i < j PROVE Cardinality(Upto(i)) < Cardinality(Upto(j))
  <2>1. Upto(i) \in SUBSET Upto(j) /\ j \in Upto(j) /\ j \notin Upto(i)
    BY <1>2, <1>5
  <2>2. Upto(i) # Upto(j)
    BY <2>1
  <2> HIDE DEF Upto, at
  <2>3. IsFiniteSet(Upto(j)) /\ Cardinality(Upto(i)) \in Nat /\ Cardinality(Upto(j)) \in Nat
    BY <1>4, <1>3
  <2>4. Cardinality(Upto(i)) <= Cardinality(Upto(j)) /\ Cardinality(Upto(i)) # Cardinality(Upto(j))
    BY <2>1, <2>2, <2>3, FS_Subset
  <2> QED BY <2>3, <2>4
<1>6. rank \in Injection(at, 1 .. c)
  <2>1. rank \in [at -> 1 .. c]
    BY <1>4
  <2>2. \A i, j \in at : rank[i] = rank[j] => i = j
    <3> SUFFICES ASSUME NEW i \in at, NEW j \in at, rank[i] = rank[j], i # j PROVE FALSE
      OBVIOUS
    <3>1. i < j \/ j < i
      BY <1>2
    <3>2. rank[i] = Cardinality(Upto(i)) /\ rank[j] = Cardinality(Upto(j))
      OBVIOUS
    <3> HIDE DEF Upto, at, rank
    <3>3. rank[i] \in 1 .. c /\ rank[j] \in 1 .. c
      BY <2>1
    <3>4. Cardinality(Upto(i)) < Cardinality(Upto(j)) \/ Cardinality(Upto(j)) < Cardinality(Upto(i))
      BY <1>5, <3>1
    <3>5. rank[i] < rank[j] \/ rank[j] < rank[i]
      BY <3>2, <3>4
    <3>6. rank[i] \in Int /\ rank[j] \in Int
      BY <1>3, <3>3
    <3> QED BY <3>5, <3>6
  <2> QED BY <2>1, <2>2 DEF Injection, IsInjective
<1>7. ASSUME NEW k \in 1 .. c PROVE \E i \in at : Cardinality(Upto(i)) = k
  <2> HIDE DEF Upto, at, c, rank
  <2>1. IsFiniteSet(1 .. c) /\ Cardinality(1 .. c) = c
    BY <1>3, FS_Interval
  <2>2. rank \in Surjection(at, 1 .. c)
    BY <1>6, <2>1, FS_Injection DEF c
  <2>3. \E i \in at : rank[i] = k
    BY <2>2 DEF Surjection
  <2> QED BY <2>3 DEF rank
<1>8. \A k \in 1 .. c : pick[k] \in at /\ Cardinality(Upto(pick[k])) = k
  BY <1>7
<1>9. \A i \in at : s[i] \in X \cap S
  BY <1>2
<1>10. t \in [1 .. c -> X \cap S]
  <2>1. \A k \in 1 .. c : s[pick[k]] \in X \cap S
    BY <1>8, <1>9
  <2> HIDE DEF at, pick, Upto, c
  <2> QED BY <2>1
<1>11. t \in Seq(X \cap S)
  <2> HIDE DEF t, c
  <2> QED BY <1>3, <1>10
<1>12. \A i \in at : i = pick[Cardinality(Upto(i))]
  <2> SUFFICES ASSUME NEW i \in at PROVE i = pick[Cardinality(Upto(i))]
    OBVIOUS
  <2> DEFINE k == Cardinality(Upto(i))
  <2>1. k \in 1 .. c
    BY <1>4
  <2>2. pick[k] \in at /\ Cardinality(Upto(pick[k])) = k
    BY <1>8, <2>1
  <2>3. rank[i] = k /\ rank[pick[k]] = k
    BY <2>2
  <2> HIDE DEF k, at, pick, rank, Upto
  <2> QED BY <1>6, <2>2, <2>3 DEF Injection, IsInjective, k
<1>13. ToSet(t) = {s[i] : i \in at}
  <2>1. ToSet(t) = {s[pick[k]] : k \in 1 .. c}
    BY DEF ToSet
  <2> HIDE DEF at, pick, Upto
  <2> QED BY <1>4, <1>8, <1>12, <2>1
<1>14. {s[i] : i \in at} = ToSet(s) \cap S
  BY DEF ToSet
<1> QED BY <1>1, <1>11, <1>13, <1>14

(* Division, as the batches use it.                                        *)
LEMMA Divide ==
  ASSUME NEW a \in Nat, NEW b \in Nat \ {0}
  PROVE  /\ a \div b \in Nat /\ (a \div b) * b <= a /\ a < (a \div b + 1) * b
OBVIOUS

(* The k-th entry is in the batch that starts at or before it.             *)
LEMMA BatchOf ==
  ASSUME NEW len \in Nat, NEW b \in Nat \ {0}, NEW k \in 1 .. len
  PROVE  LET i == (k - 1) \div b + 1 IN
         /\ i \in 1 .. (len + b - 1) \div b
         /\ (i - 1) * b + 1 <= k /\ k <= i * b
<1> DEFINE q == (k - 1) \div b
           n == (len + b - 1) \div b
<1>1. q \in Nat /\ q * b <= k - 1 /\ k - 1 < (q + 1) * b
  BY Divide
<1>2. n \in Nat /\ len + b - 1 < (n + 1) * b
  <2>1. len + b - 1 \in Nat
    OBVIOUS
  <2> QED BY <2>1, Divide
<1> HIDE DEF q, n
<1>3. (n + 1) * b = n * b + b /\ (q + 1) * b = q * b + b /\ q * b \in Nat /\ n * b \in Nat
  BY <1>1, <1>2
<1>4. q < n
  <2> SUFFICES ASSUME n <= q PROVE FALSE
    BY <1>1, <1>2
  <2>1. n * b <= q * b
    BY <1>1, <1>2
  <2> QED BY <1>1, <1>2, <1>3, <2>1
<1>5. q + 1 \in 1 .. n /\ (q + 1 - 1) * b + 1 <= k /\ k <= (q + 1) * b
  BY <1>1, <1>2, <1>3, <1>4
<1> QED BY <1>5 DEF q, n

NamesIn(p) == UNION {ToSet(p[i]) : i \in DOMAIN p}

(* The batches hold the list's entries, no more and no less.               *)
LEMMA BatchesCover ==
  ASSUME NEW s \in Seq(Names)
  PROVE  Batches(s) \in Seq(Seq(Names)) /\ NamesIn(Batches(s)) = ToSet(s) \cap Plain
<1> DEFINE t == Unscoped(s)
           n == (Len(t) + BatchSize - 1) \div BatchSize
           from(i) == (i - 1) * BatchSize + 1
           to(i) == IF i * BatchSize < Len(t) THEN i * BatchSize ELSE Len(t)
           B == [i \in 1 .. n |-> SubSeq(t, from(i), to(i))]
<1>0. BatchSize \in Nat \ {0}
  BY Limits
<1>1. t \in Seq(Names) /\ Len(t) \in Nat /\ ToSet(t) = ToSet(s) \cap Plain
  <2>1. t \in Seq(Names \cap Plain) /\ ToSet(t) = ToSet(s) \cap Plain
    BY AmongKeeps DEF Unscoped
  <2>2. t \in Seq(Names)
    BY <2>1, SeqMonotonic
  <2> QED BY <2>1, <2>2, LenProperties
<1>2. Batches(s) = B
  BY DEF Batches
<1>3. n \in Nat
  <2>1. Len(t) + BatchSize - 1 \in Nat
    BY <1>0, <1>1
  <2> HIDE DEF t
  <2> QED BY <1>0, <2>1, Divide
<1>4. ASSUME NEW i \in 1 .. n
      PROVE  /\ SubSeq(t, from(i), to(i)) \in Seq(Names)
             /\ ToSet(SubSeq(t, from(i), to(i))) = {t[k] : k \in from(i) .. to(i)}
             /\ from(i) \in 1 .. Len(t) + 1 /\ to(i) \in 0 .. Len(t)
  <2>1. (i - 1) * BatchSize \in Nat /\ i * BatchSize \in Nat
    BY <1>0, <1>3
  <2>2. from(i) \in Nat \ {0} /\ to(i) \in 0 .. Len(t)
    BY <1>1, <2>1
  <2>3. from(i) <= Len(t) + 1
    <3>1. n * BatchSize <= Len(t) + BatchSize - 1
      BY <1>0, <1>1, Divide
    <3>2. i * BatchSize <= n * BatchSize
      BY <1>0, <1>3
    <3>3. i * BatchSize = (i - 1) * BatchSize + BatchSize
      BY <1>0, <1>3
    <3> HIDE DEF t, n
    <3> QED BY <1>0, <1>1, <1>3, <2>1, <3>1, <3>2, <3>3
  <2> HIDE DEF t, from, to, n
  <2>4. from(i) \in 1 .. Len(t) + 1
    BY <1>1, <2>2, <2>3
  <2>5. /\ SubSeq(t, from(i), to(i)) \in Seq(Names)
        /\ Len(SubSeq(t, from(i), to(i))) = IF from(i) <= to(i) THEN to(i) - from(i) + 1 ELSE 0
        /\ \A k \in 1 .. to(i) - from(i) + 1 : SubSeq(t, from(i), to(i))[k] = t[from(i) + k - 1]
    BY <1>1, <2>2, <2>4, SubSeqProperties
  <2>6. ToSet(SubSeq(t, from(i), to(i))) = {t[k] : k \in from(i) .. to(i)}
    <3> DEFINE u == SubSeq(t, from(i), to(i))
    <3>1. DOMAIN u = 1 .. to(i) - from(i) + 1
      BY <2>2, <2>4, <2>5, LenProperties
    <3>2. \A k \in from(i) .. to(i) : k - from(i) + 1 \in DOMAIN u /\ u[k - from(i) + 1] = t[k]
      BY <2>2, <2>4, <2>5, <3>1
    <3>3. \A k \in DOMAIN u : from(i) + k - 1 \in from(i) .. to(i) /\ u[k] = t[from(i) + k - 1]
      BY <2>2, <2>4, <2>5, <3>1
    <3> HIDE DEF u
    <3>4. ToSet(u) = {t[k] : k \in from(i) .. to(i)}
      BY <3>2, <3>3 DEF ToSet
    <3> QED BY <3>4 DEF u
  <2> QED BY <2>2, <2>4, <2>5, <2>6
<1>5. B \in Seq(Seq(Names))
  <2>1. B \in [1 .. n -> Seq(Names)]
    BY <1>4
  <2> HIDE DEF B, n
  <2> QED BY <1>3, <2>1
<1>6. \A k \in 1 .. Len(t) : \E i \in 1 .. n : k \in from(i) .. to(i)
  <2> SUFFICES ASSUME NEW k \in 1 .. Len(t) PROVE \E i \in 1 .. n : k \in from(i) .. to(i)
    OBVIOUS
  <2> DEFINE i == (k - 1) \div BatchSize + 1
  <2>1. i \in 1 .. n /\ from(i) <= k /\ k <= i * BatchSize
    <3> HIDE DEF t
    <3> QED BY <1>0, <1>1, BatchOf
  <2>2. k <= to(i)
    BY <2>1, <1>1
  <2>3. from(i) \in Int /\ to(i) \in Int
    BY <1>4, <2>1
  <2> HIDE DEF i, from, to
  <2> QED BY <2>1, <2>2, <2>3
<1>7. NamesIn(B) = {t[k] : k \in 1 .. Len(t)}
  <2>1. NamesIn(B) = UNION {ToSet(SubSeq(t, from(i), to(i))) : i \in 1 .. n}
    BY DEF NamesIn
  <2> DEFINE Part(i) == ToSet(SubSeq(t, from(i), to(i)))
  <2>2. \A i \in 1 .. n : Part(i) = {t[k] : k \in from(i) .. to(i)}
    BY <1>4
  <2>3. \A i \in 1 .. n : \A k \in from(i) .. to(i) : k \in 1 .. Len(t)
    BY <1>1, <1>4
  <2> HIDE DEF Part, from, to, t, n, B
  <2>4. UNION {Part(i) : i \in 1 .. n} = {t[k] : k \in 1 .. Len(t)}
    BY <1>6, <2>2, <2>3
  <2> QED BY <2>1, <2>4 DEF Part
<1>8. {t[k] : k \in 1 .. Len(t)} = ToSet(t)
  <2>1. DOMAIN t = 1 .. Len(t)
    BY <1>1, LenProperties
  <2> HIDE DEF t
  <2> QED BY <2>1 DEF ToSet
<1> QED BY <1>1, <1>2, <1>5, <1>7, <1>8

(* So do the requests for one scoped name each.                            *)
LEMMA SinglesCover ==
  ASSUME NEW s \in Seq(Names)
  PROVE  Singles(s) \in Seq(Seq(Names)) /\ NamesIn(Singles(s)) = ToSet(s) \cap Scoped
<1> DEFINE t == Among(s, Scoped)
           S == [i \in DOMAIN t |-> <<t[i]>>]
<1>1. t \in Seq(Names) /\ ToSet(t) = ToSet(s) \cap Scoped
  <2>1. t \in Seq(Names \cap Scoped) /\ ToSet(t) = ToSet(s) \cap Scoped
    BY AmongKeeps
  <2>2. t \in Seq(Names)
    BY <2>1, SeqMonotonic
  <2> QED BY <2>1, <2>2
<1>2. Singles(s) = S
  BY DEF Singles
<1> HIDE DEF t
<1>3. DOMAIN t = 1 .. Len(t) /\ Len(t) \in Nat /\ \A i \in DOMAIN t : t[i] \in Names
  BY <1>1, LenProperties
<1>4. S \in [1 .. Len(t) -> Seq(Names)]
  BY <1>3
<1>5. \A i \in DOMAIN t : ToSet(<<t[i]>>) = {t[i]}
  BY DEF ToSet
<1>6. NamesIn(S) = ToSet(t)
  <2>1. DOMAIN S = DOMAIN t /\ \A i \in DOMAIN S : ToSet(S[i]) = {t[i]}
    BY <1>5
  <2> HIDE DEF S
  <2>2. NamesIn(S) = {t[i] : i \in DOMAIN t}
    BY <2>1 DEF NamesIn
  <2> QED BY <2>2 DEF ToSet
<1> HIDE DEF S
<1>7. S \in Seq(Seq(Names))
  BY <1>3, <1>4
<1> QED BY <1>1, <1>2, <1>6, <1>7

(* What a lookup requests is what it was asked, no more and no less, and a *)
(* lookup that has anything to ask makes a request.                        *)
LEMMA PlanCovers ==
  ASSUME NEW s \in Seq(Names)
  PROVE  /\ Plan(s) \in Seq(Seq(Names)) /\ NamesIn(Plan(s)) = ToSet(s)
         /\ s # <<>> => Plan(s) # <<>>
<1> DEFINE b == Batches(s)
           c == Singles(s)
           p == b \o c
<1>1. b \in Seq(Seq(Names)) /\ NamesIn(b) = ToSet(s) \cap Plain
  BY BatchesCover
<1>2. c \in Seq(Seq(Names)) /\ NamesIn(c) = ToSet(s) \cap Scoped
  BY SinglesCover
<1>3. Plan(s) = p
  BY DEF Plan
<1> HIDE DEF b, c
<1>4. /\ p \in Seq(Seq(Names)) /\ Len(p) = Len(b) + Len(c)
      /\ \A i \in 1 .. Len(b) + Len(c) : p[i] = IF i <= Len(b) THEN b[i] ELSE c[i - Len(b)]
  BY <1>1, <1>2, ConcatProperties
<1>5. Len(b) \in Nat /\ Len(c) \in Nat /\ DOMAIN b = 1 .. Len(b) /\ DOMAIN c = 1 .. Len(c)
      /\ DOMAIN p = 1 .. Len(b) + Len(c)
  BY <1>1, <1>2, <1>4, LenProperties
<1> HIDE DEF p
<1>6. \A i \in DOMAIN b : i \in DOMAIN p /\ p[i] = b[i]
  BY <1>4, <1>5
<1>7. \A i \in DOMAIN c : i + Len(b) \in DOMAIN p /\ p[i + Len(b)] = c[i]
  BY <1>4, <1>5
<1>8. \A i \in DOMAIN p : (i \in DOMAIN b /\ p[i] = b[i])
                          \/ (i - Len(b) \in DOMAIN c /\ p[i] = c[i - Len(b)])
  BY <1>4, <1>5
<1>9. NamesIn(p) = NamesIn(b) \cup NamesIn(c)
  BY <1>6, <1>7, <1>8 DEF NamesIn
<1>10. ToSet(s) \subseteq Names
  BY DEF ToSet
<1>11. NamesIn(p) = ToSet(s)
  BY <1>1, <1>2, <1>9, <1>10 DEF Names
<1>12. s # <<>> => p # <<>>
  <2> SUFFICES ASSUME s # <<>>, p = <<>> PROVE FALSE
    OBVIOUS
  <2>1. s[1] \in ToSet(s)
    BY DEF ToSet
  <2>2. NamesIn(p) = {}
    BY DEF NamesIn
  <2> QED BY <1>11, <2>1, <2>2
<1> QED BY <1>3, <1>4, <1>11, <1>12

(* What is left to request after the first one.                            *)
LEMMA TailNames ==
  ASSUME NEW p \in Seq(Seq(Names)), p # <<>>
  PROVE  /\ Tail(p) \in Seq(Seq(Names)) /\ Len(p) \in Nat \ {0} /\ Len(Tail(p)) = Len(p) - 1
         /\ Head(p) \in Seq(Names)
         /\ NamesIn(p) = ToSet(Head(p)) \cup NamesIn(Tail(p))
<1>1. /\ Head(p) \in Seq(Names) /\ Head(p) = p[1]
      /\ Tail(p) \in Seq(Seq(Names)) /\ Len(Tail(p)) = Len(p) - 1
      /\ \A i \in 1 .. Len(Tail(p)) : Tail(p)[i] = p[i + 1]
  BY HeadTailProperties
<1>2. Len(p) \in Nat /\ Len(p) # 0 /\ DOMAIN p = 1 .. Len(p)
      /\ DOMAIN Tail(p) = 1 .. Len(Tail(p))
  BY <1>1, EmptySeq, LenProperties
<1> DEFINE t == Tail(p)
<1>3. \A i \in DOMAIN t : i + 1 \in DOMAIN p /\ t[i] = p[i + 1]
  BY <1>1, <1>2
<1>4. \A i \in DOMAIN p : i = 1 \/ (i - 1 \in DOMAIN t /\ t[i - 1] = p[i])
  BY <1>1, <1>2
<1>5. 1 \in DOMAIN p
  BY <1>2
<1> HIDE DEF t
<1>6. NamesIn(p) = ToSet(p[1]) \cup NamesIn(t)
  BY <1>3, <1>4, <1>5 DEF NamesIn
<1> QED BY <1>1, <1>2, <1>6 DEF t

-----------------------------------------------------------------------------
(* CostBounded and EveryNameAccounted.  The invariant follows one lookup   *)
(* through its requests: what is done, the sentinel once it was asked for  *)
(* included, and what the request at hand has used of its own allowance.   *)

Requesting == stage \in {"ready", "out", "backoff"}
Planned    == Len(Plan(wanted))
Done       == Planned - Len(plan) + (IF probing \/ healthy THEN 1 ELSE 0)
Spent      == CASE stage = "ready"   -> try * (Timeout + BackoffCap)
                [] stage = "out"     -> (try - 1) * (Timeout + BackoffCap) + age
                [] stage = "backoff" -> (try - 1) * (Timeout + BackoffCap) + Timeout + age

LookupType ==
  /\ stage \in {"idle", "ready", "out", "backoff", "save"}
  /\ lists \in Seq(Seq(Names)) /\ wanted \in Seq(Names) /\ plan \in Seq(Seq(Names))
  /\ probing \in BOOLEAN /\ healthy \in BOOLEAN /\ try \in Nat /\ hits \in Nat
  /\ counts \subseteq Names /\ noRecord \subseteq Names /\ omitted \subseteq Names
  /\ now \in Nat /\ started \in Nat /\ age \in Nat
  /\ cache \in [Names -> {"absent", "zero", "positive"}]

(* The request at hand keeps within its attempts and waits.                *)
RequestInBounds ==
  /\ Requesting => /\ plan # <<>> /\ Len(plan) <= Planned /\ (probing => ~healthy)
                   /\ try <= Attempts
  /\ stage = "ready" => try < Attempts
  /\ stage \in {"out", "backoff"} => try >= 1 /\ age <= Wait[stage]
  /\ stage = "backoff" => try < Attempts

Costs ==
  /\ hits <= Attempts * (Planned + 1)
  /\ Requesting => /\ hits <= Attempts * Done + try
                   /\ now - started <= LongestRequest * Done + Spent
  /\ stage = "save" => now - started <= LongestRequest * (Planned + 1)

(* What an earlier lookup answered is in the cache, so no request names it. *)
NotServed ==
  /\ served \subseteq {n \in Names : Hit(n)}
  /\ Requesting => NamesIn(plan) \cap served = {}

Covered == counts \cup noRecord \cup omitted
Accounted ==
  /\ Requesting => ToSet(wanted) \subseteq Covered \cup NamesIn(plan)
  /\ stage = "save" => ToSet(wanted) \subseteq Covered

LookupInv == LookupType /\ RequestInBounds /\ Costs /\ NotServed /\ Accounted

(* The limits are numbers, in a form every case can cite.                  *)
LEMMA LimitFacts ==
  /\ BatchSize \in Nat \ {0} /\ Attempts \in Nat \ {0} /\ Timeout \in Nat \ {0}
  /\ BackoffCap \in Nat \ {0} /\ Budget \in Nat /\ LongestRequest \in Nat
  /\ LongestRequest = (Attempts - 1) * (Timeout + BackoffCap) + Timeout
  /\ Wait["out"] = Timeout /\ Wait["backoff"] = BackoffCap
<1>1. /\ BatchSize \in Nat \ {0} /\ Attempts \in Nat \ {0} /\ Timeout \in Nat \ {0}
      /\ BackoffCap \in Nat \ {0} /\ Budget \in Nat
  BY Limits
<1>2. LongestRequest = (Attempts - 1) * (Timeout + BackoffCap) + Timeout
  BY <1>1 DEF LongestRequest
<1>3. (Attempts - 1) * (Timeout + BackoffCap) \in Nat
  BY <1>1
<1> QED BY <1>1, <1>2, <1>3 DEF Wait

(* Products, for the bounds.                                               *)
LEMMA Times ==
  /\ \A a, m, n \in Nat : m <= n => a * m <= a * n
  /\ \A a, m \in Nat : a * m \in Nat /\ a * (m + 1) = a * m + a
OBVIOUS

(* A plan is a sequence of requests, its length a number.                  *)
LEMMA PlanFacts ==
  ASSUME wanted \in Seq(Names) PROVE Planned \in Nat
BY PlanCovers, LenProperties DEF Planned

(* A request that ends, however it does, has used at most its allowance.   *)
LEMMA RequestEnds ==
  ASSUME LookupInv, stage = "out"
  PROVE  /\ Done \in Nat /\ Done + 1 <= Planned + 1
         /\ hits <= Attempts * (Done + 1)
         /\ now - started <= LongestRequest * (Done + 1)
<1>1. /\ Len(plan) \in Nat \ {0} /\ Planned \in Nat /\ Len(plan) <= Planned
      /\ try \in 1 .. Attempts /\ age <= Timeout
  BY TailNames, PlanFacts, LimitFacts
     DEF LookupInv, LookupType, RequestInBounds, Requesting
<1>2. Done \in Nat /\ Done <= Planned
  BY <1>1 DEF Done
<1>3. hits <= Attempts * Done + try /\ now - started <= LongestRequest * Done + Spent
  BY DEF LookupInv, Costs, Requesting
<1>4. Spent = (try - 1) * (Timeout + BackoffCap) + age
  BY DEF Spent
<1>5. Spent \in Nat /\ Spent <= LongestRequest
  <2>1. (Timeout + BackoffCap) * (try - 1) <= (Timeout + BackoffCap) * (Attempts - 1)
    BY <1>1, LimitFacts, Times
  <2>2. /\ (try - 1) * (Timeout + BackoffCap) = (Timeout + BackoffCap) * (try - 1)
        /\ (Attempts - 1) * (Timeout + BackoffCap) = (Timeout + BackoffCap) * (Attempts - 1)
        /\ (try - 1) * (Timeout + BackoffCap) \in Nat
    BY <1>1, LimitFacts
  <2> QED BY <1>1, <1>4, <2>1, <2>2, LimitFacts DEF LookupInv, LookupType
<1>6. /\ Attempts * (Done + 1) = Attempts * Done + Attempts /\ Attempts * Done \in Nat
      /\ LongestRequest * (Done + 1) = LongestRequest * Done + LongestRequest
      /\ LongestRequest * Done \in Nat
  BY <1>2, LimitFacts, Times
<1> QED BY <1>1, <1>2, <1>3, <1>5, <1>6, LimitFacts DEF LookupInv, LookupType

(* Before the first lookup there is nothing to follow.                     *)
LEMMA LookupInit == Init => LookupInv
<1> SUFFICES ASSUME Init PROVE LookupInv
  OBVIOUS
<1>1. LookupType
  <2>1. lists \in Seq(Seq(Names))
    BY AsksNames DEF Init
  <2>2. wanted \in Seq(Names) /\ plan \in Seq(Seq(Names))
    BY EmptySeq DEF Init
  <2>3. cache \in [Names -> {"absent", "zero", "positive"}]
    BY DEF Init
  <2> QED BY <2>1, <2>2, <2>3 DEF Init, LookupType
<1>2. Planned \in Nat
  BY <1>1, PlanFacts DEF LookupType
<1>3. hits <= Attempts * (Planned + 1)
  <2>1. Attempts * (Planned + 1) \in Nat
    BY <1>2, LimitFacts, Times
  <2> QED BY <2>1 DEF Init
<1> QED BY <1>1, <1>3 DEF Init, LookupInv, RequestInBounds, Costs, NotServed, Accounted,
                          Requesting

(* What the plan costs depends on the names asked alone, and a hit on the  *)
(* cache alone.                                                            *)
LEMMA PlannedFixed == UNCHANGED wanted => Planned' = Planned
BY DEF Planned, Plan, Batches, Singles, Unscoped, Among

LEMMA HitFixed == UNCHANGED cache => \A n : Hit(n)' = Hit(n)
BY DEF Hit

(* A step that puts the lookup aside or leaves everything but the clock's  *)
(* and the attempt's state to it.                                          *)
LEMMA ThrowKeeps == LookupInv /\ Throw => LookupInv'
<1> SUFFICES ASSUME LookupInv, Throw PROVE LookupInv'
  OBVIOUS
<1>1. stage' = "idle" /\ UNCHANGED <<lists, lookup, cache, served, hits, now, started, age>>
  BY DEF Throw
<1>2. Planned' = Planned /\ \A n : Hit(n)' = Hit(n)
  BY <1>1, PlannedFixed, HitFixed DEF lookup
<1>3. LookupType'
  BY <1>1 DEF lookup, LookupInv, LookupType
<1>4. Costs'
  BY <1>1, <1>2 DEF lookup, LookupInv, Costs, Requesting
<1>5. NotServed'
  BY <1>1, <1>2 DEF lookup, LookupInv, NotServed, Requesting
<1> QED BY <1>1, <1>3, <1>4, <1>5 DEF LookupInv, RequestInBounds, Accounted, Requesting

(* A lookup begins: hits are counted, misses are planned.                  *)
LEMMA StartKeeps == LookupInv /\ Start => LookupInv'
<1> SUFFICES ASSUME LookupInv, Start PROVE LookupInv'
  OBVIOUS
<1> DEFINE asked == Head(lists)
           missing == {n \in Names : ~Hit(n)}
<1>1. /\ lists # <<>> /\ lists \in Seq(Seq(Names)) /\ cache' = cache /\ served' = served
      /\ lists' = Tail(lists) /\ wanted' = Among(asked, missing)
      /\ plan' = Plan(wanted)' /\ probing' = FALSE /\ healthy' = FALSE /\ try' = 0
      /\ counts' = {n \in ToSet(asked) : Hit(n)} /\ noRecord' = {} /\ omitted' = {}
      /\ stage' = (IF wanted' = <<>> THEN "save" ELSE "ready")
      /\ hits' = 0 /\ started' = now /\ age' = 0 /\ now' = now
  BY DEF Start, LookupInv, LookupType
<1>2. asked \in Seq(Names) /\ lists' \in Seq(Seq(Names))
  BY <1>1, HeadTailProperties
<1> HIDE DEF asked
<1>3. wanted' \in Seq(Names) /\ ToSet(wanted') \subseteq missing
  <2>1. wanted' \in Seq(Names \cap missing) /\ ToSet(wanted') = ToSet(asked) \cap missing
    BY <1>1, <1>2, AmongKeeps
  <2> QED BY <2>1, SeqMonotonic
<1>4. ToSet(asked) \subseteq Names
  BY <1>2 DEF ToSet
<1> DEFINE w == wanted'
<1>5. Plan(wanted)' = Plan(w)
  BY DEF Plan, Batches, Singles, Unscoped, Among
<1>6. plan' = Plan(w) /\ w \in Seq(Names)
  BY <1>1, <1>3, <1>5
<1> HIDE DEF w
<1>7. /\ plan' \in Seq(Seq(Names)) /\ NamesIn(plan') = ToSet(w)
      /\ w # <<>> => plan' # <<>>
  BY <1>6, PlanCovers
<1>8. Planned' = Len(plan') /\ Planned' \in Nat
  <2>1. Planned' = Len(plan')
    BY <1>1 DEF Planned
  <2> QED BY <1>7, <2>1, LenProperties
<1>9. LookupType'
  BY <1>1, <1>2, <1>3, <1>4, <1>7 DEF LookupInv, LookupType
<1>10. RequestInBounds'
  BY <1>1, <1>7, <1>8, LimitFacts DEF RequestInBounds, Requesting, w
<1>11. Costs'
  <2>1. Done' = 0
    BY <1>1, <1>8 DEF Done
  <2>2. stage' = "ready" => Spent' = 0
    BY <1>1, LimitFacts DEF Spent
  <2>3. Attempts * (Planned' + 1) \in Nat /\ LongestRequest * (Planned' + 1) \in Nat
    BY <1>8, LimitFacts, Times
  <2>4. now' - started' = 0
    BY <1>1 DEF LookupInv, LookupType
  <2>5. Attempts * 0 = 0 /\ LongestRequest * 0 = 0
    BY LimitFacts
  <2> QED BY <1>1, <2>1, <2>2, <2>3, <2>4, <2>5 DEF Costs, Requesting
<1>12. NotServed'
  <2>1. \A n : Hit(n)' = Hit(n)
    BY <1>1, HitFixed
  <2>2. NamesIn(plan') \subseteq missing
    BY <1>3, <1>7 DEF w
  <2> QED BY <1>1, <2>1, <2>2 DEF LookupInv, NotServed
<1>13. Accounted'
  <2>1. ToSet(wanted)' = ToSet(w) /\ NamesIn(plan)' = NamesIn(plan')
    BY DEF ToSet, NamesIn, w
  <2>2. stage' = "save" => ToSet(w) = {}
    BY <1>1 DEF ToSet, w
  <2> QED BY <1>7, <2>1, <2>2 DEF Accounted
<1> QED BY <1>9, <1>10, <1>11, <1>12, <1>13 DEF LookupInv

(* A step that keeps the lookup's names and its requests.                  *)
LEMMA SameNames ==
  ASSUME LookupInv,
         UNCHANGED <<wanted, plan, counts, noRecord, omitted, cache, served>>,
         stage # "idle" /\ (Requesting' => Requesting) /\ (stage' = "save" => stage = "save")
  PROVE  NotServed' /\ Accounted' /\ Planned' = Planned
<1>1. Planned' = Planned /\ \A n : Hit(n)' = Hit(n)
  BY PlannedFixed, HitFixed
<1>2. NamesIn(plan)' = NamesIn(plan) /\ ToSet(wanted)' = ToSet(wanted) /\ Covered' = Covered
  BY DEF NamesIn, ToSet, Covered
<1> QED BY <1>1, <1>2 DEF LookupInv, NotServed, Accounted

(* An attempt begins.                                                      *)
LEMMA FetchKeeps == LookupInv /\ Fetch => LookupInv'
<1> SUFFICES ASSUME LookupInv, Fetch PROVE LookupInv'
  OBVIOUS
<1>1. /\ stage = "ready" /\ stage' = "out" /\ try' = try + 1 /\ hits' = hits + 1 /\ age' = 0
      /\ UNCHANGED <<lists, wanted, plan, probing, healthy, counts, noRecord, omitted,
                     cache, served, now, started>>
  BY DEF Fetch
<1>2. NotServed' /\ Accounted' /\ Planned' = Planned
  BY <1>1, SameNames DEF Requesting
<1>3. LookupType'
  BY <1>1 DEF LookupInv, LookupType
<1>4. RequestInBounds'
  BY <1>1, <1>2, LimitFacts DEF LookupInv, LookupType, RequestInBounds, Requesting
<1>5. Costs'
  <2>1. Done' = Done
    BY <1>1, <1>2 DEF Done
  <2>2. Spent' = Spent
    BY <1>1, LimitFacts DEF Spent, LookupInv, LookupType
  <2>3. hits <= Attempts * Done + try /\ now - started <= LongestRequest * Done + Spent
    BY <1>1 DEF LookupInv, Costs, Requesting
  <2>4. Done \in Nat /\ Done + 1 <= Planned + 1 /\ try + 1 <= Attempts /\ Planned \in Nat
    BY <1>1, TailNames, PlanFacts, LimitFacts
       DEF LookupInv, LookupType, RequestInBounds, Requesting, Done
  <2>5. /\ Attempts * (Done + 1) <= Attempts * (Planned + 1)
        /\ Attempts * (Done + 1) = Attempts * Done + Attempts /\ Attempts * Done \in Nat
        /\ Attempts * (Planned + 1) \in Nat
    BY <2>4, LimitFacts, Times
  <2>6. hits + 1 <= Attempts * Done + (try + 1) /\ hits + 1 <= Attempts * (Planned + 1)
    BY <2>3, <2>4, <2>5, LimitFacts DEF LookupInv, LookupType
  <2> QED BY <1>1, <1>2, <2>1, <2>2, <2>3, <2>6 DEF Costs
<1> QED BY <1>2, <1>3, <1>4, <1>5 DEF LookupInv

(* Time passes, within a call or a wait.                                   *)
LEMMA TickKeeps == LookupInv /\ Tick => LookupInv'
<1> SUFFICES ASSUME LookupInv, Tick PROVE LookupInv'
  OBVIOUS
<1>1. /\ stage \in {"out", "backoff"} /\ stage' = stage /\ age < Wait[stage]
      /\ now' = now + 1 /\ age' = age + 1
      /\ UNCHANGED <<lists, wanted, plan, probing, healthy, try, counts, noRecord, omitted,
                     cache, served, started, hits>>
  BY DEF Tick, lookup
<1>2. NotServed' /\ Accounted' /\ Planned' = Planned
  BY <1>1, SameNames DEF Requesting
<1>3. LookupType'
  BY <1>1 DEF LookupInv, LookupType
<1>4. Wait[stage] \in Nat
  BY <1>1, LimitFacts
<1>5. RequestInBounds'
  BY <1>1, <1>2, <1>4 DEF LookupInv, LookupType, RequestInBounds, Requesting
<1>6. Costs'
  <2>1. Done' = Done /\ Requesting
    BY <1>1, <1>2 DEF Done, Requesting
  <2>2. try \in Nat \ {0} /\ age \in Nat /\ now \in Nat /\ started \in Nat
    BY <1>1 DEF LookupInv, LookupType, RequestInBounds
  <2>3. (try - 1) * (Timeout + BackoffCap) \in Nat
    BY <2>2, LimitFacts
  <2>4. Spent' = Spent + 1 /\ Spent \in Nat
    BY <1>1, <2>2, <2>3, LimitFacts DEF Spent
  <2>5. now - started <= LongestRequest * Done + Spent
    BY <1>1 DEF LookupInv, Costs, Requesting
  <2>6. Done \in Nat
    BY <1>1, TailNames, PlanFacts DEF LookupInv, LookupType, RequestInBounds, Requesting, Done
  <2>7. LongestRequest * Done \in Nat
    BY <2>6, LimitFacts, Times
  <2>8. (now + 1) - started <= LongestRequest * Done + (Spent + 1)
    BY <2>2, <2>4, <2>5, <2>7
  <2>9. hits <= Attempts * (Planned + 1) /\ hits <= Attempts * Done + try
    BY <2>1 DEF LookupInv, Costs
  <2>10. /\ hits' <= Attempts * (Planned' + 1) /\ hits' <= Attempts * Done' + try'
         /\ now' - started' <= LongestRequest * Done' + Spent' /\ stage' # "save"
    <3>1. hits' = hits /\ now' = now + 1 /\ started' = started /\ try' = try
          /\ Planned' = Planned /\ Done' = Done /\ stage' # "save"
      BY <1>1, <1>2, <2>1
    <3>2. now' - started' <= LongestRequest * Done' + Spent'
      <4>1. now' - started' = (now + 1) - started /\ Spent' = Spent + 1
        BY <2>4, <3>1
      <4>2. LongestRequest * Done' = LongestRequest * Done
        BY <3>1
      <4> QED BY <2>8, <4>1, <4>2, Zenon
    <3> QED BY <2>9, <3>1, <3>2
  <2> QED BY <2>10 DEF Costs
<1> QED BY <1>2, <1>3, <1>5, <1>6 DEF LookupInv

(* An attempt failed and another one is allowed.                           *)
LEMMA WaitKeeps == LookupInv /\ (Wake \/ Retryable) => LookupInv'
<1> SUFFICES ASSUME LookupInv, Wake \/ Retryable PROVE LookupInv'
  OBVIOUS
<1>1. CASE Retryable /\ ~AnotherTry
  BY <1>1, ThrowKeeps DEF Retryable
<1>2. CASE Wake \/ (Retryable /\ AnotherTry)
  <2>1. /\ UNCHANGED <<lists, wanted, plan, probing, healthy, try, counts, noRecord, omitted,
                       cache, served, started, hits, now>>
        /\ \/ stage = "backoff" /\ stage' = "ready" /\ age' = age
           \/ stage = "out" /\ stage' = "backoff" /\ age' = 0 /\ try < Attempts
    BY <1>2 DEF Wake, Retryable, AnotherTry, lookup
  <2>2. NotServed' /\ Accounted' /\ Planned' = Planned
    BY <2>1, SameNames DEF Requesting
  <2>3. LookupType'
    BY <2>1 DEF LookupInv, LookupType
  <2>4. RequestInBounds'
    BY <2>1, <2>2, LimitFacts DEF LookupInv, LookupType, RequestInBounds, Requesting
  <2>5. Costs'
    <3>1. Done' = Done /\ Requesting
      BY <2>1, <2>2 DEF Done, Requesting
    <3>2. try \in Nat \ {0} /\ age \in Nat /\ age <= Wait[stage]
      BY <2>1 DEF LookupInv, LookupType, RequestInBounds
    <3>3. try * (Timeout + BackoffCap) = (try - 1) * (Timeout + BackoffCap) + Timeout + BackoffCap
          /\ (try - 1) * (Timeout + BackoffCap) \in Nat
      BY <3>2, LimitFacts
    <3>4. Spent' >= Spent /\ Spent \in Nat /\ Spent' \in Nat
      BY <2>1, <3>2, <3>3, LimitFacts DEF Spent
    <3>5. now - started <= LongestRequest * Done + Spent
      BY <3>1 DEF LookupInv, Costs
    <3>6. Done \in Nat
      BY <2>1, TailNames, PlanFacts DEF LookupInv, LookupType, RequestInBounds, Requesting, Done
    <3>7. LongestRequest * Done \in Nat
      BY <3>6, LimitFacts, Times
    <3>8. now - started <= LongestRequest * Done + Spent'
      BY <3>4, <3>5, <3>7 DEF LookupInv, LookupType
    <3> QED BY <2>1, <2>2, <3>1, <3>8 DEF LookupInv, Costs, Requesting
  <2> QED BY <2>2, <2>3, <2>4, <2>5 DEF LookupInv
<1> QED BY <1>1, <1>2

(* The request at hand is done with, and the next is taken up.             *)
LEMMA RequestDone ==
  ASSUME LookupInv, stage = "out", NextRequest,
         UNCHANGED <<lists, wanted, cache, served, hits, now, started, age>>,
         healthy' = (healthy \/ probing),
         counts' \subseteq Names, noRecord' \subseteq Names, omitted' \subseteq Names,
         Covered \cup ToSet(Head(plan)) \subseteq Covered'
  PROVE  LookupInv'
<1>1. /\ plan' = Tail(plan) /\ try' = 0 /\ probing' = FALSE
      /\ stage' = (IF Len(plan) = 1 THEN "save" ELSE "ready")
  BY DEF NextRequest
<1>2. /\ plan \in Seq(Seq(Names)) /\ plan # <<>> /\ Len(plan) <= Planned /\ Planned \in Nat
      /\ wanted \in Seq(Names)
  BY PlanFacts DEF LookupInv, LookupType, RequestInBounds, Requesting
<1>3. /\ plan' \in Seq(Seq(Names)) /\ Len(plan) \in Nat \ {0} /\ Len(plan') = Len(plan) - 1
      /\ NamesIn(plan) = ToSet(Head(plan)) \cup NamesIn(plan')
  BY <1>1, <1>2, TailNames
<1>4. Planned' = Planned /\ \A n : Hit(n)' = Hit(n)
  BY PlannedFixed, HitFixed
<1>5. LookupType'
  BY <1>1, <1>3 DEF LookupInv, LookupType
<1>6. stage' = "ready" => plan' # <<>> /\ Len(plan') <= Planned
  <2>1. stage' = "ready" => Len(plan') # 0
    BY <1>1, <1>3
  <2>2. Len(plan') <= Planned
    BY <1>2, <1>3
  <2>3. Len(<<>>) = 0
    BY EmptySeq
  <2> QED BY <2>1, <2>2, <2>3
<1>7. RequestInBounds'
  BY <1>1, <1>4, <1>6, LimitFacts DEF RequestInBounds, Requesting
<1>8. Costs'
  <2>1. Done' = Done + 1
    BY <1>1, <1>2, <1>3, <1>4 DEF Done, LookupInv, LookupType
  <2>2. stage' = "ready" => Spent' = 0
    BY <1>1, LimitFacts DEF Spent
  <2>3. /\ hits <= Attempts * (Done + 1) /\ now - started <= LongestRequest * (Done + 1)
        /\ Done \in Nat /\ Done + 1 <= Planned + 1
    BY RequestEnds
  <2>4. /\ Attempts * (Done + 1) \in Nat /\ LongestRequest * (Done + 1) \in Nat
        /\ LongestRequest * (Done + 1) <= LongestRequest * (Planned + 1)
        /\ LongestRequest * (Planned + 1) \in Nat
    <3>1. Attempts \in Nat /\ LongestRequest \in Nat
      BY LimitFacts
    <3>2. Done + 1 \in Nat /\ Planned + 1 \in Nat /\ Done + 1 <= Planned + 1
      BY <1>2, <2>3
    <3> QED BY <3>1, <3>2, Times
  <2>5. hits <= Attempts * (Planned + 1)
    BY DEF LookupInv, Costs
  <2>6. now - started <= LongestRequest * (Planned + 1)
    BY <2>3, <2>4 DEF LookupInv, LookupType
  <2>7. hits <= Attempts * (Done + 1) + 0 /\ now - started <= LongestRequest * (Done + 1) + 0
    BY <2>3, <2>4
  <2> QED BY <1>1, <1>4, <2>1, <2>2, <2>5, <2>6, <2>7 DEF Costs, Requesting
<1>9. NotServed'
  <2>1. served \subseteq {n \in Names : Hit(n)} /\ NamesIn(plan) \cap served = {}
    BY DEF LookupInv, NotServed, Requesting
  <2>2. NamesIn(plan') \cap served = {}
    BY <1>3, <2>1
  <2>3. NamesIn(plan)' = NamesIn(plan')
    BY DEF NamesIn
  <2> QED BY <1>4, <2>1, <2>2, <2>3 DEF NotServed
<1>10. Accounted'
  <2>1. ToSet(wanted) \subseteq Covered' \cup NamesIn(plan')
    BY <1>3 DEF LookupInv, Accounted, Requesting
  <2>2. stage' = "save" => NamesIn(plan') = {}
    BY <1>1, <1>3, EmptySeq DEF NamesIn
  <2>3. ToSet(wanted)' = ToSet(wanted) /\ NamesIn(plan)' = NamesIn(plan')
    BY DEF ToSet, NamesIn
  <2> QED BY <1>1, <2>1, <2>2, <2>3 DEF Accounted
<1> QED BY <1>5, <1>7, <1>8, <1>9, <1>10 DEF LookupInv

(* A 404 not trusted yet sends the sentinel on the request's behalf.       *)
LEMMA SentinelAsked ==
  ASSUME LookupInv, stage = "out", ~probing, ~healthy,
         probing' = TRUE, try' = 0, stage' = "ready",
         UNCHANGED <<lists, wanted, plan, noRecord, healthy, counts, omitted, cache,
                     served, hits, now, started, age>>
  PROVE  LookupInv'
<1>1. stage # "idle" /\ (Requesting' => Requesting) /\ (stage' = "save" => stage = "save")
  BY DEF Requesting
<1>2. NotServed' /\ Accounted' /\ Planned' = Planned
  BY <1>1, SameNames
<1>3. LookupType'
  BY DEF LookupInv, LookupType
<1>4. RequestInBounds'
  BY <1>2, LimitFacts DEF LookupInv, LookupType, RequestInBounds, Requesting
<1>5. Costs'
  <2>1. Len(plan) \in Nat /\ Planned \in Nat
    BY PlanFacts, LenProperties DEF LookupInv, LookupType
  <2>2. Done' = Done + 1
    BY <1>2, <2>1 DEF Done
  <2>3. Spent' = 0
    BY LimitFacts DEF Spent
  <2>4. /\ hits <= Attempts * (Done + 1) /\ now - started <= LongestRequest * (Done + 1)
        /\ Done \in Nat
    BY RequestEnds
  <2>5. Attempts * (Done + 1) \in Nat /\ LongestRequest * (Done + 1) \in Nat
    BY <2>4, LimitFacts, Times
  <2>6. hits <= Attempts * (Planned + 1)
    BY DEF LookupInv, Costs
  <2>7. hits <= Attempts * (Done + 1) + 0 /\ now - started <= LongestRequest * (Done + 1) + 0
    BY <2>4, <2>5
  <2> QED BY <1>2, <2>2, <2>3, <2>6, <2>7 DEF Costs
<1> QED BY <1>2, <1>3, <1>4, <1>5 DEF LookupInv

(* A request is answered, by a body or by a 404, or the sentinel is.       *)
LEMMA AnswersKeep == LookupInv /\ (Body \/ NotFound \/ ProbeAnswered) => LookupInv'
<1> SUFFICES ASSUME LookupInv, Body \/ NotFound \/ ProbeAnswered PROVE LookupInv'
  OBVIOUS
<1>0. /\ counts \subseteq Names /\ noRecord \subseteq Names /\ omitted \subseteq Names
      /\ healthy \in BOOLEAN /\ probing \in BOOLEAN
  BY DEF LookupInv, LookupType
<1>1. ASSUME stage = "out" PROVE ToSet(Head(plan)) \subseteq Names
  <2>1. plan \in Seq(Seq(Names)) /\ plan # <<>>
    BY <1>1 DEF LookupInv, LookupType, RequestInBounds, Requesting
  <2>2. Head(plan) \in Seq(Names)
    BY <2>1, TailNames
  <2> QED BY <2>2 DEF ToSet
<1>2. CASE Body
  <2>1. PICK none \in SUBSET ToSet(Head(plan)) : \E unusable \in SUBSET ToSet(Head(plan)) :
          /\ noRecord' = noRecord \cup none /\ omitted' = omitted \cup unusable
          /\ counts' = counts \cup (ToSet(Head(plan)) \ (none \cup unusable))
    BY <1>2 DEF Body
  <2>2. PICK unusable \in SUBSET ToSet(Head(plan)) :
          /\ noRecord' = noRecord \cup none /\ omitted' = omitted \cup unusable
          /\ counts' = counts \cup (ToSet(Head(plan)) \ (none \cup unusable))
    BY <2>1
  <2>3. /\ stage = "out" /\ ~probing /\ NextRequest /\ healthy' = healthy
        /\ UNCHANGED <<lists, wanted, cache, served, hits, now, started, age>>
    BY <1>2 DEF Body
  <2>4. /\ counts' \subseteq Names /\ noRecord' \subseteq Names /\ omitted' \subseteq Names
        /\ Covered \cup ToSet(Head(plan)) \subseteq Covered'
    BY <1>0, <1>1, <2>2, <2>3 DEF Covered
  <2> QED BY <1>0, <2>3, <2>4, RequestDone
<1>3. CASE NotFound /\ Len(Head(plan)) # 1
  BY <1>3, ThrowKeeps DEF NotFound
<1>4. CASE NotFound /\ Len(Head(plan)) = 1 /\ ~healthy
  BY <1>4, SentinelAsked DEF NotFound, Trusted
<1>5. CASE NotFound /\ Len(Head(plan)) = 1 /\ healthy
  <2>1. /\ stage = "out" /\ NextRequest /\ healthy' = (healthy \/ probing)
        /\ UNCHANGED <<lists, wanted, cache, served, hits, now, started, age, counts, omitted>>
        /\ noRecord' = noRecord \cup ToSet(Head(plan))
    BY <1>5 DEF NotFound, Trusted
  <2>2. /\ counts' \subseteq Names /\ noRecord' \subseteq Names /\ omitted' \subseteq Names
        /\ Covered \cup ToSet(Head(plan)) \subseteq Covered'
    BY <1>0, <1>1, <2>1 DEF Covered
  <2> QED BY <2>1, <2>2, RequestDone
<1>6. CASE ProbeAnswered
  <2>1. /\ stage = "out" /\ NextRequest /\ healthy' = (healthy \/ probing)
        /\ UNCHANGED <<lists, wanted, cache, served, hits, now, started, age, counts, omitted>>
        /\ noRecord' = noRecord \cup ToSet(Head(plan))
    BY <1>6 DEF ProbeAnswered
  <2>2. /\ counts' \subseteq Names /\ noRecord' \subseteq Names /\ omitted' \subseteq Names
        /\ Covered \cup ToSet(Head(plan)) \subseteq Covered'
    BY <1>0, <1>1, <2>1 DEF Covered
  <2> QED BY <2>1, <2>2, RequestDone
<1> QED BY <1>0, <1>2, <1>3, <1>4, <1>5, <1>6

(* The answers are put into the cache.                                     *)
LEMMA SaveKeeps == LookupInv /\ Save => LookupInv'
<1> SUFFICES ASSUME LookupInv, Save PROVE LookupInv'
  OBVIOUS
<1>1. /\ stage = "save" /\ stage' = "idle"
      /\ cache' = [n \in Names |-> IF Hit(n) THEN cache[n]
                     ELSE IF n \in counts THEN "positive"
                     ELSE IF n \in noRecord THEN "zero" ELSE "absent"]
      /\ served' \subseteq served \cup counts \cup noRecord
      /\ UNCHANGED <<lists, lookup, hits, now, started, age>>
  BY DEF Save
<1>2. Planned' = Planned
  BY <1>1, PlannedFixed DEF lookup
<1>3. LookupType'
  BY <1>1 DEF LookupInv, LookupType, lookup, Hit
<1>4. NotServed'
  BY <1>1 DEF LookupInv, LookupType, NotServed, Hit, Requesting
<1> QED BY <1>1, <1>2, <1>3, <1>4
        DEF LookupInv, lookup, RequestInBounds, Costs, Accounted, Requesting

(* Every step.                                                             *)
LEMMA LookupStep == LookupInv /\ [Next]_vars => LookupInv'
<1> SUFFICES ASSUME LookupInv, [Next]_vars PROVE LookupInv'
  OBVIOUS
<1>1. CASE Skip
  <2>1. stage = "idle" /\ stage' = "idle" /\ lists' = Tail(lists) /\ lists # <<>>
        /\ UNCHANGED <<lookup, cache, served, hits, now, started, age>>
    BY <1>1 DEF Skip
  <2>2. Planned' = Planned /\ \A n : Hit(n)' = Hit(n)
    BY <2>1, PlannedFixed, HitFixed DEF lookup
  <2>3. lists' \in Seq(Seq(Names))
    BY <2>1, HeadTailProperties DEF LookupInv, LookupType
  <2>4. LookupType'
    BY <2>1, <2>3 DEF LookupInv, LookupType, lookup
  <2> QED BY <2>1, <2>2, <2>4
          DEF LookupInv, lookup, RequestInBounds, Costs, NotServed, Accounted, Requesting
<1>2. CASE UNCHANGED vars
  <2>1. Planned' = Planned /\ \A n : Hit(n)' = Hit(n)
    BY <1>2, PlannedFixed, HitFixed DEF vars, lookup
  <2>2. Done' = Done /\ Spent' = Spent /\ Requesting' = Requesting
    BY <1>2, <2>1 DEF vars, lookup, Done, Spent, Requesting
  <2>3. NamesIn(plan)' = NamesIn(plan) /\ ToSet(wanted)' = ToSet(wanted) /\ Covered' = Covered
    BY <1>2 DEF vars, lookup, NamesIn, ToSet, Covered
  <2>4. LookupType' /\ RequestInBounds'
    BY <1>2, <2>1, <2>2 DEF vars, lookup, LookupInv, LookupType, RequestInBounds
  <2>5. Costs' /\ NotServed' /\ Accounted'
    BY <1>2, <2>1, <2>2, <2>3 DEF vars, lookup, LookupInv, Costs, NotServed, Accounted
  <2> QED BY <2>4, <2>5 DEF LookupInv
<1>3. CASE Refused \/ ProbeFailed
  BY <1>3, ThrowKeeps DEF Refused, ProbeFailed
<1> QED BY <1>1, <1>2, <1>3, StartKeeps, FetchKeeps, TickKeeps, WaitKeeps, AnswersKeep,
           SaveKeeps DEF Next, Step, Finished, Answered

(* However the downloads API behaves, one lookup costs at most the attempt *)
(* limit for each request it plans and for one sentinel, in requests and   *)
(* in time, and never asks for what an earlier one answered.               *)
THEOREM LookupCostBounded == Spec => []CostBounded
<1>1. LookupInv => CostBounded
  <2> SUFFICES ASSUME LookupInv PROVE CostBounded
    OBVIOUS
  <2>1. hits <= Attempts * (Planned + 1)
    BY DEF LookupInv, Costs
  <2>2. ASSUME stage # "idle" PROVE now - started <= LongestRequest * (Planned + 1)
    <3>1. CASE stage = "save"
      BY <3>1 DEF LookupInv, Costs
    <3>2. CASE Requesting
      <4>1. now - started <= LongestRequest * Done + Spent
        BY <3>2 DEF LookupInv, Costs
      <4>2. /\ Len(plan) \in Nat \ {0} /\ Planned \in Nat /\ Len(plan) <= Planned
            /\ try \in 0 .. Attempts /\ age \in Nat /\ now \in Nat /\ started \in Nat
        BY <3>2, TailNames, PlanFacts, LimitFacts
           DEF LookupInv, LookupType, RequestInBounds
      <4>3. Done \in Nat /\ Done + 1 <= Planned + 1
        BY <4>2 DEF Done
      <4>4. Spent \in Nat /\ Spent <= LongestRequest
        <5> DEFINE unit == Timeout + BackoffCap
        <5>0. unit \in Nat
          BY LimitFacts
        <5>1. CASE stage = "ready"
          <6>1. try <= Attempts - 1 /\ Attempts - 1 \in Nat /\ try \in Nat
            BY <4>2, <5>1, LimitFacts DEF LookupInv, RequestInBounds
          <6>2. unit * try <= unit * (Attempts - 1) /\ unit * try \in Nat
            BY <5>0, <6>1, Times
          <6>3. try * unit = unit * try /\ (Attempts - 1) * unit = unit * (Attempts - 1)
            BY <5>0, <6>1
          <6>4. Spent = try * unit
            BY <5>1 DEF Spent
          <6> HIDE DEF unit
          <6> QED BY <6>1, <6>2, <6>3, <6>4, LimitFacts DEF unit
        <5>2. CASE stage \in {"out", "backoff"}
          <6>1. /\ try - 1 \in Nat /\ Attempts - 1 \in Nat /\ try <= Attempts
                /\ (stage = "backoff" => try < Attempts) /\ age <= Wait[stage]
            BY <4>2, <5>2, LimitFacts DEF LookupInv, RequestInBounds
          <6>2. /\ unit * (try - 1) <= unit * (Attempts - 1) /\ unit * (try - 1) \in Nat
                /\ stage = "backoff" => unit * (try - 1) + unit <= unit * (Attempts - 1)
            <7>1. stage = "backoff" => try - 1 + 1 <= Attempts - 1
              BY <6>1, <4>2, LimitFacts
            <7>2. unit * (try - 1 + 1) = unit * (try - 1) + unit
              BY <5>0, <6>1, Times
            <7>3. stage = "backoff" => unit * (try - 1 + 1) <= unit * (Attempts - 1)
              BY <5>0, <6>1, <7>1, Times
            <7> QED BY <5>0, <6>1, <7>2, <7>3, Times, <4>2, LimitFacts
          <6>3. /\ (try - 1) * unit = unit * (try - 1)
                /\ (Attempts - 1) * unit = unit * (Attempts - 1)
            BY <5>0, <6>1
          <6>4. Spent = (try - 1) * unit + (IF stage = "out" THEN age ELSE Timeout + age)
            BY <5>2, <4>2, LimitFacts DEF Spent
          <6> QED BY <4>2, <5>2, <6>1, <6>2, <6>3, <6>4, LimitFacts
        <5> QED BY <3>2, <5>1, <5>2 DEF Requesting
      <4>5. /\ LongestRequest * (Done + 1) = LongestRequest * Done + LongestRequest
            /\ LongestRequest * Done \in Nat
            /\ LongestRequest * (Done + 1) <= LongestRequest * (Planned + 1)
            /\ LongestRequest * (Planned + 1) \in Nat
        BY <4>2, <4>3, LimitFacts, Times
      <4> QED BY <4>1, <4>2, <4>4, <4>5, LimitFacts
    <3> QED BY <2>2, <3>1, <3>2 DEF LookupInv, LookupType, Requesting
  <2>3. ASSUME stage = "out", ~probing PROVE ToSet(Head(plan)) \cap served = {}
    <3>1. plan \in Seq(Seq(Names)) /\ plan # <<>> /\ NamesIn(plan) \cap served = {}
      BY <2>3 DEF LookupInv, LookupType, RequestInBounds, NotServed, Requesting
    <3> QED BY <3>1, TailNames
  <2> QED BY <2>1, <2>2, <2>3 DEF CostBounded, Planned
<1> QED BY LookupInit, LookupStep, <1>1, PTL DEF Spec

(* A lookup that gets through its requests accounts for every name it was  *)
(* asked: nothing falls between the batches and the single requests.       *)
THEOREM LookupAccountsForAll == Spec => []EveryNameAccounted
<1>1. LookupInv => EveryNameAccounted
  BY DEF LookupInv, Accounted, Covered, EveryNameAccounted
<1> QED BY LookupInit, LookupStep, <1>1, PTL DEF Spec
=============================================================================
