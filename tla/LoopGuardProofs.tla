-------------------------- MODULE LoopGuardProofs --------------------------
(***************************************************************************)
(* The loop detector finds what it is meant to find, for every threshold,  *)
(* every limit and every history an agent and its tools can produce.       *)
(***************************************************************************)
EXTENDS LoopGuard, SequenceTheorems, WellFoundedInduction, TLAPS

-----------------------------------------------------------------------------
(* Numbers *)

LEMMA LeastNat ==
  ASSUME NEW T, T \subseteq Nat, T # {}
  PROVE  \E x \in T : \A y \in T : x <= y
<1>1. PICK x \in T : \A y \in T : <<y, x>> \notin OpToRel(<, Nat)
  BY NatLessThanWellFounded, WFMin
<1>2. ASSUME NEW y \in T PROVE x <= y
  <2>1. ~(y < x)
    BY <1>1, <1>2 DEF OpToRel
  <2> QED
    BY <2>1, SMT
<1> QED
  BY <1>2

LEMMA ModRange ==
  ASSUME NEW x \in Nat, NEW p \in Nat \ {0}
  PROVE  x % p \in 0 .. p - 1
  BY SMT

LEMMA ModSmall ==
  ASSUME NEW p \in Nat \ {0}, NEW x \in 0 .. p - 1
  PROVE  x % p = x
  BY SMT

LEMMA ModUnique ==
  ASSUME NEW p \in Nat \ {0}, NEW q \in Nat, NEW r \in 0 .. p - 1, NEW x \in Nat, x = p * q + r
  PROVE  x % p = r
<1>1. PICK a \in Nat : a = x \div p
  BY SMT
<1>2. PICK b \in 0 .. p - 1 : b = x % p
  BY ModRange
<1>3. x = p * a + b
  BY <1>1, <1>2, SMT
<1>4. a = q
  <2>1. CASE a > q
    <3>1. p * a >= p * q + p
      BY <2>1, SMT
    <3> QED
      BY <1>3, <3>1, SMT
  <2>2. CASE a < q
    <3>1. p * q >= p * a + p
      BY <2>2, SMT
    <3> QED
      BY <1>3, <3>1, SMT
  <2> QED
    BY <2>1, <2>2, SMT
<1> QED
  BY <1>2, <1>3, <1>4, SMT

LEMMA ModAdd ==
  ASSUME NEW x \in Nat, NEW p \in Nat \ {0}
  PROVE  (x + p) % p = x % p
<1>1. PICK a \in Nat : a = x \div p
  BY SMT
<1>2. PICK b \in 0 .. p - 1 : b = x % p
  BY ModRange
<1>3. x = p * a + b
  BY <1>1, <1>2, SMT
<1>4. x + p = p * (a + 1) + b
  BY <1>3, SMT
<1>5. (x + p) % p = b
  <2>1. PICK y \in Nat, c \in Nat : y = x + p /\ c = a + 1
    BY SMT
  <2>2. y = p * c + b
    BY <1>4, <2>1
  <2>3. y % p = b
    BY <1>2, <2>1, <2>2, ModUnique, Zenon
  <2> QED
    BY <2>1, <2>3
<1> QED
  BY <1>2, <1>5

LEMMA DivBound ==
  ASSUME NEW x \in Nat, NEW p \in Nat, NEW k \in Nat \ {0}
  PROVE  p <= x \div k <=> p * k <= x
  BY SMT

-----------------------------------------------------------------------------
(* A suffix that repeats a pattern has its length as a period *)

\* The first n values of f go on as their first p began.
Follows(f, n, p) == \A i \in 1 .. n : f[i] = f[((i - 1) % p) + 1]

LEMMA RepeatedTail ==
  ASSUME NEW S, NEW tail \in Seq(S), NEW p \in Nat \ {0}, NEW t \in Nat \ {0}, Len(tail) = p * t
  PROVE  tail = Repeat(SubSeq(tail, 1, p), t) <=> Follows(tail, Len(tail), p)
<1> DEFINE pattern == SubSeq(tail, 1, p)
           n == Len(tail)
<1>1. n \in Nat /\ tail \in [1 .. n -> S] /\ p <= n /\ n = t * p
  BY LenProperties, SMT
<1>2. Len(pattern) = p /\ \A i \in 1 .. p : pattern[i] = tail[i]
  <2>1. \A i \in 1 .. p : tail[i] \in S
    BY <1>1, SMT
  <2>2. /\ Len(pattern) = IF 1 <= p THEN p - 1 + 1 ELSE 0
        /\ \A i \in 1 .. p - 1 + 1 : pattern[i] = tail[1 + i - 1]
    BY <2>1, SubSeqProperties
  <2> QED
    BY <2>2, SMT
<1>3. Repeat(pattern, t) = [i \in 1 .. n |-> pattern[((i - 1) % p) + 1]]
  BY <1>1, <1>2 DEF Repeat
<1> HIDE DEF pattern, n
<1>4. ASSUME NEW i \in 1 .. n PROVE pattern[((i - 1) % p) + 1] = tail[((i - 1) % p) + 1]
  <2>1. i - 1 \in Nat
    BY <1>1, SMT
  <2>2. (i - 1) % p \in 0 .. p - 1
    BY <2>1, ModRange
  <2>3. ((i - 1) % p) + 1 \in 1 .. p
    BY <2>2, SMT
  <2> QED
    BY <1>2, <2>3
<1>5. tail = [i \in 1 .. n |-> tail[i]]
  BY <1>1
<1>6. tail = Repeat(pattern, t) <=> \A i \in 1 .. n : tail[i] = tail[((i - 1) % p) + 1]
  BY <1>3, <1>4, <1>5, Zenon
<1> QED
  BY <1>6 DEF pattern, n, Follows

\* Every element is the one a period before it exactly if it is the one of the pattern.
LEMMA PeriodOfPattern ==
  ASSUME NEW n \in Nat, NEW p \in Nat \ {0}, NEW f
  PROVE  Follows(f, n, p) <=> Periodic(f, 1, n, p)
<1>1. ASSUME \A i \in 1 .. n : f[i] = f[((i - 1) % p) + 1], NEW i \in 1 .. n - p
      PROVE  f[i] = f[i + p]
  <2>1. i - 1 \in Nat /\ i \in 1 .. n /\ i + p \in 1 .. n /\ (i + p) - 1 = (i - 1) + p
    BY SMT
  <2>2. ((i + p) - 1) % p = (i - 1) % p
    BY <2>1, ModAdd
  <2> QED
    BY <1>1, <2>1, <2>2
<1>2. ASSUME \A i \in 1 .. n - p : f[i] = f[i + p],
             ~\A i \in 1 .. n : f[i] = f[((i - 1) % p) + 1]
      PROVE  FALSE
  <2> DEFINE T == {i \in 1 .. n : f[i] # f[((i - 1) % p) + 1]}
  <2>1. PICK i \in T : \A j \in T : i <= j
    <3>1. T \subseteq Nat
      BY SMT
    <3>2. T # {}
      BY <1>2
    <3> HIDE DEF T
    <3> QED
      BY <3>1, <3>2, LeastNat
  <2>2. i \in 1 .. n /\ f[i] # f[((i - 1) % p) + 1]
    BY <2>1
  <2>3. CASE i <= p
    <3>1. i - 1 \in 0 .. p - 1
      BY <2>2, <2>3, SMT
    <3>2. (i - 1) % p = i - 1
      BY <3>1, ModSmall
    <3>3. ((i - 1) % p) + 1 = i
      BY <2>2, <3>2, SMT
    <3> QED
      BY <2>2, <3>3
  <2>4. CASE i > p
    <3>1. PICK j : j = i - p
      OBVIOUS
    <3>2. /\ j \in 1 .. n /\ j \in 1 .. n - p /\ j < i /\ i = j + p
          /\ j - 1 \in Nat /\ i - 1 = (j - 1) + p
      BY <2>2, <2>4, <3>1, SMT
    <3>3. j \notin T
      BY <2>1, <2>2, <3>2, SMT
    <3>4. f[j] = f[((j - 1) % p) + 1]
      BY <3>2, <3>3
    <3>5. (i - 1) % p = (j - 1) % p
      BY <3>2, ModAdd
    <3>6. f[j] = f[i]
      BY <1>2, <3>2
    <3> QED
      BY <2>2, <3>4, <3>5, <3>6
  <2> QED
    BY <2>2, <2>3, <2>4, SMT
<1> QED
  BY <1>1, <1>2 DEF Follows, Periodic

LEMMA TailPeriod ==
  ASSUME NEW S, NEW tail \in Seq(S), NEW p \in Nat \ {0}, NEW t \in Nat \ {0}, Len(tail) = p * t
  PROVE  tail = Repeat(SubSeq(tail, 1, p), t) <=> Periodic(tail, 1, Len(tail), p)
<1>1. tail = Repeat(SubSeq(tail, 1, p), t) <=> Follows(tail, Len(tail), p)
  BY RepeatedTail
<1>2. Len(tail) \in Nat
  BY LenProperties
<1> QED
  BY <1>1, <1>2, PeriodOfPattern, Zenon

LEMMA SuffixIsCycle ==
  ASSUME NEW S, NEW values \in Seq(S), NEW p \in Nat \ {0}, NEW n \in Nat,
         n = p * RepeatThreshold, n <= Len(values), NEW tail, tail = LastN(values, n)
  PROVE  tail = Repeat(SubSeq(tail, 1, p), RepeatThreshold)
            <=> Periodic(values, Len(values) - n + 1, Len(values), p)
<1>1. Len(values) \in Nat /\ RepeatThreshold \in Nat \ {0} /\ \A i \in 1 .. Len(values) : values[i] \in S
  BY LenProperties, LoopDetectorAssumption, SMT
<1>2. PICK m \in Nat : m = Len(values) - n
  <2>1. Len(values) - n \in Nat
    BY <1>1, SMT
  <2> QED
    BY <2>1
<1>3. tail \in Seq(S) /\ Len(tail) = n /\ \A i \in 1 .. n : tail[i] = values[m + i]
  <2>1. /\ m + 1 \in Int /\ Len(values) \in Int /\ \A i \in m + 1 .. Len(values) : values[i] \in S
        /\ Len(values) - n + 1 = m + 1
    BY <1>1, <1>2, SMT
  <2>2. PICK from, to : from = m + 1 /\ to = Len(values)
    OBVIOUS
  <2>3. tail = SubSeq(values, from, to) /\ from \in Int /\ to \in Int
    BY <2>1, <2>2 DEF LastN
  <2>4. \A i \in from .. to : values[i] \in S
    BY <2>1, <2>2
  <2>5. /\ tail \in Seq(S)
        /\ Len(tail) = IF from <= to THEN to - from + 1 ELSE 0
        /\ \A i \in 1 .. to - from + 1 : tail[i] = values[from + i - 1]
    <3>1. /\ SubSeq(values, from, to) \in Seq(S)
          /\ Len(SubSeq(values, from, to)) = IF from <= to THEN to - from + 1 ELSE 0
          /\ \A i \in 1 .. to - from + 1 : SubSeq(values, from, to)[i] = values[from + i - 1]
      BY <2>3, <2>4, SubSeqProperties
    <3> QED
      BY <2>3, <3>1
  <2>6. Len(tail) = n /\ to - from + 1 = n
    BY <1>1, <1>2, <2>2, <2>5, SMT
  <2>7. ASSUME NEW i \in 1 .. n PROVE from + i - 1 = m + i
    BY <1>2, <2>2, SMT
  <2> QED
    BY <2>5, <2>6, <2>7
<1>4. tail = Repeat(SubSeq(tail, 1, p), RepeatThreshold)
        <=> \A i \in 1 .. n - p : tail[i] = tail[i + p]
  <2>1. Len(tail) = p * RepeatThreshold
    BY <1>3
  <2>2. ASSUME NEW u \in Seq(S), Len(u) = p * RepeatThreshold
        PROVE  u = Repeat(SubSeq(u, 1, p), RepeatThreshold) <=> Periodic(u, 1, Len(u), p)
    BY <1>1, <2>2, TailPeriod
  <2>3. tail = Repeat(SubSeq(tail, 1, p), RepeatThreshold) <=> Periodic(tail, 1, Len(tail), p)
    BY <1>3, <2>1, <2>2, Zenon
  <2> QED
    BY <1>3, <2>3 DEF Periodic
<1>5. ASSUME \A i \in 1 .. n - p : tail[i] = tail[i + p],
             NEW i \in m + 1 .. Len(values) - p
      PROVE  values[i] = values[i + p]
  <2>1. PICK j : j = i - m
    OBVIOUS
  <2>2. /\ j \in 1 .. n - p /\ j \in 1 .. n /\ j + p \in 1 .. n
        /\ m + j = i /\ m + (j + p) = i + p
    BY <1>1, <1>2, <2>1, SMT
  <2> QED
    BY <1>3, <1>5, <2>2
<1>6. ASSUME \A i \in m + 1 .. Len(values) - p : values[i] = values[i + p],
             NEW i \in 1 .. n - p
      PROVE  tail[i] = tail[i + p]
  <2>1. /\ m + i \in m + 1 .. Len(values) - p /\ i \in 1 .. n /\ i + p \in 1 .. n
        /\ m + (i + p) = (m + i) + p
    BY <1>1, <1>2, SMT
  <2> QED
    BY <1>3, <1>6, <2>1
<1>7. Len(values) - n + 1 = m + 1
  BY <1>1, <1>2, SMT
<1> QED
  BY <1>4, <1>5, <1>6, <1>7 DEF Periodic

\* The detector finds exactly the histories that end in a cycle.
LEMMA DetectorIsExact ==
  ASSUME NEW S, NEW values \in Seq(S)
  PROVE  RepeatedSuffix(values) <=> CyclesNow(values)
<1>1. Len(values) \in Nat /\ RepeatThreshold \in Nat \ {0}
  BY LenProperties, LoopDetectorAssumption, SMT
<1>2. ASSUME NEW p \in Nat \ {0}
      PROVE  /\ p \in 1 .. Len(values) \div RepeatThreshold <=> p * RepeatThreshold <= Len(values)
             /\ p * RepeatThreshold \in Nat
             /\ p * RepeatThreshold <= Len(values) => p \in 1 .. Len(values)
  <2>1. p <= Len(values) \div RepeatThreshold <=> p * RepeatThreshold <= Len(values)
    BY <1>1, DivBound
  <2>2. p * RepeatThreshold \in Nat /\ p <= p * RepeatThreshold
    BY <1>1, SMT
  <2>3. Len(values) \div RepeatThreshold \in Nat
    BY <1>1, SMT
  <2> QED
    BY <1>1, <2>1, <2>2, <2>3, SMT
<1>3. ASSUME RepeatedSuffix(values) PROVE CyclesNow(values)
  <2>1. PICK p \in 1 .. Len(values) \div RepeatThreshold :
            LastN(values, p * RepeatThreshold) =
                Repeat(SubSeq(LastN(values, p * RepeatThreshold), 1, p), RepeatThreshold)
    BY <1>3 DEF RepeatedSuffix
  <2>2. p \in Nat \ {0}
    BY <1>1, <2>1, SMT
  <2>3. p * RepeatThreshold <= Len(values) /\ p * RepeatThreshold \in Nat /\ p \in 1 .. Len(values)
    BY <1>2, <2>1, <2>2
  <2>4. Periodic(values, Len(values) - p * RepeatThreshold + 1, Len(values), p)
    BY <2>1, <2>2, <2>3, SuffixIsCycle, Zenon
  <2> QED
    BY <2>3, <2>4 DEF CyclesNow
<1>4. ASSUME CyclesNow(values) PROVE RepeatedSuffix(values)
  <2>1. PICK p \in 1 .. Len(values) :
            /\ p * RepeatThreshold <= Len(values)
            /\ Periodic(values, Len(values) - p * RepeatThreshold + 1, Len(values), p)
    BY <1>4 DEF CyclesNow
  <2>2. p \in Nat \ {0}
    BY <1>1, <2>1, SMT
  <2>3. p \in 1 .. Len(values) \div RepeatThreshold /\ p * RepeatThreshold \in Nat
    BY <1>2, <2>1, <2>2
  <2>4. LastN(values, p * RepeatThreshold) =
            Repeat(SubSeq(LastN(values, p * RepeatThreshold), 1, p), RepeatThreshold)
    BY <2>1, <2>2, <2>3, SuffixIsCycle, Zenon
  <2> QED
    BY <2>3, <2>4 DEF RepeatedSuffix
<1> QED
  BY <1>3, <1>4

-----------------------------------------------------------------------------
(* The guard's histories *)

\* What process() appends: requests of the agent's tools, one fingerprint with each and
\* one with each answer; after an answer the last one is of the evidence there is.
LoopTypeOK ==
    /\ tools \in Seq(AgentTools)
    /\ progress \in Seq(Fingerprints)
    /\ fingerprint \in Fingerprints
    /\ answered \in BOOLEAN /\ stopped \in BOOLEAN
    /\ answered => Len(progress) > 0 /\ progress[Len(progress)] = fingerprint

LEMMA Appended ==
  ASSUME NEW S, NEW values \in Seq(S), NEW value \in S
  PROVE  /\ Append(values, value) \in Seq(S)
         /\ Len(values) \in Nat
         /\ Len(Append(values, value)) = Len(values) + 1
         /\ \A i \in 1 .. Len(values) : Append(values, value)[i] = values[i]
         /\ Append(values, value)[Len(values) + 1] = value
  BY AppendProperties, LenProperties

LEMMA LoopReasonBoolean == \A t, p : LoopReason(t, p) \in BOOLEAN
  BY DEF LoopReason, RepeatedSuffix, NoProgress

LEMMA LoopTypeStep ==
  ASSUME LoopTypeOK, [Next]_vars
  PROVE  LoopTypeOK'
<1>1. CASE UNCHANGED vars
  BY <1>1 DEF vars, LoopTypeOK
<1>2. ASSUME NEW tool \in AgentTools, Request(tool) PROVE LoopTypeOK'
  <2>1. tools' \in Seq(AgentTools) /\ progress' \in Seq(Fingerprints)
    BY <1>2, Appended DEF LoopTypeOK, Request
  <2>2. stopped' \in BOOLEAN
    BY <1>2, LoopReasonBoolean DEF Request
  <2> QED
    BY <1>2, <2>1, <2>2 DEF LoopTypeOK, Request
<1>3. ASSUME NEW evidence \in Fingerprints, Answer(evidence) PROVE LoopTypeOK'
  <2>1. /\ progress' \in Seq(Fingerprints)
        /\ Len(progress) \in Nat /\ Len(progress') = Len(progress) + 1
        /\ progress'[Len(progress) + 1] = evidence
    BY <1>3, Appended DEF LoopTypeOK, Answer
  <2>2. Len(progress') > 0 /\ progress'[Len(progress')] = fingerprint'
    <3>1. Len(progress') > 0
      BY <2>1, SMT
    <3> QED
      BY <1>3, <2>1, <3>1 DEF Answer
  <2> QED
    BY <1>3, <2>1, <2>2 DEF LoopTypeOK, Answer
<1> QED
  BY <1>1, <1>2, <1>3 DEF Next

LEMMA LoopTypeHolds == Spec => []LoopTypeOK
<1>1. Init => LoopTypeOK
  BY EmptySeq DEF Init, LoopTypeOK
<1>2. LoopTypeOK /\ [Next]_vars => LoopTypeOK'
  BY LoopTypeStep
<1> QED
  BY <1>1, <1>2, PTL DEF Spec

\* However long a run is, the detector reports a repetition exactly when the requests
\* end in a pattern that came RepeatThreshold times in a row (_repeated_suffix).
THEOREM DetectsCyclesHolds == Spec => []DetectsCycles
<1>1. LoopTypeOK => DetectsCycles
  BY DetectorIsExact DEF LoopTypeOK, DetectsCycles
<1> QED
  BY <1>1, LoopTypeHolds, PTL

LEMMA NoCycleStep ==
  ASSUME LoopTypeOK, LoopTypeOK', NoCycleSurvives, [Next]_vars
  PROVE  NoCycleSurvives'
<1>1. CASE UNCHANGED vars
  BY <1>1 DEF vars, NoCycleSurvives
<1>2. CASE \E evidence \in Fingerprints : Answer(evidence)
  BY <1>2 DEF Answer, NoCycleSurvives
<1>3. ASSUME NEW tool \in AgentTools, Request(tool), ~stopped', Cycles(tools', 1, Len(tools'))
      PROVE  FALSE
  <2>1. PICK n \in Nat : /\ n = Len(tools) /\ Len(tools') = n + 1
                         /\ \A i \in 1 .. n : tools'[i] = tools[i]
    BY <1>3, Appended DEF LoopTypeOK, Request
  <2>2. ~CyclesNow(tools')
    <3>1. ~RepeatedSuffix(tools')
      BY <1>3 DEF Request, LoopReason
    <3> QED
      BY <3>1, DetectorIsExact DEF LoopTypeOK
  <2>3. PICK p \in 1 .. n + 1, start \in 1 .. n + 1 :
            /\ start + p * RepeatThreshold - 1 <= n + 1
            /\ Periodic(tools', start, start + p * RepeatThreshold - 1, p)
    <3>1. Len(tools') - 1 + 1 = n + 1
      BY <2>1, SMT
    <3> QED
      BY <1>3, <2>1, <3>1 DEF Cycles
  <2>4. PICK length \in Nat : length = p * RepeatThreshold /\ p <= length
    BY LoopDetectorAssumption, SMT
  <2>5. CASE start + length - 1 = n + 1
    <3>1. length <= n + 1 /\ start = (n + 1) - length + 1
      BY <2>4, <2>5, SMT
    <3>2. Periodic(tools', Len(tools') - p * RepeatThreshold + 1, Len(tools'), p)
      BY <2>1, <2>3, <2>4, <2>5, <3>1
    <3> QED
      BY <2>1, <2>2, <2>4, <3>1, <3>2 DEF CyclesNow
  <2>6. CASE start + length - 1 <= n
    <3>1. p \in 1 .. n - 1 + 1 /\ start \in 1 .. n
      BY <2>4, <2>6, SMT
    <3>2. Periodic(tools, start, start + length - 1, p)
      <4>1. ASSUME NEW i \in start .. (start + length - 1) - p PROVE tools[i] = tools[i + p]
        <5>1. i \in 1 .. n /\ i + p \in 1 .. n
          BY <2>4, <2>6, SMT
        <5>2. tools'[i] = tools'[i + p]
          BY <2>3, <2>4 DEF Periodic
        <5> QED
          BY <2>1, <5>1, <5>2
      <4> QED
        BY <4>1 DEF Periodic
    <3>3. Cycles(tools, 1, Len(tools))
      BY <2>1, <2>4, <2>6, <3>1, <3>2 DEF Cycles
    <3> QED
      BY <1>3, <3>3 DEF NoCycleSurvives, Request
  <2> QED
    BY <2>3, <2>4, <2>5, <2>6, SMT
<1> QED
  BY <1>1, <1>2, <1>3 DEF Next, NoCycleSurvives

\* process() asks the detector about the suffix alone, once per decision: a workflow that
\* it lets go on has no repeated pattern of any length anywhere in its requests.
THEOREM NoCycleSurvivesHolds == Spec => []NoCycleSurvives
<1>1. Init => NoCycleSurvives
  <2>1. Init => Len(tools) = 0
    BY EmptySeq DEF Init
  <2>2. 1 .. 0 - 1 + 1 = {}
    BY SMT
  <2> QED
    BY <2>1, <2>2 DEF NoCycleSurvives, Cycles
<1>2. LoopTypeOK /\ LoopTypeOK' /\ NoCycleSurvives /\ [Next]_vars => NoCycleSurvives'
  BY NoCycleStep
<1> QED
  BY <1>1, <1>2, LoopTypeHolds, PTL DEF Spec

-----------------------------------------------------------------------------
(* Evidence that changes *)

\* RepeatThreshold fingerprints from start on are not all the same.
Changes(start) == \E i \in start + 1 .. start + RepeatThreshold - 1 : progress[i] # progress[start]

\* A running workflow's fingerprints change in every window the detector was asked
\* about; only the one an answer has just completed may be waiting for the next decision.
WindowsChange ==
    ~stopped =>
        \A start \in 1 .. Len(progress) - RepeatThreshold + 1 :
            start + RepeatThreshold - 1 < Len(progress) \/ ~answered => Changes(start)

LEMMA WindowsChangeStep ==
  ASSUME LoopTypeOK, LoopTypeOK', WindowsChange, [Next]_vars
  PROVE  WindowsChange'
<1>1. CASE UNCHANGED vars
  BY <1>1 DEF vars, WindowsChange, Changes
<1>2. PICK r \in Nat : r = RepeatThreshold /\ r >= 2
  BY LoopDetectorAssumption
<1>3. ASSUME NEW n \in Nat, n = Len(progress), Len(progress') = n + 1,
             \A i \in 1 .. n : progress'[i] = progress[i],
             NEW start \in 1 .. n, start + r - 1 <= n, Changes(start)
      PROVE  Changes(start)'
  <2>1. PICK i \in start + 1 .. start + r - 1 : progress[i] # progress[start]
    BY <1>2, <1>3 DEF Changes
  <2>2. i \in 1 .. n
    BY <1>2, <1>3, <2>1, SMT
  <2>3. progress'[i] # progress'[start]
    BY <1>3, <2>1, <2>2
  <2> QED
    BY <1>2, <2>1, <2>3 DEF Changes
<1>4. ASSUME NEW evidence \in Fingerprints, Answer(evidence) PROVE WindowsChange'
  <2>1. PICK n \in Nat : /\ n = Len(progress) /\ Len(progress') = n + 1
                         /\ \A i \in 1 .. n : progress'[i] = progress[i]
    BY <1>4, Appended DEF LoopTypeOK, Answer
  <2>2. ASSUME NEW start \in 1 .. (n + 1) - r + 1, start + r - 1 < n + 1 PROVE Changes(start)'
    <3>1. start \in 1 .. n - r + 1 /\ start \in 1 .. n /\ start + r - 1 <= n
      BY <1>2, <2>2, SMT
    <3>2. Changes(start)
      BY <1>2, <1>4, <2>1, <3>1 DEF WindowsChange, Answer
    <3> QED
      BY <1>3, <2>1, <3>1, <3>2
  <2> QED
    BY <1>2, <1>4, <2>1, <2>2 DEF WindowsChange, Answer
<1>5. ASSUME NEW tool \in AgentTools, Request(tool), ~stopped' PROVE WindowsChange'
  <2>1. PICK n \in Nat : /\ n = Len(progress) /\ Len(progress') = n + 1
                         /\ \A i \in 1 .. n : progress'[i] = progress[i]
                         /\ progress'[n + 1] = fingerprint
    BY <1>5, Appended DEF LoopTypeOK, Request
  <2>2. n + 1 >= r => \E i, j \in (n + 1) - r + 1 .. n + 1 : progress'[i] # progress'[j]
    <3>1. ~NoProgress(progress')
      BY <1>5 DEF Request, LoopReason
    <3>2. Len(progress') = n + 1 /\ RepeatThreshold = r
      BY <1>2, <2>1
    <3> QED
      BY <3>1, <3>2, Zenon DEF NoProgress
  \* The window the decision completes: the detector has just been asked about it.
  <2>3. ASSUME NEW start \in 1 .. n + 1, start + r - 1 = n + 1 PROVE Changes(start)'
    <3>1. n + 1 >= r /\ (n + 1) - r + 1 = start
      BY <1>2, <2>3, SMT
    <3>2. PICK i \in start .. n + 1, j \in start .. n + 1 : progress'[i] # progress'[j]
      BY <2>2, <3>1
    <3>3. PICK k \in start .. n + 1 : progress'[k] # progress'[start]
      BY <3>2
    <3>4. k \in start + 1 .. n + 1
      BY <3>3, SMT
    <3> QED
      BY <1>2, <2>3, <3>3, <3>4 DEF Changes
  \* The window the last answer completed: the decision repeated its last fingerprint.
  <2>4. ASSUME NEW start \in 1 .. n, start + r - 1 = n, answered PROVE Changes(start)
    <3>1. SUFFICES ASSUME ~Changes(start) PROVE FALSE
      OBVIOUS
    <3>2. \A i \in start .. n : progress[i] = progress[start]
      <4>1. ASSUME NEW i \in start .. n PROVE i = start \/ i \in start + 1 .. start + r - 1
        BY <1>2, <2>4, SMT
      <4> QED
        BY <1>2, <3>1, <4>1 DEF Changes
    <3>3. progress[n] = fingerprint /\ n \in start .. n
      BY <2>1, <2>4, SMT DEF LoopTypeOK
    <3>4. ASSUME NEW i \in start + 1 .. n + 1 PROVE progress'[i] = fingerprint
      <4>1. CASE i = n + 1
        BY <2>1, <4>1
      <4>2. CASE i <= n
        <5>1. i \in 1 .. n /\ i \in start .. n
          BY <3>4, <4>2, SMT
        <5> QED
          BY <2>1, <3>2, <3>3, <5>1
      <4> QED
        BY <4>1, <4>2, SMT
    <3>5. n + 1 >= r /\ (n + 1) - r + 1 = start + 1
      BY <1>2, <2>4, SMT
    <3> QED
      BY <2>2, <3>4, <3>5
  <2>5. ASSUME NEW start \in 1 .. (n + 1) - r + 1 PROVE Changes(start)'
    <3>1. CASE start + r - 1 = n + 1
      <4>1. start \in 1 .. n + 1
        BY <1>2, <2>5, SMT
      <4> QED
        BY <2>3, <3>1, <4>1
    <3>2. CASE start + r - 1 <= n
      <4>1. start \in 1 .. n - r + 1 /\ start \in 1 .. n
        BY <1>2, <2>5, <3>2, SMT
      <4>2. CASE start + r - 1 = n /\ answered
        BY <1>3, <2>1, <2>4, <3>2, <4>1, <4>2
      <4>3. CASE start + r - 1 < n \/ ~answered
        <5>1. Changes(start)
          BY <1>2, <1>5, <2>1, <4>1, <4>3 DEF WindowsChange, Request
        <5> QED
          BY <1>3, <2>1, <3>2, <4>1, <5>1
      <4> QED
        BY <3>2, <4>2, <4>3, <1>2, SMT DEF LoopTypeOK
    <3> QED
      BY <1>2, <2>5, <3>1, <3>2, SMT
  <2> QED
    BY <1>2, <2>1, <2>5 DEF WindowsChange
<1>6. ASSUME NEW tool \in AgentTools, Request(tool), stopped' PROVE WindowsChange'
  BY <1>6 DEF WindowsChange
<1> QED
  BY <1>1, <1>4, <1>5, <1>6 DEF Next

\* Answers append fingerprints that process() does not ask about: a workflow that has
\* passed a decision has still made no RepeatThreshold observations in a row, anywhere
\* in its run, without a change of the evidence.
THEOREM NoStuckRunSurvivesHolds == Spec => []NoStuckRunSurvives
<1>1. Init => WindowsChange
  <2>1. Init => Len(progress) = 0
    BY EmptySeq DEF Init
  <2>2. 1 .. 0 - RepeatThreshold + 1 = {}
    BY LoopDetectorAssumption, SMT
  <2> QED
    BY <2>1, <2>2 DEF WindowsChange
<1>2. LoopTypeOK /\ LoopTypeOK' /\ WindowsChange /\ [Next]_vars => WindowsChange'
  BY WindowsChangeStep
<1>3. WindowsChange => NoStuckRunSurvives
  BY DEF WindowsChange, NoStuckRunSurvives, Changes
<1> QED
  BY <1>1, <1>2, <1>3, LoopTypeHolds, PTL DEF Spec
=============================================================================
