----------------------------- MODULE RunnerProofs -----------------------------
(***************************************************************************)
(* Proofs about Runner, for any registry, suites, boards and drivers.      *)
(*                                                                         *)
(* Only, of which selection and model gating are built, is a recursive     *)
(* function; what it returns is shown by an induction over a set of        *)
(* numbers.                                                                *)
(***************************************************************************)
EXTENDS Runner, TLAPS, SequenceTheorems, WellFoundedInduction

-----------------------------------------------------------------------------
(* The invariant *)

Aliases == UNION {DOMAIN Drivers[b] : b \in Boards}
Entries == [board : Boards, check : Checks, verdict : Verdicts]
Executions == [board : Boards, check : Checks, verdict : Verdicts, aliases : SUBSET Aliases]

OnBoard == pc \in {"units", "batch", "unwind"}

Typed ==
  /\ suite \in Suites /\ backend \in Backends
  /\ pc \in {"select", "boards", "units", "batch", "unwind", "done", "raised"}
  /\ specs \in Seq(Checks) /\ queue \in Seq(Checks) /\ batch \in Seq(Checks)
  /\ at \in 0..Len(BoardSeq) /\ (OnBoard => at # 0)
  /\ results \in Seq(Entries) /\ records \in Seq(Entries) /\ ran \in Seq(Executions)
  /\ opened \subseteq Aliases
  /\ cancel \in BOOLEAN

\* What each point of the run has left behind it.
Control ==
  /\ pc # "batch" => batch = <<>> /\ results = <<>>
  /\ ~OnBoard => queue = <<>>
  /\ pc = "select" => specs = <<>> /\ at = 0 /\ records = <<>> /\ ran = <<>>
  /\ pc = "done" /\ ~cancel => at = Len(BoardSeq) \/ specs = <<>>

\* What waits on a board, or ran there, is for its model; what ran had what it needs.
Equipment ==
  /\ \A i \in DOMAIN queue : ModelFits(queue[i], BoardModel[board])
  /\ \A i \in DOMAIN batch : ModelFits(batch[i], BoardModel[board])
  /\ RanEquipped

\* What the order of a run means: never twice, and for a map in the order of its names.
Before(x, y) == x # y /\ (suite.kind = "map" => FirstNamed(x) < FirstNamed(y))

\* A board's results, the checks left in the container and those left in the queue stand in
\* this order, each check once.
InLine ==
  /\ \A i, j \in DOMAIN specs : i < j => Before(specs[i], specs[j])
  /\ \A i, j \in DOMAIN queue : i < j => Before(queue[i], queue[j])
  /\ \A i, j \in DOMAIN batch : i < j => Before(batch[i], batch[j])
  /\ \A i, j \in DOMAIN results : i < j => Before(results[i].check, results[j].check)
  /\ \A i \in DOMAIN batch, j \in DOMAIN queue : Before(batch[i], queue[j])
  /\ \A i \in DOMAIN results, j \in DOMAIN queue : Before(results[i].check, queue[j])
  /\ \A i \in DOMAIN results, j \in DOMAIN batch : Before(results[i].check, batch[j])

\* What waits for its record on the present board.
Waiting(id) ==
  \/ \E i \in DOMAIN queue : queue[i] = id
  \/ \E i \in DOMAIN batch : batch[i] = id
  \/ \E i \in DOMAIN results : results[i].check = id

OneEach(list) ==
  \A i, j \in DOMAIN list :
    list[i].board = list[j].board /\ list[i].check = list[j].check => i = j

\* Records are of boards entered, one of a check on each, and none of what still waits.
Recorded ==
  /\ \A i \in DOMAIN results : results[i].board = board
  /\ \A i \in DOMAIN records : \E k \in 1..at : records[i].board = BoardSeq[k]
  /\ OneEach(records)
  /\ \A i \in DOMAIN records : records[i].board = board => ~Waiting(records[i].check)

Written(b, id) == \E i \in DOMAIN records : records[i].board = b /\ records[i].check = id

\* Unless the run was cancelled or ends by an exception, what was selected for a board that
\* was entered has its record there, or waits for it on the present one.
Complete ==
  ~cancel /\ pc \in {"boards", "units", "batch", "done"} =>
    \A k \in 1..at : \A i \in DOMAIN specs :
      ModelFits(specs[i], BoardModel[BoardSeq[k]]) =>
        Written(BoardSeq[k], specs[i]) \/ (k = at /\ Waiting(specs[i]))

\* What ran on a board ran in order, and before all that is left to run there.
RanInOrder ==
  /\ \A i \in DOMAIN ran : \E k \in 1..at : ran[i].board = BoardSeq[k]
  /\ \A i, j \in DOMAIN ran :
       i < j /\ ran[i].board = ran[j].board => Before(ran[i].check, ran[j].check)
  /\ pc # "unwind" =>
       \A i \in DOMAIN ran : ran[i].board = board =>
         /\ \A j \in DOMAIN queue : Before(ran[i].check, queue[j])
         /\ \A j \in DOMAIN batch : Before(ran[i].check, batch[j])

\* Whatever is on record as passed was executed there, and passed.
PassesRan ==
  \A list \in {records, results} : \A i \in DOMAIN list :
    list[i].verdict = "pass" =>
      \E j \in DOMAIN ran : /\ ran[j].board = list[i].board /\ ran[j].check = list[i].check
                            /\ ran[j].verdict = "pass"

RunnerInv ==
  /\ Typed /\ Control
  /\ Equipment
  /\ InLine /\ Recorded /\ Complete
  /\ RanInOrder
  /\ PassesRan

-----------------------------------------------------------------------------
(* Numbers *)

\* A set of numbers that is not empty has a least one.
LEMMA LeastNumber ==
  ASSUME NEW T, T \subseteq Nat, T # {}
  PROVE  \E x \in T : \A y \in T : x <= y
<1>1. IsWellFoundedOn(OpToRel(<, Nat), Nat)
  BY NatLessThanWellFounded
<1>2. PICK x \in T : \A y \in T : ~(<<y, x>> \in OpToRel(<, Nat))
  BY <1>1, WFMin
<1>3. \A y \in T : y \in Nat /\ x \in Nat /\ ~(y < x)
  BY <1>2 DEF OpToRel
<1>4. QED
  BY <1>3

\* Induction over the numbers, with the property as a set.
LEMMA Induction ==
  ASSUME NEW S, 0 \in S, \A n \in Nat : n \in S => n + 1 \in S
  PROVE  \A n \in Nat : n \in S
<1> SUFFICES ASSUME NEW n \in Nat, n \notin S
             PROVE  FALSE
  OBVIOUS
<1> DEFINE bad == {m \in Nat : m \notin S}
<1>1. bad \subseteq Nat /\ bad # {}
  OBVIOUS
<1>2. PICK x \in bad : \A y \in bad : x <= y
  <2> HIDE DEF bad
  <2> QED
    BY <1>1, LeastNumber
<1>3. x # 0 /\ x - 1 \in Nat /\ x - 1 \notin bad
  BY <1>2
<1>4. QED
  BY <1>2, <1>3

-----------------------------------------------------------------------------
(* Only *)

Kept(seq, T, f, m) ==
  f = [n \in 0..m |->
         IF n = 0 THEN <<>>
         ELSE IF seq[n] \in T THEN Append(f[n - 1], seq[n]) ELSE f[n - 1]]

LEMMA KeptExists ==
  ASSUME NEW seq, NEW T, Len(seq) \in Nat
  PROVE  \E f : Kept(seq, T, f, Len(seq)) /\ Only(seq, T) = f[Len(seq)]
<1> DEFINE S == {m \in Nat : \E f : Kept(seq, T, f, m)}
<1>1. 0 \in S
  <2> DEFINE f == [n \in 0..0 |-> <<>>]
  <2>1. Kept(seq, T, f, 0)
    BY DEF Kept
  <2>2. QED
    BY <2>1
<1>2. ASSUME NEW m \in Nat, m \in S
      PROVE  m + 1 \in S
  <2>1. PICK f : Kept(seq, T, f, m)
    BY <1>2
  <2> DEFINE last == IF seq[m + 1] \in T THEN Append(f[m], seq[m + 1]) ELSE f[m]
             g == [n \in 0..(m + 1) |-> IF n = m + 1 THEN last ELSE f[n]]
  <2>2. \A n \in 0..m : g[n] = f[n]
    OBVIOUS
  <2>3. ASSUME NEW n \in 0..(m + 1)
        PROVE  g[n] = IF n = 0 THEN <<>>
                      ELSE IF seq[n] \in T THEN Append(g[n - 1], seq[n]) ELSE g[n - 1]
    <3>1. CASE n = m + 1
      <4>1. g[n] = last /\ g[n - 1] = f[m] /\ n # 0
        BY <2>2, <3>1
      <4> HIDE DEF g
      <4>2. QED
        BY <4>1, <3>1
    <3>2. CASE n # m + 1
      <4>1. n \in 0..m /\ (n # 0 => n - 1 \in 0..m)
        BY <3>2
      <4>2. f[n] = IF n = 0 THEN <<>>
                   ELSE IF seq[n] \in T THEN Append(f[n - 1], seq[n]) ELSE f[n - 1]
        BY <2>1, <4>1 DEF Kept
      <4> HIDE DEF g
      <4>3. QED
        BY <4>1, <4>2, <2>2
    <3>3. QED
      BY <3>1, <3>2
  <2>4. g = [n \in 0..(m + 1) |-> g[n]]
    OBVIOUS
  <2> HIDE DEF g
  <2>5. Kept(seq, T, g, m + 1)
    BY <2>3, <2>4 DEF Kept
  <2>6. QED
    BY <2>5
<1>3. Len(seq) \in S
  <2> HIDE DEF S
  <2>1. QED
    BY <1>1, <1>2, Induction
<1> DEFINE kept[n \in 0..Len(seq)] ==
             IF n = 0 THEN <<>>
             ELSE IF seq[n] \in T THEN Append(kept[n - 1], seq[n]) ELSE kept[n - 1]
<1>4. Kept(seq, T, kept, Len(seq))
  BY <1>3 DEF Kept
<1>5. Only(seq, T) = kept[Len(seq)]
  BY DEF Only
<1> HIDE DEF kept
<1>6. QED
  BY <1>4, <1>5

\* The places of the elements that are kept.
Places(seq, T, p, n, m) ==
  /\ n \in Nat /\ p \in [1..n -> 1..m]
  /\ \A i \in 1..n : seq[p[i]] \in T
  /\ \A i, j \in 1..n : i < j => p[i] < p[j]
  /\ \A k \in 1..m : seq[k] \in T => \E i \in 1..n : p[i] = k

Picked(seq, p, n, result) == result = [i \in 1..n |-> seq[p[i]]]

\* Only keeps what is in the set, all of it, in order.
LEMMA OnlyPicks ==
  ASSUME NEW S, NEW seq \in Seq(S), NEW T
  PROVE  \E n, p : Places(seq, T, p, n, Len(seq)) /\ Picked(seq, p, n, Only(seq, T))
<1>1. PICK f : Kept(seq, T, f, Len(seq)) /\ Only(seq, T) = f[Len(seq)]
  BY KeptExists
<1> DEFINE Holds(m) == \E n, p : Places(seq, T, p, n, m) /\ f[m] = [i \in 1..n |-> seq[p[i]]]
           N == {m \in Nat : m <= Len(seq) => Holds(m)}
<1>2. 0 \in N
  <2> DEFINE p == [i \in 1..0 |-> 0]
  <2>1. f[0] = <<>>
    BY <1>1 DEF Kept
  <2>2. Places(seq, T, p, 0, 0)
    BY DEF Places
  <2>3. f[0] = [i \in 1..0 |-> seq[p[i]]]
    BY <2>1
  <2>4. QED
    BY <2>2, <2>3
<1>3. ASSUME NEW m \in Nat, m \in N
      PROVE  m + 1 \in N
  <2> SUFFICES ASSUME m + 1 <= Len(seq)
               PROVE  Holds(m + 1)
    OBVIOUS
  <2>1. PICK n, p : Places(seq, T, p, n, m) /\ f[m] = [i \in 1..n |-> seq[p[i]]]
    BY <1>3
  <2>2. f[m + 1] = IF seq[m + 1] \in T THEN Append(f[m], seq[m + 1]) ELSE f[m]
    <3>1. m + 1 \in 0..Len(seq) /\ m + 1 # 0 /\ (m + 1) - 1 = m
      OBVIOUS
    <3>2. QED
      BY <1>1, <3>1 DEF Kept
  <2>3. n \in Nat /\ p \in [1..n -> 1..m]
    BY <2>1 DEF Places
  <2>4. CASE seq[m + 1] \notin T
    <3>1. p \in [1..n -> 1..(m + 1)]
      BY <2>3
    <3>2. ASSUME NEW k \in 1..(m + 1), seq[k] \in T
          PROVE  \E i \in 1..n : p[i] = k
      <4>1. k \in 1..m
        BY <2>4, <3>2
      <4>2. QED
        BY <2>1, <3>2, <4>1 DEF Places
    <3>3. Places(seq, T, p, n, m + 1)
      BY <2>1, <3>1, <3>2 DEF Places
    <3>4. QED
      BY <2>1, <2>2, <2>4, <3>3
  <2>5. CASE seq[m + 1] \in T
    <3> DEFINE q == [i \in 1..(n + 1) |-> IF i = n + 1 THEN m + 1 ELSE p[i]]
               s == f[m]
    <3>1. \A i \in 1..n : q[i] = p[i] /\ p[i] \in 1..m
      BY <2>3
    <3>2. q[n + 1] = m + 1 /\ q \in [1..(n + 1) -> 1..(m + 1)]
      BY <2>3
    <3>3. s \in Seq(S) /\ Len(s) = n /\ \A i \in 1..n : s[i] = seq[p[i]]
      <4>1. \A i \in 1..n : seq[p[i]] \in S
        BY <2>3
      <4>2. QED
        BY <2>1, <2>3, <4>1
    <3>4. seq[m + 1] \in S
      OBVIOUS
    <3> HIDE DEF q, s
    <3>5. Places(seq, T, q, n + 1, m + 1)
      <4>1. \A i \in 1..(n + 1) : seq[q[i]] \in T
        BY <2>1, <2>3, <2>5, <3>1, <3>2 DEF Places
      <4>2. ASSUME NEW i \in 1..(n + 1), NEW j \in 1..(n + 1), i < j
            PROVE  q[i] < q[j]
        <5>1. i \in 1..n /\ q[i] = p[i] /\ p[i] \in 1..m
          BY <2>3, <3>1, <4>2
        <5>2. CASE j = n + 1
          BY <3>2, <5>1, <5>2
        <5>3. CASE j \in 1..n
          BY <2>1, <3>1, <4>2, <5>1, <5>3 DEF Places
        <5>4. QED
          BY <2>3, <5>2, <5>3
      <4>3. ASSUME NEW k \in 1..(m + 1), seq[k] \in T
            PROVE  \E i \in 1..(n + 1) : q[i] = k
        <5>1. CASE k = m + 1
          BY <2>3, <3>2, <5>1
        <5>2. CASE k \in 1..m
          <6>1. PICK i \in 1..n : p[i] = k
            BY <2>1, <4>3, <5>2 DEF Places
          <6>2. QED
            BY <2>3, <3>1, <6>1
        <5>3. QED
          BY <5>1, <5>2
      <4>4. QED
        BY <2>3, <3>2, <4>1, <4>2, <4>3 DEF Places
    <3>6. Append(s, seq[m + 1]) = [i \in 1..(n + 1) |-> seq[q[i]]]
      <4>1. /\ Len(Append(s, seq[m + 1])) = n + 1
            /\ \A i \in 1..n : Append(s, seq[m + 1])[i] = s[i]
            /\ Append(s, seq[m + 1])[n + 1] = seq[m + 1]
            /\ Append(s, seq[m + 1]) \in Seq(S)
        BY <2>3, <3>3, <3>4, AppendProperties
      <4>2. \A i \in 1..(n + 1) : Append(s, seq[m + 1])[i] = seq[q[i]]
        BY <2>3, <3>1, <3>2, <3>3, <4>1
      <4>3. Append(s, seq[m + 1]) = [i \in 1..(n + 1) |-> Append(s, seq[m + 1])[i]]
        BY <2>3, <4>1
      <4>4. QED
        BY <4>2, <4>3
    <3>7. f[m + 1] = [i \in 1..(n + 1) |-> seq[q[i]]]
      BY <2>2, <2>5, <3>6 DEF s
    <3>8. QED
      BY <3>5, <3>7
  <2>6. QED
    BY <2>4, <2>5
<1>4. Len(seq) \in N
  <2> HIDE DEF N
  <2>1. QED
    BY <1>2, <1>3, Induction
<1>5. Holds(Len(seq))
  BY <1>4
<1>6. PICK n, p : Places(seq, T, p, n, Len(seq)) /\ f[Len(seq)] = [i \in 1..n |-> seq[p[i]]]
  BY <1>5
<1>7. Picked(seq, p, n, Only(seq, T))
  BY <1>1, <1>6 DEF Picked
<1>8. QED
  BY <1>6, <1>7

Ordered(seq, R) == \A i, j \in DOMAIN seq : i < j => <<seq[i], seq[j]>> \in R

LEMMA OnlyKeeps ==
  ASSUME NEW S, NEW seq \in Seq(S), NEW T
  PROVE  /\ Only(seq, T) \in Seq(S)
         /\ ToSet(Only(seq, T)) = ToSet(seq) \cap T
         /\ \A R : Ordered(seq, R) => Ordered(Only(seq, T), R)
<1>1. PICK n, p : Places(seq, T, p, n, Len(seq)) /\ Picked(seq, p, n, Only(seq, T))
  BY OnlyPicks
<1> DEFINE kept == Only(seq, T)
<1>2. n \in Nat /\ DOMAIN kept = 1..n /\ \A i \in 1..n : p[i] \in DOMAIN seq /\ kept[i] = seq[p[i]]
  BY <1>1 DEF Places, Picked
<1>3. kept \in Seq(S)
  BY <1>1, <1>2 DEF Picked
<1> HIDE DEF kept
<1>4. \A i \in 1..n : kept[i] \in ToSet(seq) /\ kept[i] \in T
  BY <1>1, <1>2 DEF Places, ToSet
<1>5. \A k \in DOMAIN seq : seq[k] \in T => \E i \in 1..n : kept[i] = seq[k]
  BY <1>1, <1>2 DEF Places
<1>6. ToSet(kept) = ToSet(seq) \cap T
  <2>1. ToSet(kept) \subseteq ToSet(seq) \cap T
    BY <1>2, <1>4 DEF ToSet
  <2>2. ASSUME NEW x \in ToSet(seq) \cap T
        PROVE  x \in ToSet(kept)
    <3>1. PICK k \in DOMAIN seq : seq[k] = x
      BY DEF ToSet
    <3>2. PICK i \in 1..n : kept[i] = x
      BY <1>5, <3>1
    <3>3. QED
      BY <1>2, <3>2 DEF ToSet
  <2>3. QED
    BY <2>1, <2>2
<1>7. ASSUME NEW R, Ordered(seq, R)
      PROVE  Ordered(kept, R)
  BY <1>1, <1>2, <1>7 DEF Places, Ordered
<1>8. QED
  BY <1>3, <1>6, <1>7 DEF kept

-----------------------------------------------------------------------------
(* What a suite selects *)

LEMMA FlattenIsSeq ==
  ASSUME NEW S, NEW seqs \in Seq(Seq(S))
  PROVE  FlattenSeq(seqs) \in Seq(S)
<1> DEFINE Is(f, m) == f = [i \in 1..m |-> IF i = 1 THEN seqs[i] ELSE f[i - 1] \o seqs[i]]
           Has(m) == m <= Len(seqs) => \E f \in [1..m -> Seq(S)] : Is(f, m)
           N == {m \in Nat : Has(m)}
<1>1. CASE Len(seqs) = 0
  <2>1. FlattenSeq(seqs) = seqs
    BY <1>1 DEF FlattenSeq
  <2>2. QED
    BY <1>1, <2>1
<1>2. CASE Len(seqs) # 0
  <2>1. 0 \in N
    <3> DEFINE f == [i \in 1..0 |-> <<>>]
    <3>1. f \in [1..0 -> Seq(S)] /\ Is(f, 0)
      OBVIOUS
    <3>2. QED
      BY <3>1
  <2>2. ASSUME NEW m \in Nat, m \in N
        PROVE  m + 1 \in N
    <3>0. Has(m) /\ (Has(m + 1) => m + 1 \in N)
      <4> HIDE DEF Has
      <4> QED
        BY <2>2
    <3> SUFFICES ASSUME m + 1 <= Len(seqs)
                 PROVE  \E f \in [1..(m + 1) -> Seq(S)] : Is(f, m + 1)
      <4> HIDE DEF Is, N
      <4> QED
        BY <3>0
    <3>1. PICK f \in [1..m -> Seq(S)] : Is(f, m)
      <4> HIDE DEF Is, N
      <4> QED
        BY <3>0
    <3> DEFINE last == IF m + 1 = 1 THEN seqs[m + 1] ELSE f[m] \o seqs[m + 1]
               g == [i \in 1..(m + 1) |-> IF i = m + 1 THEN last ELSE f[i]]
    <3>2. last \in Seq(S)
      <4>1. seqs[m + 1] \in Seq(S)
        OBVIOUS
      <4>2. m # 0 => f[m] \in Seq(S)
        OBVIOUS
      <4>3. QED
        BY <4>1, <4>2, ConcatProperties
    <3>3. \A i \in 1..m : g[i] = f[i]
      <4> HIDE DEF last
      <4> QED
        OBVIOUS
    <3>4. g[m + 1] = last /\ g \in [1..(m + 1) -> Seq(S)]
      BY <3>2
    <3>5. ASSUME NEW i \in 1..(m + 1)
          PROVE  g[i] = IF i = 1 THEN seqs[i] ELSE g[i - 1] \o seqs[i]
      <4>1. CASE i = m + 1
        <5>1. i # 1 => g[i - 1] = f[m]
          BY <3>3, <4>1
        <5> HIDE DEF g
        <5>2. QED
          BY <3>4, <4>1, <5>1
      <4>2. CASE i # m + 1
        <5>1. i \in 1..m /\ (i # 1 => i - 1 \in 1..m)
          BY <4>2
        <5>2. f[i] = IF i = 1 THEN seqs[i] ELSE f[i - 1] \o seqs[i]
          BY <3>1, <5>1
        <5> HIDE DEF g
        <5>3. QED
          BY <3>3, <5>1, <5>2
      <4>3. QED
        BY <4>1, <4>2
    <3>6. g = [i \in 1..(m + 1) |-> g[i]]
      OBVIOUS
    <3> HIDE DEF g
    <3>7. Is(g, m + 1)
      BY <3>5, <3>6
    <3>8. QED
      BY <3>4, <3>7
  <2>3. Len(seqs) \in N
    <3> HIDE DEF N
    <3>1. QED
      BY <2>1, <2>2, Induction
  <2>4. PICK f \in [1..Len(seqs) -> Seq(S)] : Is(f, Len(seqs))
    <3>1. Has(Len(seqs))
      BY <2>3
    <3> HIDE DEF Is, N
    <3>2. QED
      BY <3>1
  <2> DEFINE flatten[i \in 1..Len(seqs)] ==
               IF i = 1 THEN seqs[i] ELSE flatten[i - 1] \o seqs[i]
  <2>5. Is(flatten, Len(seqs))
    BY <2>4
  <2>6. FlattenSeq(seqs) = flatten[Len(seqs)]
    BY <1>2 DEF FlattenSeq
  <2> DEFINE M == {m \in Nat : m + 1 <= Len(seqs) => flatten[m + 1] \in Seq(S)}
  <2> HIDE DEF flatten
  <2>7. 0 \in M
    BY <1>2, <2>5
  <2>8. ASSUME NEW m \in Nat, m \in M
        PROVE  m + 1 \in M
    <3> SUFFICES ASSUME (m + 1) + 1 <= Len(seqs)
                 PROVE  flatten[(m + 1) + 1] \in Seq(S)
      OBVIOUS
    <3>1. flatten[m + 1] \in Seq(S) /\ seqs[(m + 1) + 1] \in Seq(S)
      BY <2>8
    <3>2. flatten[(m + 1) + 1] = flatten[m + 1] \o seqs[(m + 1) + 1]
      <4>1. (m + 1) + 1 \in 1..Len(seqs) /\ (m + 1) + 1 # 1 /\ ((m + 1) + 1) - 1 = m + 1
        OBVIOUS
      <4>2. QED
        BY <2>5, <4>1
    <3>3. QED
      BY <3>1, <3>2, ConcatProperties
  <2>9. Len(seqs) - 1 \in M
    <3> HIDE DEF M
    <3>1. Len(seqs) - 1 \in Nat
      BY <1>2
    <3>2. \A m \in Nat : m \in M
      BY <2>7, <2>8, Induction
    <3>3. QED
      BY <3>1, <3>2
  <2>10. QED
    BY <1>2, <2>6, <2>9
<1>3. QED
  BY <1>1, <1>2

Named == UNION {ToSet(req.tests) : req \in ToSet(suite.reqs)}

LEMMA NamesAreListed ==
  ASSUME suite \in Suites
  PROVE  InSome(suite.reqs) \in Seq(Named)
<1> DEFINE reqs == suite.reqs
           lists == [i \in DOMAIN reqs |-> reqs[i].tests]
<1>1. reqs \in Seq(ToSet(reqs)) /\ \A req \in ToSet(reqs) : req.tests \in Seq(ToSet(req.tests))
  BY RunnerAssumption
<1>2. ASSUME NEW i \in DOMAIN reqs
      PROVE  reqs[i].tests \in Seq(Named)
  <2>1. reqs[i] \in ToSet(reqs)
    BY DEF ToSet
  <2>2. reqs[i].tests \in Seq(ToSet(reqs[i].tests)) /\ ToSet(reqs[i].tests) \subseteq Named
    BY <1>1, <2>1 DEF Named
  <2>3. QED
    BY <2>2
<1>3. lists \in Seq(Seq(Named))
  BY <1>1, <1>2
<1>4. QED
  BY <1>3, FlattenIsSeq DEF InSome

\* The first place of an id is where it is named first.
LEMMA FirstPlace ==
  ASSUME NEW ids, Len(ids) \in Nat, DOMAIN ids = 1..Len(ids), ids = InSome(suite.reqs),
         NEW k \in DOMAIN ids, \A j \in 1..(k - 1) : ids[j] # ids[k]
  PROVE  FirstNamed(ids[k]) = k
<1> DEFINE here(i) == ids[i] = ids[k] /\ \A j \in 1..(i - 1) : ids[j] # ids[k]
<1>1. here(k)
  OBVIOUS
<1>2. ASSUME NEW i \in DOMAIN ids, here(i)
      PROVE  i = k
  <2>1. i \in 1..Len(ids) /\ k \in 1..Len(ids)
    OBVIOUS
  <2>2. ~(i < k)
    BY <1>2, <2>1
  <2>3. ~(k < i)
    BY <1>2, <2>1
  <2>4. QED
    BY <2>1, <2>2, <2>3
<1>3. FirstNamed(ids[k]) = CHOOSE i \in DOMAIN ids : here(i)
  BY DEF FirstNamed
<1> HIDE DEF here
<1>4. QED
  BY <1>1, <1>2, <1>3

LEMMA IdsInOrder ==
  ASSUME suite \in Suites
  PROVE  /\ OrderedIds(suite.reqs) \in Seq(Named)
         /\ \A i, j \in DOMAIN OrderedIds(suite.reqs) :
              i < j => Before(OrderedIds(suite.reqs)[i], OrderedIds(suite.reqs)[j])
<1> DEFINE all == InSome(suite.reqs)
           first == {i \in DOMAIN all : \A j \in 1..(i - 1) : all[j] # all[i]}
           numbers == [i \in DOMAIN all |-> i]
           places == Only(numbers, first)
           ids == [k \in DOMAIN places |-> all[places[k]]]
           Less == {p \in Nat \X Nat : p[1] < p[2]}
<1>1. OrderedIds(suite.reqs) = ids
  BY DEF OrderedIds
<1>2. all \in Seq(Named)
  BY NamesAreListed
<1> HIDE DEF all
<1>3. numbers \in Seq(DOMAIN all) /\ Ordered(numbers, Less)
  BY <1>2 DEF Ordered
<1> HIDE DEF numbers
<1>4. places \in Seq(DOMAIN all) /\ Ordered(places, Less) /\ ToSet(places) \subseteq first
  BY <1>3, OnlyKeeps
<1> HIDE DEF places, Less
<1>5. ASSUME NEW k \in DOMAIN places
      PROVE  /\ places[k] \in DOMAIN all /\ ids[k] = all[places[k]]
             /\ FirstNamed(ids[k]) = places[k]
  <2>1. places[k] \in first
    BY <1>4 DEF ToSet
  <2>2. places[k] \in DOMAIN all /\ \A j \in 1..(places[k] - 1) : all[j] # all[places[k]]
    BY <2>1
  <2>3. FirstNamed(all[places[k]]) = places[k]
    <3>1. Len(all) \in Nat /\ DOMAIN all = 1..Len(all)
      BY <1>2
    <3>2. QED
      BY <2>2, <3>1, FirstPlace DEF all
  <2>4. QED
    BY <2>2, <2>3
<1>6. ids \in Seq(Named) /\ DOMAIN ids = DOMAIN places
  BY <1>2, <1>4, <1>5
<1>7. ASSUME NEW i \in DOMAIN places, NEW j \in DOMAIN places, i < j
      PROVE  Before(ids[i], ids[j])
  <2>1. places[i] < places[j]
    BY <1>4, <1>7 DEF Ordered, Less
  <2>2. places[i] \in Nat /\ places[j] \in Nat
    BY <1>2, <1>5
  <2> HIDE DEF ids
  <2>3. FirstNamed(ids[i]) < FirstNamed(ids[j])
    BY <1>5, <2>1
  <2>4. FirstNamed(ids[i]) # FirstNamed(ids[j])
    BY <1>5, <2>1, <2>2
  <2>5. QED
    BY <2>3, <2>4 DEF Before
<1>8. QED
  BY <1>1, <1>6, <1>7

\* The checks selected are registered ones, each once, in the order of the suite.
LEMMA SelectedInOrder ==
  ASSUME suite \in Suites
  PROVE  /\ resolve_selection(Registry, suite) \in Seq(Checks)
         /\ \A i, j \in DOMAIN resolve_selection(Registry, suite) :
              i < j => Before(resolve_selection(Registry, suite)[i],
                              resolve_selection(Registry, suite)[j])
<1> DEFINE chosen == resolve_selection(Registry, suite)
<1>1. CASE suite.kind = "map"
  <2> DEFINE ids == OrderedIds(suite.reqs)
             found == ToSet(select(Registry, ToSet(ids), suite.model))
             R == {p \in Named \X Named : Before(p[1], p[2])}
  <2>1. chosen = Only(ids, found)
    BY <1>1 DEF resolve_selection
  <2>2. found \subseteq Checks
    <3>1. Registry \in Seq(Checks)
      BY RunnerAssumption
    <3>2. QED
      BY <3>1, OnlyKeeps DEF select, Checks
  <2>3. ids \in Seq(Named) /\ \A i, j \in DOMAIN ids : i < j => Before(ids[i], ids[j])
    BY IdsInOrder
  <2> HIDE DEF ids, found
  <2>4. Ordered(ids, R)
    BY <2>3 DEF Ordered
  <2>5. chosen \in Seq(Named) /\ ToSet(chosen) \subseteq found /\ Ordered(chosen, R)
    BY <2>1, <2>3, <2>4, OnlyKeeps
  <2> HIDE DEF chosen
  <2>6. \A i \in DOMAIN chosen : chosen[i] \in Checks
    BY <2>2, <2>5 DEF ToSet
  <2>7. chosen \in Seq(Checks)
    BY <2>5, <2>6
  <2>8. \A i, j \in DOMAIN chosen : i < j => Before(chosen[i], chosen[j])
    BY <2>5 DEF Ordered
  <2>9. QED
    BY <2>7, <2>8 DEF chosen
<1>2. CASE suite.kind # "map"
  <2> DEFINE T == {id \in ToSet(suite.include) : id \in ToSet(Registry) /\ ModelFits(id, suite.model)}
             some == Only(Registry, T)
             left == ToSet(Registry) \ suite.exclude
             R == {p \in Checks \X Checks : p[1] # p[2]}
  <2>1. chosen = Only(some, left)
    BY <1>2 DEF resolve_selection, select
  <2>2. Registry \in Seq(Checks) /\ IsInjective(Registry)
    BY RunnerAssumption
  <2>3. Ordered(Registry, R)
    BY <2>2 DEF Ordered, IsInjective
  <2> HIDE DEF R, T
  <2>4. some \in Seq(Checks) /\ Ordered(some, R)
    BY <2>2, <2>3, OnlyKeeps
  <2> HIDE DEF some, left
  <2>5. chosen \in Seq(Checks) /\ Ordered(chosen, R)
    BY <2>1, <2>4, OnlyKeeps
  <2> HIDE DEF chosen
  <2>6. \A i, j \in DOMAIN chosen : i < j => Before(chosen[i], chosen[j])
    BY <1>2, <2>5 DEF Ordered, R, Before
  <2>7. QED
    BY <2>5, <2>6 DEF chosen
<1>3. QED
  BY <1>1, <1>2

-----------------------------------------------------------------------------
(* What grows in a step *)

LEMMA SameOrder ==
  ASSUME suite' = suite
  PROVE  \A x, y : Before(x, y)' = Before(x, y)
<1>1. \A x : FirstNamed(x)' = FirstNamed(x)
  BY DEF FirstNamed
<1>2. QED
  BY <1>1 DEF Before

LEMMA Appended ==
  ASSUME NEW S, NEW seq \in Seq(S), NEW x \in S, NEW longer, longer = Append(seq, x)
  PROVE  /\ longer \in Seq(S) /\ Len(seq) \in Nat /\ Len(longer) = Len(seq) + 1
         /\ DOMAIN longer = 1..(Len(seq) + 1) /\ DOMAIN seq = 1..Len(seq)
         /\ \A i \in DOMAIN seq : longer[i] = seq[i]
         /\ longer[Len(seq) + 1] = x
<1>1. QED
  BY AppendProperties

LEMMA Joined ==
  ASSUME NEW S, NEW old \in Seq(S), NEW new \in Seq(S), NEW all, all = old \o new
  PROVE  /\ all \in Seq(S)
         /\ DOMAIN old = 1..Len(old) /\ DOMAIN new = 1..Len(new)
         /\ Len(old) \in Nat /\ Len(new) \in Nat
         /\ DOMAIN all = 1..(Len(old) + Len(new))
         /\ \A i \in DOMAIN old : all[i] = old[i]
         /\ \A i \in DOMAIN all : i > Len(old) => all[i] = new[i - Len(old)]
<1>1. QED
  BY ConcatProperties

\* Entries of one board, each of a check of its own that has none there yet.
Additional(old, new, b) ==
  /\ \A i \in DOMAIN new : new[i].board = b
  /\ \A i, j \in DOMAIN new : i < j => new[i].check # new[j].check
  /\ \A i \in DOMAIN old, j \in DOMAIN new : old[i].board = b => old[i].check # new[j].check

\* A list with the old entries at their places and the new ones behind.
Grown(old, new, all) ==
  /\ \A i \in DOMAIN old : i \in DOMAIN all /\ all[i] = old[i]
  /\ \A j \in DOMAIN new : \E i \in DOMAIN all : all[i] = new[j]
  /\ \A i \in DOMAIN all : \/ i \in DOMAIN old /\ all[i] = old[i]
                           \/ \E j \in DOMAIN new : all[i] = new[j]

\* Such entries keep the records one of a check.
LEMMA RecordsGrow ==
  ASSUME NEW old \in Seq(Entries), NEW new \in Seq(Entries), NEW all, all = old \o new,
         NEW b, OneEach(old), Additional(old, new, b)
  PROVE  all \in Seq(Entries) /\ OneEach(all) /\ Grown(old, new, all)
<1> DEFINE n == Len(old)
<1>1. /\ all \in Seq(Entries)
      /\ DOMAIN old = 1..n /\ DOMAIN new = 1..Len(new) /\ n \in Nat /\ Len(new) \in Nat
      /\ DOMAIN all = 1..(n + Len(new))
      /\ \A i \in DOMAIN old : all[i] = old[i]
      /\ \A i \in DOMAIN all : i > n => all[i] = new[i - n]
  BY Joined
<1> HIDE DEF n
<1>2. \A i \in DOMAIN all : \/ i \in 1..n
                            \/ i > n /\ i - n \in DOMAIN new
  BY <1>1
<1>3. \A j \in DOMAIN new : j + n \in DOMAIN all /\ j + n > n /\ (j + n) - n = j
  BY <1>1
<1>4. \A j \in DOMAIN new : all[j + n] = new[j]
  BY <1>1, <1>3
<1>5. ASSUME NEW i \in DOMAIN all, NEW j \in DOMAIN all, i < j,
             all[i].board = all[j].board, all[i].check = all[j].check
      PROVE  FALSE
  <2>1. CASE j \in 1..n
    <3>1. i \in 1..n
      BY <1>1, <1>5, <2>1
    <3>2. i \in DOMAIN old /\ j \in DOMAIN old /\ all[i] = old[i] /\ all[j] = old[j]
      BY <1>1, <2>1, <3>1
    <3>3. i = j
      BY <1>5, <3>2 DEF OneEach
    <3>4. QED
      BY <1>1, <1>5, <3>3
  <2>2. CASE i > n
    <3>1. i - n \in DOMAIN new /\ j - n \in DOMAIN new /\ i - n < j - n
      BY <1>1, <1>5, <2>2
    <3>2. all[i] = new[i - n] /\ all[j] = new[j - n]
      BY <1>1, <1>5, <2>2
    <3>3. QED
      BY <1>5, <3>1, <3>2 DEF Additional
  <2>3. CASE i \in 1..n /\ j > n
    <3>1. j - n \in DOMAIN new /\ all[j] = new[j - n] /\ all[i] = old[i]
      BY <1>1, <1>2, <2>3
    <3>2. QED
      BY <1>1, <1>5, <2>3, <3>1 DEF Additional
  <2>4. QED
    BY <1>1, <2>1, <2>2, <2>3
<1>6. OneEach(all)
  <2> SUFFICES ASSUME NEW i \in DOMAIN all, NEW j \in DOMAIN all,
                      all[i].board = all[j].board, all[i].check = all[j].check, i # j
               PROVE  FALSE
    BY DEF OneEach
  <2>1. i \in Nat /\ j \in Nat
    BY <1>1
  <2>2. i < j \/ j < i
    BY <2>1
  <2>3. QED
    BY <1>5, <2>2
<1>7. Grown(old, new, all)
  BY <1>1, <1>2, <1>3, <1>4 DEF Grown
<1>8. QED
  BY <1>1, <1>6, <1>7

\* What is on the record of what ran, after a check was executed or refused.
LEMMA RanGrows ==
  ASSUME RunnerInv, OnBoard, pc # "unwind", UNCHANGED <<suite, at>>,
         NEW id \in Checks, NEW verdict \in Verdicts, NEW A \in SUBSET Aliases,
         ModelFits(id, BoardModel[board]),
         \A i \in DOMAIN ran : ran[i].board = board => Before(ran[i].check, id),
         \/ Ran(id, verdict, A) /\ Needs[id] \subseteq A
         \/ verdict # "pass" /\ UNCHANGED ran
  PROVE  /\ ran' \in Seq(Executions)
         /\ RanEquipped'
         /\ \A i \in DOMAIN ran' : \E k \in 1..at : ran'[i].board = BoardSeq[k]
         /\ \A i, j \in DOMAIN ran' :
              i < j /\ ran'[i].board = ran'[j].board => Before(ran'[i].check, ran'[j].check)
         /\ \A i \in DOMAIN ran : i \in DOMAIN ran' /\ ran'[i] = ran[i]
         /\ \A i \in DOMAIN ran' : \/ i \in DOMAIN ran /\ ran'[i] = ran[i]
                                   \/ ran'[i].check = id
         /\ verdict = "pass" => \E i \in DOMAIN ran' : /\ ran'[i].board = board /\ ran'[i].check = id
                                                       /\ ran'[i].verdict = "pass"
<1> USE DEF RunnerInv
<1>1. CASE UNCHANGED ran /\ verdict # "pass"
  BY <1>1 DEF Typed, Equipment, RanEquipped, RanInOrder
<1>2. CASE Ran(id, verdict, A) /\ Needs[id] \subseteq A
  <2> DEFINE x == [board |-> board, check |-> id, verdict |-> verdict, aliases |-> A]
             n == Len(ran)
  <2>1. at \in 1..Len(BoardSeq) /\ board \in Boards
    <3>1. at \in 1..Len(BoardSeq) /\ BoardSeq \in Seq(Boards)
      BY RunnerAssumption DEF Typed, OnBoard
    <3>2. QED
      BY <3>1 DEF board
  <2>2. x \in Executions
    BY <2>1 DEF Executions
  <2>3. x.board = board /\ x.check = id /\ x.verdict = verdict /\ x.aliases = A
    OBVIOUS
  <2>4. ran' = Append(ran, x)
    BY <1>2 DEF Ran
  <2> HIDE DEF x
  <2>5. /\ ran' \in Seq(Executions) /\ n \in Nat
        /\ DOMAIN ran' = 1..(n + 1) /\ DOMAIN ran = 1..n
        /\ \A i \in DOMAIN ran : ran'[i] = ran[i]
        /\ ran'[n + 1] = x
    BY <2>2, <2>4, Appended DEF Typed
  <2> HIDE DEF n
  <2>6. \A i \in DOMAIN ran' : i \in DOMAIN ran \/ i = n + 1
    BY <2>5
  <2>7. RanEquipped'
    BY <1>2, <2>3, <2>5, <2>6 DEF RanEquipped, Equipment
  <2>8. \A i \in DOMAIN ran' : \E k \in 1..at : ran'[i].board = BoardSeq[k]
    <3>1. ran'[n + 1].board = BoardSeq[at] /\ at \in 1..at
      BY <2>1, <2>3, <2>5 DEF board
    <3>2. QED
      BY <2>5, <2>6, <3>1 DEF RanInOrder
  <2>9. ASSUME NEW i \in DOMAIN ran', NEW j \in DOMAIN ran', i < j, ran'[i].board = ran'[j].board
        PROVE  Before(ran'[i].check, ran'[j].check)
    <3>1. i \in DOMAIN ran
      BY <2>5, <2>9
    <3>2. CASE j \in DOMAIN ran
      BY <2>5, <2>9, <3>1, <3>2 DEF RanInOrder
    <3>3. CASE j = n + 1
      BY <2>3, <2>5, <2>9, <3>1, <3>3
    <3>4. QED
      BY <2>6, <3>2, <3>3
  <2>10. QED
    BY <2>3, <2>5, <2>6, <2>7, <2>8, <2>9
<1>3. QED
  BY <1>1, <1>2

-----------------------------------------------------------------------------
(* The steps *)

LEMMA InvInit == Init => RunnerInv
<1> SUFFICES ASSUME Init
             PROVE  RunnerInv
  OBVIOUS
<1>1. <<>> \in Seq(Checks) /\ <<>> \in Seq(Entries) /\ <<>> \in Seq(Executions)
  OBVIOUS
<1>2. 0 \in 0..Len(BoardSeq)
  BY RunnerAssumption
<1>3. Typed
  BY <1>1, <1>2 DEF Init, Typed, OnBoard
<1>4. Control /\ Equipment
  BY DEF Init, Control, Equipment, RanEquipped, OnBoard
<1>5. InLine /\ Recorded /\ Complete
  BY DEF Init, InLine, Recorded, OneEach, Complete
<1>6. RanInOrder /\ PassesRan
  BY DEF Init, RanInOrder, PassesRan
<1>7. QED
  BY <1>3, <1>4, <1>5, <1>6 DEF RunnerInv

LEMMA InvResolve ==
  ASSUME RunnerInv, Resolve
  PROVE  RunnerInv'
<1> USE DEF RunnerInv
<1>1. suite \in Suites /\ UNCHANGED suite
  BY DEF Typed, Resolve, asked
<1>2. /\ specs' \in Seq(Checks)
      /\ \A i, j \in DOMAIN specs' : i < j => Before(specs'[i], specs'[j])
  BY <1>1, SelectedInOrder DEF Resolve
<1>3. \A x, y : Before(x, y)' = Before(x, y)
  BY <1>1, SameOrder
<1>4. Typed'
  BY <1>2 DEF Typed, Resolve, OnBoard, asked, connections
<1>5. at = 0 /\ queue = <<>> /\ batch = <<>> /\ results = <<>> /\ records = <<>> /\ ran = <<>>
  BY DEF Control, Resolve, OnBoard
<1>6. UNCHANGED <<at, queue, batch, results, records, opened, ran>> /\ pc' \in {"boards", "done"}
      /\ (pc' = "done" => specs' = <<>>)
  BY DEF Resolve, connections
<1>7. Control' /\ Equipment'
  BY <1>5, <1>6 DEF Control, Equipment, RanEquipped, OnBoard
<1>8. InLine'
  BY <1>2, <1>3, <1>5, <1>6 DEF InLine
<1>9. Recorded' /\ Complete'
  BY <1>5, <1>6 DEF Recorded, OneEach, Complete
<1>10. RanInOrder' /\ PassesRan'
  BY <1>5, <1>6 DEF RanInOrder, PassesRan
<1>11. QED
  BY <1>4, <1>7, <1>8, <1>9, <1>10

LEMMA InvCancel ==
  ASSUME RunnerInv, Cancel
  PROVE  RunnerInv'
<1> USE DEF RunnerInv
<1>1. /\ UNCHANGED <<suite, backend, pc, specs, at, queue, batch, results, records, opened, ran>>
      /\ cancel' = TRUE
  BY DEF Cancel, asked, connections
<1>2. \A x, y : Before(x, y)' = Before(x, y)
  BY <1>1, SameOrder
<1>3. Typed' /\ Control'
  BY <1>1 DEF Typed, Control, OnBoard, Cancel
<1>4. Equipment' /\ InLine'
  BY <1>1, <1>2 DEF Equipment, RanEquipped, InLine, board
<1>5. Recorded' /\ Complete'
  BY <1>1 DEF Recorded, OneEach, Waiting, Complete, board
<1>6. RanInOrder' /\ PassesRan'
  BY <1>1, <1>2 DEF RanInOrder, PassesRan, board
<1>7. QED
  BY <1>3, <1>4, <1>5, <1>6

LEMMA InvFinish ==
  ASSUME RunnerInv, Finish
  PROVE  RunnerInv'
<1> USE DEF RunnerInv
<1>1. /\ UNCHANGED <<suite, backend, specs, at, queue, batch, results, records, opened, cancel, ran>>
      /\ pc = "boards" /\ pc' = "done" /\ (cancel \/ at = Len(BoardSeq))
  BY DEF Finish, asked, connections
<1>2. \A x, y : Before(x, y)' = Before(x, y)
  BY <1>1, SameOrder
<1>3. Typed' /\ Control'
  BY <1>1 DEF Typed, Control, OnBoard
<1>4. Equipment' /\ InLine'
  BY <1>1, <1>2 DEF Equipment, RanEquipped, InLine, board
<1>5. Recorded' /\ Complete'
  BY <1>1 DEF Recorded, OneEach, Waiting, Complete, Written, board
<1>6. RanInOrder' /\ PassesRan'
  BY <1>1, <1>2 DEF RanInOrder, PassesRan, board
<1>7. QED
  BY <1>3, <1>4, <1>5, <1>6

LEMMA InvCloseBoard ==
  ASSUME RunnerInv, CloseBoard \/ CloseFails
  PROVE  RunnerInv'
<1> USE DEF RunnerInv
<1>1. /\ UNCHANGED <<suite, backend, specs, at, batch, results, records, cancel, ran>>
      /\ opened' \subseteq opened /\ queue' = <<>>
      /\ \/ pc = "units" /\ (cancel \/ queue = <<>>) /\ pc' = "boards"
         \/ pc \in {"units", "unwind"} /\ pc' = "raised"
  BY DEF CloseBoard, CloseFails, asked
<1>2. \A x, y : Before(x, y)' = Before(x, y)
  BY <1>1, SameOrder
<1>3. batch = <<>> /\ results = <<>>
  BY <1>1 DEF Control
<1>4. Typed' /\ Control'
  BY <1>1, <1>3 DEF Typed, Control, OnBoard
<1>5. Equipment' /\ InLine'
  BY <1>1, <1>2, <1>3 DEF Equipment, RanEquipped, InLine, board
<1>6. Recorded'
  BY <1>1, <1>3 DEF Recorded, OneEach, Waiting, board
<1>7. Complete'
  <2> SUFFICES ASSUME ~cancel', pc' \in {"boards", "units", "batch", "done"}
               PROVE  Complete'
    BY DEF Complete
  <2>1. \A id : ~Waiting(id)
    BY <1>1, <1>3 DEF Waiting
  <2>2. QED
    BY <1>1, <2>1 DEF Complete, Written
<1>8. RanInOrder' /\ PassesRan'
  BY <1>1, <1>2, <1>3 DEF RanInOrder, PassesRan, board
<1>9. QED
  BY <1>4, <1>5, <1>6, <1>7, <1>8

LEMMA InvEnterBoard ==
  ASSUME RunnerInv, EnterBoard
  PROVE  RunnerInv'
<1> USE DEF RunnerInv
<1> DEFINE b == BoardSeq[at + 1]
           fits == {id \in Checks : ModelFits(id, BoardModel[b])}
           here == Only(specs, fits)
           runnable == {id \in Checks : Runnable(id, b)}
           missing == Only(here, Checks \ runnable)
           new == [i \in DOMAIN missing |-> Record(b, missing[i], "skipped")]
           R == {p \in Checks \X Checks : Before(p[1], p[2])}
<1>1. /\ UNCHANGED <<suite, backend, specs, batch, results, opened, cancel, ran>>
      /\ pc = "boards" /\ pc' = "units" /\ at < Len(BoardSeq) /\ at' = at + 1
      /\ records' = records \o new /\ queue' = Only(here, runnable)
  BY DEF EnterBoard, SpecsOf, asked, connections
<1>2. \A x, y : Before(x, y)' = Before(x, y)
  BY <1>1, SameOrder
<1>3. /\ BoardSeq \in Seq(Boards) /\ at \in 0..Len(BoardSeq) /\ at + 1 \in 1..Len(BoardSeq)
      /\ b \in Boards
  BY <1>1, RunnerAssumption DEF Typed
<1>4. \A k \in 1..at : BoardSeq[k] # b
  BY <1>3, RunnerAssumption DEF IsInjective
<1>5. board' = b
  BY <1>1 DEF board
<1>6. batch = <<>> /\ results = <<>>
  BY <1>1 DEF Control, OnBoard
<1> HIDE DEF b
<1>7. specs \in Seq(Checks) /\ Ordered(specs, R)
  BY DEF Typed, InLine, Ordered
<1>25. \A x, y : <<x, y>> \in R => Before(x, y) /\ x # y
  BY DEF Before
<1> HIDE DEF R, fits, runnable
<1>8. here \in Seq(Checks) /\ ToSet(here) = ToSet(specs) \cap fits /\ Ordered(here, R)
  BY <1>7, OnlyKeeps
<1> HIDE DEF here
<1>9. /\ missing \in Seq(Checks) /\ Ordered(missing, R)
      /\ ToSet(missing) = ToSet(here) \cap (Checks \ runnable)
  BY <1>8, OnlyKeeps
<1>10. /\ queue' \in Seq(Checks) /\ Ordered(queue', R)
       /\ ToSet(queue') = ToSet(here) \cap runnable
  BY <1>1, <1>8, OnlyKeeps
<1> HIDE DEF missing
<1>11. /\ new \in Seq(Entries) /\ DOMAIN new = DOMAIN missing
       /\ \A i \in DOMAIN new : /\ new[i].board = b /\ new[i].check = missing[i]
                                /\ new[i].verdict = "skipped"
  <2>1. \A i \in DOMAIN missing : Record(b, missing[i], "skipped") \in Entries
    BY <1>3, <1>9 DEF Record, Entries, Verdicts
  <2>2. DOMAIN missing = 1..Len(missing) /\ Len(missing) \in Nat
    BY <1>9
  <2>3. new \in Seq(Entries)
    BY <2>1, <2>2
  <2>4. QED
    BY <2>3 DEF Record
<1> HIDE DEF new
<1>12. \A i, j \in DOMAIN new : i < j => new[i].check # new[j].check
  BY <1>9, <1>11, <1>25 DEF Ordered
<1>13. \A i \in DOMAIN records : records[i].board # b
  BY <1>4 DEF Recorded
<1>14. records' \in Seq(Entries) /\ OneEach(records') /\ Grown(records, new, records')
  <2>1. records \in Seq(Entries) /\ OneEach(records)
    BY DEF Typed, Recorded
  <2>2. Additional(records, new, b)
    BY <1>11, <1>12, <1>13 DEF Additional
  <2>3. QED
    BY <1>1, <1>11, <2>1, <2>2, RecordsGrow
<1>15. Typed' /\ Control'
  BY <1>1, <1>3, <1>6, <1>10, <1>14 DEF Typed, Control, OnBoard
<1>16. \A i \in DOMAIN queue' : queue'[i] \in ToSet(here) /\ queue'[i] \in runnable
  BY <1>10 DEF ToSet
<1>17. \A i \in DOMAIN missing : missing[i] \in ToSet(here) /\ missing[i] \notin runnable
  BY <1>9 DEF ToSet
<1>18. Equipment'
  <2>1. \A i \in DOMAIN queue' : ModelFits(queue'[i], BoardModel[b])
    BY <1>8, <1>16 DEF fits
  <2>2. QED
    BY <1>1, <1>5, <1>6, <2>1 DEF Equipment, RanEquipped
<1>19. InLine'
  <2>1. \A i, j \in DOMAIN queue' : i < j => Before(queue'[i], queue'[j])
    BY <1>10, <1>25 DEF Ordered
  <2>2. QED
    BY <1>1, <1>2, <1>6, <2>1 DEF InLine
<1>20. Recorded'
  <2>1. \A i \in DOMAIN records' : \E k \in 1..at' : records'[i].board = BoardSeq[k]
    <3>1. \A i \in DOMAIN records : \E k \in 1..at' : records[i].board = BoardSeq[k]
      BY <1>1, <1>3 DEF Recorded
    <3>2. at' \in 1..at' /\ b = BoardSeq[at']
      BY <1>1, <1>3 DEF b
    <3>3. \A j \in DOMAIN new : \E k \in 1..at' : new[j].board = BoardSeq[k]
      BY <1>11, <3>2
    <3>4. QED
      BY <1>14, <3>1, <3>3 DEF Grown
  <2>2. ASSUME NEW i \in DOMAIN records', records'[i].board = b,
               NEW id, id = records'[i].check
        PROVE  ~Waiting(id)'
    <3>1. PICK j \in DOMAIN new : records'[i] = new[j]
      BY <1>13, <1>14, <2>2 DEF Grown
    <3>2. j \in DOMAIN missing /\ id = missing[j]
      BY <1>11, <2>2, <3>1
    <3>3. QED
      BY <1>1, <1>6, <1>16, <1>17, <3>2 DEF Waiting
  <2>3. \A i, id :
          i \in DOMAIN records' /\ records'[i].board = b /\ id = records'[i].check => ~Waiting(id)'
    BY <2>2
  <2>4. \A i \in DOMAIN results' : FALSE
    BY <1>1, <1>6
  <2>5. QED
    BY <1>5, <1>14, <2>1, <2>3, <2>4 DEF Recorded, Waiting
<1>21. Complete'
  <2> SUFFICES ASSUME ~cancel, NEW k \in 1..at', NEW i \in DOMAIN specs,
                      NEW id, id = specs[i],
                      ModelFits(id, BoardModel[BoardSeq[k]])
               PROVE  Written(BoardSeq[k], id)' \/ (k = at' /\ Waiting(id)')
    BY <1>1 DEF Complete, Written, Waiting
  <2>1. CASE k \in 1..at
    <3>1. ~Waiting(id)
      BY <1>1, <1>6 DEF Waiting, Control, OnBoard
    <3>2. Written(BoardSeq[k], id)
      BY <1>1, <2>1, <3>1 DEF Complete
    <3>3. QED
      BY <1>14, <3>2 DEF Written, Grown
  <2>2. CASE k = at + 1
    <3>1. id \in Checks /\ id \in ToSet(specs) /\ id \in fits
      BY <1>7, <2>2 DEF ToSet, fits, b
    <3>2. id \in ToSet(here)
      BY <1>8, <3>1
    <3>3. CASE id \in runnable
      <4>1. id \in ToSet(queue')
        BY <1>10, <3>2, <3>3
      <4>2. QED
        BY <1>1, <2>2, <4>1 DEF Waiting, ToSet
    <3>4. CASE id \notin runnable
      <4>1. id \in ToSet(missing)
        BY <1>9, <3>1, <3>2, <3>4
      <4>2. PICK j \in DOMAIN new : new[j].check = id /\ new[j].board = b
        BY <1>11, <4>1 DEF ToSet
      <4>3. QED
        BY <1>14, <2>2, <4>2 DEF Written, b, Grown
    <3>5. QED
      BY <3>3, <3>4
  <2>3. QED
    BY <1>1, <1>3, <2>1, <2>2
<1>22. RanInOrder'
  <2>1. \A i \in DOMAIN ran : ran[i].board # b
    BY <1>4 DEF RanInOrder
  <2>2. \A i \in DOMAIN ran : \E k \in 1..at' : ran[i].board = BoardSeq[k]
    BY <1>1, <1>3 DEF RanInOrder
  <2>3. QED
    BY <1>1, <1>2, <1>5, <2>1, <2>2 DEF RanInOrder
<1>23. PassesRan'
  <2>1. \A i \in DOMAIN records' : records'[i].verdict = "pass" =>
          i \in DOMAIN records /\ records'[i] = records[i]
    BY <1>11, <1>14 DEF Grown
  <2>2. \A i \in DOMAIN results' : FALSE
    BY <1>1, <1>6
  <2>3. \A i \in DOMAIN records : records[i].verdict = "pass" =>
          \E j \in DOMAIN ran : /\ ran[j].board = records[i].board /\ ran[j].check = records[i].check
                                /\ ran[j].verdict = "pass"
    BY DEF PassesRan
  <2>4. QED
    BY <1>1, <2>1, <2>2, <2>3 DEF PassesRan
<1>24. QED
  BY <1>15, <1>18, <1>19, <1>20, <1>21, <1>22, <1>23

LEMMA Taken ==
  ASSUME NEW S, NEW seq \in Seq(S), seq # <<>>
  PROVE  /\ 1 \in DOMAIN seq /\ seq[1] \in S /\ Head(seq) = seq[1]
         /\ Tail(seq) \in Seq(S)
         /\ \A i \in DOMAIN Tail(seq) : i + 1 \in DOMAIN seq /\ 1 < i + 1 /\ Tail(seq)[i] = seq[i + 1]
         /\ \A i, j \in DOMAIN Tail(seq) : i < j => i + 1 < j + 1
         /\ \A j \in DOMAIN seq : \/ j = 1
                                  \/ \E i \in DOMAIN Tail(seq) : Tail(seq)[i] = seq[j]
<1>1. /\ Len(seq) \in Nat /\ Len(seq) # 0 /\ DOMAIN seq = 1..Len(seq)
      /\ Tail(seq) \in Seq(S) /\ Head(seq) = seq[1]
      /\ DOMAIN Tail(seq) = 1..(Len(seq) - 1)
      /\ \A i \in 1..(Len(seq) - 1) : Tail(seq)[i] = seq[i + 1]
  OBVIOUS
<1>2. ASSUME NEW j \in DOMAIN seq, j # 1
      PROVE  \E i \in DOMAIN Tail(seq) : Tail(seq)[i] = seq[j]
  <2>1. j - 1 \in DOMAIN Tail(seq) /\ (j - 1) + 1 = j
    BY <1>1, <1>2
  <2>2. Tail(seq)[j - 1] = seq[j]
    BY <1>1, <2>1
  <2>3. QED
    BY <2>1, <2>2
<1>3. seq[1] \in S
  BY <1>1
<1>4. QED
  BY <1>1, <1>2, <1>3

\* What a container or a context offers are aliases of the bench.
LEMMA Offered ==
  ASSUME RunnerInv, OnBoard
  PROVE  /\ at \in 1..Len(BoardSeq) /\ board \in Boards /\ BoardSeq[at] = board
         /\ in_process(board) \in SUBSET Aliases
         /\ container_aliases(board) \in SUBSET Aliases
<1>1. at \in 1..Len(BoardSeq) /\ BoardSeq \in Seq(Boards)
  BY RunnerAssumption DEF RunnerInv, Typed, OnBoard
<1>2. board \in Boards
  BY <1>1 DEF board
<1>3. QED
  BY <1>1, <1>2 DEF board, in_process, container_aliases, Aliases

LEMMA InvRunHere ==
  ASSUME RunnerInv, NEW id \in Checks, NEW verdict \in Verdicts, RunHere(id, verdict)
  PROVE  RunnerInv'
<1> USE DEF RunnerInv
<1> DEFINE r == Record(board, id, verdict)
           new == <<r>>
           rest == Tail(queue)
<1>1. /\ UNCHANGED <<suite, backend, pc, specs, at, batch, results, cancel>>
      /\ pc = "units" /\ queue # <<>> /\ id = Head(queue) /\ queue' = rest
      /\ records' = Append(records, r)
      /\ opened' \subseteq opened \cup in_process(board)
      /\ RunCheck(id, in_process(board), BoardActions[board], verdict)
  BY DEF RunHere, Here, Uses, Equipped, asked
<1>2. \A x, y : Before(x, y)' = Before(x, y)
  BY <1>1, SameOrder
<1>3. OnBoard /\ batch = <<>> /\ results = <<>> /\ board' = board
  BY <1>1 DEF OnBoard, Control, board
<1>4. /\ at \in 1..Len(BoardSeq) /\ board \in Boards /\ BoardSeq[at] = board
      /\ in_process(board) \in SUBSET Aliases
  BY <1>3, Offered
<1>5. queue \in Seq(Checks) /\ records \in Seq(Entries)
  BY DEF Typed
<1>6. /\ 1 \in DOMAIN queue /\ queue[1] = id
      /\ rest \in Seq(Checks)
      /\ \A i \in DOMAIN rest : i + 1 \in DOMAIN queue /\ 1 < i + 1 /\ rest[i] = queue[i + 1]
      /\ \A i, j \in DOMAIN rest : i < j => i + 1 < j + 1
      /\ \A j \in DOMAIN queue : j = 1 \/ \E i \in DOMAIN rest : rest[i] = queue[j]
  BY <1>1, <1>5, Taken
<1> HIDE DEF rest
<1>7. ModelFits(id, BoardModel[board])
  BY <1>6 DEF Equipment
<1>8. \A i \in DOMAIN ran : ran[i].board = board => Before(ran[i].check, id)
  BY <1>1, <1>6 DEF RanInOrder
<1>9. \/ Ran(id, verdict, in_process(board)) /\ Needs[id] \subseteq in_process(board)
      \/ verdict # "pass" /\ UNCHANGED ran
  BY <1>1 DEF RunCheck, Equipped
<1>10. /\ ran' \in Seq(Executions)
       /\ RanEquipped'
       /\ \A i \in DOMAIN ran' : \E k \in 1..at : ran'[i].board = BoardSeq[k]
       /\ \A i, j \in DOMAIN ran' :
            i < j /\ ran'[i].board = ran'[j].board => Before(ran'[i].check, ran'[j].check)
       /\ \A i \in DOMAIN ran : i \in DOMAIN ran' /\ ran'[i] = ran[i]
       /\ \A i \in DOMAIN ran' : \/ i \in DOMAIN ran /\ ran'[i] = ran[i]
                                 \/ ran'[i].check = id
       /\ verdict = "pass" => \E i \in DOMAIN ran' : /\ ran'[i].board = board /\ ran'[i].check = id
                                                     /\ ran'[i].verdict = "pass"
  BY <1>1, <1>3, <1>4, <1>7, <1>8, <1>9, RanGrows
<1>11. r \in Entries /\ r.board = board /\ r.check = id /\ r.verdict = verdict
  BY <1>4 DEF Record, Entries
<1> HIDE DEF r
<1>12. /\ new \in Seq(Entries) /\ DOMAIN new = {1} /\ new[1] = r
  BY <1>11
<1>13. records' = records \o new
  BY <1>1, <1>5, <1>11, AppendIsConcat
<1> HIDE DEF new
<1>14. records' \in Seq(Entries) /\ OneEach(records') /\ Grown(records, new, records')
  <2>1. \A i \in DOMAIN records : records[i].board = board => records[i].check # id
    BY <1>6 DEF Recorded, Waiting
  <2>2. Additional(records, new, board)
    BY <1>11, <1>12, <2>1 DEF Additional
  <2>3. QED
    BY <1>5, <1>12, <1>13, <2>2, RecordsGrow DEF Recorded
<1>15. Typed' /\ Control'
  BY <1>1, <1>3, <1>4, <1>6, <1>10, <1>14 DEF Typed, Control, OnBoard
<1>16. Equipment'
  BY <1>1, <1>3, <1>6, <1>10 DEF Equipment
<1>17. InLine'
  BY <1>1, <1>2, <1>3, <1>6 DEF InLine
<1>18. \A i \in DOMAIN rest : rest[i] # id
  BY <1>6 DEF InLine, Before
<1>19. Recorded'
  <2>1. \A i \in DOMAIN records' : \E k \in 1..at' : records'[i].board = BoardSeq[k]
    <3>1. \A i \in DOMAIN records : \E k \in 1..at' : records[i].board = BoardSeq[k]
      BY <1>1 DEF Recorded
    <3>2. \A j \in DOMAIN new : \E k \in 1..at' : new[j].board = BoardSeq[k]
      BY <1>1, <1>4, <1>11, <1>12
    <3>3. QED
      BY <1>14, <3>1, <3>2 DEF Grown
  <2>2. ASSUME NEW i \in DOMAIN records', records'[i].board = board,
               NEW x, x = records'[i].check
        PROVE  ~Waiting(x)'
    <3>1. \A j \in DOMAIN rest : rest[j] # x
      <4>1. CASE i \in DOMAIN records /\ records'[i] = records[i]
        BY <1>6, <2>2, <4>1 DEF Recorded, Waiting
      <4>2. CASE \E j \in DOMAIN new : records'[i] = new[j]
        BY <1>11, <1>12, <1>18, <2>2, <4>2
      <4>3. QED
        BY <1>14, <4>1, <4>2 DEF Grown
    <3>2. QED
      BY <1>1, <1>3, <3>1 DEF Waiting
  <2>3. \A i, x :
          i \in DOMAIN records' /\ records'[i].board = board /\ x = records'[i].check => ~Waiting(x)'
    BY <2>2
  <2>4. \A i \in DOMAIN results' : FALSE
    BY <1>1, <1>3
  <2>5. QED
    BY <1>3, <1>14, <2>1, <2>3, <2>4 DEF Recorded, Waiting
<1>20. Complete'
  <2> SUFFICES ASSUME ~cancel, NEW k \in 1..at, NEW i \in DOMAIN specs,
                      NEW x, x = specs[i],
                      ModelFits(x, BoardModel[BoardSeq[k]])
               PROVE  Written(BoardSeq[k], x)' \/ (k = at' /\ Waiting(x)')
    BY <1>1 DEF Complete, Written, Waiting
  <2>1. Written(BoardSeq[k], x) \/ (k = at /\ Waiting(x))
    BY <1>1 DEF Complete
  <2>2. CASE Written(BoardSeq[k], x)
    BY <1>14, <2>2 DEF Written, Grown
  <2>3. CASE k = at /\ Waiting(x)
    <3>1. x = id \/ \E j \in DOMAIN rest : rest[j] = x
      BY <1>3, <1>6, <2>3 DEF Waiting
    <3>2. CASE x = id
      BY <1>4, <1>11, <1>12, <1>14, <2>3, <3>2 DEF Written, Grown
    <3>3. CASE \E j \in DOMAIN rest : rest[j] = x
      BY <1>1, <2>3, <3>3 DEF Waiting
    <3>4. QED
      BY <3>1, <3>2, <3>3
  <2>4. QED
    BY <2>1, <2>2, <2>3
<1>21. RanInOrder'
  <2>1. ASSUME NEW i \in DOMAIN ran', ran'[i].board = board, NEW j \in DOMAIN rest
        PROVE  Before(ran'[i].check, rest[j])
    <3>1. CASE i \in DOMAIN ran /\ ran'[i] = ran[i]
      BY <1>1, <1>6, <2>1, <3>1 DEF RanInOrder
    <3>2. CASE ran'[i].check = id
      BY <1>6, <3>2 DEF InLine
    <3>3. QED
      BY <1>10, <3>1, <3>2
  <2>2. \A j \in DOMAIN batch' : FALSE
    BY <1>1, <1>3
  <2>3. QED
    BY <1>1, <1>2, <1>3, <1>10, <2>1, <2>2 DEF RanInOrder
<1>22. PassesRan'
  <2>1. \A i \in DOMAIN records : records[i].verdict = "pass" =>
          \E j \in DOMAIN ran' : /\ ran'[j].board = records[i].board /\ ran'[j].check = records[i].check
                                 /\ ran'[j].verdict = "pass"
    BY <1>10 DEF PassesRan
  <2>2. \A i \in DOMAIN new : new[i].verdict = "pass" =>
          \E j \in DOMAIN ran' : /\ ran'[j].board = new[i].board /\ ran'[j].check = new[i].check
                                 /\ ran'[j].verdict = "pass"
    BY <1>10, <1>11, <1>12
  <2>3. \A i \in DOMAIN records' : records'[i].verdict = "pass" =>
          \E j \in DOMAIN ran' : /\ ran'[j].board = records'[i].board /\ ran'[j].check = records'[i].check
                                 /\ ran'[j].verdict = "pass"
    BY <1>14, <2>1, <2>2 DEF Grown
  <2>4. \A i \in DOMAIN results' : FALSE
    BY <1>1, <1>3
  <2>5. QED
    BY <2>3, <2>4 DEF PassesRan
<1>23. QED
  BY <1>15, <1>16, <1>17, <1>19, <1>20, <1>21, <1>22

LEMMA InvCrashHere ==
  ASSUME RunnerInv, NEW id \in Checks, CrashHere(id)
  PROVE  RunnerInv'
<1> USE DEF RunnerInv
<1>1. /\ UNCHANGED <<suite, backend, specs, at, queue, batch, results, records, cancel>>
      /\ pc = "units" /\ pc' = "unwind" /\ queue # <<>> /\ id = Head(queue)
      /\ opened' = opened \cup Needs[id]
      /\ Ran(id, "error", in_process(board)) /\ Needs[id] \subseteq in_process(board)
  BY DEF CrashHere, Here, Equipped, asked
<1>2. \A x, y : Before(x, y)' = Before(x, y)
  BY <1>1, SameOrder
<1>3. OnBoard /\ batch = <<>> /\ results = <<>> /\ board' = board
  BY <1>1 DEF OnBoard, Control, board
<1>4. at \in 1..Len(BoardSeq) /\ in_process(board) \in SUBSET Aliases
  BY <1>3, Offered
<1>5. 1 \in DOMAIN queue /\ queue[1] = id
  BY <1>1, Taken DEF Typed
<1>6. ModelFits(id, BoardModel[board])
  BY <1>5 DEF Equipment
<1>7. \A i \in DOMAIN ran : ran[i].board = board => Before(ran[i].check, id)
  BY <1>1, <1>5 DEF RanInOrder
<1>8. /\ ran' \in Seq(Executions)
      /\ RanEquipped'
      /\ \A i \in DOMAIN ran' : \E k \in 1..at : ran'[i].board = BoardSeq[k]
      /\ \A i, j \in DOMAIN ran' :
           i < j /\ ran'[i].board = ran'[j].board => Before(ran'[i].check, ran'[j].check)
      /\ \A i \in DOMAIN ran : i \in DOMAIN ran' /\ ran'[i] = ran[i]
  <2>1. "error" \in Verdicts
    BY DEF Verdicts
  <2>2. QED
    BY <1>1, <1>3, <1>4, <1>6, <1>7, <2>1, RanGrows
<1>9. Typed' /\ Control'
  BY <1>1, <1>3, <1>4, <1>8 DEF Typed, Control, OnBoard
<1>10. Equipment' /\ InLine'
  BY <1>1, <1>2, <1>3, <1>8 DEF Equipment, InLine
<1>11. Recorded' /\ Complete'
  BY <1>1, <1>3 DEF Recorded, OneEach, Waiting, Complete
<1>12. RanInOrder'
  BY <1>1, <1>2, <1>8 DEF RanInOrder
<1>13. PassesRan'
  <2>1. \A i \in DOMAIN records : records[i].verdict = "pass" =>
          \E j \in DOMAIN ran' : /\ ran'[j].board = records[i].board /\ ran'[j].check = records[i].check
                                 /\ ran'[j].verdict = "pass"
    BY <1>8 DEF PassesRan
  <2>2. QED
    BY <1>1, <1>3, <2>1 DEF PassesRan
<1>14. QED
  BY <1>9, <1>10, <1>11, <1>12, <1>13

\* A batch is not empty and no longer than the queue.
LEMMA BatchLengthExists ==
  ASSUME Len(queue) \in Nat, Len(queue) # 0, needs_container(queue[1], board)
  PROVE  BatchLength \in 1..Len(queue)
<1> DEFINE ends == {n \in 1..Len(queue) : n < Len(queue) => ~needs_container(queue[n + 1], board)}
<1>1. Len(queue) \in ends /\ ends \subseteq Nat
  OBVIOUS
<1>2. PICK n \in ends : \A m \in ends : n <= m
  <2> HIDE DEF ends
  <2> QED
    BY <1>1, LeastNumber
<1>3. ASSUME NEW i \in 1..n
      PROVE  needs_container(queue[i], board)
  <2>1. CASE i = 1
    BY <2>1
  <2>2. CASE i # 1
    <3>1. i - 1 \in 1..Len(queue) /\ i - 1 < n /\ (i - 1) + 1 = i /\ i - 1 < Len(queue)
      BY <1>2, <2>2
    <3>2. i - 1 \notin ends
      BY <1>1, <1>2, <3>1
    <3>3. QED
      BY <3>1, <3>2
  <2>3. QED
    BY <2>1, <2>2
<1>4. QED
  BY <1>2, <1>3 DEF BatchLength

LEMMA InvBeginBatch ==
  ASSUME RunnerInv, BeginBatch
  PROVE  RunnerInv'
<1> USE DEF RunnerInv
<1> DEFINE n == BatchLength
           len == Len(queue)
<1>1. /\ UNCHANGED <<suite, backend, specs, at, records, opened, cancel, ran>>
      /\ pc = "units" /\ pc' = "batch" /\ queue # <<>> /\ needs_container(Head(queue), board)
      /\ batch' = SubSeq(queue, 1, n) /\ queue' = SubSeq(queue, n + 1, len) /\ results' = <<>>
  BY DEF BeginBatch, asked, connections
<1>2. \A x, y : Before(x, y)' = Before(x, y)
  BY <1>1, SameOrder
<1>3. OnBoard /\ batch = <<>> /\ results = <<>> /\ board' = board
  BY <1>1 DEF OnBoard, Control, board
<1>4. queue \in Seq(Checks) /\ len \in Nat /\ len # 0 /\ DOMAIN queue = 1..len
  BY <1>1 DEF Typed
<1>5. n \in 1..len
  <2>1. Head(queue) = queue[1]
    BY <1>1, <1>4
  <2>2. QED
    BY <1>1, <1>4, <2>1, BatchLengthExists
<1> HIDE DEF n
<1>6. /\ batch' \in Seq(Checks) /\ DOMAIN batch' = 1..n
      /\ \A i \in 1..n : batch'[i] = queue[i]
  BY <1>1, <1>4, <1>5
<1>7. /\ queue' \in Seq(Checks) /\ DOMAIN queue' = 1..(len - n)
      /\ \A i \in 1..(len - n) : queue'[i] = queue[n + i]
  BY <1>1, <1>4, <1>5
<1> HIDE DEF len
<1>8. /\ \A i \in DOMAIN batch' : i \in DOMAIN queue /\ batch'[i] = queue[i]
      /\ \A i \in DOMAIN queue' : n + i \in DOMAIN queue /\ queue'[i] = queue[n + i]
      /\ \A i \in DOMAIN batch', j \in DOMAIN queue' : i < n + j
      /\ \A i, j \in DOMAIN queue' : i < j => n + i < n + j
  BY <1>4, <1>5, <1>6, <1>7
<1>9. \A i \in DOMAIN queue : \/ i \in DOMAIN batch'
                              \/ i - n \in DOMAIN queue' /\ queue'[i - n] = queue[i]
  BY <1>4, <1>5, <1>6, <1>7
<1>10. Typed' /\ Control'
  BY <1>1, <1>3, <1>6, <1>7 DEF Typed, Control, OnBoard
<1>11. Equipment'
  BY <1>1, <1>3, <1>8 DEF Equipment, RanEquipped
<1>12. InLine'
  BY <1>1, <1>2, <1>3, <1>8 DEF InLine
<1>13. \A x : Waiting(x)' <=> Waiting(x)
  <2> TAKE x
  <2>1. Waiting(x) <=> \E i \in DOMAIN queue : queue[i] = x
    BY <1>3 DEF Waiting
  <2>2. Waiting(x)' <=> \/ \E i \in DOMAIN queue' : queue'[i] = x
                        \/ \E i \in DOMAIN batch' : batch'[i] = x
    <3>1. \A i \in DOMAIN results' : FALSE
      BY <1>1
    <3>2. QED
      BY <3>1 DEF Waiting
  <2>3. ASSUME NEW i \in DOMAIN queue, queue[i] = x
        PROVE  \/ \E j \in DOMAIN queue' : queue'[j] = x
               \/ \E j \in DOMAIN batch' : batch'[j] = x
    BY <1>8, <1>9, <2>3
  <2>4. ASSUME NEW i \in DOMAIN queue', queue'[i] = x
        PROVE  \E j \in DOMAIN queue : queue[j] = x
    BY <1>8, <2>4
  <2>5. ASSUME NEW i \in DOMAIN batch', batch'[i] = x
        PROVE  \E j \in DOMAIN queue : queue[j] = x
    BY <1>8, <2>5
  <2>6. QED
    BY <2>1, <2>2, <2>3, <2>4, <2>5
<1>14. Recorded'
  BY <1>1, <1>3, <1>13 DEF Recorded, OneEach
<1>15. Complete'
  BY <1>1, <1>13 DEF Complete, Written
<1>16. RanInOrder'
  BY <1>1, <1>2, <1>3, <1>8 DEF RanInOrder
<1>17. PassesRan'
  BY <1>1, <1>3 DEF PassesRan
<1>18. QED
  BY <1>10, <1>11, <1>12, <1>14, <1>15, <1>16, <1>17

LEMMA InvWorkerRun ==
  ASSUME RunnerInv, NEW verdict \in Verdicts, WorkerRun(verdict)
  PROVE  RunnerInv'
<1> USE DEF RunnerInv
<1> DEFINE rest == Tail(batch)
<1>1. /\ UNCHANGED <<suite, backend, pc, specs, at, queue, records, opened, cancel>>
      /\ pc = "batch" /\ batch # <<>> /\ batch' = rest
  BY DEF WorkerRun, asked
<1>2. PICK id : id = Head(batch)
  OBVIOUS
<1> DEFINE r == Record(board, id, verdict)
           n == Len(results)
<1>3. /\ results' = Append(results, r)
      /\ \/ RunCheck(id, container_aliases(board), {}, verdict)
         \/ verdict = "error" /\ UNCHANGED ran
  BY <1>2 DEF WorkerRun
<1>4. \A x, y : Before(x, y)' = Before(x, y)
  BY <1>1, SameOrder
<1>5. OnBoard /\ board' = board
  BY <1>1 DEF OnBoard, board
<1>6. /\ at \in 1..Len(BoardSeq) /\ board \in Boards
      /\ container_aliases(board) \in SUBSET Aliases
  BY <1>5, Offered
<1>7. batch \in Seq(Checks) /\ results \in Seq(Entries)
  BY DEF Typed
<1>8. /\ 1 \in DOMAIN batch /\ batch[1] = id /\ id \in Checks
      /\ rest \in Seq(Checks)
      /\ \A i \in DOMAIN rest : i + 1 \in DOMAIN batch /\ 1 < i + 1 /\ rest[i] = batch[i + 1]
      /\ \A i, j \in DOMAIN rest : i < j => i + 1 < j + 1
      /\ \A j \in DOMAIN batch : j = 1 \/ \E i \in DOMAIN rest : rest[i] = batch[j]
  BY <1>1, <1>2, <1>7, Taken
<1> HIDE DEF rest
<1>9. r \in Entries /\ r.board = board /\ r.check = id /\ r.verdict = verdict
  BY <1>6, <1>8 DEF Record, Entries
<1> HIDE DEF r
<1>10. /\ results' \in Seq(Entries) /\ n \in Nat
       /\ DOMAIN results' = 1..(n + 1) /\ DOMAIN results = 1..n
       /\ \A i \in DOMAIN results : results'[i] = results[i]
       /\ results'[n + 1] = r
  BY <1>3, <1>7, <1>9, Appended
<1> HIDE DEF n
<1>11. \A i \in DOMAIN results' : \/ i \in DOMAIN results /\ results'[i] = results[i]
                                  \/ i = n + 1 /\ results'[i] = r
  BY <1>10
<1>12. ModelFits(id, BoardModel[board])
  BY <1>8 DEF Equipment
<1>13. \A i \in DOMAIN ran : ran[i].board = board => Before(ran[i].check, id)
  BY <1>1, <1>8 DEF RanInOrder
<1>14. \/ Ran(id, verdict, container_aliases(board)) /\ Needs[id] \subseteq container_aliases(board)
       \/ verdict # "pass" /\ UNCHANGED ran
  BY <1>3 DEF RunCheck, Equipped
<1>15. /\ ran' \in Seq(Executions)
       /\ RanEquipped'
       /\ \A i \in DOMAIN ran' : \E k \in 1..at : ran'[i].board = BoardSeq[k]
       /\ \A i, j \in DOMAIN ran' :
            i < j /\ ran'[i].board = ran'[j].board => Before(ran'[i].check, ran'[j].check)
       /\ \A i \in DOMAIN ran : i \in DOMAIN ran' /\ ran'[i] = ran[i]
       /\ \A i \in DOMAIN ran' : \/ i \in DOMAIN ran /\ ran'[i] = ran[i]
                                 \/ ran'[i].check = id
       /\ verdict = "pass" => \E i \in DOMAIN ran' : /\ ran'[i].board = board /\ ran'[i].check = id
                                                     /\ ran'[i].verdict = "pass"
  BY <1>1, <1>5, <1>6, <1>8, <1>12, <1>13, <1>14, RanGrows
<1>16. Typed' /\ Control'
  BY <1>1, <1>5, <1>8, <1>10, <1>15 DEF Typed, Control, OnBoard
<1>17. Equipment'
  BY <1>1, <1>5, <1>8, <1>15 DEF Equipment
<1>18. InLine'
  <2>1. /\ \A i, j \in DOMAIN rest : i < j => Before(rest[i], rest[j])
        /\ \A i \in DOMAIN rest, j \in DOMAIN queue : Before(rest[i], queue[j])
    BY <1>8 DEF InLine
  <2>2. ASSUME NEW i \in DOMAIN results', NEW j \in DOMAIN results', i < j
        PROVE  Before(results'[i].check, results'[j].check)
    <3>1. i \in DOMAIN results /\ results'[i] = results[i]
      BY <1>10, <2>2
    <3>2. CASE j \in DOMAIN results /\ results'[j] = results[j]
      BY <2>2, <3>1, <3>2 DEF InLine
    <3>3. CASE results'[j] = r
      BY <1>8, <1>9, <3>1, <3>3 DEF InLine
    <3>4. QED
      BY <1>11, <3>2, <3>3
  <2>3. ASSUME NEW i \in DOMAIN results'
        PROVE  /\ \A j \in DOMAIN queue : Before(results'[i].check, queue[j])
               /\ \A j \in DOMAIN rest : Before(results'[i].check, rest[j])
    <3>1. CASE i \in DOMAIN results /\ results'[i] = results[i]
      BY <1>8, <3>1 DEF InLine
    <3>2. CASE results'[i] = r
      BY <1>8, <1>9, <3>2 DEF InLine
    <3>3. QED
      BY <1>11, <3>1, <3>2
  <2>4. /\ \A i, j \in DOMAIN specs : i < j => Before(specs[i], specs[j])
        /\ \A i, j \in DOMAIN queue : i < j => Before(queue[i], queue[j])
    BY DEF InLine
  <2>5. QED
    BY <1>1, <1>4, <2>1, <2>2, <2>3, <2>4 DEF InLine
<1>19. \A x : Waiting(x)' <=> Waiting(x)
  <2> TAKE x
  <2>1. Waiting(x)' => Waiting(x)
    BY <1>1, <1>8, <1>9, <1>11 DEF Waiting
  <2>2. ASSUME Waiting(x)
        PROVE  Waiting(x)'
    <3>1. CASE \E i \in DOMAIN queue : queue[i] = x
      BY <1>1, <3>1 DEF Waiting
    <3>2. CASE \E i \in DOMAIN results : results[i].check = x
      BY <1>10, <3>2 DEF Waiting
    <3>3. CASE \E i \in DOMAIN batch : batch[i] = x
      <4>1. x = id \/ \E i \in DOMAIN rest : rest[i] = x
        BY <1>8, <3>3
      <4>2. n + 1 \in DOMAIN results' /\ results'[n + 1].check = id
        BY <1>9, <1>10
      <4>3. QED
        BY <1>1, <4>1, <4>2 DEF Waiting
    <3>4. QED
      BY <2>2, <3>1, <3>2, <3>3 DEF Waiting
  <2>3. QED
    BY <2>1, <2>2
<1>20. Recorded'
  <2>1. \A i \in DOMAIN results' : results'[i].board = board
    BY <1>9, <1>11 DEF Recorded
  <2>2. QED
    BY <1>1, <1>5, <1>19, <2>1 DEF Recorded, OneEach
<1>21. Complete'
  BY <1>1, <1>19 DEF Complete, Written
<1>22. RanInOrder'
  <2>1. ASSUME NEW i \in DOMAIN ran', ran'[i].board = board
        PROVE  /\ \A j \in DOMAIN queue : Before(ran'[i].check, queue[j])
               /\ \A j \in DOMAIN rest : Before(ran'[i].check, rest[j])
    <3>1. CASE i \in DOMAIN ran /\ ran'[i] = ran[i]
      BY <1>1, <1>8, <2>1, <3>1 DEF RanInOrder
    <3>2. CASE ran'[i].check = id
      BY <1>8, <3>2 DEF InLine
    <3>3. QED
      BY <1>15, <3>1, <3>2
  <2>2. QED
    BY <1>1, <1>4, <1>5, <1>15, <2>1 DEF RanInOrder
<1>23. PassesRan'
  <2>1. \A i \in DOMAIN records : records[i].verdict = "pass" =>
          \E j \in DOMAIN ran' : /\ ran'[j].board = records[i].board /\ ran'[j].check = records[i].check
                                 /\ ran'[j].verdict = "pass"
    BY <1>15 DEF PassesRan
  <2>2. \A i \in DOMAIN results : results[i].verdict = "pass" =>
          \E j \in DOMAIN ran' : /\ ran'[j].board = results[i].board /\ ran'[j].check = results[i].check
                                 /\ ran'[j].verdict = "pass"
    BY <1>15 DEF PassesRan
  <2>3. \A i \in DOMAIN results' : results'[i].verdict = "pass" =>
          \E j \in DOMAIN ran' : /\ ran'[j].board = results'[i].board /\ ran'[j].check = results'[i].check
                                 /\ ran'[j].verdict = "pass"
    BY <1>9, <1>11, <1>15, <2>2
  <2>4. QED
    BY <1>1, <2>1, <2>3 DEF PassesRan
<1>24. QED
  BY <1>16, <1>17, <1>18, <1>20, <1>21, <1>22, <1>23

LEMMA InvBatchReturns ==
  ASSUME RunnerInv, BatchReturns
  PROVE  RunnerInv'
<1> USE DEF RunnerInv
<1>1. /\ UNCHANGED <<suite, backend, specs, at, queue, batch, opened, cancel, ran>>
      /\ pc = "batch" /\ pc' = "units" /\ batch = <<>> /\ results' = <<>>
      /\ records' = records \o results
  BY DEF BatchReturns, asked
<1>2. \A x, y : Before(x, y)' = Before(x, y)
  BY <1>1, SameOrder
<1>3. OnBoard /\ board' = board
  BY <1>1 DEF OnBoard, board
<1>4. at \in 1..Len(BoardSeq) /\ BoardSeq[at] = board
  BY <1>3, Offered
<1>5. results \in Seq(Entries) /\ records \in Seq(Entries)
  BY DEF Typed
<1>6. records' \in Seq(Entries) /\ OneEach(records') /\ Grown(records, results, records')
  <2>1. \A i, j \in DOMAIN results : i < j => results[i].check # results[j].check
    BY DEF InLine, Before
  <2>2. Additional(records, results, board)
    BY <2>1 DEF Additional, Recorded, Waiting
  <2>3. QED
    BY <1>1, <1>5, <2>2, RecordsGrow DEF Recorded
<1>7. Typed' /\ Control'
  BY <1>1, <1>3, <1>6 DEF Typed, Control, OnBoard
<1>8. Equipment' /\ InLine'
  BY <1>1, <1>2, <1>3 DEF Equipment, RanEquipped, InLine
<1>9. Recorded'
  <2>1. \A i \in DOMAIN records' : \E k \in 1..at' : records'[i].board = BoardSeq[k]
    <3>1. \A i \in DOMAIN records : \E k \in 1..at' : records[i].board = BoardSeq[k]
      BY <1>1 DEF Recorded
    <3>2. \A j \in DOMAIN results : \E k \in 1..at' : results[j].board = BoardSeq[k]
      BY <1>1, <1>4 DEF Recorded
    <3>3. QED
      BY <1>6, <3>1, <3>2 DEF Grown
  <2>2. ASSUME NEW i \in DOMAIN records', records'[i].board = board,
               NEW x, x = records'[i].check
        PROVE  ~Waiting(x)'
    <3>1. \A j \in DOMAIN queue : queue[j] # x
      <4>1. CASE i \in DOMAIN records /\ records'[i] = records[i]
        BY <2>2, <4>1 DEF Recorded, Waiting
      <4>2. CASE \E j \in DOMAIN results : records'[i] = results[j]
        BY <2>2, <4>2 DEF InLine, Before
      <4>3. QED
        BY <1>6, <4>1, <4>2 DEF Grown
    <3>2. QED
      BY <1>1, <3>1 DEF Waiting
  <2>3. \A i, x :
          i \in DOMAIN records' /\ records'[i].board = board /\ x = records'[i].check => ~Waiting(x)'
    BY <2>2
  <2>4. \A i \in DOMAIN results' : FALSE
    BY <1>1
  <2>5. QED
    BY <1>3, <1>6, <2>1, <2>3, <2>4 DEF Recorded, Waiting
<1>10. Complete'
  <2> SUFFICES ASSUME ~cancel, NEW k \in 1..at, NEW i \in DOMAIN specs,
                      NEW x, x = specs[i],
                      ModelFits(x, BoardModel[BoardSeq[k]])
               PROVE  Written(BoardSeq[k], x)' \/ (k = at' /\ Waiting(x)')
    BY <1>1 DEF Complete, Written, Waiting
  <2>1. Written(BoardSeq[k], x) \/ (k = at /\ Waiting(x))
    BY <1>1 DEF Complete
  <2>2. CASE Written(BoardSeq[k], x)
    BY <1>6, <2>2 DEF Written, Grown
  <2>3. CASE k = at /\ Waiting(x)
    <3>1. CASE \E j \in DOMAIN queue : queue[j] = x
      BY <1>1, <2>3, <3>1 DEF Waiting
    <3>2. CASE \E j \in DOMAIN results : results[j].check = x
      BY <1>4, <1>6, <2>3, <3>2 DEF Written, Grown, Recorded
    <3>3. QED
      BY <1>1, <2>3, <3>1, <3>2 DEF Waiting
  <2>4. QED
    BY <2>1, <2>2, <2>3
<1>11. RanInOrder'
  BY <1>1, <1>2, <1>3 DEF RanInOrder
<1>12. PassesRan'
  <2>1. \A i \in DOMAIN records : records[i].verdict = "pass" =>
          \E j \in DOMAIN ran : /\ ran[j].board = records[i].board /\ ran[j].check = records[i].check
                                /\ ran[j].verdict = "pass"
    BY DEF PassesRan
  <2>2. \A i \in DOMAIN results : results[i].verdict = "pass" =>
          \E j \in DOMAIN ran : /\ ran[j].board = results[i].board /\ ran[j].check = results[i].check
                                /\ ran[j].verdict = "pass"
    BY DEF PassesRan
  <2>3. \A i \in DOMAIN records' : records'[i].verdict = "pass" =>
          \E j \in DOMAIN ran' : /\ ran'[j].board = records'[i].board /\ ran'[j].check = records'[i].check
                                 /\ ran'[j].verdict = "pass"
    <3> SUFFICES ASSUME NEW i \in DOMAIN records', records'[i].verdict = "pass"
                 PROVE  \E j \in DOMAIN ran : /\ ran[j].board = records'[i].board
                                              /\ ran[j].check = records'[i].check
                                              /\ ran[j].verdict = "pass"
      BY <1>1
    <3>1. CASE i \in DOMAIN records /\ records'[i] = records[i]
      BY <2>1, <3>1
    <3>2. CASE \E j \in DOMAIN results : records'[i] = results[j]
      BY <2>2, <3>2
    <3>3. QED
      BY <1>6, <3>1, <3>2 DEF Grown
  <2>4. \A i \in DOMAIN results' : FALSE
    BY <1>1
  <2>5. QED
    BY <2>3, <2>4 DEF PassesRan
<1>13. QED
  BY <1>7, <1>8, <1>9, <1>10, <1>11, <1>12

LEMMA InvBatchFails ==
  ASSUME RunnerInv, BatchFails
  PROVE  RunnerInv'
<1> USE DEF RunnerInv
<1> DEFINE done == [i \in DOMAIN results |-> results[i].check]
           sent == done \o batch
           new == [i \in DOMAIN sent |-> Record(board, sent[i], "error")]
<1>1. /\ UNCHANGED <<suite, backend, specs, at, queue, opened, cancel, ran>>
      /\ pc = "batch" /\ pc' = "units" /\ batch' = <<>> /\ results' = <<>>
      /\ records' = records \o new
  BY DEF BatchFails, asked, connections
<1>2. \A x, y : Before(x, y)' = Before(x, y)
  BY <1>1, SameOrder
<1>3. OnBoard /\ board' = board
  BY <1>1 DEF OnBoard, board
<1>4. at \in 1..Len(BoardSeq) /\ board \in Boards /\ BoardSeq[at] = board
  BY <1>3, Offered
<1>5. results \in Seq(Entries) /\ records \in Seq(Entries) /\ batch \in Seq(Checks)
  BY DEF Typed
<1>6. /\ done \in Seq(Checks) /\ DOMAIN done = DOMAIN results
      /\ \A i \in DOMAIN done : done[i] = results[i].check
  <2>1. \A i \in DOMAIN results : results[i] \in Entries
    BY <1>5
  <2>2. \A i \in DOMAIN results : results[i].check \in Checks
    BY <2>1 DEF Entries
  <2>3. DOMAIN results = 1..Len(results) /\ Len(results) \in Nat
    BY <1>5
  <2>4. done \in Seq(Checks)
    BY <2>2, <2>3
  <2>5. QED
    BY <2>4
<1> HIDE DEF done
<1> DEFINE n == Len(done)
<1>7. /\ sent \in Seq(Checks) /\ n \in Nat /\ Len(batch) \in Nat
      /\ DOMAIN done = 1..n /\ DOMAIN batch = 1..Len(batch)
      /\ DOMAIN sent = 1..(n + Len(batch))
      /\ \A i \in DOMAIN done : sent[i] = done[i]
      /\ \A i \in DOMAIN sent : i > n => sent[i] = batch[i - n]
  BY <1>5, <1>6, Joined
<1> HIDE DEF sent, n
<1>8. \A i \in DOMAIN sent : \/ i \in DOMAIN done /\ sent[i] = done[i]
                             \/ i > n /\ i - n \in DOMAIN batch /\ sent[i] = batch[i - n]
  BY <1>7
<1>9. \A i \in DOMAIN batch : n + i \in DOMAIN sent /\ sent[n + i] = batch[i]
  BY <1>7
<1>10. /\ new \in Seq(Entries) /\ DOMAIN new = DOMAIN sent
       /\ \A i \in DOMAIN new : /\ new[i].board = board /\ new[i].check = sent[i]
                                /\ new[i].verdict = "error"
  <2>1. \A i \in DOMAIN sent : Record(board, sent[i], "error") \in Entries
    BY <1>4, <1>7 DEF Record, Entries, Verdicts
  <2>2. DOMAIN sent = 1..Len(sent) /\ Len(sent) \in Nat
    BY <1>7
  <2>3. new \in Seq(Entries)
    BY <2>1, <2>2
  <2>4. QED
    BY <2>3 DEF Record
<1> HIDE DEF new
<1>11. ASSUME NEW i \in DOMAIN sent, NEW j \in DOMAIN sent, i < j
       PROVE  sent[i] # sent[j]
  <2>1. CASE j \in DOMAIN done
    <3>1. i \in DOMAIN done
      BY <1>7, <1>11, <2>1
    <3>2. QED
      BY <1>6, <1>7, <1>11, <2>1, <3>1 DEF InLine, Before
  <2>2. CASE i \in DOMAIN done /\ j > n /\ j - n \in DOMAIN batch /\ sent[j] = batch[j - n]
    BY <1>6, <1>7, <2>2 DEF InLine, Before
  <2>3. CASE i > n /\ i - n \in DOMAIN batch /\ sent[i] = batch[i - n]
    <3>1. j - n \in DOMAIN batch /\ sent[j] = batch[j - n] /\ i - n < j - n
      BY <1>7, <1>11, <2>3
    <3>2. QED
      BY <2>3, <3>1 DEF InLine, Before
  <2>4. QED
    BY <1>8, <2>1, <2>2, <2>3
<1>12. ASSUME NEW i \in DOMAIN sent
       PROVE  /\ \A j \in DOMAIN records : records[j].board = board => records[j].check # sent[i]
              /\ \A j \in DOMAIN queue : queue[j] # sent[i]
  <2>1. CASE i \in DOMAIN done /\ sent[i] = done[i]
    BY <1>6, <2>1 DEF Recorded, Waiting, InLine, Before
  <2>2. CASE i - n \in DOMAIN batch /\ sent[i] = batch[i - n]
    BY <2>2 DEF Recorded, Waiting, InLine, Before
  <2>3. QED
    BY <1>8, <2>1, <2>2
<1>13. records' \in Seq(Entries) /\ OneEach(records') /\ Grown(records, new, records')
  <2>1. Additional(records, new, board)
    BY <1>10, <1>11, <1>12 DEF Additional
  <2>2. QED
    BY <1>1, <1>5, <1>10, <2>1, RecordsGrow DEF Recorded
<1>14. Typed' /\ Control'
  BY <1>1, <1>3, <1>13 DEF Typed, Control, OnBoard
<1>15. Equipment' /\ InLine'
  BY <1>1, <1>2, <1>3 DEF Equipment, RanEquipped, InLine
<1>16. Recorded'
  <2>1. \A i \in DOMAIN records' : \E k \in 1..at' : records'[i].board = BoardSeq[k]
    <3>1. \A i \in DOMAIN records : \E k \in 1..at' : records[i].board = BoardSeq[k]
      BY <1>1 DEF Recorded
    <3>2. \A j \in DOMAIN new : \E k \in 1..at' : new[j].board = BoardSeq[k]
      <4>1. at \in 1..at' /\ BoardSeq[at] = board
        BY <1>1, <1>4
      <4>2. \A j \in DOMAIN new : new[j].board = board
        BY <1>10
      <4>3. QED
        BY <4>1, <4>2
    <3>3. QED
      BY <1>13, <3>1, <3>2 DEF Grown
  <2>2. ASSUME NEW i \in DOMAIN records', records'[i].board = board,
               NEW x, x = records'[i].check
        PROVE  ~Waiting(x)'
    <3>1. \A j \in DOMAIN queue : queue[j] # x
      <4>1. CASE i \in DOMAIN records /\ records'[i] = records[i]
        BY <2>2, <4>1 DEF Recorded, Waiting
      <4>2. CASE \E j \in DOMAIN new : records'[i] = new[j]
        BY <1>10, <1>12, <2>2, <4>2
      <4>3. QED
        BY <1>13, <4>1, <4>2 DEF Grown
    <3>2. QED
      BY <1>1, <3>1 DEF Waiting
  <2>3. \A i, x :
          i \in DOMAIN records' /\ records'[i].board = board /\ x = records'[i].check => ~Waiting(x)'
    BY <2>2
  <2>4. \A i \in DOMAIN results' : FALSE
    BY <1>1
  <2>5. QED
    BY <1>3, <1>13, <2>1, <2>3, <2>4 DEF Recorded, Waiting
<1>17. Complete'
  <2> SUFFICES ASSUME ~cancel, NEW k \in 1..at, NEW i \in DOMAIN specs,
                      NEW x, x = specs[i],
                      ModelFits(x, BoardModel[BoardSeq[k]])
               PROVE  Written(BoardSeq[k], x)' \/ (k = at' /\ Waiting(x)')
    BY <1>1 DEF Complete, Written, Waiting
  <2>1. Written(BoardSeq[k], x) \/ (k = at /\ Waiting(x))
    BY <1>1 DEF Complete
  <2>2. CASE Written(BoardSeq[k], x)
    BY <1>13, <2>2 DEF Written, Grown
  <2>3. CASE k = at /\ Waiting(x)
    <3>1. CASE \E j \in DOMAIN queue : queue[j] = x
      BY <1>1, <2>3, <3>1 DEF Waiting
    <3>2. CASE \E j \in DOMAIN sent : sent[j] = x
      <4>1. PICK j \in DOMAIN new : new[j].board = board /\ new[j].check = x
        BY <1>10, <3>2
      <4>2. QED
        BY <1>4, <1>13, <2>3, <4>1 DEF Written, Grown
    <3>3. ASSUME NEW j \in DOMAIN results, results[j].check = x
          PROVE  \E m \in DOMAIN sent : sent[m] = x
      <4>1. j \in DOMAIN sent /\ sent[j] = x
        BY <1>6, <1>7, <3>3
      <4>2. QED
        BY <4>1
    <3>4. ASSUME NEW j \in DOMAIN batch, batch[j] = x
          PROVE  \E m \in DOMAIN sent : sent[m] = x
      BY <1>9, <3>4
    <3>5. QED
      BY <2>3, <3>1, <3>2, <3>3, <3>4 DEF Waiting
  <2>4. QED
    BY <2>1, <2>2, <2>3
<1>18. RanInOrder'
  BY <1>1, <1>2, <1>3 DEF RanInOrder
<1>19. PassesRan'
  <2>1. \A i \in DOMAIN records' : records'[i].verdict = "pass" =>
          i \in DOMAIN records /\ records'[i] = records[i]
    BY <1>10, <1>13 DEF Grown
  <2>2. \A i \in DOMAIN records : records[i].verdict = "pass" =>
          \E j \in DOMAIN ran : /\ ran[j].board = records[i].board /\ ran[j].check = records[i].check
                                /\ ran[j].verdict = "pass"
    BY DEF PassesRan
  <2>3. \A i \in DOMAIN records' : records'[i].verdict = "pass" =>
          \E j \in DOMAIN ran' : /\ ran'[j].board = records'[i].board /\ ran'[j].check = records'[i].check
                                 /\ ran'[j].verdict = "pass"
    BY <1>1, <2>1, <2>2
  <2>4. \A i \in DOMAIN results' : FALSE
    BY <1>1
  <2>5. QED
    BY <2>3, <2>4 DEF PassesRan
<1>20. QED
  BY <1>14, <1>15, <1>16, <1>17, <1>18, <1>19

LEMMA InvCrashInBatch ==
  ASSUME RunnerInv, CrashInBatch
  PROVE  RunnerInv'
<1> USE DEF RunnerInv
<1>1. PICK id : id = Head(batch)
  OBVIOUS
<1>2. /\ UNCHANGED <<suite, backend, specs, at, queue, records, opened, cancel>>
      /\ pc = "batch" /\ pc' = "unwind" /\ batch # <<>> /\ batch' = <<>> /\ results' = <<>>
      /\ Ran(id, "error", container_aliases(board)) /\ Needs[id] \subseteq container_aliases(board)
  BY <1>1 DEF CrashInBatch, Equipped, asked
<1>3. \A x, y : Before(x, y)' = Before(x, y)
  BY <1>2, SameOrder
<1>4. OnBoard /\ board' = board
  BY <1>2 DEF OnBoard, board
<1>5. at \in 1..Len(BoardSeq) /\ container_aliases(board) \in SUBSET Aliases
  BY <1>4, Offered
<1>6. 1 \in DOMAIN batch /\ batch[1] = id /\ id \in Checks
  BY <1>1, <1>2, Taken DEF Typed
<1>7. ModelFits(id, BoardModel[board])
  BY <1>6 DEF Equipment
<1>8. \A i \in DOMAIN ran : ran[i].board = board => Before(ran[i].check, id)
  BY <1>2, <1>6 DEF RanInOrder
<1>9. /\ ran' \in Seq(Executions)
      /\ RanEquipped'
      /\ \A i \in DOMAIN ran' : \E k \in 1..at : ran'[i].board = BoardSeq[k]
      /\ \A i, j \in DOMAIN ran' :
           i < j /\ ran'[i].board = ran'[j].board => Before(ran'[i].check, ran'[j].check)
      /\ \A i \in DOMAIN ran : i \in DOMAIN ran' /\ ran'[i] = ran[i]
  <2>1. "error" \in Verdicts
    BY DEF Verdicts
  <2>2. QED
    BY <1>2, <1>4, <1>5, <1>6, <1>7, <1>8, <2>1, RanGrows
<1>10. Typed' /\ Control'
  BY <1>2, <1>4, <1>9 DEF Typed, Control, OnBoard
<1>11. Equipment' /\ InLine'
  BY <1>2, <1>3, <1>4, <1>9 DEF Equipment, InLine
<1>12. Recorded' /\ Complete'
  BY <1>2, <1>4 DEF Recorded, OneEach, Waiting, Complete
<1>13. RanInOrder'
  BY <1>2, <1>3, <1>9 DEF RanInOrder
<1>14. PassesRan'
  <2>1. \A i \in DOMAIN records : records[i].verdict = "pass" =>
          \E j \in DOMAIN ran' : /\ ran'[j].board = records[i].board /\ ran'[j].check = records[i].check
                                 /\ ran'[j].verdict = "pass"
    BY <1>9 DEF PassesRan
  <2>2. \A i \in DOMAIN results' : FALSE
    BY <1>2
  <2>3. QED
    BY <1>2, <2>1, <2>2 DEF PassesRan
<1>15. QED
  BY <1>10, <1>11, <1>12, <1>13, <1>14

LEMMA InvWorkerCloseFails ==
  ASSUME RunnerInv, WorkerCloseFails
  PROVE  RunnerInv'
<1> USE DEF RunnerInv
<1>1. /\ UNCHANGED <<suite, backend, specs, at, queue, batch, records, opened, cancel, ran>>
      /\ pc = "batch" /\ pc' = "unwind" /\ batch = <<>> /\ results' = <<>>
  BY DEF WorkerCloseFails, asked
<1>2. \A x, y : Before(x, y)' = Before(x, y)
  BY <1>1, SameOrder
<1>3. Typed' /\ Control'
  BY <1>1 DEF Typed, Control, OnBoard
<1>4. Equipment' /\ InLine'
  BY <1>1, <1>2 DEF Equipment, RanEquipped, InLine, board
<1>5. Recorded' /\ Complete'
  BY <1>1 DEF Recorded, OneEach, Waiting, Complete, board
<1>6. RanInOrder' /\ PassesRan'
  BY <1>1, <1>2 DEF RanInOrder, PassesRan, board
<1>7. QED
  BY <1>3, <1>4, <1>5, <1>6

-----------------------------------------------------------------------------
(* Connections *)

\* What is open off a board is what a failed close left; what the local worker opened and
\* no longer looks after is left by a worker that raised.
Connected ==
  /\ worker \subseteq Aliases /\ failed \subseteq {"worker", "close"}
  /\ ~OnBoard /\ opened # {} => pc = "raised" /\ "close" \in failed
  /\ pc # "batch" /\ worker # {} => pc \in {"unwind", "raised"} /\ "worker" \in failed
  /\ backend # "local" => worker = {}

LEMMA ConnectedStep ==
  ASSUME RunnerInv, Connected, [Next]_vars
  PROVE  Connected'
<1> USE DEF OnBoard, connections, asked
<1>1. CASE UNCHANGED <<asked, pc, connections>>
  BY <1>1 DEF Connected
<1>2. CASE Resolve \/ EnterBoard \/ Finish \/ BeginBatch
  BY <1>2 DEF Resolve, EnterBoard, Finish, BeginBatch, Connected
<1>3. ASSUME NEW id \in Checks, CrashHere(id) \/ \E verdict \in Verdicts : RunHere(id, verdict)
      PROVE  Connected'
  BY <1>3 DEF CrashHere, RunHere, Here, Connected
<1>4. ASSUME NEW verdict \in Verdicts, WorkerRun(verdict)
      PROVE  Connected'
  <2>1. pc = "batch" /\ UNCHANGED <<backend, pc, opened, failed>>
    BY <1>4 DEF WorkerRun
  <2>2. worker' \subseteq worker \cup container_aliases(board)
    BY <1>4 DEF WorkerRun, Uses, Equipped
  <2>3. container_aliases(board) \subseteq Aliases
    BY <2>1, Offered
  <2>4. backend # "local" => worker' = {}
    BY <1>4 DEF WorkerRun, Connected
  <2>5. QED
    BY <2>1, <2>2, <2>3, <2>4 DEF Connected
<1>5. CASE BatchFails
  <2>1. worker = {}
    BY <1>5 DEF BatchFails, Connected
  <2>2. QED
    BY <1>5, <2>1 DEF BatchFails, Connected
<1>6. CASE CrashInBatch
  <2>1. /\ worker' = worker \cup Needs[Head(batch)] /\ failed' = failed \cup {"worker"}
        /\ pc = "batch" /\ pc' = "unwind" /\ backend = "local" /\ UNCHANGED <<backend, opened>>
    BY <1>6 DEF CrashInBatch
  <2>2. Needs[Head(batch)] \subseteq Aliases
    BY <1>6, <2>1, Offered DEF CrashInBatch, Equipped
  <2>3. QED
    BY <2>1, <2>2 DEF Connected
<1>7. CASE WorkerCloseFails \/ BatchReturns
  BY <1>7 DEF WorkerCloseFails, BatchReturns, Connected
<1>8. CASE CloseBoard \/ CloseFails
  BY <1>8 DEF CloseBoard, CloseFails, Connected
<1>9. CASE Cancel
  BY <1>1, <1>9 DEF Cancel
<1>10. QED
  BY <1>1, <1>2, <1>3, <1>4, <1>5, <1>6, <1>7, <1>8, <1>9 DEF Next, Step, vars

-----------------------------------------------------------------------------
(* What holds of every run *)

LEMMA RunnerInvariant == Spec => [](RunnerInv /\ Connected)
<1>1. ASSUME RunnerInv, [Next]_vars
      PROVE  RunnerInv'
  <2>1. CASE Step
    BY <1>1, <2>1, InvResolve, InvEnterBoard, InvFinish, InvCrashHere, InvRunHere, InvBeginBatch,
       InvWorkerRun, InvBatchFails, InvCrashInBatch, InvWorkerCloseFails, InvBatchReturns,
       InvCloseBoard DEF Step
  <2>2. CASE UNCHANGED vars
    <3>1. UNCHANGED <<suite, backend, pc, specs, at, queue, batch, results, records, opened, cancel, ran>>
      BY <2>2 DEF vars, asked, connections
    <3>2. \A x, y : Before(x, y)' = Before(x, y)
      BY <3>1, SameOrder
    <3>3. Typed' /\ Control' /\ Equipment' /\ InLine'
      BY <1>1, <3>1, <3>2 DEF RunnerInv, Typed, Control, OnBoard, Equipment, RanEquipped, InLine, board
    <3>4. Recorded' /\ Complete'
      BY <1>1, <3>1 DEF RunnerInv, Recorded, OneEach, Waiting, Complete, Written, board
    <3>5. RanInOrder' /\ PassesRan'
      BY <1>1, <3>1, <3>2 DEF RunnerInv, RanInOrder, PassesRan, board
    <3>6. QED
      BY <3>3, <3>4, <3>5 DEF RunnerInv
  <2>3. QED
    BY <1>1, <2>1, <2>2, InvCancel DEF Next
<1>2. Init => Connected
  BY DEF Init, Connected, OnBoard
<1>3. QED
  BY InvInit, <1>1, <1>2, ConnectedStep, PTL DEF Spec

\* The state of a run is well typed, for any registry, suites, boards and drivers.
THEOREM RunIsTyped == Spec => []TypeOK
<1>1. RunnerInv /\ Connected => TypeOK
  <2> SUFFICES ASSUME RunnerInv, Connected
               PROVE  TypeOK
    OBVIOUS
  <2>1. \A i \in DOMAIN ran : ran[i].board \in Boards /\ ran[i].check \in Checks
    <3>1. \A i \in DOMAIN ran : ran[i] \in Executions
      BY DEF RunnerInv, Typed
    <3>2. QED
      BY <3>1 DEF Executions
  <2>2. QED
    BY <2>1 DEF RunnerInv, Typed, Connected, TypeOK, Entries, Aliases
<1>2. QED
  BY <1>1, RunnerInvariant, PTL

\* Whatever fails on the way and however often the suite names it, a check has at most one
\* record of a board, and exactly one of each board it is for when a run that was not
\* cancelled is done.
THEOREM OneRecordOfEach == Spec => []OneRecordEach
<1>1. RunnerInv => OneRecordEach
  <2> SUFFICES ASSUME RunnerInv, NEW b \in Boards, NEW id \in Checks
               PROVE  LET entries == {i \in DOMAIN records : records[i].board = b /\ records[i].check = id}
                      IN  /\ \A i, j \in entries : i = j
                          /\ pc = "done" /\ ~cancel /\ id \in ToSet(specs)
                               /\ ModelFits(id, BoardModel[b]) => entries # {}
    BY DEF OneRecordEach
  <2>1. \A i, j \in DOMAIN records :
          records[i].board = b /\ records[j].board = b /\ records[i].check = id /\ records[j].check = id
            => i = j
    BY DEF RunnerInv, Recorded, OneEach
  <2>2. ASSUME pc = "done", ~cancel, id \in ToSet(specs), ModelFits(id, BoardModel[b])
        PROVE  \E i \in DOMAIN records : records[i].board = b /\ records[i].check = id
    <3>1. PICK i \in DOMAIN specs : specs[i] = id
      BY <2>2 DEF ToSet
    <3>2. at = Len(BoardSeq)
      BY <2>2, <3>1 DEF RunnerInv, Control
    <3>3. PICK k \in 1..Len(BoardSeq) : BoardSeq[k] = b
      BY RunnerAssumption DEF Boards, ToSet
    <3>4. ~Waiting(id)
      BY <2>2 DEF RunnerInv, Control, OnBoard, Waiting
    <3>5. Written(b, id)
      BY <2>2, <3>1, <3>2, <3>3, <3>4 DEF RunnerInv, Complete
    <3>6. QED
      BY <3>5 DEF Written
  <2>3. QED
    BY <2>1, <2>2
<1>2. QED
  BY <1>1, RunnerInvariant, PTL

\* On a board the checks of a map execute in the order the map first names them, whether in
\* process or in batches of the container.
THEOREM RunsInSuiteOrder == Spec => []RanInSuiteOrder
<1>1. RunnerInv => RanInSuiteOrder
  BY DEF RunnerInv, RanInOrder, Before, RanInSuiteOrder
<1>2. QED
  BY <1>1, RunnerInvariant, PTL

\* A check executes only where every driver it needs is present, and only on boards of its model.
THEOREM OnlyEquippedRun == Spec => []RanEquipped
<1>1. RunnerInv => RanEquipped
  BY DEF RunnerInv, Equipment
<1>2. QED
  BY <1>1, RunnerInvariant, PTL

\* A run that goes on or ends leaves no connection to a board, also when it is cancelled; one
\* that raises leaves only those of a context in which a close raised, and of a local worker
\* that raised.
THEOREM ConnectionsAreClosed == Spec => []ChannelsClosed
<1>1. Connected => ChannelsClosed
  BY DEF Connected, OnBoard, ChannelsClosed
<1>2. QED
  BY <1>1, RunnerInvariant, PTL

\* Of several states only passes make a pass.
LEMMA CellOfPasses ==
  ASSUME NEW verdicts, _cell(verdicts) = "pass"
  PROVE  verdicts = {"pass"}
<1> DEFINE worst == Only(Severity, verdicts)
<1>1. _cell(verdicts) = CASE verdicts = {} -> "notrun"
                          [] worst # <<>> -> Head(worst)
                          [] verdicts \in {{"pass"}, {"na"}} -> CHOOSE v \in verdicts : TRUE
                          [] OTHER -> "partial"
  BY DEF _cell
<1>2. Severity \in Seq({"gap", "error", "manual"})
  BY DEF Severity
<1>3. worst \in Seq({"gap", "error", "manual"})
  BY <1>2, OnlyKeeps
<1> HIDE DEF worst
<1>4. CASE worst # <<>>
  <2>1. Head(worst) # "pass"
    BY <1>3, <1>4
  <2>2. CASE verdicts = {}
    <3>1. ToSet(worst) = {}
      BY <1>2, <2>2, OnlyKeeps DEF worst
    <3>2. QED
      BY <1>3, <1>4, <3>1 DEF ToSet
  <2>3. CASE ~(verdicts \in {{"pass"}, {"na"}}) /\ verdicts # {}
    BY <1>1, <1>4, <2>1, <2>3
  <2>4. CASE verdicts \in {{"pass"}, {"na"}}
    <3>1. ToSet(worst) = ToSet(Severity) \cap verdicts
      BY <1>2, OnlyKeeps DEF worst
    <3>2. ToSet(worst) \subseteq {"gap", "error", "manual"}
      BY <1>3 DEF ToSet
    <3>3. ToSet(worst) = {}
      BY <2>4, <3>1, <3>2
    <3>4. QED
      BY <1>3, <1>4, <3>3 DEF ToSet
  <2>5. QED
    BY <2>2, <2>3, <2>4
<1>5. CASE worst = <<>> /\ verdicts = {"na"}
  BY <1>1, <1>5
<1>6. CASE worst = <<>> /\ verdicts \notin {{"pass"}, {"na"}}
  BY <1>1, <1>6
<1>7. QED
  BY <1>4, <1>5, <1>6

\* A cell of the roll-up is a pass only where it was earned.
LEMMA CellIsEarned ==
  ASSUME RunnerInv, NEW req, NEW b, cell(req, b, records) = "pass"
  PROVE  Earned(req, b)
<1>1. CASE req.tests = <<>>
  BY <1>1 DEF cell, Earned
<1>2. CASE req.tests # <<>>
  <2>1. \A id \in ToSet(req.tests) : VerdictsOf(records, id, b) = {"pass"}
    BY <1>2 DEF cell
  <2>2. ASSUME NEW id \in ToSet(req.tests)
        PROVE  \E i \in DOMAIN ran : ran[i].board = b /\ ran[i].check = id /\ ran[i].verdict = "pass"
    <3>1. "pass" \in VerdictsOf(records, id, b)
      BY <2>1
    <3>2. PICK i \in DOMAIN records : /\ records[i].check = id /\ records[i].board = b
                                      /\ records[i].verdict = "pass"
      BY <3>1 DEF VerdictsOf
    <3>3. QED
      BY <3>2 DEF RunnerInv, PassesRan
  <2>3. QED
    BY <1>2, <2>2 DEF Earned
<1>3. QED
  BY <1>1, <1>2

\* The report of a finished run calls a requirement passed on a board, or overall, only if its
\* tests were executed and passed there, or on every board with a record.
THEOREM PassesAreEarned == Spec => []PassIsEarned
<1>1. RunnerInv => PassIsEarned
  <2> SUFFICES ASSUME RunnerInv
               PROVE  PassIsEarned
    OBVIOUS
  <2> DEFINE reqs == suite.reqs
             boards == {records[i].board : i \in DOMAIN records}
             verdicts == requirement_verdicts(reqs, records)
             overall == _requirement_blocks(reqs, records)
             of(r) == {verdicts[c] : c \in {d \in DOMAIN verdicts : d[1] = r}}
  <2>1. verdicts = [c \in (DOMAIN reqs) \X boards |-> cell(reqs[c[1]], c[2], records)]
    BY DEF requirement_verdicts
  <2>2. overall = [r \in DOMAIN reqs |-> _cell(of(r))]
    BY DEF _requirement_blocks
  <2> HIDE DEF verdicts, overall
  <2>3. ASSUME NEW c \in DOMAIN verdicts, verdicts[c] = "pass"
        PROVE  Earned(reqs[c[1]], c[2])
    <3>1. cell(reqs[c[1]], c[2], records) = "pass"
      BY <2>1, <2>3
    <3>2. QED
      BY <3>1, CellIsEarned
  <2>4. ASSUME NEW r \in DOMAIN overall, overall[r] = "pass"
        PROVE  /\ records # <<>>
               /\ \A i \in DOMAIN records : Earned(reqs[r], records[i].board)
    <3>1. r \in DOMAIN reqs /\ _cell(of(r)) = "pass"
      BY <2>2, <2>4
    <3>2. of(r) = {"pass"}
      <4> HIDE DEF of
      <4>1. QED
        BY <3>1, CellOfPasses
    <3>3. records # <<>>
      <4>1. PICK c \in DOMAIN verdicts : c[1] = r
        BY <3>2
      <4>2. c[2] \in boards
        BY <2>1, <4>1
      <4>3. QED
        BY <4>2
    <3>4. ASSUME NEW i \in DOMAIN records
          PROVE  Earned(reqs[r], records[i].board)
      <4>1. <<r, records[i].board>> \in DOMAIN verdicts
        BY <2>1, <3>1
      <4>2. verdicts[<<r, records[i].board>>] = "pass"
        BY <3>2, <4>1
      <4>3. cell(reqs[r], records[i].board, records) = "pass"
        BY <2>1, <4>1, <4>2
      <4>4. QED
        BY <4>3, CellIsEarned
    <3>5. QED
      BY <3>3, <3>4
  <2>5. QED
    BY <2>3, <2>4 DEF PassIsEarned, verdicts, overall
<1>2. QED
  BY <1>1, RunnerInvariant, PTL

=============================================================================
