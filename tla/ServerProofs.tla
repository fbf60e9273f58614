----------------------------- MODULE ServerProofs -----------------------------
(***************************************************************************)
(* Proofs about the server process: its state is well formed, the notice   *)
(* shown is the file's wherever the modification time can tell, and the    *)
(* reflex window implements RateLimit, for any limit, period and lag.      *)
(***************************************************************************)
EXTENDS Server, Ages, SequenceTheorems, WellFoundedInduction, TLAPS

-----------------------------------------------------------------------------
(***************************************************************************)
(* What Younger computes, for any sequence: how it grows with the sequence *)
(* and what looking twice, or later, makes of it.  Induction over numbers  *)
(* and sequences is for sets of them here: that is a fact about sets, and  *)
(* leaves operators out of it.                                             *)
(***************************************************************************)
\* Induction over the natural numbers, for a set of them.
LEMMA NatInd ==
  ASSUME NEW T \in SUBSET Nat, 0 \in T, \A n \in T : n + 1 \in T
  PROVE  T = Nat
<1> SUFFICES ASSUME Nat \ T # {} PROVE FALSE
  OBVIOUS
<1>1. PICK x \in Nat \ T : \A y \in Nat \ T : ~(<<y, x>> \in OpToRel(<, Nat))
  BY WFMin, NatLessThanWellFounded, Nat \ T \subseteq Nat
<1>2. \A y \in Nat \ T : ~(y < x)
  BY <1>1 DEF OpToRel
<1>3. x - 1 \in T
  BY <1>2
<1> QED BY <1>3

\* Induction over sequences that grow at the end, for a set of them.
LEMMA SeqInd ==
  ASSUME NEW S, NEW T \in SUBSET Seq(S), <<>> \in T,
         \A s \in T : \A x \in S : Append(s, x) \in T
  PROVE  T = Seq(S)
<1> DEFINE L == {n \in Nat : \A s \in Seq(S) : Len(s) = n => s \in T}
<1>1. 0 \in L
  <2>1. \A s \in Seq(S) : Len(s) = 0 => s = <<>>
    BY EmptySeq
  <2> QED BY <2>1
<1>2. ASSUME NEW n \in L PROVE n + 1 \in L
  <2> SUFFICES ASSUME NEW s \in Seq(S), Len(s) = n + 1 PROVE s \in T
    OBVIOUS
  <2>1. s # <<>>
    BY EmptySeq
  <2>2. PICK p \in Seq(S), x \in S : s = Append(p, x)
    BY <2>1, SequenceEmptyOrAppend
  <2>3. Len(p) = n
    BY <2>2, AppendProperties, LenProperties
  <2>4. p \in T
    BY <2>3
  <2> QED BY <2>2, <2>4
<1>3. L = Nat
  <2> HIDE DEF L
  <2>1. L \in SUBSET Nat
    BY DEF L
  <2> QED BY <1>1, <1>2, <2>1, NatInd
<1> QED BY <1>3, LenProperties

\* What the loop has kept of s after i rounds: Loop(s, t) is its only solution.
Rounds(f, s, t) ==
  f = [i \in 0..Len(s) |-> IF i = 0 THEN <<>>
                           ELSE IF s[i] < t THEN Append(f[i-1], s[i]) ELSE f[i-1]]
Loop(s, t) == CHOOSE f : Rounds(f, s, t)

\* Younger is the loop after its last round.
LEMMA YoungerIsLoop ==
  ASSUME NEW s, NEW t
  PROVE  Younger(s, t) = Loop(s, t)[Len(s)]
  BY DEF Younger, Loop, Rounds

\* There is such a function: round by round, for any length.
LEMMA LoopExists ==
  ASSUME NEW S, NEW s \in Seq(S), NEW t
  PROVE  Rounds(Loop(s, t), s, t)
<1> SUFFICES \E f : Rounds(f, s, t)
  BY DEF Loop
<1> DEFINE Upto(f, n) ==
      f = [i \in 0..n |-> IF i = 0 THEN <<>>
                          ELSE IF s[i] < t THEN Append(f[i-1], s[i]) ELSE f[i-1]]
           Good == {n \in Nat : \E f : Upto(f, n)}
<1>1. 0 \in Good
  <2>1. Upto([i \in 0..0 |-> <<>>], 0)
    OBVIOUS
  <2> QED BY <2>1
<1>2. ASSUME NEW n \in Good PROVE n + 1 \in Good
  <2>1. PICK f : Upto(f, n)
    OBVIOUS
  <2> DEFINE g == [i \in 0..(n+1) |->
                     IF i <= n THEN f[i]
                     ELSE IF s[i] < t THEN Append(f[i-1], s[i]) ELSE f[i-1]]
  <2>2. Upto(g, n + 1)
    <3>1. g = [i \in 0..(n+1) |-> IF i = 0 THEN <<>>
                 ELSE IF s[i] < t THEN Append(g[i-1], s[i]) ELSE g[i-1]]
      <4>1. ASSUME NEW i \in 0..(n+1)
            PROVE  g[i] = IF i = 0 THEN <<>>
                          ELSE IF s[i] < t THEN Append(g[i-1], s[i]) ELSE g[i-1]
        <5>1. i # 0 => g[i-1] = f[i-1]
          OBVIOUS
        <5>2. CASE i = n + 1
          BY <5>1, <5>2
        <5>3. CASE i # n + 1
          <6>1. i \in 0..n /\ g[i] = f[i]
            BY <5>3
          <6>2. f[i] = IF i = 0 THEN <<>>
                       ELSE IF s[i] < t THEN Append(f[i-1], s[i]) ELSE f[i-1]
            BY <2>1, <6>1
          <6> QED BY <5>1, <6>1, <6>2
        <5> QED BY <5>2, <5>3
      <4> HIDE DEF g
      <4>2. g = [i \in 0..(n+1) |-> g[i]]
        BY DEF g
      <4> QED BY <4>1, <4>2
    <3> QED BY <3>1
  <2> HIDE DEF g, Upto
  <2> QED BY <2>2
<1>3. Good = Nat
  <2> HIDE DEF Good
  <2>1. Good \in SUBSET Nat
    BY DEF Good
  <2> QED BY <1>1, <1>2, <2>1, NatInd
<1>4. Len(s) \in Good
  BY <1>3, LenProperties
<1> QED BY <1>4 DEF Rounds

\* What each round makes of the one before.
LEMMA LoopValues ==
  ASSUME NEW S, NEW s \in Seq(S), NEW t
  PROVE  /\ Loop(s, t)[0] = <<>>
         /\ \A i \in 1..Len(s) :
              Loop(s, t)[i] = IF s[i] < t THEN Append(Loop(s, t)[i-1], s[i])
                                         ELSE Loop(s, t)[i-1]
<1> DEFINE f == Loop(s, t)
<1>1. f = [i \in 0..Len(s) |-> IF i = 0 THEN <<>>
                              ELSE IF s[i] < t THEN Append(f[i-1], s[i]) ELSE f[i-1]]
  BY LoopExists DEF Rounds
<1>2. Len(s) \in Nat
  BY LenProperties
<1> HIDE DEF f
<1>3. f[0] = <<>>
  BY <1>1, <1>2
<1>4. ASSUME NEW i \in 1..Len(s)
      PROVE  f[i] = IF s[i] < t THEN Append(f[i-1], s[i]) ELSE f[i-1]
  <2>1. i \in 0..Len(s) /\ i # 0
    BY <1>2
  <2> QED BY <1>1, <2>1
<1> QED BY <1>3, <1>4 DEF f

\* The loop over a longer sequence begins as the one over the shorter.
LEMMA YoungerSteps ==
  ASSUME NEW S, NEW t
  PROVE  /\ Younger(<<>>, t) = <<>>
         /\ \A s \in Seq(S), x \in S :
              Younger(Append(s, x), t)
                = IF x < t THEN Append(Younger(s, t), x) ELSE Younger(s, t)
<1>1. Younger(<<>>, t) = <<>>
  <2>1. <<>> \in Seq(S) /\ Len(<<>>) = 0
    BY EmptySeq
  <2> QED BY <2>1, YoungerIsLoop, LoopValues
<1>2. ASSUME NEW s \in Seq(S), NEW x \in S
      PROVE  Younger(Append(s, x), t)
               = IF x < t THEN Append(Younger(s, t), x) ELSE Younger(s, t)
  <2> DEFINE l == Append(s, x)
             m == Len(s)
             Good == {n \in Nat : n <= m => Loop(l, t)[n] = Loop(s, t)[n]}
  <2>1. /\ l \in Seq(S) /\ m \in Nat /\ Len(l) = m + 1
        /\ l[m + 1] = x /\ \A i \in 1..m : l[i] = s[i]
    BY AppendProperties, LenProperties
  <2>2. /\ Loop(l, t)[0] = <<>>
        /\ \A i \in 1..(m + 1) :
             Loop(l, t)[i] = IF l[i] < t THEN Append(Loop(l, t)[i-1], l[i])
                                        ELSE Loop(l, t)[i-1]
    <3>1. /\ Loop(l, t)[0] = <<>>
          /\ \A i \in 1..Len(l) :
               Loop(l, t)[i] = IF l[i] < t THEN Append(Loop(l, t)[i-1], l[i])
                                          ELSE Loop(l, t)[i-1]
      <4> HIDE DEF l
      <4> QED BY <2>1, LoopValues
    <3> QED BY <2>1, <3>1
  <2>3. /\ Loop(s, t)[0] = <<>>
        /\ \A i \in 1..m :
             Loop(s, t)[i] = IF s[i] < t THEN Append(Loop(s, t)[i-1], s[i])
                                        ELSE Loop(s, t)[i-1]
    BY LoopValues
  <2> HIDE DEF l, m
  <2>4. Good = Nat
    <3>1. 0 \in Good
      BY <2>2, <2>3
    <3>2. ASSUME NEW n \in Good PROVE n + 1 \in Good
      <4> SUFFICES ASSUME n + 1 <= m PROVE Loop(l, t)[n + 1] = Loop(s, t)[n + 1]
        OBVIOUS
      <4>1. n + 1 \in 1..m /\ n + 1 \in 1..(m + 1) /\ (n + 1) - 1 = n
        BY <2>1
      <4>2. Loop(l, t)[n] = Loop(s, t)[n] /\ l[n + 1] = s[n + 1]
        BY <2>1, <4>1
      <4> QED BY <2>2, <2>3, <4>1, <4>2
    <3>3. Good \in SUBSET Nat
      OBVIOUS
    <3> HIDE DEF Good
    <3> QED BY <3>1, <3>2, <3>3, NatInd
  <2>5. Loop(l, t)[m] = Loop(s, t)[m]
    BY <2>1, <2>4
  <2>6. Loop(l, t)[m + 1] = IF x < t THEN Append(Loop(s, t)[m], x) ELSE Loop(s, t)[m]
    <3>1. m + 1 \in 1..(m + 1) /\ (m + 1) - 1 = m
      BY <2>1
    <3> QED BY <2>1, <2>2, <2>5, <3>1
  <2>7. Younger(l, t) = Loop(l, t)[m + 1] /\ Younger(s, t) = Loop(s, t)[m]
    BY <2>1, YoungerIsLoop DEF m
  <2> QED BY <2>6, <2>7 DEF l
<1> QED BY <1>1, <1>2

\* What is kept is a sequence of the same kind, and no longer.
LEMMA YoungerType ==
  ASSUME NEW S, NEW t, NEW s \in Seq(S)
  PROVE  /\ Younger(s, t) \in Seq(S)
         /\ Len(Younger(s, t)) \in Nat /\ Len(Younger(s, t)) <= Len(s)
<1> DEFINE T == {q \in Seq(S) : /\ Younger(q, t) \in Seq(S)
                               /\ Len(Younger(q, t)) <= Len(q)}
<1>1. <<>> \in T
  <2>1. <<>> \in Seq(S) /\ Len(<<>>) = 0
    BY EmptySeq
  <2>2. Younger(<<>>, t) = <<>>
    BY YoungerSteps
  <2>3. Younger(<<>>, t) \in Seq(S) /\ Len(Younger(<<>>, t)) <= Len(<<>>)
    <3>1. \A e \in Seq(S) : Len(e) = 0 => Len(e) <= Len(e)
      OBVIOUS
    <3> QED BY <2>1, <2>2, <3>1, Zenon
  <2> QED BY <2>1, <2>3
<1>2. ASSUME NEW q \in T, NEW x \in S PROVE Append(q, x) \in T
  <2>1. /\ Append(q, x) \in Seq(S) /\ Len(Append(q, x)) = Len(q) + 1
        /\ Append(Younger(q, t), x) \in Seq(S)
        /\ Len(Append(Younger(q, t), x)) = Len(Younger(q, t)) + 1
        /\ Len(q) \in Nat /\ Len(Younger(q, t)) \in Nat
    BY AppendProperties, LenProperties
  <2>2. \/ Younger(Append(q, x), t) = Append(Younger(q, t), x)
        \/ Younger(Append(q, x), t) = Younger(q, t)
    BY YoungerSteps
  <2> QED BY <2>1, <2>2
<1>3. T \in SUBSET Seq(S)
  OBVIOUS
<1> HIDE DEF T
<1>4. T = Seq(S)
  BY <1>1, <1>2, <1>3, SeqInd
<1> QED BY <1>4, LenProperties DEF T

\* Whoever asks again with the same age or a lower one gets what he would have
\* got at once.
LEMMA YoungerAgain ==
  ASSUME NEW s \in Seq(Int), NEW t \in Int, NEW u \in Int, t <= u
  PROVE  Younger(Younger(s, u), t) = Younger(s, t)
<1> DEFINE T == {q \in Seq(Int) : Younger(Younger(q, u), t) = Younger(q, t)}
<1>1. <<>> \in T
  BY EmptySeq, YoungerSteps
<1>2. ASSUME NEW q \in T, NEW x \in Int PROVE Append(q, x) \in T
  <2>1. Append(q, x) \in Seq(Int) /\ Younger(q, u) \in Seq(Int)
    BY AppendProperties, YoungerType
  <2>2. Younger(Append(q, x), u) = IF x < u THEN Append(Younger(q, u), x) ELSE Younger(q, u)
    BY YoungerSteps
  <2>3. Younger(Append(q, x), t) = IF x < t THEN Append(Younger(q, t), x) ELSE Younger(q, t)
    BY YoungerSteps
  <2>4. Younger(Append(Younger(q, u), x), t)
          = IF x < t THEN Append(Younger(Younger(q, u), t), x)
                     ELSE Younger(Younger(q, u), t)
    BY <2>1, YoungerSteps
  <2>5. Younger(Younger(q, u), t) = Younger(q, t)
    OBVIOUS
  <2>6. CASE x < u
    BY <2>1, <2>2, <2>3, <2>4, <2>5, <2>6
  <2>7. CASE ~(x < u)
    BY <2>1, <2>2, <2>3, <2>5, <2>7
  <2> QED BY <2>6, <2>7
<1>3. T \in SUBSET Seq(Int)
  OBVIOUS
<1> HIDE DEF T
<1>4. T = Seq(Int)
  BY <1>1, <1>2, <1>3, SeqInd
<1> QED BY <1>4 DEF T

\* All one older, once with the ages counted only so far, and once not.
Aged(s) == [i \in DOMAIN s |-> s[i] + 1]
AgedTo(s, m) == [i \in DOMAIN s |-> IF s[i] < m THEN s[i] + 1 ELSE s[i]]

\* Growing older and growing longer commute.
LEMMA AgedSteps ==
  ASSUME NEW m \in Int
  PROVE  /\ Aged(<<>>) = <<>> /\ AgedTo(<<>>, m) = <<>>
         /\ \A s \in Seq(Int) : Aged(s) \in Seq(Int) /\ AgedTo(s, m) \in Seq(Int)
         /\ \A s \in Seq(Int), x \in Int :
              /\ Aged(Append(s, x)) = Append(Aged(s), x + 1)
              /\ AgedTo(Append(s, x), m)
                   = Append(AgedTo(s, m), IF x < m THEN x + 1 ELSE x)
<1>1. Aged(<<>>) = <<>> /\ AgedTo(<<>>, m) = <<>>
  BY DEF Aged, AgedTo
<1>2. ASSUME NEW s \in Seq(Int)
      PROVE  /\ Aged(s) \in Seq(Int) /\ Len(Aged(s)) = Len(s)
             /\ AgedTo(s, m) \in Seq(Int) /\ Len(AgedTo(s, m)) = Len(s)
             /\ \A i \in 1..Len(s) :
                  /\ Aged(s)[i] = s[i] + 1
                  /\ AgedTo(s, m)[i] = IF s[i] < m THEN s[i] + 1 ELSE s[i]
  <2>1. /\ Len(s) \in Nat /\ DOMAIN s = 1..Len(s)
        /\ \A i \in 1..Len(s) : s[i] \in Int
    OBVIOUS
  <2>2. Aged(s) \in [1..Len(s) -> Int] /\ AgedTo(s, m) \in [1..Len(s) -> Int]
    BY <2>1 DEF Aged, AgedTo
  <2>3. \A i \in 1..Len(s) : /\ Aged(s)[i] = s[i] + 1
                             /\ AgedTo(s, m)[i] = IF s[i] < m THEN s[i] + 1 ELSE s[i]
    BY <2>1 DEF Aged, AgedTo
  <2>4. Aged(s) \in Seq(Int) /\ AgedTo(s, m) \in Seq(Int)
    BY <2>1, <2>2, SeqDef
  <2>5. Len(Aged(s)) = Len(s) /\ Len(AgedTo(s, m)) = Len(s)
    BY <2>1, <2>2, <2>4, LenProperties
  <2> QED BY <2>3, <2>4, <2>5
<1>3. ASSUME NEW s \in Seq(Int), NEW x \in Int
      PROVE  /\ Aged(Append(s, x)) = Append(Aged(s), x + 1)
             /\ AgedTo(Append(s, x), m)
                  = Append(AgedTo(s, m), IF x < m THEN x + 1 ELSE x)
  <2> DEFINE y == IF x < m THEN x + 1 ELSE x
  <2>1. /\ Append(s, x) \in Seq(Int) /\ Len(Append(s, x)) = Len(s) + 1
        /\ Len(s) \in Nat
        /\ Append(s, x)[Len(s) + 1] = x
        /\ \A i \in 1..Len(s) : Append(s, x)[i] = s[i]
    BY AppendProperties, LenProperties
  <2>2. /\ Append(Aged(s), x + 1) \in Seq(Int)
        /\ Len(Append(Aged(s), x + 1)) = Len(s) + 1
        /\ Append(Aged(s), x + 1)[Len(s) + 1] = x + 1
        /\ \A i \in 1..Len(s) : Append(Aged(s), x + 1)[i] = Aged(s)[i]
    BY <1>2, AppendProperties
  <2>3. y \in Int
    OBVIOUS
  <2>4. /\ Append(AgedTo(s, m), y) \in Seq(Int)
        /\ Len(Append(AgedTo(s, m), y)) = Len(s) + 1
        /\ Append(AgedTo(s, m), y)[Len(s) + 1] = y
        /\ \A i \in 1..Len(s) : Append(AgedTo(s, m), y)[i] = AgedTo(s, m)[i]
    BY <1>2, <2>3, AppendProperties
  <2>5. Aged(Append(s, x)) = Append(Aged(s), x + 1)
    <3>1. ASSUME NEW i \in 1..(Len(s) + 1)
          PROVE  Aged(Append(s, x))[i] = Append(Aged(s), x + 1)[i]
      <4>1. Aged(Append(s, x))[i] = Append(s, x)[i] + 1
        BY <1>2, <2>1
      <4>2. CASE i = Len(s) + 1
        BY <2>1, <2>2, <4>1, <4>2
      <4>3. CASE i \in 1..Len(s)
        BY <1>2, <2>1, <2>2, <4>1, <4>3
      <4>4. i = Len(s) + 1 \/ i \in 1..Len(s)
        <5>1. Len(s) \in Nat
          BY <2>1
        <5> QED BY <5>1
      <4> QED BY <4>2, <4>3, <4>4
    <3>2. Aged(Append(s, x)) \in Seq(Int) /\ Len(Aged(Append(s, x))) = Len(s) + 1
      BY <1>2, <2>1
    <3> QED BY <2>2, <3>1, <3>2, SeqEqual
  <2>6. AgedTo(Append(s, x), m) = Append(AgedTo(s, m), y)
    <3>1. ASSUME NEW i \in 1..(Len(s) + 1)
          PROVE  AgedTo(Append(s, x), m)[i] = Append(AgedTo(s, m), y)[i]
      <4>1. AgedTo(Append(s, x), m)[i]
              = IF Append(s, x)[i] < m THEN Append(s, x)[i] + 1 ELSE Append(s, x)[i]
        BY <1>2, <2>1
      <4>2. CASE i = Len(s) + 1
        BY <2>1, <2>4, <4>1, <4>2
      <4>3. CASE i \in 1..Len(s)
        BY <1>2, <2>1, <2>4, <4>1, <4>3
      <4>4. i = Len(s) + 1 \/ i \in 1..Len(s)
        <5>1. Len(s) \in Nat
          BY <2>1
        <5> QED BY <5>1
      <4> QED BY <4>2, <4>3, <4>4
    <3>2. AgedTo(Append(s, x), m) \in Seq(Int) /\ Len(AgedTo(Append(s, x), m)) = Len(s) + 1
      BY <1>2, <2>1
    <3> HIDE DEF y
    <3> QED BY <2>4, <3>1, <3>2, SeqEqual
  <2> QED BY <2>5, <2>6
<1> QED BY <1>1, <1>2, <1>3

\* Time takes from what is kept just what it would have taken from the whole.
LEMMA YoungerAged ==
  ASSUME NEW s \in Seq(Int), NEW t \in Int, NEW m \in Int, t <= m
  PROVE  Younger(AgedTo(s, m), t) = Younger(Aged(Younger(s, t)), t)
<1> DEFINE T == {q \in Seq(Int) : Younger(AgedTo(q, m), t) = Younger(Aged(Younger(q, t)), t)}
<1>1. <<>> \in T
  BY EmptySeq, YoungerSteps, AgedSteps
<1>2. ASSUME NEW q \in T, NEW x \in Int PROVE Append(q, x) \in T
  <2> DEFINE y == IF x < m THEN x + 1 ELSE x
             k == Younger(q, t)
  <2>1. /\ Append(q, x) \in Seq(Int) /\ k \in Seq(Int) /\ y \in Int
        /\ AgedTo(q, m) \in Seq(Int) /\ Aged(k) \in Seq(Int)
    BY AppendProperties, YoungerType, AgedSteps
  <2>2. Younger(AgedTo(q, m), t) = Younger(Aged(k), t)
    OBVIOUS
  <2>3. AgedTo(Append(q, x), m) = Append(AgedTo(q, m), y)
    BY AgedSteps
  <2>4. Younger(Append(q, x), t) = IF x < t THEN Append(k, x) ELSE k
    BY YoungerSteps
  <2>5. Younger(Append(AgedTo(q, m), y), t)
          = IF y < t THEN Append(Younger(AgedTo(q, m), t), y) ELSE Younger(AgedTo(q, m), t)
    BY <2>1, YoungerSteps
  <2>6. CASE x < t
    <3>1. y = x + 1
      BY <2>6
    <3>2. Aged(Append(k, x)) = Append(Aged(k), x + 1)
      BY <2>1, AgedSteps
    <3>3. Younger(Append(Aged(k), x + 1), t)
            = IF x + 1 < t THEN Append(Younger(Aged(k), t), x + 1) ELSE Younger(Aged(k), t)
      <4>1. x + 1 \in Int /\ Aged(k) \in Seq(Int)
        BY <2>1
      <4> HIDE DEF k
      <4> QED BY <4>1, YoungerSteps
    <3> HIDE DEF k, y
    <3>4. Younger(Aged(Younger(Append(q, x), t)), t) = Younger(AgedTo(Append(q, x), m), t)
      BY <2>2, <2>3, <2>4, <2>5, <2>6, <3>1, <3>2, <3>3
    <3> QED BY <2>1, <3>4
  <2>7. CASE ~(x < t)
    <3>1. ~(y < t)
      BY <2>7
    <3> HIDE DEF k, y
    <3>2. Younger(Aged(Younger(Append(q, x), t)), t) = Younger(AgedTo(Append(q, x), m), t)
      BY <2>2, <2>3, <2>4, <2>5, <2>7, <3>1
    <3> QED BY <2>1, <3>2
  <2> QED BY <2>6, <2>7
<1>3. T \in SUBSET Seq(Int)
  OBVIOUS
<1> HIDE DEF T
<1>4. T = Seq(Int)
  BY <1>1, <1>2, <1>3, SeqInd
<1> QED BY <1>4 DEF T

-----------------------------------------------------------------------------
(***************************************************************************)
(* Type correctness.                                                       *)
(***************************************************************************)
\* Every step leaves the notice alone or is one of these.
NoticeStep == RefreshStep \/ N!Operator \/ N!Tick

\* The store, the operator and the clock keep the notice well formed.
LEMMA NoticeTypes ==
  ASSUME N!TypeOK, NoticeStep \/ UNCHANGED notice
  PROVE  N!TypeOK'
<1> USE NoticeAssumption DEF N!TypeOK
<1>1. CASE N!StatFails
  BY <1>1 DEF N!StatFails, N!file
<1>2. CASE N!Stat
  BY <1>2 DEF N!Stat, N!file, N!store
<1>3. CASE N!Read
  BY <1>3 DEF N!Read, N!Shown, N!file
<1>4. CASE N!ReadFails
  BY <1>4 DEF N!ReadFails, N!file
<1>5. CASE N!Operator
  <2>1. CASE N!Remove
    <3>1. content' = Absent /\ writes' = writes + 1 /\ writes < MaxWrites
      BY <2>1 DEF N!Remove
    <3>2. writes \in Nat /\ MaxWrites \in Nat
      OBVIOUS
    <3>3. writes' \in 0..MaxWrites
      BY <3>1, <3>2
    <3>4. missed' = FALSE
      BY <2>1 DEF N!Remove
    <3> QED BY <2>1, <3>1, <3>3, <3>4 DEF N!Remove, N!store
  <2>2. ASSUME NEW c \in Doc \cup {Blank, Big}, NEW t \in 1..grain, N!Write(c, t)
        PROVE  N!TypeOK'
    <3>1. t \in 1..MaxGrain /\ (t = mtime) \in BOOLEAN
      OBVIOUS
    <3> QED BY <2>2, <3>1 DEF N!Write, N!store
  <2> QED BY <1>5, <2>1, <2>2 DEF N!Operator
<1>6. CASE N!Tick
  BY <1>6 DEF N!Tick, N!file, N!store
<1>7. CASE UNCHANGED notice
  BY <1>7 DEF notice
<1> QED BY <1>1, <1>2, <1>3, <1>4, <1>5, <1>6, <1>7 DEF NoticeStep, RefreshStep

\* The ages a window stores.
Age == 0..(Period + Lag)

\* W!Kept is Younger.
LEMMA KeptIsYounger ==
  ASSUME NEW s, NEW l
  PROVE  W!Kept(s, l) = Younger(s, Period + l)
  BY DEF W!Kept, W!Younger, Younger

\* What a window keeps of a key's hits, with any lag.
LEMMA KeptType ==
  ASSUME NEW s \in Seq(Age), NEW l
  PROVE  /\ W!Kept(s, l) \in Seq(Age)
         /\ Len(W!Kept(s, l)) \in Nat /\ Len(s) \in Nat
         /\ Len(W!Kept(s, l)) <= Len(s)
  BY KeptIsYounger, YoungerType, LenProperties

\* Every step leaves the hits alone or is one of these.
WindowStep == \/ \E k \in Source : W!Allow(k)
              \/ \E l \in 0..Lag : W!Sweep(l)
              \/ W!Tick

\* Packets, sweeps and time keep the window well formed and within its limit.
LEMMA WindowTypes ==
  ASSUME W!TypeOK, WindowStep \/ UNCHANGED hits
  PROVE  W!TypeOK'
<1> USE ServerAssumption
<1>0. /\ hits \in [Source -> Seq(Age)]
      /\ Limit > 0 => \A k \in Source : Len(hits[k]) <= Limit
  BY DEF W!TypeOK, Age
<1> SUFFICES /\ hits' \in [Source -> Seq(Age)]
             /\ Limit > 0 => \A k \in Source : Len(hits'[k]) <= Limit
  BY DEF W!TypeOK, Age
<1>1. ASSUME NEW k \in Source, W!Allow(k)
      PROVE  /\ hits' \in [Source -> Seq(Age)]
             /\ Limit > 0 => \A j \in Source : Len(hits'[j]) <= Limit
  <2>1. CASE Limit = 0
    BY <1>0, <1>1, <2>1 DEF W!Allow
  <2>2. CASE Limit # 0
    <3> DEFINE s == W!Kept(hits[k], 0)
               q == IF W!Room(k) THEN Append(s, 0) ELSE s
    <3>1. hits' = [hits EXCEPT ![k] = q]
      BY <1>1, <2>2 DEF W!Allow
    <3>2. /\ s \in Seq(Age) /\ Len(s) \in Nat /\ Len(s) <= Len(hits[k])
          /\ Len(hits[k]) \in Nat
      BY <1>0, KeptType
    <3>3. W!Room(k) => Len(s) < Limit
      BY <2>2 DEF W!Room
    <3> HIDE DEF s
    <3>4. q \in Seq(Age) /\ Len(q) <= Limit
      <4>1. 0 \in Age
        BY DEF Age
      <4>2. Append(s, 0) \in Seq(Age) /\ Len(Append(s, 0)) = Len(s) + 1
        BY <3>2, <4>1, AppendProperties
      <4>3. Len(hits[k]) <= Limit
        BY <1>0, <2>2
      <4> QED BY <3>2, <3>3, <4>2, <4>3
    <3> HIDE DEF q
    <3> QED BY <1>0, <3>1, <3>4
  <2> QED BY <2>1, <2>2
<1>2. ASSUME NEW l \in 0..Lag, W!Sweep(l)
      PROVE  /\ hits' \in [Source -> Seq(Age)]
             /\ Limit > 0 => \A j \in Source : Len(hits'[j]) <= Limit
  <2>1. hits' = [k \in Source |-> W!Kept(hits[k], l)]
    BY <1>2 DEF W!Sweep
  <2>2. ASSUME NEW k \in Source
        PROVE  /\ W!Kept(hits[k], l) \in Seq(Age)
               /\ Limit > 0 => Len(W!Kept(hits[k], l)) <= Limit
    <3>1. hits[k] \in Seq(Age) /\ (Limit > 0 => Len(hits[k]) <= Limit)
      BY <1>0
    <3>2. /\ W!Kept(hits[k], l) \in Seq(Age)
          /\ Len(W!Kept(hits[k], l)) \in Nat /\ Len(hits[k]) \in Nat
          /\ Len(W!Kept(hits[k], l)) <= Len(hits[k])
      BY <3>1, KeptType
    <3> QED BY <3>1, <3>2
  <2> QED BY <2>1, <2>2
<1>3. ASSUME W!Tick
      PROVE  /\ hits' \in [Source -> Seq(Age)]
             /\ Limit > 0 => \A j \in Source : Len(hits'[j]) <= Limit
  <2>1. hits' = [k \in Source |-> W!Older(hits[k])]
    BY <1>3 DEF W!Tick
  <2>2. ASSUME NEW k \in Source
        PROVE  W!Older(hits[k]) \in Seq(Age) /\ Len(W!Older(hits[k])) = Len(hits[k])
    <3> DEFINE s == hits[k]
    <3>1. /\ Len(s) \in Nat /\ DOMAIN s = 1..Len(s)
          /\ \A i \in 1..Len(s) : s[i] \in Age
      BY <1>0, LenProperties
    <3>2. W!Older(s) \in [1..Len(s) -> Age]
      BY <3>1 DEF W!Older, Age
    <3>3. W!Older(s) \in Seq(Age)
      BY <3>1, <3>2, SeqDef
    <3>4. DOMAIN W!Older(s) = 1..Len(s) /\ Len(W!Older(s)) \in Nat
          /\ DOMAIN W!Older(s) = 1..Len(W!Older(s))
      BY <3>2, <3>3, LenProperties
    <3>5. Len(W!Older(s)) = Len(s)
      BY <3>1, <3>4
    <3> QED BY <3>3, <3>5
  <2> QED BY <1>0, <2>1, <2>2
<1>4. CASE UNCHANGED hits
  BY <1>0, <1>4
<1> QED BY <1>1, <1>2, <1>3, <1>4 DEF WindowStep

\* Where the goroutines are.
Places ==
  /\ main \in {"notice", "udp", "listen", "serve", "stopped", "failed"}
  /\ stopper \in {"off", "wait", "shut"}
  /\ udp \in {"none", "open", "closed"} /\ echo \in {"off", "read", "ended"}
  /\ ticker \in {"off", "wait", "notice", "window", "ended"} /\ lag \in 0..Lag

\* Every step of the process leaves its goroutines in places they can be in.
LEMMA PlaceTypes ==
  ASSUME Places, Next
  PROVE  Places'
<1> USE ServerAssumption DEF Places
<1>1. CASE LoadNotice \/ StartLoops \/ Listen \/ Fail
  BY <1>1 DEF LoadNotice, StartLoops, Listen, Fail, sweep
<1>2. CASE Ask \/ Shutdown \/ ServerClosed
  BY <1>2 DEF Ask, Shutdown, ServerClosed, sweep
<1>3. CASE (\E k \in Source : Packet(k)) \/ CloseUDP \/ EchoEnds \/ StopTicker
  BY <1>3 DEF Packet, CloseUDP, EchoEnds, StopTicker, process, sweep
<1>4. CASE BeginSweep \/ SweepNotice \/ SweepWindow
  BY <1>4 DEF BeginSweep, SweepNotice, SweepWindow, process
<1>5. CASE Operator \/ Tick
  BY <1>5 DEF Operator, Tick, process, sweep
<1> QED BY <1>1, <1>2, <1>3, <1>4, <1>5 DEF Next, Sweep

\* What a step of the process is to the notice and to the window.
LEMMA StepParts ==
  ASSUME Places, Next
  PROVE  /\ NoticeStep \/ UNCHANGED notice
         /\ WindowStep \/ UNCHANGED hits
<1>1. CASE LoadNotice \/ StartLoops \/ Listen \/ Fail
  BY <1>1 DEF LoadNotice, StartLoops, Listen, Fail, NoticeStep, window
<1>2. CASE Ask \/ Shutdown \/ ServerClosed
  BY <1>2 DEF Ask, Shutdown, ServerClosed, window
<1>3. CASE (\E k \in Source : Packet(k)) \/ CloseUDP \/ EchoEnds \/ StopTicker
  BY <1>3 DEF Packet, CloseUDP, EchoEnds, StopTicker, WindowStep, window
<1>4. CASE BeginSweep \/ SweepNotice
  BY <1>4 DEF BeginSweep, SweepNotice, NoticeStep, window
<1>5. CASE SweepWindow
  BY <1>5 DEF SweepWindow, WindowStep, Places
<1>6. CASE Operator \/ Tick
  BY <1>6 DEF Operator, Tick, NoticeStep, WindowStep, window
<1> QED BY <1>1, <1>2, <1>3, <1>4, <1>5, <1>6 DEF Next, Sweep

-----------------------------------------------------------------------------
\* The notice stays up to date through every step of the store, the file and
\* the clock: whoever changes the file within the time recorded is noted, and
\* the time is recorded by the step that goes on to read.
LEMMA NoticeUpToDate ==
  ASSUME N!TypeOK, N!UpToDate, NoticeStep \/ UNCHANGED notice
  PROVE  N!UpToDate'
<1> USE NoticeAssumption DEF N!UpToDate
<1>1. CASE N!StatFails
  <2>1. mtime' = 0 /\ time' = time
    BY <1>1 DEF N!StatFails, N!file
  <2>2. time \in 1..MaxGrain
    BY DEF N!TypeOK
  <2> QED BY <2>1, <2>2
<1>2. CASE N!Stat
  <2>1. /\ content' = content /\ time' = time /\ missed' = missed
        /\ refresh = "idle"
    BY <1>2 DEF N!Stat, N!file
  <2>2. CASE ~N!NewTime
    BY <1>2, <2>1, <2>2 DEF N!Stat, N!Shown, N!store
  <2>3. CASE N!NewTime /\ content = Big
    <3>1. cur' = None
      BY <1>2, <2>3 DEF N!Stat
    <3> QED BY <2>1, <2>3, <3>1 DEF N!Shown
  <2>4. CASE N!NewTime /\ content # Big
    <3>1. refresh' = "read"
      BY <1>2, <2>4 DEF N!Stat
    <3> QED BY <3>1
  <2> QED BY <2>2, <2>3, <2>4
<1>3. CASE N!Read
  BY <1>3 DEF N!Read, N!Shown, N!file
<1>4. CASE N!ReadFails
  BY <1>4 DEF N!ReadFails, N!file
<1>5. CASE N!Operator
  BY <1>5 DEF N!Operator, N!Remove, N!Write, N!store
<1>6. CASE N!Tick
  BY <1>6 DEF N!Tick, N!Shown, N!file, N!store
<1>7. CASE UNCHANGED notice
  BY <1>7 DEF notice, N!Shown
<1> QED BY <1>1, <1>2, <1>3, <1>4, <1>5, <1>6, <1>7 DEF NoticeStep, RefreshStep

\* What the steps preserve together.
IInv == TypeOK /\ UpToDate

\* A server that starts, on whatever file, satisfies the invariant.
LEMMA InitInv == Init => IInv
<1> SUFFICES ASSUME Init PROVE IInv
  OBVIOUS
<1>1. N!TypeOK /\ N!UpToDate
  <2>1. N!Init
    BY DEF Init
  <2>2. missed = FALSE
    BY <2>1 DEF N!Init
  <2>3. N!TypeOK
    <3>1. /\ grain \in 1..MaxGrain /\ time \in 1..MaxGrain /\ mtime \in 0..MaxGrain
          /\ writes \in 0..MaxWrites /\ errors \in 0..MaxErrors
      BY <2>1, NoticeAssumption DEF N!Init
    <3>2. /\ content \in Doc \cup {Blank, Big, Absent} /\ cur \in Doc \cup {None}
          /\ refresh \in {"idle", "read"}
      BY <2>1 DEF N!Init
    <3>3. missed \in BOOLEAN
      BY <2>2
    <3> QED BY <3>1, <3>2, <3>3 DEF N!TypeOK
  <2>4. time # mtime
    BY <2>1 DEF N!Init
  <2> QED BY <2>3, <2>4 DEF N!UpToDate
<1>2. W!TypeOK
  <2>1. <<>> \in Seq(0..Period + Lag) /\ Len(<<>>) = 0
    BY EmptySeq
  <2>2. hits = [k \in Source |-> <<>>]
    BY DEF Init, W!Init
  <2>3. hits \in [Source -> Seq(0..Period + Lag)] /\ \A k \in Source : Len(hits[k]) = 0
    BY <2>1, <2>2
  <2> QED BY <2>3, ServerAssumption DEF W!TypeOK
<1>3. Places
  BY ServerAssumption DEF Init, Places
<1> QED BY <1>1, <1>2, <1>3 DEF IInv, TypeOK, Places, UpToDate

\* Every step of the process keeps the invariant: it is a step of the notice, of
\* the window, of neither, or the clock's, which is one of both.
LEMMA NextInv == IInv /\ [Next]_vars => IInv'
<1> SUFFICES ASSUME IInv, [Next]_vars PROVE IInv'
  OBVIOUS
<1>1. N!TypeOK /\ W!TypeOK /\ Places /\ N!UpToDate
  BY DEF IInv, TypeOK, Places, UpToDate
<1>2. /\ NoticeStep \/ UNCHANGED notice
      /\ WindowStep \/ UNCHANGED hits
  BY <1>1, StepParts DEF vars, window
<1>3. N!TypeOK' /\ W!TypeOK' /\ N!UpToDate'
  BY <1>1, <1>2, NoticeTypes, WindowTypes, NoticeUpToDate
<1>4. Places'
  BY <1>1, PlaceTypes DEF vars, process, sweep, Places
<1> QED BY <1>3, <1>4 DEF IInv, TypeOK, Places, UpToDate

\* The inductive invariant holds in every state the server can be in.
THEOREM Invariant == Spec => []IInv
<1> QED BY InitInv, NextInv, PTL DEF Spec

\* TypeOK: the process, the notice and the window are well formed; no key has
\* more hits than the limit (window.go:49-57).
THEOREM TypeCorrect == Spec => []TypeOK
<1>1. IInv => TypeOK
  BY DEF IInv
<1> QED BY <1>1, Invariant, PTL

\* UpToDate: a file that the store takes for known is the one it shows, unless the
\* modification time could not tell (RENDEZVOUS.md:86).
THEOREM NoticeAlwaysUpToDate == Spec => []UpToDate
<1>1. IInv => UpToDate
  BY DEF IInv
<1> QED BY <1>1, Invariant, PTL

-----------------------------------------------------------------------------
(***************************************************************************)
(* The reflex window implements RateLimit.                                 *)
(***************************************************************************)
\* RateLimit's log: what the window would keep now.
Log == [k \in Source |-> W!Kept(hits[k], 0)]

\* The ages of a window are integers, so what holds of Younger holds of them.
LEMMA KeptAgain ==
  ASSUME NEW s \in Seq(Age), NEW l \in Nat
  PROVE  W!Kept(W!Kept(s, l), 0) = W!Kept(s, 0)
<1>1. s \in Seq(Int)
  <2>1. Age \subseteq Int
    BY DEF Age
  <2> QED BY <2>1, SeqMonotonic
<1>2. Period \in Int /\ Period + l \in Int /\ Period <= Period + l
  BY ServerAssumption
<1>3. Younger(Younger(s, Period + l), Period) = Younger(s, Period)
  BY <1>1, <1>2, YoungerAgain
<1>4. Period + 0 = Period
  BY <1>2
<1> QED BY <1>3, <1>4, KeptIsYounger

\* A new hit is the last one kept.
LEMMA KeptNew ==
  ASSUME NEW s \in Seq(Age)
  PROVE  W!Kept(Append(W!Kept(s, 0), 0), 0) = Append(W!Kept(s, 0), 0)
<1> DEFINE q == W!Kept(s, 0)
<1>1. q \in Seq(Age) /\ W!Kept(q, 0) = q
  BY KeptType, KeptAgain
<1>2. 0 \in Age /\ 0 < Period /\ Period + 0 = Period
  BY ServerAssumption DEF Age
<1> HIDE DEF q
<1>3. Younger(Append(q, 0), Period) = Append(Younger(q, Period), 0)
  BY <1>1, <1>2, YoungerSteps
<1>4. W!Kept(Append(q, 0), 0) = Append(q, 0)
  BY <1>1, <1>2, <1>3, KeptIsYounger
<1> QED BY <1>4 DEF q

\* What is kept after a while is what was kept before, older, and kept again.
LEMMA KeptOlder ==
  ASSUME NEW s \in Seq(Age)
  PROVE  W!Kept(W!Older(s), 0) = Younger(Aged(W!Kept(s, 0)), Period)
<1>1. s \in Seq(Int)
  <2>1. Age \subseteq Int
    BY DEF Age
  <2> QED BY <2>1, SeqMonotonic
<1>2. Period \in Int /\ Period + Lag \in Int /\ Period <= Period + Lag /\ Period + 0 = Period
  BY ServerAssumption
<1>3. W!Older(s) = AgedTo(s, Period + Lag)
  BY DEF W!Older, AgedTo
<1>4. Younger(AgedTo(s, Period + Lag), Period) = Younger(Aged(Younger(s, Period)), Period)
  BY <1>1, <1>2, YoungerAged
<1> QED BY <1>2, <1>3, <1>4, KeptIsYounger

\* The empty window is a rate limit that has let nobody in.
LEMMA RefinesInit == Init => RL!Init
<1> SUFFICES ASSUME Init PROVE RL!Init
  OBVIOUS
<1>1. answer = <<>> /\ hits = [k \in Source |-> <<>>]
  BY DEF Init, W!Init
<1>2. W!Kept(<<>>, 0) = <<>>
  BY KeptIsYounger, YoungerSteps
<1>3. [k \in Source |-> W!Kept(hits[k], 0)] = [k \in Source |-> <<>>]
  BY <1>1, <1>2
<1> QED BY <1>1, <1>3 DEF RL!Init

\* A packet is let in or turned away as RateLimit would.
LEMMA PacketRefines ==
  ASSUME W!TypeOK, NEW k \in Source, Packet(k)
  PROVE  RL!LetIn(k) \/ RL!TurnAway(k)
<1> USE ServerAssumption
<1>1. W!Allow(k) /\ answer' = <<k, W!Room(k)>>
  BY DEF Packet
<1>2. /\ hits \in [Source -> Seq(Age)]
      /\ Limit > 0 => \A j \in Source : Len(hits[j]) <= Limit
  BY DEF W!TypeOK, Age
<1> DEFINE s == W!Kept(hits[k], 0)
<1>3. /\ s \in Seq(Age) /\ Len(s) \in Nat /\ Len(s) <= Len(hits[k])
      /\ Len(hits[k]) \in Nat
  BY <1>2, KeptType
<1>4. Log[k] = s
  BY DEF Log
<1>5. CASE Limit = 0
  <2>1. hits' = hits /\ W!Room(k) = TRUE
    BY <1>1, <1>5 DEF W!Allow, W!Room
  <2>2. Log' = Log /\ answer' = <<k, TRUE>>
    BY <1>1, <2>1 DEF Log
  <2> QED BY <1>5, <2>2 DEF RL!LetIn, Log
<1>6. CASE Limit # 0 /\ Len(s) < Limit
  <2>1. W!Room(k) = TRUE
    BY <1>6 DEF W!Room
  <2>2. hits' = [hits EXCEPT ![k] = Append(s, 0)]
    BY <1>1, <1>6, <2>1 DEF W!Allow
  <2>3. W!Kept(Append(s, 0), 0) = Append(s, 0)
    BY <1>2, KeptNew
  <2> HIDE DEF s
  <2>4. Log' = [Log EXCEPT ![k] = Append(s, 0)]
    <3>1. Log' = [j \in Source |-> W!Kept(hits'[j], 0)]
      BY DEF Log
    <3>2. \A j \in Source : hits'[j] = IF j = k THEN Append(s, 0) ELSE hits[j]
      BY <1>2, <2>2
    <3>3. \A j \in Source :
            W!Kept(hits'[j], 0) = IF j = k THEN Append(s, 0) ELSE W!Kept(hits[j], 0)
      BY <2>3, <3>2
    <3>4. Log' = [j \in Source |-> IF j = k THEN Append(s, 0) ELSE W!Kept(hits[j], 0)]
      BY <3>1, <3>3
    <3> QED BY <3>4 DEF Log
  <2>5. answer' = <<k, TRUE>>
    BY <1>1, <2>1
  <2>6. Len(Log[k]) < Limit /\ Log' = [Log EXCEPT ![k] = Append(Log[k], 0)]
    BY <1>4, <1>6, <2>4
  <2> QED BY <1>6, <2>5, <2>6 DEF RL!LetIn, Log
<1>7. CASE Limit # 0 /\ ~(Len(s) < Limit)
  <2>1. W!Room(k) = FALSE
    BY <1>7 DEF W!Room
  <2>2. hits' = [hits EXCEPT ![k] = s]
    BY <1>1, <1>7, <2>1 DEF W!Allow
  <2>3. W!Kept(s, 0) = s
    BY <1>2, KeptAgain
  <2>4. Len(s) = Limit
    <3>1. Len(hits[k]) <= Limit
      BY <1>2, <1>7
    <3> QED BY <1>3, <1>7, <3>1
  <2>5. Log' = Log
    <3>1. ASSUME NEW j \in Source PROVE W!Kept(hits'[j], 0) = W!Kept(hits[j], 0)
      <4>1. hits'[j] = IF j = k THEN s ELSE hits[j]
        BY <1>2, <2>2
      <4> QED BY <2>3, <4>1
    <3>2. Log' = [j \in Source |-> W!Kept(hits'[j], 0)]
      BY DEF Log
    <3> HIDE DEF s
    <3> QED BY <3>1, <3>2 DEF Log
  <2>6. answer' = <<k, FALSE>>
    BY <1>1, <2>1
  <2>7. Len(Log[k]) = Limit
    BY <1>4, <2>4
  <2> QED BY <1>7, <2>5, <2>6, <2>7 DEF RL!TurnAway, Log
<1> QED BY <1>5, <1>6, <1>7

\* A sweep, however late, changes nothing that counts.
LEMMA SweepRefines ==
  ASSUME W!TypeOK, NEW l \in 0..Lag, W!Sweep(l)
  PROVE  Log' = Log
<1>1. hits \in [Source -> Seq(Age)]
  BY DEF W!TypeOK, Age
<1>2. \A k \in Source : W!Kept(hits'[k], 0) = W!Kept(hits[k], 0)
  <2> SUFFICES ASSUME NEW k \in Source
               PROVE  W!Kept(hits'[k], 0) = W!Kept(hits[k], 0)
    OBVIOUS
  <2>1. hits'[k] = W!Kept(hits[k], l)
    BY DEF W!Sweep
  <2> QED BY <1>1, <2>1, ServerAssumption, KeptAgain
<1>3. Log' = [k \in Source |-> W!Kept(hits'[k], 0)]
  BY DEF Log
<1> QED BY <1>2, <1>3 DEF Log

\* Time passes for both.
LEMMA TickRefines ==
  ASSUME W!TypeOK, Tick
  PROVE  RL!Pass
<1>1. hits \in [Source -> Seq(Age)]
  BY DEF W!TypeOK, Age
<1>2. answer' = answer /\ hits' = [k \in Source |-> W!Older(hits[k])]
  BY DEF Tick, W!Tick
<1>3. ASSUME NEW k \in Source
      PROVE  W!Kept(hits'[k], 0)
               = RL!Younger([i \in DOMAIN Log[k] |-> Log[k][i] + 1], Period)
  <2>1. W!Kept(hits'[k], 0) = Younger(Aged(W!Kept(hits[k], 0)), Period)
    BY <1>1, <1>2, KeptOlder
  <2>2. Log[k] = W!Kept(hits[k], 0)
    BY DEF Log
  <2>3. Aged(Log[k]) = [i \in DOMAIN Log[k] |-> Log[k][i] + 1]
    BY DEF Aged
  <2>4. RL!Younger(Aged(Log[k]), Period) = Younger(Aged(Log[k]), Period)
    BY DEF RL!Younger, Younger
  <2> QED BY <2>1, <2>2, <2>3, <2>4
<1>4. Log' = [k \in Source |-> W!Kept(hits'[k], 0)]
  BY DEF Log
<1>5. Log' = [k \in Source |-> RL!Younger([i \in DOMAIN Log[k] |-> Log[k][i] + 1], Period)]
  BY <1>3, <1>4
<1> QED BY <1>2, <1>5 DEF RL!Pass, Log

\* Every step of the process is one of RateLimit or leaves its state alone.
LEMMA RefinesStep == W!TypeOK /\ Places /\ [Next]_vars => [RL!Next]_(RL!vars)
<1> SUFFICES ASSUME W!TypeOK, Places, [Next]_vars
             PROVE  RL!Next \/ (Log' = Log /\ answer' = answer)
  BY DEF RL!vars, Log
<1>1. ASSUME UNCHANGED <<hits, answer>> PROVE Log' = Log /\ answer' = answer
  BY <1>1 DEF Log
<1>2. ASSUME NEW k \in Source, Packet(k) PROVE RL!Next
  BY <1>2, PacketRefines DEF RL!Next
<1>3. ASSUME SweepWindow PROVE Log' = Log /\ answer' = answer
  BY <1>3, SweepRefines DEF SweepWindow, Places
<1>4. ASSUME Tick PROVE RL!Next
  BY <1>4, TickRefines DEF RL!Next
<1>5. CASE LoadNotice \/ StartLoops \/ Listen \/ Fail
  BY <1>1, <1>5 DEF LoadNotice, StartLoops, Listen, Fail, window
<1>6. CASE Ask \/ Shutdown \/ ServerClosed
  BY <1>1, <1>6 DEF Ask, Shutdown, ServerClosed, window
<1>7. CASE CloseUDP \/ EchoEnds \/ StopTicker
  BY <1>1, <1>7 DEF CloseUDP, EchoEnds, StopTicker, window
<1>8. CASE BeginSweep \/ SweepNotice
  BY <1>1, <1>8 DEF BeginSweep, SweepNotice, window
<1>9. CASE Operator \/ UNCHANGED vars
  BY <1>1, <1>9 DEF Operator, vars, window
<1> QED BY <1>2, <1>3, <1>4, <1>5, <1>6, <1>7, <1>8, <1>9 DEF Next, Sweep

\* RateLimited: for any limit, period and lag, packets, late sweeps and time do to
\* the reflex window what RateLimit allows: it never lets in more than Limit
\* packets of a source within Period, and never turns one away before.
THEOREM ReflexImplementsRateLimit == Spec => RateLimited
<1>1. Init => RL!Init
  BY RefinesInit
<1>2. IInv => W!TypeOK /\ Places
  BY DEF IInv, TypeOK, Places
<1>3. IInv /\ [Next]_vars => [RL!Next]_(RL!vars)
  BY <1>2, RefinesStep
<1> QED BY <1>1, <1>3, Invariant, PTL DEF Spec, RateLimited, RL!Spec
=============================================================================
