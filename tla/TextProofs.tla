----------------------------- MODULE TextProofs -----------------------------
(***************************************************************************)
(* Proofs about the text between the models, for texts of any length: what *)
(* the folds and the recursive functions of TextSegments compute, and what *)
(* follows for the way of a text in Payload.                               *)
(***************************************************************************)
EXTENDS Payload, FiniteSetTheorems, SequenceTheorems, WellFoundedInduction, TLAPS

\* Texts and documents are made of these.
Characters == Layout \cup Names \cup {Quote, Backslash, Nul, Wide, ":", "n"}
Symbols == Characters \cup {"u", "0000", "000a", "0022", "d83d", "de00",
                            "sourceFrameId", "1", "{", "}", ","}

LEMMA SymbolFacts ==
  /\ Characters \subseteq Symbols /\ Texts = Seq(Characters) /\ "" \notin Symbols
  /\ Layout \subseteq Symbols /\ Names \subseteq Symbols
  /\ {Quote, Backslash, Nul, Wide, ":", "n"} \subseteq Symbols
  /\ NL \in Symbols /\ CR \in Symbols /\ Marker \in Symbols
<1>1. /\ Characters \subseteq Symbols /\ Texts = Seq(Characters)
      /\ Layout \subseteq Symbols /\ Names \subseteq Symbols
      /\ {Quote, Backslash, Nul, Wide, ":", "n"} \subseteq Symbols
  BY DEF Texts, Characters, Symbols
<1>2. NL \in Symbols /\ CR \in Symbols /\ Marker \in Symbols
  BY <1>1 DEF Layout
<1>3. "" \notin Symbols
  BY DEF Symbols, Characters, Layout, Names, LanguageNames, Char, Bar, Space, NL, CR, Marker,
         TagOpen, TagClose, Quote, Backslash, Nul, Wide
<1> QED BY <1>1, <1>2, <1>3

-----------------------------------------------------------------------------
(* Induction over numbers and sequences.                                   *)

\* Every set of natural numbers that is not empty has a least one.
LEMMA LeastNumber ==
  ASSUME NEW T, T \subseteq Nat, T # {}
  PROVE  \E x \in T : \A y \in T : x <= y
<1> DEFINE R == {p \in Nat \X Nat : p[1] < p[2]}
<1>1. IsWellFoundedOn(R, Nat)
  BY NatLessThanWellFounded DEF OpToRel
<1>2. \A x, y \in T : y < x => <<y, x>> \in R
  <2>1. \A x, y \in T : <<y, x>> \in Nat \X Nat
    OBVIOUS
  <2> QED BY <2>1
<1> HIDE DEF R
<1>3. PICK x \in T : \A y \in T : ~ (<<y, x>> \in R)
  BY <1>1, WFMin
<1>4. \A y \in T : ~(y < x)
  BY <1>2, <1>3
<1>5. \A y \in T : x <= y
  BY <1>4
<1> QED BY <1>5

\* A set with zero and every successor has every number.
LEMMA Induction ==
  ASSUME NEW S, 0 \in S, \A n \in Nat : n \in S => n + 1 \in S
  PROVE  Nat \subseteq S
<1> SUFFICES ASSUME Nat \ S # {} PROVE FALSE
  OBVIOUS
<1>1. PICK x \in Nat \ S : \A y \in Nat \ S : x <= y
  BY LeastNumber
<1>2. x # 0 /\ x - 1 \in Nat /\ x - 1 \in S
  BY <1>1
<1> QED BY <1>1, <1>2

\* What Min of a set of places is.
LEMMA MinIs ==
  ASSUME NEW T, T \subseteq Nat, T # {}
  PROVE  Min(T) \in T /\ Min(T) \in Nat /\ \A y \in T : Min(T) <= y
<1>1. \E x \in T : \A y \in T : x <= y
  BY LeastNumber
<1>2. Min(T) \in T /\ \A y \in T : Min(T) <= y
  BY <1>1, Zenon DEF Min
<1> QED BY <1>2

\* And what Max is.
LEMMA MaxIs ==
  ASSUME NEW n \in Nat, NEW T, T \subseteq 1..n, T # {}
  PROVE  Max(T) \in T /\ Max(T) \in 1..n /\ \A y \in T : y <= Max(T)
<1> DEFINE U == {k \in Nat : \A y \in T : y <= k}
<1>1. n \in U
  OBVIOUS
<1>2. PICK k \in U : \A j \in U : k <= j
  BY <1>1, LeastNumber
<1>3. k \in T
  <2> SUFFICES ASSUME k \notin T PROVE FALSE
    OBVIOUS
  <2>1. PICK y \in T : TRUE
    OBVIOUS
  <2>2. k \in Nat /\ y \in 1..n /\ y <= k
    BY <1>2
  <2>3. \A z \in T : z <= k /\ z # k /\ z \in 1..n
    BY <1>2
  <2>4. k - 1 \in Nat /\ \A z \in T : z <= k - 1
    BY <2>2, <2>3
  <2> QED BY <1>2, <2>2, <2>4
<1>4. \A y \in T : k >= y
  BY <1>2
<1>5. Max(T) \in T /\ \A y \in T : Max(T) >= y
  BY <1>3, <1>4, Zenon DEF Max
<1> QED BY <1>5

\* A sequence and one more element.
LEMMA Appended ==
  ASSUME NEW S, NEW s \in Seq(S), NEW e \in S
  PROVE  /\ Append(s, e) \in Seq(S) /\ Append(s, e) # <<>>
         /\ Len(s) \in Nat /\ Len(Append(s, e)) = Len(s) + 1
         /\ DOMAIN s = 1..Len(s) /\ DOMAIN Append(s, e) = 1..(Len(s) + 1)
         /\ Append(s, e)[Len(s) + 1] = e
         /\ \A i \in 1..Len(s) : Append(s, e)[i] = s[i]
BY AppendProperties, LenProperties

\* Two sequences are equal if they have the same elements.
LEMMA SameSeq ==
  ASSUME NEW S, NEW s \in Seq(S), NEW t \in Seq(S), Len(s) = Len(t),
         \A i \in 1..Len(s) : s[i] = t[i]
  PROVE  s = t
BY SeqEqual

\* A set with the empty sequence and every longer one has every sequence.
LEMMA SeqInduction ==
  ASSUME NEW C, NEW P, <<>> \in P,
         \A s \in Seq(C), e \in C : s \in P => Append(s, e) \in P
  PROVE  Seq(C) \subseteq P
<1> DEFINE S == {n \in Nat : \A s \in Seq(C) : Len(s) = n => s \in P}
<1>1. 0 \in S
  BY EmptySeq
<1>2. ASSUME NEW n \in Nat, n \in S
      PROVE  n + 1 \in S
  <2> SUFFICES ASSUME NEW s \in Seq(C), Len(s) = n + 1
               PROVE  s \in P
    OBVIOUS
  <2>1. s # <<>>
    BY EmptySeq
  <2>2. PICK u \in Seq(C), e \in C : s = Append(u, e)
    BY <2>1, SequenceEmptyOrAppend
  <2>3. Len(u) = n
    BY <2>2, Appended
  <2> QED BY <1>2, <2>2, <2>3
<1> HIDE DEF S
<1>3. Nat \subseteq S
  BY <1>1, <1>2, Induction
<1>4. \A s \in Seq(C) : Len(s) \in S
  BY <1>3, LenProperties
<1> QED BY <1>4 DEF S

\* A piece of a sequence.
LEMMA PieceIs ==
  ASSUME NEW S, NEW s \in Seq(S), NEW m \in Nat \ {0}, NEW n \in Nat,
         n <= Len(s), m <= n + 1
  PROVE  /\ SubSeq(s, m, n) \in Seq(S) /\ Len(SubSeq(s, m, n)) = n - m + 1
         /\ n - m + 1 \in Nat
         /\ \A i \in 1..(n - m + 1) : SubSeq(s, m, n)[i] = s[m + i - 1]
<1>1. Len(s) \in Nat /\ \A i \in 1..Len(s) : s[i] \in S
  BY LenProperties, ElementOfSeq
<1>2. \A i \in m..n : s[i] \in S
  BY <1>1
<1>3. /\ SubSeq(s, m, n) \in Seq(S)
      /\ Len(SubSeq(s, m, n)) = IF m <= n THEN n - m + 1 ELSE 0
      /\ \A i \in 1..(n - m + 1) : SubSeq(s, m, n)[i] = s[m + i - 1]
  BY <1>2, SubSeqProperties
<1> QED BY <1>3

-----------------------------------------------------------------------------
(* Folds.                                                                  *)

\* A fold of elements of C starts in S and stays there.
Steps(base, step, S, C) == base \in S /\ step \in [S \X C -> S]

\* What a fold of the sequence t is, in steps of a function.
FoldOf(f, base, step, t) ==
  f = [s \in SUBSET DOMAIN t |->
         IF s = {} THEN base ELSE step[<<f[s \ {Max(s)}], t[Max(s)]>>]]

\* A fold of a typed step exists, and what it takes is typed.
LEMMA FoldExists ==
  ASSUME NEW C, NEW S, NEW base, NEW step, Steps(base, step, S, C), NEW t \in Seq(C)
  PROVE  \E f : FoldOf(f, base, step, t) /\ \A s \in SUBSET DOMAIN t : f[s] \in S
<1> DEFINE N == Len(t)
           Val(f, s) == IF s = {} THEN base ELSE step[<<f[s \ {Max(s)}], t[Max(s)]>>]
           Upto(f, n) == /\ f = [s \in SUBSET (1..n) |-> Val(f, s)]
                         /\ \A s \in SUBSET (1..n) : f[s] \in S
           T == {n \in Nat : n <= N => \E f : Upto(f, n)}
<1>0. base \in S /\ step \in [S \X C -> S]
  BY DEF Steps
<1>1. N \in Nat /\ DOMAIN t = 1..N /\ \A i \in 1..N : t[i] \in C
  BY LenProperties, ElementOfSeq
<1> HIDE DEF N, Upto
<1>2. 0 \in T
  <2> DEFINE f == [s \in SUBSET (1..0) |-> base]
  <2>1. \A s \in SUBSET (1..0) : s = {}
    OBVIOUS
  <2>2. f = [s \in SUBSET (1..0) |-> Val(f, s)]
    BY <2>1
  <2>3. Upto(f, 0)
    BY <1>0, <2>2 DEF Upto
  <2> HIDE DEF f
  <2> QED BY <2>3
<1>3. ASSUME NEW n \in Nat, n \in T
      PROVE  n + 1 \in T
  <2> SUFFICES ASSUME n + 1 <= N PROVE \E f : Upto(f, n + 1)
    OBVIOUS
  <2>1. PICK h : Upto(h, n)
    BY <1>1, <1>3
  <2>2. \A s \in SUBSET (1..n) : h[s] \in S /\ h[s] = Val(h, s)
    BY <2>1 DEF Upto
  <2> DEFINE f == [s \in SUBSET (1..(n + 1)) |->
                     IF n + 1 \in s THEN step[<<h[s \ {n + 1}], t[n + 1]>>] ELSE h[s]]
  <2>3. \A s \in SUBSET (1..n) : s \in SUBSET (1..(n + 1)) /\ n + 1 \notin s /\ f[s] = h[s]
    OBVIOUS
  <2>4. ASSUME NEW s \in SUBSET (1..(n + 1))
        PROVE  f[s] = Val(f, s) /\ f[s] \in S
    <3>1. CASE n + 1 \in s
      <4>1. Max(s) = n + 1
        <5> HIDE DEF f
        <5>1. n + 1 \in Nat /\ s \subseteq 1..(n + 1) /\ s # {}
          BY <3>1
        <5>2. Max(s) \in 1..(n + 1) /\ n + 1 <= Max(s)
          BY <3>1, <5>1, MaxIs
        <5> QED BY <5>2
      <4>2. s \ {n + 1} \in SUBSET (1..n)
        OBVIOUS
      <4>3. f[s \ {n + 1}] = h[s \ {n + 1}] /\ h[s \ {n + 1}] \in S
        BY <2>2, <2>3, <4>2
      <4>4. t[n + 1] \in C
        BY <1>1
      <4>5. f[s] = step[<<h[s \ {n + 1}], t[n + 1]>>]
        BY <3>1
      <4>6. step[<<h[s \ {n + 1}], t[n + 1]>>] \in S
        BY <1>0, <4>3, <4>4
      <4> HIDE DEF f
      <4> QED BY <3>1, <4>1, <4>3, <4>5, <4>6
    <3>2. CASE n + 1 \notin s
      <4>1. s \in SUBSET (1..n) /\ f[s] = h[s]
        BY <3>2
      <4>2. h[s] \in S /\ h[s] = Val(h, s) /\ s \ {Max(s)} \in SUBSET (1..n)
        BY <2>2, <4>1
      <4>3. f[s \ {Max(s)}] = h[s \ {Max(s)}]
        BY <2>3, <4>2
      <4> HIDE DEF f
      <4> QED BY <4>1, <4>2, <4>3
    <3> QED BY <3>1, <3>2
  <2>5. f = [s \in SUBSET (1..(n + 1)) |-> Val(f, s)]
    <3> HIDE DEF Val
    <3> QED BY <2>4
  <2>6. Upto(f, n + 1)
    BY <2>4, <2>5 DEF Upto
  <2> HIDE DEF f
  <2> QED BY <2>6
<1> HIDE DEF T
<1>4. N \in T
  BY <1>1, <1>2, <1>3, Induction
<1>5. PICK f : Upto(f, N)
  BY <1>1, <1>4 DEF T
<1>6. f = [s \in SUBSET (1..N) |-> Val(f, s)] /\ \A s \in SUBSET (1..N) : f[s] \in S
  BY <1>5 DEF Upto
<1> QED BY <1>1, <1>6 DEF FoldOf

\* The steps of a fold, one for each element.
Runs(g, base, step, t) ==
  /\ g = [i \in 0..Len(t) |-> IF i = 0 THEN base ELSE step[<<g[i - 1], t[i]>>]]

\* What a fold comes to.
Folded(base, step, t) == CHOOSE v : \E g : Runs(g, base, step, t) /\ v = g[Len(t)]

\* What of it matters as long as it stays in S.
FoldIn(f, base, step, S, t) ==
  /\ f[{}] = base
  /\ \A s \in SUBSET DOMAIN t :
       s # {} /\ f[s \ {Max(s)}] \in S => f[s] = step[<<f[s \ {Max(s)}], t[Max(s)]>>]

\* A fold goes through the sequence element by element.
LEMMA FoldRuns ==
  ASSUME NEW C, NEW S, NEW base, NEW step, Steps(base, step, S, C), NEW t \in Seq(C),
         NEW f, FoldIn(f, base, step, S, t)
  PROVE  \E g : /\ Runs(g, base, step, t) /\ f[DOMAIN t] = g[Len(t)]
                /\ \A i \in 0..Len(t) : g[i] \in S
<1> DEFINE N == Len(t)
           g == [i \in 0..N |-> f[1..i]]
<1>0. base \in S /\ step \in [S \X C -> S]
  BY DEF Steps
<1>1. N \in Nat /\ DOMAIN t = 1..N /\ \A i \in 1..N : t[i] \in C
  BY LenProperties, ElementOfSeq
<1> HIDE DEF N
<1>2. \A s \in SUBSET (1..N) :
         s # {} /\ f[s \ {Max(s)}] \in S => f[s] = step[<<f[s \ {Max(s)}], t[Max(s)]>>]
  BY <1>1 DEF FoldIn
<1>3. g[0] = base
  <2>1. 1..0 = {} /\ 0 \in 0..N /\ f[{}] = base
    BY <1>1 DEF FoldIn
  <2> QED BY <2>1
<1>4. \A i \in 1..N : g[i - 1] \in S => g[i] = step[<<g[i - 1], t[i]>>]
  <2> SUFFICES ASSUME NEW i \in 1..N, f[1..(i - 1)] \in S
               PROVE  f[1..i] = step[<<f[1..(i - 1)], t[i]>>]
    <3>1. \A i \in 1..N : i \in 0..N /\ i - 1 \in 0..N
      BY <1>1
    <3> QED BY <3>1
  <2> HIDE DEF g
  <2>1. 1..i \in SUBSET (1..N) /\ 1..i # {} /\ (1..i) \ {i} = 1..(i - 1)
    <3>1. i \in Nat \ {0} /\ i <= N
      BY <1>1
    <3>2. 1..i \subseteq 1..N
      BY <1>1, <3>1
    <3>3. i \in 1..i
      BY <3>1
    <3>4. (1..i) \ {i} = 1..(i - 1)
      BY <3>1
    <3> QED BY <3>2, <3>3, <3>4
  <2>2. Max(1..i) = i
    <3>1. Max(1..i) \in 1..N /\ Max(1..i) \in 1..i /\ \A y \in 1..i : y <= Max(1..i)
      BY <1>1, <2>1, MaxIs
    <3> QED BY <1>1, <3>1
  <2> QED BY <1>2, <2>1, <2>2
<1> HIDE DEF g
<1>5. \A i \in 0..N : g[i] \in S
  <2> DEFINE T == {n \in Nat : n <= N => g[n] \in S}
  <2>1. 0 \in T
    BY <1>0, <1>3
  <2>2. ASSUME NEW n \in Nat, n \in T
        PROVE  n + 1 \in T
    <3> SUFFICES ASSUME n + 1 <= N PROVE g[n + 1] \in S
      OBVIOUS
    <3>1. n + 1 \in 1..N /\ (n + 1) - 1 = n /\ g[n] \in S
      BY <1>1, <2>2
    <3>2. g[n + 1] = step[<<g[n], t[n + 1]>>] /\ t[n + 1] \in C
      BY <1>1, <1>4, <3>1
    <3> QED BY <1>0, <3>1, <3>2
  <2> HIDE DEF T
  <2>3. \A i \in 0..N : i \in T
    BY <1>1, <2>1, <2>2, Induction
  <2> QED BY <1>1, <2>3 DEF T
<1>6. g = [i \in 0..N |-> g[i]]
  BY DEF g
<1>7. \A i \in 0..N : g[i] = IF i = 0 THEN base ELSE step[<<g[i - 1], t[i]>>]
  BY <1>1, <1>3, <1>4, <1>5
<1>8. Runs(g, base, step, t)
  BY <1>6, <1>7 DEF Runs, N
<1>9. f[DOMAIN t] = g[N]
  BY <1>1 DEF g
<1> QED BY <1>5, <1>8, <1>9 DEF N

\* There is one way to go through a sequence, and it goes the same way as long as
\* the elements are the same.
LEMMA RunsAgree ==
  ASSUME NEW base, NEW step, NEW t, NEW u, NEW g, NEW h,
         Len(t) \in Nat, Len(u) \in Nat,
         Runs(g, base, step, t), Runs(h, base, step, u),
         NEW N \in Nat, N <= Len(t), N <= Len(u), \A i \in 1..N : t[i] = u[i]
  PROVE  g[N] = h[N]
<1> DEFINE T == {n \in Nat : n <= N => g[n] = h[n]}
<1>1. \A i \in 0..Len(t) : g[i] = IF i = 0 THEN base ELSE step[<<g[i - 1], t[i]>>]
  BY DEF Runs
<1>2. \A i \in 0..Len(u) : h[i] = IF i = 0 THEN base ELSE step[<<h[i - 1], u[i]>>]
  BY DEF Runs
<1>3. 0 \in T
  <2>1. 0 \in 0..Len(t) /\ 0 \in 0..Len(u)
    OBVIOUS
  <2>2. g[0] = base /\ h[0] = base
    BY <1>1, <1>2, <2>1
  <2> QED BY <2>2
<1>4. ASSUME NEW n \in Nat, n \in T
      PROVE  n + 1 \in T
  <2> SUFFICES ASSUME n + 1 <= N PROVE g[n + 1] = h[n + 1]
    OBVIOUS
  <2>1. n + 1 \in 0..Len(t) /\ n + 1 \in 0..Len(u) /\ n + 1 # 0 /\ (n + 1) - 1 = n
        /\ n + 1 \in 1..N /\ n <= N
    OBVIOUS
  <2>2. g[n + 1] = step[<<g[n], t[n + 1]>>] /\ h[n + 1] = step[<<h[n], u[n + 1]>>]
    BY <1>1, <1>2, <2>1
  <2> QED BY <1>4, <2>1, <2>2
<1> HIDE DEF T
<1>5. N \in T
  BY <1>3, <1>4, Induction
<1> QED BY <1>5 DEF T

\* What a fold comes to, however it is written down.
LEMMA FoldIs ==
  ASSUME NEW C, NEW S, NEW base, NEW step, Steps(base, step, S, C), NEW t \in Seq(C),
         NEW f, FoldIn(f, base, step, S, t)
  PROVE  f[DOMAIN t] = Folded(base, step, t)
<1>0. Len(t) \in Nat
  BY LenProperties
<1>1. PICK g : /\ Runs(g, base, step, t) /\ f[DOMAIN t] = g[Len(t)]
               /\ \A i \in 0..Len(t) : g[i] \in S
  BY FoldRuns
<1>2. \E v : \E h : Runs(h, base, step, t) /\ v = h[Len(t)]
  BY <1>1
<1>3. PICK h : Runs(h, base, step, t) /\ Folded(base, step, t) = h[Len(t)]
  BY <1>2, Zenon DEF Folded
<1>4. g[Len(t)] = h[Len(t)]
  BY <1>0, <1>1, <1>3, RunsAgree
<1> QED BY <1>1, <1>3, <1>4

\* The steps to what a fold comes to.
LEMMA FoldedRuns ==
  ASSUME NEW C, NEW S, NEW base, NEW step, Steps(base, step, S, C), NEW t \in Seq(C)
  PROVE  \E g : /\ Runs(g, base, step, t) /\ Folded(base, step, t) = g[Len(t)]
                /\ \A i \in 0..Len(t) : g[i] \in S
<1>1. PICK f : FoldIn(f, base, step, S, t)
  <2>1. PICK f : FoldOf(f, base, step, t)
    BY FoldExists
  <2>2. FoldIn(f, base, step, S, t)
    <3>1. {} \in SUBSET DOMAIN t
      OBVIOUS
    <3> QED BY <2>1, <3>1 DEF FoldOf, FoldIn
  <2> QED BY <2>2
<1>2. PICK g : /\ Runs(g, base, step, t) /\ f[DOMAIN t] = g[Len(t)]
               /\ \A i \in 0..Len(t) : g[i] \in S
  BY <1>1, FoldRuns
<1>3. f[DOMAIN t] = Folded(base, step, t)
  BY <1>1, FoldIs
<1> QED BY <1>2, <1>3

\* A fold of nothing, and of one element more.
LEMMA FoldedIs ==
  ASSUME NEW C, NEW S, NEW base, NEW step, Steps(base, step, S, C)
  PROVE  /\ Folded(base, step, <<>>) = base
         /\ \A t \in Seq(C) : Folded(base, step, t) \in S
         /\ \A t \in Seq(C), c \in C :
              Folded(base, step, Append(t, c)) = step[<<Folded(base, step, t), c>>]
<1>1. ASSUME NEW t \in Seq(C)
      PROVE  \E g : /\ Runs(g, base, step, t) /\ Folded(base, step, t) = g[Len(t)]
                    /\ g[Len(t)] \in S /\ Len(t) \in Nat
  <2>1. PICK g : /\ Runs(g, base, step, t) /\ Folded(base, step, t) = g[Len(t)]
                 /\ \A i \in 0..Len(t) : g[i] \in S
    BY FoldedRuns
  <2>2. Len(t) \in Nat /\ Len(t) \in 0..Len(t)
    BY LenProperties
  <2> QED BY <2>1, <2>2
<1>2. Folded(base, step, <<>>) = base
  <2>1. <<>> \in Seq(C) /\ Len(<<>>) = 0
    BY EmptySeq
  <2>2. PICK g : Runs(g, base, step, <<>>) /\ Folded(base, step, <<>>) = g[0]
    BY <1>1, <2>1
  <2>3. g[0] = base
    BY <2>1, <2>2 DEF Runs
  <2> QED BY <2>2, <2>3
<1>3. ASSUME NEW t \in Seq(C), NEW c \in C
      PROVE  Folded(base, step, Append(t, c)) = step[<<Folded(base, step, t), c>>]
  <2> DEFINE u == Append(t, c)
             N == Len(t)
  <2>1. /\ u \in Seq(C) /\ N \in Nat /\ Len(u) = N + 1 /\ u[N + 1] = c
        /\ \A i \in 1..N : t[i] = u[i]
    BY Appended
  <2> HIDE DEF u
  <2>2. PICK g : Runs(g, base, step, t) /\ Folded(base, step, t) = g[N]
    BY <1>1
  <2>3. PICK h : Runs(h, base, step, u) /\ Folded(base, step, u) = h[N + 1]
    BY <1>1, <2>1
  <2>4. g[N] = h[N]
    BY <2>1, <2>2, <2>3, RunsAgree
  <2>5. h[N + 1] = step[<<h[N], c>>]
    <3>1. N + 1 \in 0..Len(u) /\ N + 1 # 0 /\ (N + 1) - 1 = N
      BY <2>1
    <3>2. \A i \in 0..Len(u) : h[i] = IF i = 0 THEN base ELSE step[<<h[i - 1], u[i]>>]
      BY <2>3 DEF Runs
    <3> QED BY <2>1, <3>1, <3>2
  <2> QED BY <2>2, <2>3, <2>4, <2>5 DEF u
<1> QED BY <1>1, <1>2, <1>3

-----------------------------------------------------------------------------
(* Pieces of sequences, and sequences of sequences.                        *)

\* A piece cut in two.
LEMMA PieceSplit ==
  ASSUME NEW S, NEW s \in Seq(S), NEW m \in Nat \ {0}, NEW k \in Nat, NEW n \in Nat,
         n <= Len(s), m <= k + 1, k <= n
  PROVE  SubSeq(s, m, n) = SubSeq(s, m, k) \o SubSeq(s, k + 1, n)
<1>1. Len(s) \in Nat
  BY LenProperties
<1>2. m \in 1..(Len(s) + 1) /\ k \in (m - 1)..Len(s) /\ n \in k..Len(s)
  BY <1>1
<1> QED BY <1>2, ConcatAdjacentSubSeq

\* Concatenation is associative.
Associates(s, t, u) == (s \o t) \o u = s \o (t \o u)

LEMMA Associative == \A S : \A s, t, u \in Seq(S) : Associates(s, t, u)
<1> SUFFICES ASSUME NEW S, NEW s \in Seq(S), NEW t \in Seq(S), NEW u \in Seq(S)
             PROVE  (s \o t) \o u = s \o (t \o u)
  BY DEF Associates
<1> QED BY ConcatAssociative

\* Concatenation, one element at a time.
LEMMA ConcatAppend ==
  ASSUME NEW S, NEW s \in Seq(S), NEW t \in Seq(S), NEW e \in S
  PROVE  s \o Append(t, e) = Append(s \o t, e)
<1>1. s \o t \in Seq(S)
  BY ConcatProperties
<1>2. <<e>> \in Seq(S)
  OBVIOUS
<1>3. Append(t, e) = t \o <<e>> /\ Append(s \o t, e) = (s \o t) \o <<e>>
  BY <1>1, AppendIsConcat
<1>4. (s \o t) \o <<e>> = s \o (t \o <<e>>)
  <2>1. Associates(s, t, <<e>>)
    BY <1>2, Associative
  <2> QED BY <2>1 DEF Associates
<1> QED BY <1>3, <1>4

\* FlattenSeq, sequence by sequence.
LEMMA FlatIs ==
  ASSUME NEW C
  PROVE  /\ FlattenSeq(<<>>) = <<>>
         /\ \A ss \in Seq(Seq(C)) : FlattenSeq(ss) \in Seq(C)
         /\ \A ss \in Seq(Seq(C)), s \in Seq(C) :
              FlattenSeq(Append(ss, s)) = FlattenSeq(ss) \o s
<1> DEFINE S == Seq(C)
           step == [p \in S \X S |-> p[1] \o p[2]]
<1>1. \A s, t \in S : step[<<s, t>>] = s \o t
  OBVIOUS
<1>2. Steps(<<>>, step, S, S)
  <2>1. \A s, t \in S : s \o t \in S
    BY ConcatProperties
  <2>2. <<>> \in S
    BY EmptySeq
  <2> HIDE DEF S
  <2> QED BY <2>1, <2>2 DEF Steps
<1> HIDE DEF step
<1>3. <<>> \in Seq(S) /\ Len(<<>>) = 0
  BY EmptySeq
<1>4. FlattenSeq(<<>>) = <<>>
  BY <1>3 DEF FlattenSeq
<1>5. ASSUME NEW ss \in Seq(S)
      PROVE  FlattenSeq(ss) = Folded(<<>>, step, ss)
  <2> DEFINE N == Len(ss)
             Flat(f) == [i \in 1..N |-> IF i = 1 THEN ss[i] ELSE f[i - 1] \o ss[i]]
             flatten == CHOOSE f : f = Flat(f)
  <2>1. PICK g : /\ Runs(g, <<>>, step, ss) /\ Folded(<<>>, step, ss) = g[N]
                 /\ \A i \in 0..N : g[i] \in S
    BY <1>2, FoldedRuns
  <2>2. N \in Nat /\ \A i \in 1..N : ss[i] \in S
    BY LenProperties, ElementOfSeq
  <2>3. CASE N = 0
    <3>1. ss = <<>>
      BY <2>3, EmptySeq
    <3> QED BY <1>2, <1>4, <3>1, FoldedIs
  <2>4. CASE N # 0
    <3>1. FlattenSeq(ss) = flatten[N]
      BY <2>4, Zenon DEF FlattenSeq
    <3> HIDE DEF N
    <3>2. \A i \in 0..N : g[i] = IF i = 0 THEN <<>> ELSE step[<<g[i - 1], ss[i]>>]
      BY <2>1 DEF Runs, N
    <3>3. \A i \in 1..N : i \in 0..N /\ i - 1 \in 0..N /\ i # 0
      BY <2>2
    <3>4. \A i \in 1..N : g[i] = g[i - 1] \o ss[i]
      <4> HIDE DEF S
      <4> QED BY <1>1, <2>1, <2>2, <3>2, <3>3
    <3>5. 1 \in 1..N /\ N \in 1..N
      BY <2>2, <2>4
    <3>6. g[1] = ss[1]
      <4>1. g[0] = <<>> /\ g[1] = g[0] \o ss[1] /\ ss[1] \in Seq(C)
        <5>1. 0 \in 0..N /\ 1 - 1 = 0
          BY <2>2
        <5> HIDE DEF S
        <5> QED BY <2>2, <3>2, <3>4, <3>5, <5>1 DEF S
      <4> QED BY <4>1, ConcatEmptySeq
    <3> DEFINE f == [i \in 1..N |-> g[i]]
    <3>7. f = Flat(f)
      <4>1. \A i \in 1..N : i # 1 => i - 1 \in 1..N
        BY <2>2
      <4> QED BY <3>4, <3>6, <4>1
    <3>8. flatten = Flat(flatten)
      <4> HIDE DEF Flat, f
      <4> QED BY <3>7, Zenon
    <3> HIDE DEF flatten, f
    <3> DEFINE T == {n \in Nat : n + 1 <= N => flatten[n + 1] = g[n + 1]}
    <3>9. 0 \in T
      BY <3>5, <3>6, <3>8
    <3>10. ASSUME NEW n \in Nat, n \in T
           PROVE  n + 1 \in T
      <4> SUFFICES ASSUME (n + 1) + 1 <= N PROVE flatten[(n + 1) + 1] = g[(n + 1) + 1]
        OBVIOUS
      <4>1. /\ (n + 1) + 1 \in 1..N /\ (n + 1) + 1 # 1 /\ ((n + 1) + 1) - 1 = n + 1
            /\ n + 1 <= N
        BY <2>2
      <4>2. flatten[n + 1] = g[n + 1]
        BY <3>10, <4>1
      <4>3. g[(n + 1) + 1] = g[n + 1] \o ss[(n + 1) + 1]
        BY <3>4, <4>1
      <4>4. flatten[(n + 1) + 1] = flatten[n + 1] \o ss[(n + 1) + 1]
        BY <3>8, <4>1
      <4> QED BY <4>2, <4>3, <4>4
    <3> HIDE DEF T
    <3>11. N - 1 \in T /\ (N - 1) + 1 = N
      <4>1. N - 1 \in Nat /\ (N - 1) + 1 = N
        BY <2>2, <3>5
      <4>2. Nat \subseteq T
        BY <3>9, <3>10, Induction
      <4> QED BY <4>1, <4>2
    <3>12. flatten[N] = g[N]
      BY <2>2, <3>11 DEF T
    <3> QED BY <2>1, <3>1, <3>12 DEF N
  <2> QED BY <2>3, <2>4
<1>6. /\ \A ss \in Seq(S) : Folded(<<>>, step, ss) \in S
      /\ \A ss \in Seq(S), s \in S :
           Folded(<<>>, step, Append(ss, s)) = step[<<Folded(<<>>, step, ss), s>>]
  BY <1>2, FoldedIs
<1>7. \A ss \in Seq(S), s \in S : Append(ss, s) \in Seq(S)
  BY AppendProperties
<1> HIDE DEF S
<1> QED BY <1>1, <1>4, <1>5, <1>6, <1>7, ZenonT(40) DEF S

LEMMA FlatConcat ==
  ASSUME NEW C, NEW ss \in Seq(Seq(C)), NEW tt \in Seq(Seq(C))
  PROVE  FlattenSeq(ss \o tt) = FlattenSeq(ss) \o FlattenSeq(tt)
<1> DEFINE P == {uu \in Seq(Seq(C)) : FlattenSeq(ss \o uu) = FlattenSeq(ss) \o FlattenSeq(uu)}
<1>1. <<>> \in P
  <2>1. /\ <<>> \in Seq(Seq(C)) /\ ss \o <<>> = ss
        /\ FlattenSeq(<<>>) = <<>> /\ FlattenSeq(ss) \in Seq(C)
    BY EmptySeq, ConcatEmptySeq, FlatIs
  <2>2. FlattenSeq(ss) \o <<>> = FlattenSeq(ss)
    BY <2>1, ConcatEmptySeq
  <2> QED BY <2>1, <2>2
<1>2. ASSUME NEW uu \in Seq(Seq(C)), NEW s \in Seq(C), uu \in P
      PROVE  Append(uu, s) \in P
  <2>1. /\ ss \o uu \in Seq(Seq(C)) /\ Append(uu, s) \in Seq(Seq(C))
        /\ Append(ss \o uu, s) = ss \o Append(uu, s)
    <3> DEFINE D == Seq(C)
    <3>1. ss \in Seq(D) /\ uu \in Seq(D) /\ s \in D
      OBVIOUS
    <3> HIDE DEF D
    <3>2. ss \o uu \in Seq(D) /\ Append(uu, s) \in Seq(D)
      BY <3>1, ConcatProperties, AppendProperties
    <3>3. ss \o Append(uu, s) = Append(ss \o uu, s)
      BY <3>1, ConcatAppend
    <3> QED BY <3>2, <3>3 DEF D
  <2>2. /\ FlattenSeq(ss) \in Seq(C) /\ FlattenSeq(uu) \in Seq(C)
        /\ FlattenSeq(Append(uu, s)) = FlattenSeq(uu) \o s
        /\ FlattenSeq(Append(ss \o uu, s)) = FlattenSeq(ss \o uu) \o s
    BY <2>1, FlatIs
  <2>3. (FlattenSeq(ss) \o FlattenSeq(uu)) \o s = FlattenSeq(ss) \o (FlattenSeq(uu) \o s)
    <3>1. Associates(FlattenSeq(ss), FlattenSeq(uu), s)
      BY <2>2, Associative
    <3> QED BY <3>1 DEF Associates
  <2> QED BY <1>2, <2>1, <2>2, <2>3
<1> HIDE DEF P
<1>3. tt \in P
  BY <1>1, <1>2, SeqInduction
<1> QED BY <1>3 DEF P

LEMMA FlatOne ==
  ASSUME NEW C, NEW s \in Seq(C)
  PROVE  <<s>> \in Seq(Seq(C)) /\ FlattenSeq(<<s>>) = s
<1>1. <<>> \in Seq(Seq(C)) /\ <<s>> \in Seq(Seq(C)) /\ Append(<<>>, s) = <<s>>
  BY EmptySeq
<1>2. FlattenSeq(Append(<<>>, s)) = FlattenSeq(<<>>) \o s /\ FlattenSeq(<<>>) = <<>>
  BY <1>1, FlatIs
<1> QED BY <1>1, <1>2, ConcatEmptySeq

\* A sequence in which each element is replaced by what h has for it.
Mapped(h, t) == [i \in DOMAIN t |-> h[t[i]]]

Maps(h, C, D) == \A c \in C : h[c] \in D

LEMMA MappedIs ==
  ASSUME NEW C, NEW D, NEW h, Maps(h, C, D)
  PROVE  /\ Mapped(h, <<>>) = <<>>
         /\ \A t \in Seq(C) : Mapped(h, t) \in Seq(D)
         /\ \A t \in Seq(C), c \in C : Mapped(h, Append(t, c)) = Append(Mapped(h, t), h[c])
<1>0. \A c \in C : h[c] \in D
  BY DEF Maps
<1>1. ASSUME NEW t \in Seq(C)
      PROVE  /\ Mapped(h, t) \in Seq(D) /\ Len(Mapped(h, t)) = Len(t)
             /\ \A i \in 1..Len(t) : Mapped(h, t)[i] = h[t[i]]
  <2>1. Len(t) \in Nat /\ DOMAIN t = 1..Len(t) /\ \A i \in 1..Len(t) : t[i] \in C
    BY LenProperties, ElementOfSeq
  <2>2. Mapped(h, t) \in [1..Len(t) -> D]
    BY <1>0, <2>1 DEF Mapped
  <2>3. Mapped(h, t) \in Seq(D)
    BY <2>1, <2>2, SeqDef
  <2>4. Len(Mapped(h, t)) = Len(t)
    BY <2>1, <2>2, <2>3, LenProperties
  <2> QED BY <2>1, <2>3, <2>4 DEF Mapped
<1>2. Mapped(h, <<>>) = <<>>
  <2>1. <<>> \in Seq(C) /\ Len(<<>>) = 0
    BY EmptySeq
  <2>2. Mapped(h, <<>>) \in Seq(D) /\ Len(Mapped(h, <<>>)) = 0
    BY <1>1, <2>1
  <2> QED BY <2>2, EmptySeq
<1>3. ASSUME NEW t \in Seq(C), NEW c \in C
      PROVE  Mapped(h, Append(t, c)) = Append(Mapped(h, t), h[c])
  <2> DEFINE m == Mapped(h, Append(t, c))
             N == Len(t)
  <2>1. /\ Append(t, c) \in Seq(C) /\ Len(Append(t, c)) = N + 1 /\ N \in Nat
        /\ Append(t, c)[N + 1] = c /\ \A i \in 1..N : Append(t, c)[i] = t[i]
    BY Appended
  <2>2. /\ m \in Seq(D) /\ Len(m) = N + 1
        /\ \A i \in 1..(N + 1) : m[i] = h[Append(t, c)[i]]
    BY <1>1, <2>1
  <2>3. /\ Mapped(h, t) \in Seq(D) /\ Len(Mapped(h, t)) = N
        /\ \A i \in 1..N : Mapped(h, t)[i] = h[t[i]]
    BY <1>1
  <2>4. /\ Append(Mapped(h, t), h[c]) \in Seq(D)
        /\ Len(Append(Mapped(h, t), h[c])) = N + 1
        /\ Append(Mapped(h, t), h[c])[N + 1] = h[c]
        /\ \A i \in 1..N : Append(Mapped(h, t), h[c])[i] = Mapped(h, t)[i]
    <3>1. h[c] \in D
      BY <1>0
    <3> QED BY <2>3, <3>1, Appended
  <2> HIDE DEF m, N
  <2>5. \A i \in 1..(N + 1) : i \in 1..N \/ i = N + 1
    BY <2>1
  <2>6. \A i \in 1..(N + 1) : m[i] = Append(Mapped(h, t), h[c])[i]
    BY <2>1, <2>2, <2>3, <2>4, <2>5
  <2>7. m = Append(Mapped(h, t), h[c])
    BY <2>2, <2>4, <2>6, SameSeq
  <2> QED BY <2>7 DEF m
<1> QED BY <1>1, <1>2, <1>3

-----------------------------------------------------------------------------
(* What a reader sees.                                                     *)

Hidden == Blank \cup {Marker}
Shown(c) == IF c \in Hidden THEN <<>> ELSE <<c>>

LEMMA InkIs ==
  /\ Ink(<<>>) = <<>>
  /\ \A t \in Seq(Symbols) : Ink(t) \in Seq(Symbols)
  /\ \A t \in Seq(Symbols), c \in Symbols :
       Ink(Append(t, c)) = Ink(t) \o Shown(c) /\ Shown(c) \in Seq(Symbols)
<1> DEFINE h == [c \in Symbols |-> Shown(c)]
<1>1. \A c \in Symbols : h[c] = Shown(c) /\ h[c] \in Seq(Symbols)
  <2>1. <<>> \in Seq(Symbols) /\ \A c \in Symbols : <<c>> \in Seq(Symbols)
    BY EmptySeq
  <2> QED BY <2>1 DEF Shown
<1>2. \A t \in Seq(Symbols) : Ink(t) = FlattenSeq(Mapped(h, t))
  <2> SUFFICES ASSUME NEW t \in Seq(Symbols) PROVE Ink(t) = FlattenSeq(Mapped(h, t))
    OBVIOUS
  <2>1. \A i \in DOMAIN t : t[i] \in Symbols
    BY LenProperties, ElementOfSeq
  <2>2. Mapped(h, t) = [i \in DOMAIN t |-> Shown(t[i])]
    BY <2>1 DEF Mapped
  <2>3. Ink(t) = FlattenSeq([i \in DOMAIN t |-> Shown(t[i])])
    BY Zenon DEF Ink, Shown, Hidden
  <2> QED BY <2>2, <2>3
<1> HIDE DEF h
<1>3. /\ Mapped(h, <<>>) = <<>>
      /\ \A t \in Seq(Symbols) : Mapped(h, t) \in Seq(Seq(Symbols))
      /\ \A t \in Seq(Symbols), c \in Symbols :
           Mapped(h, Append(t, c)) = Append(Mapped(h, t), h[c])
  <2>1. Maps(h, Symbols, Seq(Symbols))
    BY <1>1 DEF Maps
  <2> QED BY <2>1, MappedIs
<1>4. /\ <<>> \in Seq(Symbols)
      /\ \A t \in Seq(Symbols), c \in Symbols : Append(t, c) \in Seq(Symbols)
  BY EmptySeq, AppendProperties
<1>5. ASSUME NEW t \in Seq(Symbols), NEW c \in Symbols
      PROVE  Ink(Append(t, c)) = Ink(t) \o Shown(c)
  <2>1. FlattenSeq(Append(Mapped(h, t), h[c])) = FlattenSeq(Mapped(h, t)) \o h[c]
    BY <1>1, <1>3, FlatIs
  <2> QED BY <1>1, <1>2, <1>3, <1>4, <2>1
<1>6. \A t \in Seq(Symbols) : Ink(t) \in Seq(Symbols)
  BY <1>2, <1>3, FlatIs
<1>7. Ink(<<>>) = <<>>
  BY <1>2, <1>3, <1>4, FlatIs
<1> QED BY <1>1, <1>5, <1>6, <1>7

LEMMA InkConcat ==
  ASSUME NEW s \in Seq(Symbols), NEW t \in Seq(Symbols)
  PROVE  Ink(s \o t) = Ink(s) \o Ink(t)
<1> DEFINE P == {u \in Seq(Symbols) : Ink(s \o u) = Ink(s) \o Ink(u)}
<1>1. <<>> \in P
  <2>1. <<>> \in Seq(Symbols) /\ s \o <<>> = s /\ Ink(<<>>) = <<>> /\ Ink(s) \in Seq(Symbols)
    BY EmptySeq, ConcatEmptySeq, InkIs
  <2>2. Ink(s) \o <<>> = Ink(s)
    BY <2>1, ConcatEmptySeq
  <2> QED BY <2>1, <2>2
<1>2. ASSUME NEW u \in Seq(Symbols), NEW c \in Symbols, u \in P
      PROVE  Append(u, c) \in P
  <2>1. /\ s \o u \in Seq(Symbols) /\ Append(u, c) \in Seq(Symbols)
        /\ s \o Append(u, c) = Append(s \o u, c)
    <3>1. s \o u \in Seq(Symbols) /\ Append(u, c) \in Seq(Symbols)
      BY ConcatProperties, AppendProperties
    <3>2. s \o Append(u, c) = Append(s \o u, c)
      BY ConcatAppend
    <3> QED BY <3>1, <3>2
  <2>2. /\ Ink(s) \in Seq(Symbols) /\ Ink(u) \in Seq(Symbols) /\ Shown(c) \in Seq(Symbols)
        /\ Ink(Append(u, c)) = Ink(u) \o Shown(c)
        /\ Ink(Append(s \o u, c)) = Ink(s \o u) \o Shown(c)
    BY <2>1, InkIs
  <2>3. (Ink(s) \o Ink(u)) \o Shown(c) = Ink(s) \o (Ink(u) \o Shown(c))
    <3>1. Ink(s) \in Seq(Symbols) /\ Ink(u) \in Seq(Symbols) /\ Shown(c) \in Seq(Symbols)
      BY <2>2
    <3>2. Associates(Ink(s), Ink(u), Shown(c))
      BY <3>1, Associative
    <3> QED BY <3>2 DEF Associates
  <2> QED BY <1>2, <2>1, <2>2, <2>3
<1> HIDE DEF P
<1>3. t \in P
  BY <1>1, <1>2, SeqInduction
<1> QED BY <1>3 DEF P

\* Nothing is seen of blanks and markers.
LEMMA InkHidden ==
  ASSUME NEW t \in Seq(Symbols), \A i \in 1..Len(t) : t[i] \in Hidden
  PROVE  Ink(t) = <<>>
<1> DEFINE P == {u \in Seq(Symbols) : (\A i \in 1..Len(u) : u[i] \in Hidden) => Ink(u) = <<>>}
<1>1. <<>> \in P
  BY EmptySeq, InkIs
<1>2. ASSUME NEW u \in Seq(Symbols), NEW c \in Symbols, u \in P
      PROVE  Append(u, c) \in P
  <2>1. /\ Append(u, c) \in Seq(Symbols) /\ Len(u) \in Nat /\ Len(Append(u, c)) = Len(u) + 1
        /\ Append(u, c)[Len(u) + 1] = c /\ \A i \in 1..Len(u) : Append(u, c)[i] = u[i]
    BY Appended
  <2> SUFFICES ASSUME \A i \in 1..(Len(u) + 1) : Append(u, c)[i] \in Hidden
               PROVE  Ink(Append(u, c)) = <<>>
    BY <2>1
  <2>2. c \in Hidden /\ \A i \in 1..Len(u) : u[i] \in Hidden
    <3>1. Len(u) + 1 \in 1..(Len(u) + 1) /\ \A i \in 1..Len(u) : i \in 1..(Len(u) + 1)
      BY <2>1
    <3> QED BY <2>1, <3>1
  <2>3. Ink(u) = <<>> /\ Shown(c) = <<>>
    BY <1>2, <2>2 DEF Shown
  <2>4. Ink(Append(u, c)) = Ink(u) \o Shown(c) /\ <<>> \in Seq(Symbols)
    BY InkIs, EmptySeq
  <2> QED BY <2>3, <2>4, ConcatEmptySeq
<1> HIDE DEF P
<1>3. t \in P
  BY <1>1, <1>2, SeqInduction
<1> QED BY <1>3 DEF P

-----------------------------------------------------------------------------
(* remove_visual_image_tags and normalize_ocr_blocks, symbol by symbol.    *)

\* What compact adds for a symbol.
CompactAdd(r, c) ==
  IF c # NL THEN Append(r, c)
  ELSE IF Len(r) >= 3 /\ SubSeq(r, Len(r) - 2, Len(r)) = <<NL, NL, NL>>
       THEN r ELSE Append(r, c)

LEMMA CompactIs ==
  /\ Compact(<<>>) = <<>>
  /\ \A t \in Seq(Symbols) : Compact(t) \in Seq(Symbols)
  /\ \A t \in Seq(Symbols), c \in Symbols : Compact(Append(t, c)) = CompactAdd(Compact(t), c)
<1> DEFINE S == Seq(Symbols)
           step == [p \in S \X Symbols |-> CompactAdd(p[1], p[2])]
<1>1. /\ Steps(<<>>, step, S, Symbols)
      /\ \A r \in S, c \in Symbols : step[<<r, c>>] = CompactAdd(r, c)
  <2>1. \A r \in S, c \in Symbols : CompactAdd(r, c) \in S
    BY AppendProperties DEF CompactAdd
  <2>2. <<>> \in S
    BY EmptySeq
  <2> HIDE DEF S
  <2> QED BY <2>1, <2>2 DEF Steps
<1> HIDE DEF step
<1>2. ASSUME NEW t \in Seq(Symbols)
      PROVE  Compact(t) = Folded(<<>>, step, t)
  <2> DEFINE Fold(f) == [s \in SUBSET DOMAIN t |-> 
                          IF s = {} THEN <<>> ELSE CompactAdd(f[s \ {Max(s)}], t[Max(s)])]
             iter == CHOOSE f : f = Fold(f)
  <2>1. PICK f : FoldOf(f, <<>>, step, t) /\ \A s \in SUBSET DOMAIN t : f[s] \in S
    BY <1>1, FoldExists
  <2>2. \A s \in SUBSET DOMAIN t : s # {} => t[Max(s)] \in Symbols
    <3>1. DOMAIN t = 1..Len(t) /\ Len(t) \in Nat /\ \A i \in 1..Len(t) : t[i] \in Symbols
      BY LenProperties, ElementOfSeq
    <3> QED BY <3>1, MaxIs
  <2>3. f = Fold(f)
    BY <1>1, <2>1, <2>2 DEF FoldOf
  <2>4. iter = Fold(iter)
    <3> HIDE DEF Fold
    <3> QED BY <2>3, Zenon
  <2> HIDE DEF iter
  <2>5. FoldIn(iter, <<>>, step, S, t)
    <3>1. iter[{}] = <<>>
      BY <2>4
    <3>2. \A s \in SUBSET DOMAIN t : 
            s # {} => iter[s] = CompactAdd(iter[s \ {Max(s)}], t[Max(s)])
      BY <2>4
    <3> HIDE DEF Fold, S
    <3> QED BY <1>1, <2>2, <3>1, <3>2 DEF FoldIn
  <2>6. iter[DOMAIN t] = Folded(<<>>, step, t)
    <3> HIDE DEF S
    <3> QED BY <1>1, <2>5, FoldIs DEF S
  <2>7. Compact(t) = iter[DOMAIN t]
    BY Zenon DEF Compact, FoldLeft, MapThenFoldSet, CompactAdd, iter
  <2> QED BY <2>6, <2>7
<1> HIDE DEF S
<1>3. <<>> \in Seq(Symbols) /\ \A t \in Seq(Symbols), c \in Symbols : Append(t, c) \in Seq(Symbols)
  BY EmptySeq, AppendProperties
<1>4. /\ Folded(<<>>, step, <<>>) = <<>>
      /\ \A t \in Seq(Symbols) : Folded(<<>>, step, t) \in S
      /\ \A t \in Seq(Symbols), c \in Symbols :
            Folded(<<>>, step, Append(t, c)) = step[<<Folded(<<>>, step, t), c>>]
  BY <1>1, FoldedIs
<1> QED BY <1>1, <1>2, <1>3, <1>4, ZenonT(40) DEF S

\* A place of a sequence is one of its symbols.
LEMMA SymbolsOf ==
  ASSUME NEW t \in Seq(Symbols)
  PROVE  Len(t) \in Nat /\ DOMAIN t = 1..Len(t) /\ \A i \in 1..Len(t) : t[i] \in Symbols
BY LenProperties, ElementOfSeq

\* A piece of a text in which all is hidden.
LEMMA HiddenPiece ==
  ASSUME NEW t \in Seq(Symbols), NEW m \in Nat \ {0}, NEW n \in Nat,
         n <= Len(t), m <= n + 1, \A i \in m..n : t[i] \in Hidden
  PROVE  Ink(SubSeq(t, m, n)) = <<>>
<1> DEFINE u == SubSeq(t, m, n)
<1>1. /\ u \in Seq(Symbols) /\ Len(u) = n - m + 1 /\ n - m + 1 \in Nat
      /\ \A i \in 1..(n - m + 1) : u[i] = t[m + i - 1]
  BY PieceIs
<1> HIDE DEF u
<1>2. \A i \in 1..(n - m + 1) : m + i - 1 \in m..n
  BY <1>1
<1>3. \A i \in 1..Len(u) : u[i] \in Hidden
  BY <1>1, <1>2
<1>4. Ink(u) = <<>>
  BY <1>1, <1>3, InkHidden
<1> QED BY <1>4 DEF u

\* What is seen of a text cut in two.
LEMMA InkSplit ==
  ASSUME NEW t \in Seq(Symbols), NEW m \in Nat \ {0}, NEW k \in Nat, NEW n \in Nat,
         n <= Len(t), m <= k + 1, k <= n
  PROVE  /\ SubSeq(t, m, k) \in Seq(Symbols) /\ SubSeq(t, k + 1, n) \in Seq(Symbols)
         /\ Ink(SubSeq(t, m, n)) = Ink(SubSeq(t, m, k)) \o Ink(SubSeq(t, k + 1, n))
<1>1. SubSeq(t, m, n) = SubSeq(t, m, k) \o SubSeq(t, k + 1, n)
  BY PieceSplit
<1>2. SubSeq(t, m, k) \in Seq(Symbols)
  <2>1. Len(t) \in Nat
    BY SymbolsOf
  <2>2. k <= Len(t)
    BY <2>1
  <2> QED BY <2>2, PieceIs
<1>3. SubSeq(t, k + 1, n) \in Seq(Symbols)
  <2>1. k + 1 \in Nat \ {0} /\ k + 1 <= n + 1
    OBVIOUS
  <2> QED BY <2>1, PieceIs
<1> QED BY <1>1, <1>2, <1>3, InkConcat

\* trim_ascii_whitespace takes nothing away that is seen.
LEMMA TrimmedIs ==
  ASSUME NEW t \in Seq(Symbols)
  PROVE  Trimmed(t) \in Seq(Symbols) /\ Ink(Trimmed(t)) = Ink(t)
<1> DEFINE ink == {i \in DOMAIN t : t[i] \notin Blank}
           N == Len(t)
           a == Min(ink)
           b == Max(ink)
<1>1. N \in Nat /\ DOMAIN t = 1..N /\ \A i \in 1..N : t[i] \in Symbols
  BY SymbolsOf
<1>2. \A i \in 1..N : i \notin ink => t[i] \in Hidden
  BY <1>1 DEF Hidden
<1>3. CASE ink = {}
  <2>1. Trimmed(t) = <<>>
    BY <1>3 DEF Trimmed
  <2>2. Ink(t) = <<>>
    BY <1>2, <1>3, InkHidden
  <2> QED BY <2>1, <2>2, EmptySeq, InkIs
<1>4. CASE ink # {}
  <2>1. Trimmed(t) = SubSeq(t, a, b)
    BY <1>4 DEF Trimmed
  <2>2. ink \subseteq 1..N /\ ink \subseteq Nat
    BY <1>1
  <2> HIDE DEF ink, N
  <2>3. a \in ink /\ a \in Nat /\ \A y \in ink : a <= y
    BY <1>4, <2>2, MinIs
  <2>4. b \in ink /\ b \in 1..N /\ \A y \in ink : y <= b
    BY <1>1, <1>4, <2>2, MaxIs
  <2>5. a \in 1..N /\ a <= b /\ a - 1 \in Nat /\ b \in Nat
    BY <1>1, <2>2, <2>3, <2>4
  <2>6. /\ \A i \in 1..(a - 1) : i \in 1..N /\ i \notin ink
        /\ \A i \in (b + 1)..N : i \in 1..N /\ i \notin ink
    BY <1>1, <2>3, <2>4, <2>5
  <2> HIDE DEF a, b
  <2>7. Ink(SubSeq(t, 1, a - 1)) = <<>>
    <3>1. \A i \in 1..(a - 1) : t[i] \in Hidden
      BY <1>2, <2>6
    <3>2. a - 1 \in Nat /\ a - 1 <= Len(t) /\ 1 <= (a - 1) + 1
      BY <2>5 DEF N
    <3> QED BY <3>1, <3>2, HiddenPiece
  <2>8. Ink(SubSeq(t, b + 1, N)) = <<>>
    <3>1. \A i \in (b + 1)..N : t[i] \in Hidden
      BY <1>2, <2>6
    <3>2. b + 1 \in Nat \ {0} /\ N \in Nat /\ N <= Len(t) /\ b + 1 <= N + 1
      BY <1>1, <2>4 DEF N
    <3> QED BY <3>1, <3>2, HiddenPiece
  <2>9. /\ SubSeq(t, 1, a - 1) \in Seq(Symbols) /\ SubSeq(t, a, N) \in Seq(Symbols)
        /\ Ink(SubSeq(t, 1, N)) = Ink(SubSeq(t, 1, a - 1)) \o Ink(SubSeq(t, a, N))
    <3> DEFINE k == a - 1
    <3>1. /\ k \in Nat /\ N \in Nat /\ N <= Len(t) /\ 1 <= k + 1 /\ k <= N /\ k + 1 = a
          /\ 1 \in Nat \ {0}
      BY <1>1, <2>5 DEF N
    <3> HIDE DEF k
    <3>2. /\ SubSeq(t, 1, k) \in Seq(Symbols) /\ SubSeq(t, k + 1, N) \in Seq(Symbols)
          /\ Ink(SubSeq(t, 1, N)) = Ink(SubSeq(t, 1, k)) \o Ink(SubSeq(t, k + 1, N))
      BY <3>1, InkSplit
    <3> QED BY <3>1, <3>2 DEF k
  <2>10. /\ SubSeq(t, a, b) \in Seq(Symbols) /\ SubSeq(t, b + 1, N) \in Seq(Symbols)
         /\ Ink(SubSeq(t, a, N)) = Ink(SubSeq(t, a, b)) \o Ink(SubSeq(t, b + 1, N))
    <3>1. /\ a \in Nat \ {0} /\ b \in Nat /\ N \in Nat /\ N <= Len(t) /\ a <= b + 1 /\ b <= N
      BY <1>1, <2>4, <2>5 DEF N
    <3> QED BY <3>1, InkSplit
  <2>11. SubSeq(t, 1, N) = t
    BY SubSeqFull DEF N
  <2>12. Ink(SubSeq(t, a, b)) \in Seq(Symbols)
    BY <2>10, InkIs
  <2>13. /\ <<>> \o Ink(SubSeq(t, a, N)) = Ink(SubSeq(t, a, N))
         /\ Ink(SubSeq(t, a, b)) \o <<>> = Ink(SubSeq(t, a, b))
    <3>1. Ink(SubSeq(t, a, N)) \in Seq(Symbols)
      BY <2>9, InkIs
    <3> QED BY <2>12, <3>1, ConcatEmptySeq
  <2> QED BY <2>1, <2>7, <2>8, <2>9, <2>10, <2>11, <2>13
<1> QED BY <1>3, <1>4

\* What is seen of a symbol that is hidden, and of one more symbol.
LEMMA InkAppend ==
  ASSUME NEW t \in Seq(Symbols), NEW c \in Symbols, c \in Hidden
  PROVE  Append(t, c) \in Seq(Symbols) /\ Ink(Append(t, c)) = Ink(t)
<1>1. Ink(Append(t, c)) = Ink(t) \o Shown(c) /\ Shown(c) = <<>> /\ Ink(t) \in Seq(Symbols)
  BY InkIs DEF Shown
<1> QED BY <1>1, AppendProperties, ConcatEmptySeq

\* compact takes nothing away that is seen.
LEMMA CompactInk ==
  ASSUME NEW t \in Seq(Symbols)
  PROVE  Compact(t) \in Seq(Symbols) /\ Ink(Compact(t)) = Ink(t)
<1> DEFINE P == {u \in Seq(Symbols) : Ink(Compact(u)) = Ink(u)}
<1>1. <<>> \in P
  BY CompactIs, EmptySeq
<1>2. ASSUME NEW u \in Seq(Symbols), NEW c \in Symbols, u \in P
      PROVE  Append(u, c) \in P
  <2> DEFINE r == Compact(u)
  <2>1. /\ Append(u, c) \in Seq(Symbols) /\ r \in Seq(Symbols)
        /\ Compact(Append(u, c)) = CompactAdd(r, c)
    BY CompactIs, AppendProperties
  <2>2. Ink(Append(u, c)) = Ink(u) \o Shown(c) /\ Ink(r) = Ink(u)
    BY <1>2, InkIs
  <2> HIDE DEF r
  <2>3. Ink(Append(r, c)) = Ink(r) \o Shown(c)
    BY <2>1, InkIs
  <2>4. CASE CompactAdd(r, c) = Append(r, c)
    BY <2>1, <2>2, <2>3, <2>4
  <2>5. CASE CompactAdd(r, c) # Append(r, c)
    <3>1. c = NL /\ CompactAdd(r, c) = r
      BY <2>5 DEF CompactAdd
    <3>2. c \in Hidden
      BY <3>1 DEF Hidden, Blank
    <3>3. Ink(Append(u, c)) = Ink(u)
      BY <3>2, InkAppend
    <3> QED BY <2>1, <2>2, <3>1, <3>3
  <2> QED BY <2>4, <2>5
<1> HIDE DEF P
<1>3. t \in P
  BY <1>1, <1>2, SeqInduction
<1> QED BY <1>3, CompactIs DEF P

\* What making one line end of two adds for a symbol.
LineEndAdd(r, c) ==
  IF c = CR THEN [cr |-> TRUE, text |-> Append(r.text, NL)]
  ELSE IF c = NL /\ r.cr THEN [r EXCEPT !.cr = FALSE]
  ELSE [cr |-> FALSE, text |-> Append(r.text, c)]

LineEnds == [cr : BOOLEAN, text : Seq(Symbols)]
NoLineEnd == [cr |-> FALSE, text |-> <<>>]
LineEndStep == [p \in LineEnds \X Symbols |-> LineEndAdd(p[1], p[2])]

LEMMA LineEndFolds ==
  /\ Steps(NoLineEnd, LineEndStep, LineEnds, Symbols)
  /\ \A r \in LineEnds, c \in Symbols : LineEndStep[<<r, c>>] = LineEndAdd(r, c)
  /\ \A t \in Seq(Symbols) : OneLineEnd(t) = Folded(NoLineEnd, LineEndStep, t).text
<1> DEFINE S == LineEnds
           C == Symbols
           step == LineEndStep
           base == NoLineEnd
<1>1. /\ Steps(base, step, S, C)
      /\ \A r \in S, c \in C : step[<<r, c>>] = LineEndAdd(r, c)
  <2>1. NoLineEnd \in LineEnds
    BY EmptySeq DEF NoLineEnd, LineEnds
  <2>2. \A r \in LineEnds, c \in Symbols : LineEndAdd(r, c) \in LineEnds
    <3>1. NL \in Symbols /\ \A s \in Seq(Symbols), c \in Symbols : Append(s, c) \in Seq(Symbols)
      BY SymbolFacts, AppendProperties
    <3> QED BY <3>1 DEF LineEndAdd, LineEnds
  <2> QED BY <2>1, <2>2 DEF Steps, LineEndStep
<1> HIDE DEF step
<1>2. ASSUME NEW t \in Seq(C)
      PROVE  OneLineEnd(t) = Folded(base, step, t).text
  <2> DEFINE Fold(f) == [s \in SUBSET DOMAIN t |->
                          IF s = {} THEN base ELSE LineEndAdd(f[s \ {Max(s)}], t[Max(s)])]
             iter == CHOOSE f : f = Fold(f)
  <2>1. PICK f : FoldOf(f, base, step, t) /\ \A s \in SUBSET DOMAIN t : f[s] \in S
    <3> HIDE DEF S, C, base
    <3> QED BY <1>1, FoldExists
  <2>2. \A s \in SUBSET DOMAIN t : s # {} => t[Max(s)] \in C
    <3>1. DOMAIN t = 1..Len(t) /\ Len(t) \in Nat /\ \A i \in 1..Len(t) : t[i] \in C
      BY LenProperties, ElementOfSeq
    <3> HIDE DEF C
    <3> QED BY <3>1, MaxIs
  <2>3. f = Fold(f)
    <3> HIDE DEF S, C, base
    <3> QED BY <1>1, <2>1, <2>2 DEF FoldOf
  <2>4. iter = Fold(iter)
    <3> HIDE DEF Fold
    <3> QED BY <2>3, Zenon
  <2> HIDE DEF iter
  <2>5. FoldIn(iter, base, step, S, t)
    <3> HIDE DEF S, C, base
    <3>1. iter[{}] = base
      BY <2>4
    <3>2. \A s \in SUBSET DOMAIN t :
            s # {} => iter[s] = LineEndAdd(iter[s \ {Max(s)}], t[Max(s)])
      BY <2>4
    <3> HIDE DEF Fold
    <3> QED BY <1>1, <2>2, <3>1, <3>2 DEF FoldIn
  <2>6. iter[DOMAIN t] = Folded(base, step, t)
    <3> HIDE DEF S, C, base
    <3> QED BY <1>1, <2>5, FoldIs
  <2>7. OneLineEnd(t) = iter[DOMAIN t].text
    BY Zenon DEF OneLineEnd, NoLineEnd, FoldLeft, MapThenFoldSet, LineEndAdd, iter
  <2> QED BY <2>6, <2>7
<1> QED BY <1>1, <1>2 DEF step

\* CR and CR NL become NL, and nothing else changes.
LEMMA OneLineEndInk ==
  ASSUME NEW t \in Seq(Symbols)
  PROVE  OneLineEnd(t) \in Seq(Symbols) /\ Ink(OneLineEnd(t)) = Ink(t)
<1> DEFINE R(u) == Folded(NoLineEnd, LineEndStep, u)
           P == {u \in Seq(Symbols) : Ink(R(u).text) = Ink(u)}
<1>1. /\ R(<<>>) = NoLineEnd
      /\ \A u \in Seq(Symbols) : R(u) \in LineEnds
      /\ \A u \in Seq(Symbols), c \in Symbols : R(Append(u, c)) = LineEndStep[<<R(u), c>>]
  BY LineEndFolds, FoldedIs
<1>2. /\ \A u \in Seq(Symbols), c \in Symbols : R(Append(u, c)) = LineEndAdd(R(u), c)
      /\ \A u \in Seq(Symbols) : OneLineEnd(u) = R(u).text /\ R(u).text \in Seq(Symbols)
  <2>1. \A u \in Seq(Symbols) : R(u) \in LineEnds => R(u).text \in Seq(Symbols)
    BY DEF LineEnds
  <2> HIDE DEF R
  <2>2. \A u \in Seq(Symbols) : OneLineEnd(u) = R(u).text
    BY LineEndFolds DEF R
  <2> QED BY <1>1, <2>1, <2>2, LineEndFolds
<1> HIDE DEF R
<1>3. <<>> \in P
  BY <1>1, EmptySeq DEF NoLineEnd
<1>4. ASSUME NEW u \in Seq(Symbols), NEW c \in Symbols, u \in P
      PROVE  Append(u, c) \in P
  <2>1. /\ Append(u, c) \in Seq(Symbols) /\ R(u) \in LineEnds /\ R(u).text \in Seq(Symbols)
        /\ R(Append(u, c)) = LineEndAdd(R(u), c)
        /\ Ink(Append(u, c)) = Ink(u) \o Shown(c) /\ Ink(R(u).text) = Ink(u)
    BY <1>1, <1>2, <1>4, AppendProperties, InkIs
  <2>2. NL \in Hidden /\ CR \in Hidden /\ NL \in Symbols
    BY SymbolFacts DEF Hidden, Blank
  <2>3. CASE c \in {CR, NL}
    <3>1. Ink(Append(u, c)) = Ink(u)
      BY <2>2, <2>3, InkAppend
    <3>2. Ink(Append(R(u).text, NL)) = Ink(R(u).text)
      BY <2>1, <2>2, InkAppend
    <3>3. R(Append(u, c)).text \in {R(u).text, Append(R(u).text, NL)}
      BY <2>1, <2>3 DEF LineEndAdd, LineEnds
    <3> QED BY <2>1, <3>1, <3>2, <3>3
  <2>4. CASE c \notin {CR, NL}
    <3>1. R(Append(u, c)).text = Append(R(u).text, c)
      BY <2>1, <2>4 DEF LineEndAdd
    <3>2. Ink(Append(R(u).text, c)) = Ink(R(u).text) \o Shown(c)
      BY <2>1, InkIs
    <3> QED BY <2>1, <3>1, <3>2
  <2> QED BY <2>3, <2>4
<1> HIDE DEF P
<1>5. t \in P
  BY <1>3, <1>4, SeqInduction
<1> QED BY <1>2, <1>5 DEF P

\* What a symbol adds to the lines.
LinesAdd(ls, c) == IF c = NL THEN Append(ls, <<>>)
                   ELSE [ls EXCEPT ![Len(ls)] = Append(@, c)]

LineLists == Seq(Seq(Symbols)) \ {<<>>}
NoLines == <<<<>>>>
LinesStep == [p \in LineLists \X Symbols |-> LinesAdd(p[1], p[2])]

\* A symbol goes into the last line, or begins one.
LEMMA LinesAddIs ==
  ASSUME NEW ls \in LineLists, NEW c \in Symbols
  PROVE  /\ LinesAdd(ls, c) \in LineLists
         /\ \E front \in Seq(Seq(Symbols)), last \in Seq(Symbols) :
              /\ ls = Append(front, last)
              /\ LinesAdd(ls, c) = IF c = NL THEN Append(ls, <<>>)
                                   ELSE Append(front, Append(last, c))
<1> DEFINE S == Seq(Symbols)
<1>1. ls \in Seq(S) /\ ls # <<>> /\ <<>> \in S /\ \A s \in S : Append(s, c) \in S
  BY EmptySeq, AppendProperties DEF LineLists
<1>2. Seq(S) \ {<<>>} = LineLists
  BY DEF LineLists
<1> HIDE DEF S
<1>3. PICK front \in Seq(S), last \in S : ls = Append(front, last)
  BY <1>1, SequenceEmptyOrAppend
<1>4. /\ Len(front) \in Nat /\ Len(ls) = Len(front) + 1 /\ ls[Len(ls)] = last
      /\ \A i \in 1..Len(front) : ls[i] = front[i]
  BY <1>3, Appended
<1>5. Append(ls, <<>>) \in Seq(S) /\ Append(ls, <<>>) # <<>>
  BY <1>1, AppendProperties
<1> DEFINE new == Append(last, c)
           u == [ls EXCEPT ![Len(ls)] = new]
           v == Append(front, new)
<1>6. new \in S
  BY <1>1
<1> HIDE DEF new
<1>7. /\ v \in Seq(S) /\ v # <<>> /\ Len(v) = Len(front) + 1 /\ v[Len(front) + 1] = new
      /\ \A i \in 1..Len(front) : v[i] = front[i]
  BY <1>6, Appended
<1>8. /\ u \in Seq(S) /\ Len(u) = Len(ls)
      /\ \A j \in 1..Len(ls) : u[j] = IF j = Len(ls) THEN new ELSE ls[j]
  <2>1. Len(ls) \in 1..Len(ls)
    BY <1>4
  <2> QED BY <1>1, <1>6, <2>1, ExceptSeq
<1> HIDE DEF u, v
<1>9. u = v
  <2>1. \A i \in 1..Len(u) : i \in 1..Len(front) \/ i = Len(front) + 1
    BY <1>4, <1>8
  <2>2. \A i \in 1..Len(u) : u[i] = v[i]
    BY <1>4, <1>7, <1>8, <2>1
  <2> QED BY <1>4, <1>7, <1>8, <2>2, SameSeq
<1>10. LinesAdd(ls, c) = IF c = NL THEN Append(ls, <<>>) ELSE v
  <2>1. u = [ls EXCEPT ![Len(ls)] = Append(@, c)]
    BY <1>4 DEF u, new
  <2> QED BY <1>9, <2>1 DEF LinesAdd
<1>11. LinesAdd(ls, c) \in LineLists
  BY <1>2, <1>5, <1>7, <1>10
<1> QED BY <1>3, <1>10, <1>11 DEF S, v, new

LEMMA LinesFolds ==
  /\ Steps(NoLines, LinesStep, LineLists, Symbols)
  /\ \A r \in LineLists, c \in Symbols : LinesStep[<<r, c>>] = LinesAdd(r, c)
  /\ \A t \in Seq(Symbols) : Lines(t) = Folded(NoLines, LinesStep, t)
<1> DEFINE S == LineLists
           C == Symbols
           step == LinesStep
           base == NoLines
<1>1. /\ Steps(base, step, S, C)
      /\ \A r \in S, c \in C : step[<<r, c>>] = LinesAdd(r, c)
  <2>1. NoLines \in LineLists
    <3>1. <<>> \in Seq(Symbols)
      BY EmptySeq
    <3> QED BY <3>1 DEF NoLines, LineLists
  <2>2. \A r \in LineLists, c \in Symbols : LinesAdd(r, c) \in LineLists
    BY LinesAddIs
  <2> QED BY <2>1, <2>2 DEF Steps, LinesStep
<1> HIDE DEF step
<1>2. ASSUME NEW t \in Seq(C)
      PROVE  Lines(t) = Folded(base, step, t)
  <2> DEFINE Fold(f) == [s \in SUBSET DOMAIN t |->
                          IF s = {} THEN base ELSE LinesAdd(f[s \ {Max(s)}], t[Max(s)])]
             iter == CHOOSE f : f = Fold(f)
  <2>1. PICK f : FoldOf(f, base, step, t) /\ \A s \in SUBSET DOMAIN t : f[s] \in S
    <3> HIDE DEF S, C, base
    <3> QED BY <1>1, FoldExists
  <2>2. \A s \in SUBSET DOMAIN t : s # {} => t[Max(s)] \in C
    <3>1. DOMAIN t = 1..Len(t) /\ Len(t) \in Nat /\ \A i \in 1..Len(t) : t[i] \in C
      BY LenProperties, ElementOfSeq
    <3> HIDE DEF C
    <3> QED BY <3>1, MaxIs
  <2>3. f = Fold(f)
    <3> HIDE DEF S, C, base
    <3> QED BY <1>1, <2>1, <2>2 DEF FoldOf
  <2>4. iter = Fold(iter)
    <3> HIDE DEF Fold
    <3> QED BY <2>3, Zenon
  <2> HIDE DEF iter
  <2>5. FoldIn(iter, base, step, S, t)
    <3> HIDE DEF S, C, base
    <3>1. iter[{}] = base
      BY <2>4
    <3>2. \A s \in SUBSET DOMAIN t :
            s # {} => iter[s] = LinesAdd(iter[s \ {Max(s)}], t[Max(s)])
      BY <2>4
    <3> HIDE DEF Fold
    <3> QED BY <1>1, <2>2, <3>1, <3>2 DEF FoldIn
  <2>6. iter[DOMAIN t] = Folded(base, step, t)
    <3> HIDE DEF S, C, base
    <3> QED BY <1>1, <2>5, FoldIs
  <2>7. Lines(t) = iter[DOMAIN t]
    BY Zenon DEF Lines, NoLines, FoldLeft, MapThenFoldSet, LinesAdd, iter
  <2> QED BY <2>6, <2>7
<1> QED BY <1>1, <1>2 DEF step

\* The lines have all that is seen.
LEMMA LinesInk ==
  ASSUME NEW t \in Seq(Symbols)
  PROVE  Lines(t) \in Seq(Seq(Symbols)) /\ Ink(FlattenSeq(Lines(t))) = Ink(t)
<1> DEFINE P == {u \in Seq(Symbols) : Ink(FlattenSeq(Lines(u))) = Ink(u)}
<1>1. /\ Folded(NoLines, LinesStep, <<>>) = NoLines
      /\ \A u \in Seq(Symbols) : Folded(NoLines, LinesStep, u) \in LineLists
      /\ \A u \in Seq(Symbols), c \in Symbols :
           Folded(NoLines, LinesStep, Append(u, c))
             = LinesStep[<<Folded(NoLines, LinesStep, u), c>>]
  BY LinesFolds, FoldedIs
<1>2. <<>> \in Seq(Symbols) /\ \A u \in Seq(Symbols), c \in Symbols : Append(u, c) \in Seq(Symbols)
  BY EmptySeq, AppendProperties
<1>3. /\ Lines(<<>>) = NoLines
      /\ \A u \in Seq(Symbols) : Lines(u) \in LineLists
      /\ \A u \in Seq(Symbols), c \in Symbols : Lines(Append(u, c)) = LinesAdd(Lines(u), c)
  <2>1. \A u \in Seq(Symbols) : Lines(u) = Folded(NoLines, LinesStep, u)
    BY LinesFolds
  <2>2. \A r \in LineLists, c \in Symbols : LinesStep[<<r, c>>] = LinesAdd(r, c)
    BY LinesFolds
  <2> QED BY <1>1, <1>2, <2>1, <2>2, ZenonT(40)
<1>4. <<>> \in P
  <2>1. FlattenSeq(NoLines) = <<>>
    BY <1>2, FlatOne DEF NoLines
  <2> QED BY <1>2, <1>3, <2>1
<1>5. ASSUME NEW u \in Seq(Symbols), NEW c \in Symbols, u \in P
      PROVE  Append(u, c) \in P
  <2>1. PICK front \in Seq(Seq(Symbols)), last \in Seq(Symbols) :
          /\ Lines(u) = Append(front, last)
          /\ LinesAdd(Lines(u), c) = IF c = NL THEN Append(Lines(u), <<>>)
                                     ELSE Append(front, Append(last, c))
    BY <1>3, LinesAddIs
  <2>2. /\ FlattenSeq(Lines(u)) = FlattenSeq(front) \o last
        /\ FlattenSeq(front) \in Seq(Symbols)
    BY <2>1, FlatIs
  <2>3. Ink(FlattenSeq(Lines(u))) = Ink(FlattenSeq(front)) \o Ink(last) /\ Ink(last) \in Seq(Symbols)
        /\ Ink(FlattenSeq(front)) \in Seq(Symbols)
    BY <2>1, <2>2, InkConcat, InkIs
  <2>4. CASE c = NL
    <3>1. Lines(u) \in Seq(Seq(Symbols)) /\ FlattenSeq(Lines(u)) \in Seq(Symbols)
      BY <1>3, FlatIs DEF LineLists
    <3>2. FlattenSeq(Append(Lines(u), <<>>)) = FlattenSeq(Lines(u)) \o <<>>
      BY <1>2, <3>1, FlatIs
    <3>3. FlattenSeq(Append(Lines(u), <<>>)) = FlattenSeq(Lines(u))
      BY <3>1, <3>2, ConcatEmptySeq
    <3>4. Ink(Append(u, c)) = Ink(u)
      BY <2>4, SymbolFacts, InkAppend DEF Hidden, Blank
    <3> QED BY <1>2, <1>3, <1>5, <2>1, <2>4, <3>3, <3>4
  <2>5. CASE c # NL
    <3>1. Append(last, c) \in Seq(Symbols)
      BY <1>2
    <3>2. FlattenSeq(Append(front, Append(last, c))) = FlattenSeq(front) \o Append(last, c)
      BY <3>1, FlatIs
    <3>3. Ink(FlattenSeq(front) \o Append(last, c))
            = Ink(FlattenSeq(front)) \o Ink(Append(last, c))
      BY <2>2, <3>1, InkConcat
    <3>4. /\ Ink(Append(last, c)) = Ink(last) \o Shown(c) /\ Shown(c) \in Seq(Symbols)
          /\ Ink(Append(u, c)) = Ink(u) \o Shown(c)
      BY InkIs
    <3>5. (Ink(FlattenSeq(front)) \o Ink(last)) \o Shown(c)
            = Ink(FlattenSeq(front)) \o (Ink(last) \o Shown(c))
      <4> DEFINE x == Ink(FlattenSeq(front))
                 y == Ink(last)
                 z == Shown(c)
      <4>1. x \in Seq(Symbols) /\ y \in Seq(Symbols) /\ z \in Seq(Symbols)
        BY <2>3, <3>4
      <4> HIDE DEF x, y, z
      <4>2. (x \o y) \o z = x \o (y \o z)
        <5>1. Associates(x, y, z)
          BY <4>1, Associative
        <5> QED BY <5>1 DEF Associates
      <4> QED BY <4>2 DEF x, y, z
    <3> QED BY <1>2, <1>3, <1>5, <2>1, <2>3, <2>5, <3>2, <3>3, <3>4, <3>5
  <2> QED BY <2>4, <2>5
<1> HIDE DEF P
<1>6. t \in P
  BY <1>4, <1>5, SeqInduction
<1> QED BY <1>3, <1>6 DEF P, LineLists

\* What a line adds to the blocks.
BlockAdd(bs, l) ==
  IF Trimmed(l) = <<Marker>>
  THEN [done |-> Ended(bs), current |-> <<>>, seen |-> TRUE]
  ELSE [bs EXCEPT !.current = IF @ = <<>> THEN l ELSE @ \o <<NL>> \o l]

BlockStates == [done : Seq(Seq(Symbols)), current : Seq(Symbols), seen : BOOLEAN]
NoBlocks == [done |-> <<>>, current |-> <<>>, seen |-> FALSE]
BlockStep == [p \in BlockStates \X Seq(Symbols) |-> BlockAdd(p[1], p[2])]

\* What is seen of the blocks so far.
BlockInk(bs) == Ink(FlattenSeq(bs.done)) \o Ink(bs.current)

\* Nothing is seen of one hidden symbol.
LEMMA InkOne ==
  ASSUME NEW c \in Symbols, c \in Hidden
  PROVE  <<c>> \in Seq(Symbols) /\ Ink(<<c>>) = <<>>
<1>1. <<>> \in Seq(Symbols) /\ Append(<<>>, c) = <<c>> /\ Ink(<<>>) = <<>>
  BY EmptySeq, InkIs
<1> QED BY <1>1, InkAppend

\* The end of a block takes nothing away.
LEMMA EndedInk ==
  ASSUME NEW bs \in BlockStates
  PROVE  Ended(bs) \in Seq(Seq(Symbols)) /\ Ink(FlattenSeq(Ended(bs))) = BlockInk(bs)
<1> DEFINE d == bs.done
           k == Trimmed(bs.current)
           S == Seq(Symbols)
<1>1. d \in Seq(S) /\ bs.current \in S /\ k \in S /\ Ink(k) = Ink(bs.current)
  BY TrimmedIs DEF BlockStates
<1>2. FlattenSeq(d) \in S /\ FlattenSeq(Append(d, k)) = FlattenSeq(d) \o k
  BY <1>1, FlatIs
<1>3. Append(d, k) \in Seq(S)
  <2> HIDE DEF d, k, S
  <2> QED BY <1>1, AppendProperties
<1>4. BlockInk(bs) = Ink(FlattenSeq(d)) \o Ink(k)
  BY <1>1 DEF BlockInk
<1>5. Ended(bs) = IF k = <<>> THEN d ELSE Append(d, k)
  BY DEF Ended
<1> HIDE DEF d, k
<1>6. CASE k = <<>>
  <2>1. Ink(k) = <<>> /\ Ink(FlattenSeq(d)) \in S
    BY <1>2, <1>6, InkIs
  <2>2. BlockInk(bs) = Ink(FlattenSeq(d))
    BY <1>4, <2>1, ConcatEmptySeq
  <2> QED BY <1>1, <1>5, <1>6, <2>2
<1>7. CASE k # <<>>
  <2>1. Ink(FlattenSeq(d) \o k) = Ink(FlattenSeq(d)) \o Ink(k)
    BY <1>1, <1>2, InkConcat
  <2> QED BY <1>2, <1>3, <1>4, <1>5, <1>7, <2>1
<1> QED BY <1>6, <1>7

\* One line more, and all that is seen of it.
LEMMA BlockAddInk ==
  ASSUME NEW bs \in BlockStates, NEW l \in Seq(Symbols)
  PROVE  BlockAdd(bs, l) \in BlockStates /\ BlockInk(BlockAdd(bs, l)) = BlockInk(bs) \o Ink(l)
<1> DEFINE new == BlockAdd(bs, l)
           S == Seq(Symbols)
<1>1. /\ bs.done \in Seq(S) /\ bs.current \in S /\ bs.seen \in BOOLEAN
      /\ FlattenSeq(bs.done) \in S /\ Ink(FlattenSeq(bs.done)) \in S
      /\ Ink(bs.current) \in S /\ Ink(l) \in S
  <2>1. bs.done \in Seq(S) /\ bs.current \in S /\ bs.seen \in BOOLEAN
    BY DEF BlockStates
  <2>2. FlattenSeq(bs.done) \in S
    BY <2>1, FlatIs
  <2> QED BY <2>1, <2>2, InkIs
<1>2. CASE Trimmed(l) = <<Marker>>
  <2>1. new = [done |-> Ended(bs), current |-> <<>>, seen |-> TRUE]
    BY <1>2 DEF BlockAdd
  <2>2. Ended(bs) \in Seq(S) /\ Ink(FlattenSeq(Ended(bs))) = BlockInk(bs)
    BY EndedInk
  <2>3. Ink(l) = <<>>
    <3>1. Ink(<<Marker>>) = <<>>
      BY SymbolFacts, InkOne DEF Hidden
    <3> QED BY <1>2, <3>1, TrimmedIs
  <2>4. <<>> \in S /\ Ink(<<>>) = <<>>
    BY EmptySeq, InkIs
  <2>5. new \in BlockStates
    BY <2>1, <2>2, <2>4 DEF BlockStates
  <2>6. BlockInk(new) = BlockInk(bs) \o <<>>
    <3>1. new.done = Ended(bs) /\ new.current = <<>>
      BY <2>1
    <3> HIDE DEF new
    <3>2. BlockInk(new) = Ink(FlattenSeq(new.done)) \o Ink(new.current)
      BY DEF BlockInk
    <3> QED BY <2>2, <2>4, <3>1, <3>2
  <2> QED BY <2>3, <2>5, <2>6
<1>3. CASE Trimmed(l) # <<Marker>>
  <2> DEFINE c == IF bs.current = <<>> THEN l ELSE bs.current \o <<NL>> \o l
  <2>1. new = [bs EXCEPT !.current = c]
    BY <1>3 DEF BlockAdd
  <2>2. c \in S /\ Ink(c) = Ink(bs.current) \o Ink(l)
    <3>1. CASE bs.current = <<>>
      BY <1>1, <3>1, InkIs, ConcatEmptySeq
    <3>2. CASE bs.current # <<>>
      <4> DEFINE m == bs.current \o <<NL>>
      <4>1. <<NL>> \in S /\ Ink(<<NL>>) = <<>>
        BY SymbolFacts, InkOne DEF Hidden, Blank
      <4>2. m \in S /\ Ink(m) = Ink(bs.current) \o <<>>
        BY <1>1, <4>1, InkConcat, ConcatProperties
      <4>3. Ink(m) = Ink(bs.current)
        BY <1>1, <4>2, ConcatEmptySeq
      <4>4. c = m \o l
        BY <3>2
      <4> HIDE DEF m, c
      <4>5. m \o l \in S /\ Ink(m \o l) = Ink(m) \o Ink(l)
        BY <4>2, InkConcat, ConcatProperties
      <4> QED BY <4>3, <4>4, <4>5
    <3> QED BY <3>1, <3>2
  <2> HIDE DEF c
  <2>3. new \in BlockStates /\ new.done = bs.done /\ new.current = c
    BY <1>1, <2>1, <2>2 DEF BlockStates
  <2> DEFINE x == Ink(FlattenSeq(bs.done))
             y == Ink(bs.current)
             z == Ink(l)
  <2>4. BlockInk(new) = x \o (y \o z) /\ BlockInk(bs) = x \o y
    BY <2>2, <2>3 DEF BlockInk
  <2>5. x \in S /\ y \in S /\ z \in S
    BY <1>1
  <2> HIDE DEF x, y, z, new
  <2>6. (x \o y) \o z = x \o (y \o z)
    <3>1. Associates(x, y, z)
      BY <2>5, Associative
    <3> QED BY <3>1 DEF Associates
  <2> QED BY <2>3, <2>4, <2>6 DEF new, z
<1> QED BY <1>2, <1>3

LEMMA BlockFolds ==
  /\ Steps(NoBlocks, BlockStep, BlockStates, Seq(Symbols))
  /\ \A r \in BlockStates, c \in Seq(Symbols) : BlockStep[<<r, c>>] = BlockAdd(r, c)
  /\ \A u \in Seq(Symbols) : Blocks(u) = Folded(NoBlocks, BlockStep, Lines(u))
<1> DEFINE S == BlockStates
           C == Seq(Symbols)
           step == BlockStep
           base == NoBlocks
<1>1. /\ Steps(base, step, S, C)
      /\ \A r \in S, c \in C : step[<<r, c>>] = BlockAdd(r, c)
  <2>1. NoBlocks \in BlockStates
    <3>1. <<>> \in Seq(Symbols) /\ <<>> \in Seq(Seq(Symbols))
      BY EmptySeq
    <3> QED BY <3>1 DEF NoBlocks, BlockStates
  <2>2. \A r \in BlockStates, c \in Seq(Symbols) : BlockAdd(r, c) \in BlockStates
    BY BlockAddInk
  <2> QED BY <2>1, <2>2 DEF Steps, BlockStep
<1> HIDE DEF step
<1>2. ASSUME NEW u \in Seq(Symbols)
      PROVE  Blocks(u) = Folded(base, step, Lines(u))
  <2> DEFINE t == Lines(u)
  <2>0. t \in Seq(C)
    BY LinesInk
  <2> DEFINE Fold(f) == [s \in SUBSET DOMAIN t |->
                          IF s = {} THEN base ELSE BlockAdd(f[s \ {Max(s)}], t[Max(s)])]
             iter == CHOOSE f : f = Fold(f)
  <2>1. PICK f : FoldOf(f, base, step, t) /\ \A s \in SUBSET DOMAIN t : f[s] \in S
    <3> HIDE DEF S, C, base
    <3> HIDE DEF t
    <3> QED BY <1>1, <2>0, FoldExists
  <2>2. \A s \in SUBSET DOMAIN t : s # {} => t[Max(s)] \in C
    <3>1. DOMAIN t = 1..Len(t) /\ Len(t) \in Nat /\ \A i \in 1..Len(t) : t[i] \in C
      BY <2>0, LenProperties, ElementOfSeq
    <3> HIDE DEF C
    <3> QED BY <3>1, MaxIs
  <2>3. f = Fold(f)
    <3> HIDE DEF S, C, base, t
    <3> QED BY <1>1, <2>1, <2>2 DEF FoldOf
  <2>4. iter = Fold(iter)
    <3> HIDE DEF Fold
    <3> QED BY <2>3, Zenon
  <2> HIDE DEF iter
  <2>5. FoldIn(iter, base, step, S, t)
    <3> HIDE DEF S, C, base, t
    <3>1. iter[{}] = base
      BY <2>4
    <3>2. \A s \in SUBSET DOMAIN t :
            s # {} => iter[s] = BlockAdd(iter[s \ {Max(s)}], t[Max(s)])
      BY <2>4
    <3> HIDE DEF Fold
    <3> QED BY <1>1, <2>2, <3>1, <3>2 DEF FoldIn
  <2>6. iter[DOMAIN t] = Folded(base, step, t)
    <3> HIDE DEF S, C, base, t
    <3> QED BY <1>1, <2>0, <2>5, FoldIs
  <2>7. Blocks(u) = iter[DOMAIN t]
    BY Zenon DEF Blocks, NoBlocks, FoldLeft, MapThenFoldSet, BlockAdd, iter
  <2> QED BY <2>6, <2>7
<1> QED BY <1>1, <1>2 DEF step

\* The blocks have all that is seen of a text.
LEMMA BlocksInk ==
  ASSUME NEW t \in Seq(Symbols)
  PROVE  Blocks(t) \in BlockStates /\ BlockInk(Blocks(t)) = Ink(t)
<1> DEFINE F(ls) == Folded(NoBlocks, BlockStep, ls)
           S == Seq(Symbols)
           P == {ls \in Seq(S) : BlockInk(F(ls)) = Ink(FlattenSeq(ls))}
<1>1. /\ F(<<>>) = NoBlocks
      /\ \A ls \in Seq(S) : F(ls) \in BlockStates
      /\ \A ls \in Seq(S), l \in S : F(Append(ls, l)) = BlockStep[<<F(ls), l>>]
  BY BlockFolds, FoldedIs
<1>2. \A ls \in Seq(S), l \in S : F(Append(ls, l)) = BlockAdd(F(ls), l)
  <2>1. \A r \in BlockStates, l \in S : BlockStep[<<r, l>>] = BlockAdd(r, l)
    BY BlockFolds
  <2> HIDE DEF F, S
  <2> QED BY <1>1, <2>1
<1>3. Blocks(t) = F(Lines(t)) /\ Lines(t) \in Seq(S) /\ Ink(FlattenSeq(Lines(t))) = Ink(t)
  BY BlockFolds, LinesInk
<1> HIDE DEF F
<1>4. <<>> \in P
  <2>1. BlockInk(NoBlocks) = <<>> /\ FlattenSeq(<<>>) = <<>> /\ Ink(<<>>) = <<>>
        /\ <<>> \in Seq(S)
    <3>1. FlattenSeq(<<>>) = <<>> /\ Ink(<<>>) = <<>> /\ <<>> \in Seq(S)
      BY FlatIs, InkIs, EmptySeq
    <3> QED BY <3>1 DEF BlockInk, NoBlocks
  <2> QED BY <1>1, <2>1
<1>5. ASSUME NEW ls \in Seq(S), NEW l \in S, ls \in P
      PROVE  Append(ls, l) \in P
  <2>1. Append(ls, l) \in Seq(S)
    <3> HIDE DEF S
    <3> QED BY AppendProperties
  <2>2. BlockInk(F(Append(ls, l))) = BlockInk(F(ls)) \o Ink(l)
    BY <1>1, <1>2, BlockAddInk
  <2>3. FlattenSeq(Append(ls, l)) = FlattenSeq(ls) \o l /\ FlattenSeq(ls) \in S
    BY FlatIs
  <2>4. Ink(FlattenSeq(ls) \o l) = Ink(FlattenSeq(ls)) \o Ink(l)
    BY <2>3, InkConcat
  <2> QED BY <1>5, <2>1, <2>2, <2>3, <2>4
<1> HIDE DEF P, S
<1>6. Lines(t) \in P
  BY <1>3, <1>4, <1>5, SeqInduction
<1> QED BY <1>1, <1>3, <1>6 DEF P, S

\* Texts with what stands between them.
Between(ts, by) == [i \in DOMAIN ts |-> IF i = 1 THEN ts[i] ELSE by \o ts[i]]

LEMMA BetweenIs ==
  ASSUME NEW C, NEW by \in Seq(C)
  PROVE  /\ Between(<<>>, by) = <<>>
         /\ \A ts \in Seq(Seq(C)) : Between(ts, by) \in Seq(Seq(C))
         /\ \A ts \in Seq(Seq(C)), s \in Seq(C) :
              Between(Append(ts, s), by)
                = Append(Between(ts, by), IF ts = <<>> THEN s ELSE by \o s)
<1> DEFINE S == Seq(C)
<1>0. \A s \in S : by \o s \in S
  BY ConcatProperties
<1> HIDE DEF S
<1>1. ASSUME NEW ts \in Seq(S)
      PROVE  /\ Between(ts, by) \in Seq(S) /\ Len(Between(ts, by)) = Len(ts) /\ Len(ts) \in Nat
             /\ \A i \in 1..Len(ts) : Between(ts, by)[i] = IF i = 1 THEN ts[i] ELSE by \o ts[i]
  <2>1. Len(ts) \in Nat /\ DOMAIN ts = 1..Len(ts) /\ \A i \in 1..Len(ts) : ts[i] \in S
    BY LenProperties, ElementOfSeq
  <2>2. Between(ts, by) \in [1..Len(ts) -> S]
    BY <1>0, <2>1 DEF Between
  <2>3. Between(ts, by) \in Seq(S)
    BY <2>1, <2>2, SeqDef
  <2>4. Len(Between(ts, by)) = Len(ts)
    BY <2>1, <2>2, <2>3, LenProperties
  <2> QED BY <2>1, <2>3, <2>4 DEF Between
<1>2. Between(<<>>, by) = <<>>
  <2>1. <<>> \in Seq(S) /\ Len(<<>>) = 0
    BY EmptySeq
  <2>2. Between(<<>>, by) \in Seq(S) /\ Len(Between(<<>>, by)) = 0
    BY <1>1, <2>1
  <2> QED BY <2>2, EmptySeq
<1>3. ASSUME NEW ts \in Seq(S), NEW s \in S
      PROVE  Between(Append(ts, s), by)
               = Append(Between(ts, by), IF ts = <<>> THEN s ELSE by \o s)
  <2> DEFINE N == Len(ts)
             m == Between(Append(ts, s), by)
             e == IF ts = <<>> THEN s ELSE by \o s
             v == Append(Between(ts, by), e)
  <2>1. /\ Append(ts, s) \in Seq(S) /\ Len(Append(ts, s)) = N + 1 /\ N \in Nat
        /\ Append(ts, s)[N + 1] = s /\ \A i \in 1..N : Append(ts, s)[i] = ts[i]
    BY Appended
  <2>2. /\ m \in Seq(S) /\ Len(m) = N + 1
        /\ \A i \in 1..(N + 1) :
             m[i] = IF i = 1 THEN Append(ts, s)[i] ELSE by \o Append(ts, s)[i]
    BY <1>1, <2>1
  <2>3. /\ Between(ts, by) \in Seq(S) /\ Len(Between(ts, by)) = N
        /\ \A i \in 1..N : Between(ts, by)[i] = IF i = 1 THEN ts[i] ELSE by \o ts[i]
    BY <1>1
  <2>4. e \in S
    BY <1>0
  <2>5. ts = <<>> <=> N = 0
    BY EmptySeq
  <2>6. m[N + 1] = e
    <3>1. N + 1 \in 1..(N + 1) /\ (N + 1 = 1 <=> N = 0)
      BY <2>1
    <3> HIDE DEF m, N
    <3> QED BY <2>1, <2>2, <2>5, <3>1
  <2> HIDE DEF m, e
  <2>7. /\ v \in Seq(S) /\ Len(v) = N + 1 /\ v[N + 1] = e
        /\ \A i \in 1..N : v[i] = Between(ts, by)[i]
    BY <2>3, <2>4, Appended
  <2> HIDE DEF v, N
  <2>8. \A i \in 1..(N + 1) : i \in 1..N \/ i = N + 1
    BY <2>1
  <2>9. \A i \in 1..(N + 1) : m[i] = v[i]
    <3> SUFFICES ASSUME NEW i \in 1..N PROVE m[i] = v[i]
      BY <2>6, <2>7, <2>8
    <3>1. i \in 1..(N + 1)
      BY <2>1
    <3>2. m[i] = IF i = 1 THEN ts[i] ELSE by \o ts[i]
      BY <2>1, <2>2, <3>1
    <3> QED BY <2>3, <2>7, <3>2
  <2>10. m = v
    BY <2>2, <2>7, <2>9, SameSeq
  <2> QED BY <2>10 DEF m, v, e
<1> QED BY <1>1, <1>2, <1>3 DEF S

\* Texts with blanks between them show what the texts show.
LEMMA JoinedInk ==
  ASSUME NEW ts \in Seq(Seq(Symbols)), NEW by \in Seq(Symbols), Ink(by) = <<>>
  PROVE  Joined(ts, by) \in Seq(Symbols) /\ Ink(Joined(ts, by)) = Ink(FlattenSeq(ts))
<1> DEFINE S == Seq(Symbols)
           P == {us \in Seq(S) : Ink(Joined(us, by)) = Ink(FlattenSeq(us))}
<1>1. \A us \in Seq(S) : /\ Joined(us, by) = FlattenSeq(Between(us, by))
                         /\ Between(us, by) \in Seq(S) /\ Joined(us, by) \in S
  <2>1. \A us : Joined(us, by) = FlattenSeq(Between(us, by))
    BY Zenon DEF Joined, Between
  <2>2. \A us \in Seq(S) : Between(us, by) \in Seq(S)
    BY BetweenIs
  <2> QED BY <2>1, <2>2, FlatIs
<1>2. <<>> \in P
  <2>1. <<>> \in Seq(S) /\ Between(<<>>, by) = <<>>
    BY EmptySeq, BetweenIs
  <2> QED BY <1>1, <2>1
<1>3. ASSUME NEW us \in Seq(S), NEW s \in S, us \in P
      PROVE  Append(us, s) \in P
  <2> DEFINE e == IF us = <<>> THEN s ELSE by \o s
  <2>1. Append(us, s) \in Seq(S)
    <3> HIDE DEF S
    <3> QED BY AppendProperties
  <2>2. Between(Append(us, s), by) = Append(Between(us, by), e)
    BY BetweenIs
  <2>3. e \in S /\ Ink(e) = Ink(s)
    <3>1. Ink(s) \in S /\ by \o s \in S /\ Ink(by \o s) = <<>> \o Ink(s)
      BY InkIs, InkConcat, ConcatProperties
    <3> QED BY <3>1, ConcatEmptySeq
  <2> HIDE DEF e
  <2>4. Joined(Append(us, s), by) = Joined(us, by) \o e
    BY <1>1, <2>1, <2>2, <2>3, FlatIs
  <2>5. Ink(Joined(us, by) \o e) = Ink(Joined(us, by)) \o Ink(e)
    BY <1>1, <2>3, InkConcat
  <2>6. FlattenSeq(Append(us, s)) = FlattenSeq(us) \o s /\ FlattenSeq(us) \in S
    BY FlatIs
  <2>7. Ink(FlattenSeq(us) \o s) = Ink(FlattenSeq(us)) \o Ink(s)
    BY <2>6, InkConcat
  <2> QED BY <1>3, <2>1, <2>3, <2>4, <2>5, <2>6, <2>7
<1>4. ts \in P
  <2> HIDE DEF P, S
  <2> QED BY <1>2, <1>3, SeqInduction DEF S
<1> QED BY <1>1, <1>4

\* Nothing is seen of the boundaries between paragraphs and between blocks.
LEMMA BoundaryInk ==
  /\ <<NL, NL, NL>> \in Seq(Symbols) /\ Len(<<NL, NL, NL>>) = 3 /\ Ink(<<NL, NL, NL>>) = <<>>
  /\ <<NL, NL>> \in Seq(Symbols) /\ Len(<<NL, NL>>) = 2 /\ Ink(<<NL, NL>>) = <<>>
<1>1. NL \in Symbols /\ NL \in Hidden
  BY SymbolFacts DEF Hidden, Blank
<1>2. /\ <<NL, NL, NL>> \in Seq(Symbols) /\ Len(<<NL, NL, NL>>) = 3
      /\ \A i \in 1..3 : <<NL, NL, NL>>[i] = NL
  BY <1>1
<1>3. /\ <<NL, NL>> \in Seq(Symbols) /\ Len(<<NL, NL>>) = 2
      /\ \A i \in 1..2 : <<NL, NL>>[i] = NL
  BY <1>1
<1>4. \A i \in 1..Len(<<NL, NL, NL>>) : <<NL, NL, NL>>[i] \in Hidden
  BY <1>1, <1>2
<1>5. \A i \in 1..Len(<<NL, NL>>) : <<NL, NL>>[i] \in Hidden
  BY <1>1, <1>3
<1> QED BY <1>2, <1>3, <1>4, <1>5, InkHidden

\* normalize_ocr_blocks loses nothing that is seen.
LEMMA NormalizedInk ==
  ASSUME NEW t \in Seq(Symbols)
  PROVE  Normalized(t) \in Seq(Symbols) /\ Ink(Normalized(t)) = Ink(t)
<1> DEFINE one == OneLineEnd(t)
           compact == Compact(one)
           blocks == Blocks(compact)
<1>1. one \in Seq(Symbols) /\ Ink(one) = Ink(t)
  BY OneLineEndInk
<1> HIDE DEF one
<1>2. compact \in Seq(Symbols) /\ Ink(compact) = Ink(t)
  BY <1>1, CompactInk
<1> HIDE DEF compact
<1>3. blocks \in BlockStates /\ BlockInk(blocks) = Ink(t)
  BY <1>2, BlocksInk
<1>4. Normalized(t) = IF blocks.seen THEN Joined(Ended(blocks), BlockBoundary)
                      ELSE Trimmed(compact)
  BY Zenon DEF Normalized, one, compact, blocks
<1> HIDE DEF blocks
<1>5. BlockBoundary \in Seq(Symbols) /\ Ink(BlockBoundary) = <<>>
  BY BoundaryInk DEF BlockBoundary
<1>6. Ended(blocks) \in Seq(Seq(Symbols)) /\ Ink(FlattenSeq(Ended(blocks))) = Ink(t)
  BY <1>3, EndedInk
<1>7. /\ Joined(Ended(blocks), BlockBoundary) \in Seq(Symbols)
      /\ Ink(Joined(Ended(blocks), BlockBoundary)) = Ink(t)
  BY <1>5, <1>6, JoinedInk
<1>8. Trimmed(compact) \in Seq(Symbols) /\ Ink(Trimmed(compact)) = Ink(t)
  BY <1>2, TrimmedIs
<1> QED BY <1>4, <1>7, <1>8

-----------------------------------------------------------------------------
(* Searches, and functions that call themselves for later places.          *)

\* What find returns.
LEMMA FindIs ==
  ASSUME NEW t \in Seq(Symbols), NEW what, Len(what) \in Nat \ {0}, NEW i \in 1..(Len(t) + 1)
  PROVE  /\ Find(t, what, i) \in Nat /\ i <= Find(t, what, i) /\ Find(t, what, i) <= Len(t) + 1
         /\ Find(t, what, i) <= Len(t) =>
              /\ Find(t, what, i) + Len(what) <= Len(t) + 1
              /\ SubSeq(t, Find(t, what, i), Find(t, what, i) + Len(what) - 1) = what
<1> DEFINE T == Places(t, what, i) \cup {Len(t) + 1}
           k == Min(T)
<1>1. Len(t) \in Nat
  BY SymbolsOf
<1>2. \A x \in Places(t, what, i) : /\ x \in Nat /\ i <= x /\ x + Len(what) <= Len(t) + 1
                                    /\ SubSeq(t, x, x + Len(what) - 1) = what
  BY <1>1 DEF Places
<1>3. T \subseteq Nat /\ T # {}
  BY <1>1, <1>2
<1> HIDE DEF T
<1>4. k \in T
  BY <1>3, MinIs
<1>5. k \in Places(t, what, i) \/ k = Len(t) + 1
  BY <1>4 DEF T
<1>6. Find(t, what, i) = k
  BY DEF Find, T
<1> HIDE DEF k
<1>7. CASE k = Len(t) + 1
  BY <1>1, <1>6, <1>7
<1>8. CASE k \in Places(t, what, i)
  BY <1>1, <1>2, <1>6, <1>8
<1> QED BY <1>5, <1>7, <1>8

\* From lo to hi, every place that is not a last one goes on at a later one.
GoesOn(lo, hi, S, last, base, next, step) ==
  \A i \in lo..hi :
    /\ i \in last => base[i] \in S
    /\ i \notin last => next[i] \in (i + 1)..hi /\ \A r \in S : step[<<i, r>>] \in S

\* What is found from each place on: a last one has its base, any other one makes
\* its step from what is found at the next.
FromPlaces(f, lo, hi, S, last, base, next, step) ==
  /\ f = [i \in lo..hi |-> IF i \in last THEN base[i] ELSE step[<<i, f[next[i]]>>]]
  /\ \A i \in lo..hi : f[i] \in S

\* There is such a function.
LEMMA BackExists ==
  ASSUME NEW lo \in Nat, NEW hi \in Nat, lo <= hi + 1, NEW S, NEW last, NEW base, NEW next,
         NEW step, GoesOn(lo, hi, S, last, base, next, step)
  PROVE  \E f : FromPlaces(f, lo, hi, S, last, base, next, step)
<1> DEFINE Val(f, i) == IF i \in last THEN base[i] ELSE step[<<i, f[next[i]]>>]
           From(f, a) == /\ f = [i \in a..hi |-> Val(f, i)]
                         /\ \A i \in a..hi : f[i] \in S
           T == {n \in Nat : n <= hi + 1 - lo => \E f : From(f, hi + 1 - n)}
<1>1. 0 \in T
  <2> DEFINE f == [i \in (hi + 1)..hi |-> {}]
  <2>1. \A i \in (hi + 1)..hi : FALSE
    OBVIOUS
  <2>2. f = [i \in (hi + 1)..hi |-> Val(f, i)]
    BY <2>1
  <2>3. From(f, hi + 1)
    BY <2>1, <2>2
  <2> HIDE DEF f, From
  <2>4. hi + 1 - 0 = hi + 1
    OBVIOUS
  <2> QED BY <2>3, <2>4
<1>2. ASSUME NEW n \in Nat, n \in T
      PROVE  n + 1 \in T
  <2> SUFFICES ASSUME n + 1 <= hi + 1 - lo PROVE \E f : From(f, hi + 1 - (n + 1))
    OBVIOUS
  <2> DEFINE a == hi + 1 - (n + 1)
             b == hi + 1 - n
  <2>1. a \in lo..hi /\ b = a + 1 /\ b \in Nat /\ n <= hi + 1 - lo
    OBVIOUS
  <2>2. PICK h : From(h, b)
    <3> HIDE DEF From
    <3> QED BY <1>2, <2>1
  <2> HIDE DEF a, b
  <2>3. \A i \in b..hi : h[i] = Val(h, i) /\ h[i] \in S
    BY <2>2
  <2> DEFINE f == [i \in a..hi |-> IF i = a THEN Val(h, a) ELSE h[i]]
  <2>4. \A i \in a..hi : i = a \/ i \in b..hi
    BY <2>1
  <2>5. \A i \in b..hi : i \in a..hi /\ i # a /\ i \in lo..hi /\ f[i] = h[i]
    BY <2>1
  <2>6. \A i \in a..hi : i \in lo..hi
    BY <2>1
  <2>7. \A i \in a..hi : i \notin last => next[i] \in b..hi /\ f[next[i]] = h[next[i]]
    <3> SUFFICES ASSUME NEW i \in a..hi, i \notin last
                 PROVE  next[i] \in b..hi
      <4> HIDE DEF f
      <4> QED BY <2>5
    <3>1. next[i] \in (i + 1)..hi
      BY <2>6 DEF GoesOn
    <3> QED BY <2>1, <3>1
  <2>8. \A i \in a..hi : f[i] = Val(f, i)
    <3> SUFFICES ASSUME NEW i \in a..hi PROVE f[i] = Val(f, i)
      OBVIOUS
    <3>1. Val(f, i) = Val(h, i)
      <4> HIDE DEF f
      <4> QED BY <2>7
    <3>2. f[i] = Val(h, i)
      <4> HIDE DEF Val
      <4> QED BY <2>3, <2>4
    <3> QED BY <3>1, <3>2
  <2>9. \A i \in a..hi : f[i] \in S
    <3> SUFFICES ASSUME NEW i \in a..hi PROVE f[i] \in S
      OBVIOUS
    <3> HIDE DEF f
    <3>1. i \notin last => f[next[i]] \in S
      BY <2>3, <2>7
    <3>2. i \in last => base[i] \in S
      BY <2>6 DEF GoesOn
    <3>3. i \notin last => step[<<i, f[next[i]]>>] \in S
      BY <2>6, <3>1 DEF GoesOn
    <3> QED BY <2>8, <3>2, <3>3
  <2>10. f = [i \in a..hi |-> Val(f, i)]
    <3> HIDE DEF Val
    <3> QED BY <2>8
  <2>11. From(f, a)
    BY <2>9, <2>10
  <2> HIDE DEF f, From
  <2> QED BY <2>11 DEF a
<1> HIDE DEF From
<1>3. Nat \subseteq T
  <2> HIDE DEF T
  <2> QED BY <1>1, <1>2, Induction
<1>4. hi + 1 - lo \in Nat /\ hi + 1 - (hi + 1 - lo) = lo
  OBVIOUS
<1>5. \E f : From(f, lo)
  <2> DEFINE n == hi + 1 - lo
  <2>1. n \in Nat /\ n <= hi + 1 - lo /\ hi + 1 - n = lo
    OBVIOUS
  <2> HIDE DEF n
  <2>2. \E f : From(f, hi + 1 - n)
    <3>1. n \in T
      <4> HIDE DEF T
      <4> QED BY <1>3, <2>1
    <3> QED BY <2>1, <3>1
  <2> QED BY <2>1, <2>2
<1>6. PICK f : From(f, lo)
  BY <1>5
<1>7. FromPlaces(f, lo, hi, S, last, base, next, step)
  BY <1>6 DEF From, FromPlaces
<1> QED BY <1>7

\* What holds for a place if it holds for all later ones holds for all.
LEMMA BackInduction ==
  ASSUME NEW lo \in Nat, NEW hi \in Nat, NEW T,
         \A i \in lo..hi : (\A j \in (i + 1)..hi : j \in T) => i \in T
  PROVE  lo..hi \subseteq T
<1> DEFINE U == {n \in Nat : \A i \in lo..hi : hi - n <= i => i \in T}
<1>1. 0 \in U
  <2> SUFFICES ASSUME NEW i \in lo..hi, hi - 0 <= i PROVE i \in T
    OBVIOUS
  <2>1. \A j \in (i + 1)..hi : j \in T
    OBVIOUS
  <2> QED BY <2>1
<1>2. ASSUME NEW n \in Nat, n \in U
      PROVE  n + 1 \in U
  <2> SUFFICES ASSUME NEW i \in lo..hi, hi - (n + 1) <= i PROVE i \in T
    OBVIOUS
  <2>1. \A j \in (i + 1)..hi : j \in lo..hi /\ hi - n <= j
    OBVIOUS
  <2>2. \A j \in (i + 1)..hi : j \in T
    BY <1>2, <2>1
  <2> QED BY <2>2
<1>3. Nat \subseteq U
  <2> HIDE DEF U
  <2> QED BY <1>1, <1>2, Induction
<1>4. hi \in U
  BY <1>3
<1>5. \A i \in lo..hi : hi - hi <= i
  OBVIOUS
<1> QED BY <1>4, <1>5

-----------------------------------------------------------------------------
(* split_translation_segments and translate.                               *)

\* What follows a hidden piece shows all that the whole shows.
LEMMA InkBehind ==
  ASSUME NEW t \in Seq(Symbols), NEW m \in Nat \ {0}, NEW k \in Nat, NEW n \in Nat,
         n <= Len(t), m <= k + 1, k <= n, \A i \in m..k : t[i] \in Hidden
  PROVE  Ink(SubSeq(t, m, n)) = Ink(SubSeq(t, k + 1, n))
<1>1. /\ SubSeq(t, m, k) \in Seq(Symbols) /\ SubSeq(t, k + 1, n) \in Seq(Symbols)
      /\ Ink(SubSeq(t, m, n)) = Ink(SubSeq(t, m, k)) \o Ink(SubSeq(t, k + 1, n))
  BY InkSplit
<1>2. Ink(SubSeq(t, m, k)) = <<>>
  <2>1. Len(t) \in Nat
    BY SymbolsOf
  <2>2. k <= Len(t)
    BY <2>1
  <2> QED BY <2>2, HiddenPiece
<1>3. Ink(SubSeq(t, k + 1, n)) \in Seq(Symbols)
  BY <1>1, InkIs
<1> QED BY <1>1, <1>2, <1>3, ConcatEmptySeq

\* A text before others.
LEMMA FlatCons ==
  ASSUME NEW C, NEW s \in Seq(C), NEW r \in Seq(Seq(C))
  PROVE  <<s>> \o r \in Seq(Seq(C)) /\ FlattenSeq(<<s>> \o r) = s \o FlattenSeq(r)
<1>1. <<s>> \in Seq(Seq(C)) /\ FlattenSeq(<<s>>) = s
  BY FlatOne
<1>2. FlattenSeq(<<s>> \o r) = FlattenSeq(<<s>>) \o FlattenSeq(r)
  BY <1>1, FlatConcat
<1>3. <<s>> \o r \in Seq(Seq(C))
  BY <1>1, ConcatProperties
<1> QED BY <1>1, <1>2, <1>3

\* Where a part ends, and where the next one begins.
PartStop(p, i) == IF Find(p, <<NL>>, i) = i THEN Find(p, <<NL>>, i) + 1 ELSE Find(p, <<NL>>, i)
PartNext(p, i) == IF PartStop(p, i) <= Len(p) /\ p[PartStop(p, i)] = NL
                  THEN PartStop(p, i) + 1 ELSE PartStop(p, i)
PartsFrom(f, p) ==
  f = [i \in 1..(Len(p) + 1) |->
         IF i > Len(p) THEN <<>>
         ELSE <<SubSeq(p, i, PartStop(p, i) - 1)>> \o f[PartNext(p, i)]]

LEMMA PartNextIs ==
  ASSUME NEW p \in Seq(Symbols), NEW i \in 1..Len(p)
  PROVE  /\ PartStop(p, i) \in (i + 1)..(Len(p) + 1)
         /\ PartNext(p, i) \in (i + 1)..(Len(p) + 1)
         /\ \/ PartNext(p, i) = PartStop(p, i)
            \/ /\ PartNext(p, i) = PartStop(p, i) + 1
               /\ PartStop(p, i) <= Len(p) /\ p[PartStop(p, i)] = NL
         /\ SubSeq(p, i, PartStop(p, i) - 1) \in Seq(Symbols)
<1> DEFINE end == Find(p, <<NL>>, i)
           stop == PartStop(p, i)
<1>1. Len(p) \in Nat
  BY SymbolsOf
<1>2. end \in Nat /\ i <= end /\ end <= Len(p) + 1
  <2>1. Len(<<NL>>) \in Nat \ {0} /\ i \in 1..(Len(p) + 1)
    BY <1>1
  <2> QED BY <2>1, FindIs
<1> HIDE DEF end
<1>3. stop = IF end = i THEN end + 1 ELSE end
  BY DEF PartStop, end
<1>4. stop \in (i + 1)..(Len(p) + 1)
  BY <1>1, <1>2, <1>3
<1> HIDE DEF stop
<1>5. PartNext(p, i) = IF stop <= Len(p) /\ p[stop] = NL THEN stop + 1 ELSE stop
  BY DEF PartNext, stop
<1>6. SubSeq(p, i, stop - 1) \in Seq(Symbols)
  <2>1. i \in Nat \ {0} /\ stop - 1 \in Nat /\ stop - 1 <= Len(p) /\ i <= (stop - 1) + 1
    BY <1>1, <1>4
  <2> QED BY <2>1, PieceIs
<1> QED BY <1>1, <1>4, <1>5, <1>6 DEF stop

\* The parts of a paragraph have all that is seen of it.
LEMMA PartsInk ==
  ASSUME NEW p \in Seq(Symbols)
  PROVE  Parts(p) \in Seq(Seq(Symbols)) /\ Ink(FlattenSeq(Parts(p))) = Ink(p)
<1> DEFINE N == Len(p)
           S == Seq(Seq(Symbols))
           piece(i) == SubSeq(p, i, PartStop(p, i) - 1)
           iter == CHOOSE f : PartsFrom(f, p)
<1>1. N \in Nat /\ \A i \in 1..N : i \in 1..(N + 1)
  BY SymbolsOf
<1>2. <<>> \in S
  BY EmptySeq
<1>3. \A i \in 1..N, r \in S : <<piece(i)>> \o r \in S
  BY PartNextIs, FlatCons
<1> HIDE DEF S
<1>4. \E f : PartsFrom(f, p)
  <2> DEFINE last == {N + 1}
             base == [i \in 1..(N + 1) |-> <<>>]
             next == [i \in 1..(N + 1) |-> PartNext(p, i)]
             step == [q \in (1..(N + 1)) \X S |-> <<piece(q[1])>> \o q[2]]
  <2>1. \A i \in 1..(N + 1) : (i \in last <=> i > N) /\ (i \notin last => i \in 1..N)
    BY <1>1
  <2>2. \A i \in 1..(N + 1), r \in S : step[<<i, r>>] = <<piece(i)>> \o r
    OBVIOUS
  <2>3. \A i \in 1..(N + 1) : base[i] = <<>> /\ next[i] = PartNext(p, i)
    OBVIOUS
  <2> HIDE DEF last, base, next, step
  <2>4. \A i \in 1..N : PartNext(p, i) \in (i + 1)..(N + 1)
    BY PartNextIs
  <2> HIDE DEF piece, N
  <2>5. GoesOn(1, N + 1, S, last, base, next, step)
    <3> SUFFICES ASSUME NEW i \in 1..(N + 1)
                 PROVE  /\ i \in last => base[i] \in S
                        /\ i \notin last => next[i] \in (i + 1)..(N + 1)
                                            /\ \A r \in S : step[<<i, r>>] \in S
      BY DEF GoesOn
    <3> QED BY <1>2, <1>3, <2>1, <2>2, <2>3, <2>4
  <2>6. PICK f : /\ f = [i \in 1..(N + 1) |->
                           IF i \in last THEN base[i] ELSE step[<<i, f[next[i]]>>]]
                 /\ \A i \in 1..(N + 1) : f[i] \in S
    <3> DEFINE hi == N + 1
    <3>1. 1 \in Nat /\ hi \in Nat /\ 1 <= hi + 1
      BY <1>1
    <3>2. GoesOn(1, hi, S, last, base, next, step)
      BY <2>5
    <3> HIDE DEF hi
    <3>3. PICK f : FromPlaces(f, 1, hi, S, last, base, next, step)
      BY <3>1, <3>2, BackExists
    <3> QED BY <3>3 DEF FromPlaces, hi
  <2>7. \A i \in 1..(N + 1) : i \notin last => f[next[i]] \in S
    BY <1>1, <2>1, <2>3, <2>4, <2>6
  <2>8. \A i \in 1..(N + 1) :
          f[i] = IF i > N THEN <<>> ELSE <<piece(i)>> \o f[PartNext(p, i)]
    BY <2>1, <2>2, <2>3, <2>6, <2>7, ZenonT(40)
  <2>9. f = [i \in 1..(N + 1) |->
               IF i > N THEN <<>> ELSE <<piece(i)>> \o f[PartNext(p, i)]]
    BY <2>6, <2>8
  <2>10. PartsFrom(f, p)
    BY <2>9 DEF PartsFrom, piece, N
  <2> QED BY <2>10
<1>5. PartsFrom(iter, p)
  <2> HIDE DEF PartsFrom
  <2> QED BY <1>4, Zenon
<1> HIDE DEF iter
<1>6. \A i \in 1..(N + 1) :
        iter[i] = IF i > N THEN <<>> ELSE <<piece(i)>> \o iter[PartNext(p, i)]
  BY <1>5 DEF PartsFrom
<1> DEFINE T == {i \in 1..(N + 1) : /\ iter[i] \in S
                                    /\ Ink(FlattenSeq(iter[i])) = Ink(SubSeq(p, i, N))}
<1>7. ASSUME NEW i \in 1..(N + 1), \A j \in (i + 1)..(N + 1) : j \in T
      PROVE  i \in T
  <2>1. CASE i > N
    <3>1. i = N + 1 /\ iter[i] = <<>> /\ SubSeq(p, i, N) = <<>>
      <4>1. i = N + 1 /\ i \in Int /\ N \in Int /\ N < i
        BY <1>1, <2>1
      <4>2. SubSeq(p, i, N) = <<>>
        BY <4>1, SubSeqEmpty
      <4> HIDE DEF piece, N
      <4>3. iter[i] = <<>>
        BY <1>6, <2>1
      <4> QED BY <4>1, <4>2, <4>3
    <3> QED BY <1>2, <3>1, FlatIs
  <2>2. CASE i <= N
    <3> DEFINE stop == PartStop(p, i)
               next == PartNext(p, i)
    <3>1. i \in 1..N
      BY <1>1, <2>2
    <3>2. /\ stop \in (i + 1)..(N + 1) /\ next \in (i + 1)..(N + 1)
          /\ \/ next = stop
             \/ next = stop + 1 /\ stop <= N /\ p[stop] = NL
          /\ piece(i) \in Seq(Symbols)
      BY <3>1, PartNextIs
    <3>3. piece(i) = SubSeq(p, i, stop - 1) /\ iter[i] = <<piece(i)>> \o iter[next]
      <4>1. piece(i) = SubSeq(p, i, stop - 1)
        OBVIOUS
      <4> HIDE DEF piece, N
      <4>2. ~(i > N)
        BY <1>1, <2>2
      <4> QED BY <1>6, <4>1, <4>2
    <3> HIDE DEF stop, next, piece, N
    <3>4. iter[next] \in S /\ Ink(FlattenSeq(iter[next])) = Ink(SubSeq(p, next, N))
      BY <1>7, <3>2
    <3>5. /\ iter[i] \in S /\ FlattenSeq(iter[i]) = piece(i) \o FlattenSeq(iter[next])
          /\ FlattenSeq(iter[next]) \in Seq(Symbols)
      <4> DEFINE r == iter[next]
      <4>1. r \in Seq(Seq(Symbols))
        BY <3>4 DEF S
      <4> HIDE DEF r
      <4>2. /\ <<piece(i)>> \o r \in Seq(Seq(Symbols))
            /\ FlattenSeq(<<piece(i)>> \o r) = piece(i) \o FlattenSeq(r)
        BY <3>2, <4>1, FlatCons
      <4>3. FlattenSeq(r) \in Seq(Symbols)
        BY <4>1, FlatIs
      <4> QED BY <3>3, <4>2, <4>3 DEF r, S
    <3>6. Ink(FlattenSeq(iter[i])) = Ink(piece(i)) \o Ink(FlattenSeq(iter[next]))
      BY <3>2, <3>5, InkConcat
    <3>7. Ink(SubSeq(p, i, N)) = Ink(piece(i)) \o Ink(SubSeq(p, stop, N))
      <4> DEFINE k == stop - 1
      <4>1. /\ i \in Nat \ {0} /\ k \in Nat /\ N \in Nat /\ N <= Len(p) /\ i <= k + 1 /\ k <= N
            /\ k + 1 = stop
        BY <1>1, <3>1, <3>2 DEF N
      <4>2. piece(i) = SubSeq(p, i, k)
        BY <3>3
      <4> HIDE DEF k
      <4>3. Ink(SubSeq(p, i, N)) = Ink(SubSeq(p, i, k)) \o Ink(SubSeq(p, k + 1, N))
        BY <4>1, InkSplit
      <4> QED BY <4>1, <4>2, <4>3
    <3>8. Ink(SubSeq(p, stop, N)) = Ink(SubSeq(p, next, N))
      <4>1. CASE next = stop
        BY <4>1
      <4>2. CASE next = stop + 1 /\ stop <= N /\ p[stop] = NL
        <5>1. /\ stop \in Nat \ {0} /\ stop \in Nat /\ N \in Nat /\ N <= Len(p)
              /\ stop <= stop + 1 /\ stop <= N
          BY <1>1, <3>2, <4>2 DEF N
        <5>2. \A j \in stop..stop : p[j] \in Hidden
          BY <4>2, <5>1 DEF Hidden, Blank
        <5> QED BY <4>2, <5>1, <5>2, InkBehind
      <4> QED BY <3>2, <4>1, <4>2
    <3> QED BY <3>4, <3>5, <3>6, <3>7, <3>8
  <2> QED BY <1>1, <2>1, <2>2
<1> HIDE DEF T
<1>8. 1..(N + 1) \subseteq T
  <2>1. 1 \in Nat /\ N + 1 \in Nat
    BY <1>1
  <2> HIDE DEF N
  <2> QED BY <1>7, <2>1, BackInduction
<1>9. Parts(p) = iter[1]
  BY Zenon DEF Parts, PartsFrom, PartStop, PartNext, iter
<1>10. 1 \in T /\ SubSeq(p, 1, N) = p
  BY <1>1, <1>8, SubSeqFull
<1> QED BY <1>9, <1>10 DEF T, S

\* What is looked for between paragraphs, where a paragraph starts and ends, and
\* what is made of it.
SegMark(n) == IF Has(n, HardBoundary) THEN HardBoundary ELSE <<NL, NL>>
SegStart(n, i) == Min({k \in i..Len(n) : n[k] \notin {NL, Space}} \cup {Len(n) + 1})
SegEnd(n, i) == Find(n, SegMark(n), SegStart(n, i))
SegText(n, i) == Trimmed(SubSeq(n, SegStart(n, i), SegEnd(n, i) - 1))
SegHere(n, i) == IF Fits(SegText(n, i)) THEN <<SegText(n, i)>> ELSE Parts(SegText(n, i))
SegNext(n, i) == Behind(SegEnd(n, i), SegMark(n))
SegmentsFrom(f, n) ==
  f = [i \in 1..(Len(n) + 4) |->
         IF SegStart(n, i) > Len(n) THEN <<>>
         ELSE SegHere(n, i) \o (IF SegEnd(n, i) > Len(n) THEN <<>> ELSE f[SegNext(n, i)])]

\* Nothing is seen between a place and the start of the paragraph behind it.
LEMMA SegStartIs ==
  ASSUME NEW n \in Seq(Symbols), NEW i \in 1..(Len(n) + 4)
  PROVE  /\ SegStart(n, i) \in 1..(Len(n) + 1)
         /\ i <= Len(n) + 1 => i <= SegStart(n, i)
         /\ \A j \in i..(SegStart(n, i) - 1) : n[j] \in Hidden
<1> DEFINE U == {k \in i..Len(n) : n[k] \notin {NL, Space}} \cup {Len(n) + 1}
           a == Min(U)
<1>1. Len(n) \in Nat
  BY SymbolsOf
<1>2. U \subseteq Nat /\ U # {} /\ \A x \in U : x <= Len(n) + 1 /\ (i <= x \/ x = Len(n) + 1)
  BY <1>1
<1>3. Len(n) + 1 \in U /\ \A j \in i..Len(n) : j \notin U => n[j] \in {NL, Space}
  BY <1>1
<1> HIDE DEF U
<1>4. a \in U /\ a \in Nat /\ \A y \in U : a <= y
  BY <1>2, MinIs
<1>5. SegStart(n, i) = a
  BY DEF SegStart, U
<1> HIDE DEF a
<1>6. a \in 1..(Len(n) + 1) /\ (i <= Len(n) + 1 => i <= a)
  BY <1>1, <1>2, <1>4
<1>7. \A j \in i..(a - 1) : j \in i..Len(n) /\ j \notin U
  BY <1>1, <1>4, <1>6
<1>8. \A j \in i..(a - 1) : n[j] \in Hidden
  BY <1>3, <1>7 DEF Hidden, Blank
<1> QED BY <1>5, <1>6, <1>8

\* A paragraph, up to the boundary behind it or the end of the text.
LEMMA SegIs ==
  ASSUME NEW n \in Seq(Symbols), NEW i \in 1..(Len(n) + 4), SegStart(n, i) <= Len(n)
  PROVE  /\ SegEnd(n, i) \in SegStart(n, i)..(Len(n) + 1)
         /\ SegHere(n, i) \in Seq(Seq(Symbols))
         /\ Ink(FlattenSeq(SegHere(n, i)))
              = Ink(SubSeq(n, SegStart(n, i), SegEnd(n, i) - 1))
         /\ SegEnd(n, i) <= Len(n) =>
              /\ SegNext(n, i) \in (i + 1)..(Len(n) + 1)
              /\ SegEnd(n, i) < SegNext(n, i)
              /\ \A j \in SegEnd(n, i)..(SegNext(n, i) - 1) : n[j] \in Hidden
<1> DEFINE a == SegStart(n, i)
           b == SegEnd(n, i)
           m == SegMark(n)
           x == SubSeq(n, a, b - 1)
           p == SegText(n, i)
           N == Len(n)
<1>1. N \in Nat /\ a \in 1..N /\ (i <= N + 1 => i <= a)
  <2>1. Len(n) \in Nat
    BY SymbolsOf
  <2> QED BY <2>1, SegStartIs
<1>2. i <= a
  <2>1. CASE i <= N + 1
    BY <1>1, <2>1
  <2>2. CASE i > N + 1
    <3>1. \A k \in i..Len(n) : FALSE
      BY <1>1, <2>2
    <3>2. {k \in i..Len(n) : n[k] \notin {NL, Space}} \cup {Len(n) + 1} = {N + 1}
      BY <3>1
    <3>3. a = Min({N + 1})
      BY <3>2 DEF SegStart
    <3>4. Min({N + 1}) \in {N + 1}
      BY <1>1, MinIs
    <3> QED BY <1>1, <3>3, <3>4
  <2> QED BY <1>1, <2>1, <2>2
<1>3. m \in {<<NL, NL, NL>>, <<NL, NL>>}
  BY DEF SegMark, HardBoundary
<1>4. Len(m) \in {2, 3} /\ \A k \in 1..Len(m) : m[k] = NL
  <2>1. /\ Len(<<NL, NL, NL>>) = 3 /\ \A k \in 1..3 : <<NL, NL, NL>>[k] = NL
        /\ Len(<<NL, NL>>) = 2 /\ \A k \in 1..2 : <<NL, NL>>[k] = NL
    OBVIOUS
  <2> HIDE DEF m
  <2> QED BY <1>3, <2>1
<1> HIDE DEF m
<1>5. /\ b \in Nat /\ a <= b /\ b <= N + 1
      /\ b <= N => b + Len(m) <= N + 1 /\ SubSeq(n, b, b + Len(m) - 1) = m
  <2>1. a \in 1..(N + 1) /\ Len(m) \in Nat \ {0} /\ b = Find(n, m, a)
    <3>1. b = Find(n, m, a)
      BY DEF SegEnd, m
    <3> DEFINE l == Len(m)
    <3> HIDE DEF a, b
    <3>2. l \in {2, 3}
      BY <1>4
    <3> HIDE DEF l, N
    <3>3. a \in 1..(N + 1) /\ l \in Nat \ {0}
      BY <1>1, <3>2
    <3> QED BY <3>1, <3>3 DEF l
  <2> HIDE DEF a, b
  <2> QED BY <2>1, FindIs
<1>6. SegNext(n, i) = b + Len(m)
  BY DEF SegNext, Behind, m
<1> HIDE DEF a, b
<1>7. x \in Seq(Symbols)
  <2>1. a \in Nat \ {0} /\ b - 1 \in Nat /\ b - 1 <= Len(n) /\ a <= (b - 1) + 1
    BY <1>1, <1>5
  <2> HIDE DEF N
  <2> QED BY <2>1, PieceIs
<1>8. p = Trimmed(x)
  BY DEF SegText, a, b
<1> HIDE DEF x, p
<1>9. p \in Seq(Symbols) /\ Ink(p) = Ink(x)
  BY <1>7, <1>8, TrimmedIs
<1>10. SegHere(n, i) \in Seq(Seq(Symbols)) /\ Ink(FlattenSeq(SegHere(n, i))) = Ink(x)
  <2>1. SegHere(n, i) = <<p>> \/ SegHere(n, i) = Parts(p)
    BY DEF SegHere, p
  <2>2. <<p>> \in Seq(Seq(Symbols)) /\ FlattenSeq(<<p>>) = p
    BY <1>9, FlatOne
  <2>3. Parts(p) \in Seq(Seq(Symbols)) /\ Ink(FlattenSeq(Parts(p))) = Ink(p)
    BY <1>9, PartsInk
  <2> QED BY <1>9, <2>1, <2>2, <2>3
<1>11. ASSUME b <= N
       PROVE  /\ b + Len(m) \in (i + 1)..(N + 1) /\ b < b + Len(m)
              /\ \A j \in b..(b + Len(m) - 1) : n[j] \in Hidden
  <2>1. b + Len(m) \in (i + 1)..(N + 1) /\ b < b + Len(m)
    <3> DEFINE l == Len(m)
    <3>1. /\ l \in {2, 3} /\ b \in Nat /\ a \in 1..N /\ a <= b /\ b + l <= N + 1 /\ i <= a
          /\ i \in Nat
      BY <1>1, <1>2, <1>4, <1>5, <1>11
    <3> HIDE DEF l, N
    <3>2. b + l \in (i + 1)..(N + 1) /\ b < b + l
      BY <1>1, <3>1
    <3> QED BY <3>2 DEF l
  <2> DEFINE c == b + Len(m) - 1
  <2>2. /\ b \in Nat \ {0} /\ c \in Nat /\ c <= Len(n) /\ b <= c + 1 /\ c - b + 1 = Len(m)
    BY <1>1, <1>4, <1>5, <1>11
  <2>3. SubSeq(n, b, c) = m
    BY <1>5, <1>11
  <2> HIDE DEF c, N
  <2>4. \A k \in 1..(c - b + 1) : SubSeq(n, b, c)[k] = n[b + k - 1]
    BY <2>2, PieceIs
  <2>5. \A j \in b..c : j - b + 1 \in 1..(c - b + 1) /\ b + (j - b + 1) - 1 = j
    BY <2>2
  <2>6. \A j \in b..c : n[j] = NL
    BY <1>4, <2>2, <2>3, <2>4, <2>5
  <2> QED BY <2>1, <2>6 DEF c, Hidden, Blank
<1> QED BY <1>1, <1>5, <1>6, <1>10, <1>11 DEF a, b, x

\* The segments from each place on.
SegRun(f, n) ==
  \A i \in 1..(Len(n) + 4) :
    /\ f[i] \in Seq(Seq(Symbols))
    /\ f[i] = IF SegStart(n, i) > Len(n) THEN <<>>
              ELSE SegHere(n, i) \o (IF SegEnd(n, i) > Len(n) THEN <<>> ELSE f[SegNext(n, i)])

LEMMA SegmentsIs ==
  ASSUME NEW t \in Seq(Symbols)
  PROVE  \E f : /\ SegRun(f, Normalized(t))
                /\ Segments(t) = IF f[1] = <<>> THEN <<Normalized(t)>> ELSE f[1]
<1> DEFINE n == Normalized(t)
           N == Len(n)
           S == Seq(Seq(Symbols))
           iter == CHOOSE f : SegmentsFrom(f, n)
<1>0. n \in Seq(Symbols)
  BY NormalizedInk
<1>1. Segments(t) = IF iter[1] = <<>> THEN <<n>> ELSE iter[1]
  BY Zenon DEF Segments, SegmentsFrom, SegMark, SegStart, SegEnd, SegText, SegHere, SegNext,
               iter, n
<1> HIDE DEF n
<1>2. N \in Nat
  BY <1>0, SymbolsOf
<1>3. <<>> \in S
  BY EmptySeq
<1>4. \A i \in 1..(N + 4) : SegStart(n, i) <= N =>
        /\ SegEnd(n, i) \in SegStart(n, i)..(N + 1)
        /\ SegHere(n, i) \in S
        /\ SegEnd(n, i) <= N => SegNext(n, i) \in (i + 1)..(N + 1)
  BY <1>0, SegIs
<1>5. /\ \A s \in S : s \o <<>> = s
      /\ \A s, r \in S : s \o r \in S
  BY ConcatProperties, ConcatEmptySeq
<1> HIDE DEF S, N
<1>6. \E f : SegmentsFrom(f, n)
  <2> DEFINE last == {i \in 1..(N + 4) : SegStart(n, i) > N \/ SegEnd(n, i) > N}
             base == [i \in 1..(N + 4) |->
                        IF SegStart(n, i) > N THEN <<>> ELSE SegHere(n, i) \o <<>>]
             next == [i \in 1..(N + 4) |-> SegNext(n, i)]
             step == [q \in (1..(N + 4)) \X S |-> SegHere(n, q[1]) \o q[2]]
  <2>1. \A i \in 1..(N + 4) :
          /\ SegStart(n, i) \in Nat
          /\ SegStart(n, i) <= N => SegEnd(n, i) \in Nat
    <3>1. \A i \in 1..(N + 4) : SegStart(n, i) \in 1..(N + 1)
      BY <1>0, SegStartIs DEF N
    <3> QED BY <1>2, <1>4, <3>1
  <2>2. \A i \in 1..(N + 4) :
          /\ i \in last <=> SegStart(n, i) > N \/ SegEnd(n, i) > N
          /\ base[i] = IF SegStart(n, i) > N THEN <<>> ELSE SegHere(n, i) \o <<>>
          /\ next[i] = SegNext(n, i)
    OBVIOUS
  <2>3. \A i \in 1..(N + 4), r \in S : step[<<i, r>>] = SegHere(n, i) \o r
    OBVIOUS
  <2> HIDE DEF last, base, next, step
  <2>4. GoesOn(1, N + 4, S, last, base, next, step)
    <3> SUFFICES ASSUME NEW i \in 1..(N + 4)
                 PROVE  /\ i \in last => base[i] \in S
                        /\ i \notin last => next[i] \in (i + 1)..(N + 4)
                                            /\ \A r \in S : step[<<i, r>>] \in S
      BY DEF GoesOn
    <3>1. SegStart(n, i) <= N => SegHere(n, i) \in S
      BY <1>4
    <3>2. i \in last => base[i] \in S
      <4>1. CASE SegStart(n, i) > N
        BY <1>3, <2>2, <4>1
      <4>2. CASE SegStart(n, i) <= N
        <5>1. SegHere(n, i) \o <<>> = SegHere(n, i)
          BY <1>5, <3>1, <4>2
        <5>2. ~(SegStart(n, i) > N)
          BY <1>2, <2>1, <4>2
        <5> QED BY <2>2, <3>1, <4>2, <5>1, <5>2
      <4> QED BY <1>2, <2>1, <4>1, <4>2
    <3>3. i \notin last => SegStart(n, i) <= N /\ SegEnd(n, i) <= N
      BY <1>2, <2>1, <2>2
    <3>4. i \notin last => next[i] \in (i + 1)..(N + 4)
      BY <1>2, <1>4, <2>2, <3>3
    <3>5. i \notin last => \A r \in S : step[<<i, r>>] \in S
      BY <1>5, <2>3, <3>1, <3>3
    <3> QED BY <3>2, <3>4, <3>5
  <2>5. PICK f : /\ f = [i \in 1..(N + 4) |->
                           IF i \in last THEN base[i] ELSE step[<<i, f[next[i]]>>]]
                 /\ \A i \in 1..(N + 4) : f[i] \in S
    <3> DEFINE hi == N + 4
    <3>1. 1 \in Nat /\ hi \in Nat /\ 1 <= hi + 1
      BY <1>2
    <3>2. GoesOn(1, hi, S, last, base, next, step)
      BY <2>4
    <3> HIDE DEF hi
    <3>3. PICK f : FromPlaces(f, 1, hi, S, last, base, next, step)
      BY <3>1, <3>2, BackExists
    <3> QED BY <3>3 DEF FromPlaces, hi
  <2>6. \A i \in 1..(N + 4) :
          f[i] = IF SegStart(n, i) > N THEN <<>>
                 ELSE SegHere(n, i) \o (IF SegEnd(n, i) > N THEN <<>> ELSE f[SegNext(n, i)])
    <3> SUFFICES ASSUME NEW i \in 1..(N + 4)
                 PROVE  f[i] = IF SegStart(n, i) > N THEN <<>>
                               ELSE SegHere(n, i) \o (IF SegEnd(n, i) > N THEN <<>>
                                                      ELSE f[SegNext(n, i)])
      OBVIOUS
    <3>1. f[i] = IF i \in last THEN base[i] ELSE step[<<i, f[next[i]]>>]
      BY <2>5
    <3>2. CASE i \in last
      BY <2>2, <3>1, <3>2
    <3>3. CASE i \notin last
      <4>1. SegNext(n, i) \in 1..(N + 4)
        BY <1>2, <1>4, <2>1, <2>2, <3>3
      <4>2. f[SegNext(n, i)] \in S
        BY <2>5, <4>1
      <4> QED BY <2>2, <2>3, <3>1, <3>3, <4>2
    <3> QED BY <3>2, <3>3
  <2>7. f = [i \in 1..(N + 4) |->
               IF SegStart(n, i) > N THEN <<>>
               ELSE SegHere(n, i) \o (IF SegEnd(n, i) > N THEN <<>> ELSE f[SegNext(n, i)])]
    BY <2>5, <2>6
  <2>8. SegmentsFrom(f, n)
    BY <2>7 DEF SegmentsFrom, N
  <2> QED BY <2>8
<1>7. SegmentsFrom(iter, n)
  <2> HIDE DEF SegmentsFrom
  <2> QED BY <1>6, Zenon
<1> HIDE DEF iter
<1>8. \A i \in 1..(N + 4) :
        iter[i] = IF SegStart(n, i) > N THEN <<>>
                  ELSE SegHere(n, i) \o (IF SegEnd(n, i) > N THEN <<>> ELSE iter[SegNext(n, i)])
  BY <1>7 DEF SegmentsFrom, N
<1> DEFINE T == {i \in 1..(N + 4) : iter[i] \in S}
<1>9. ASSUME NEW i \in 1..(N + 4), \A j \in (i + 1)..(N + 4) : j \in T
      PROVE  i \in T
  <2> DEFINE a == SegStart(n, i)
             b == SegEnd(n, i)
             c == SegNext(n, i)
             here == SegHere(n, i)
             rest == IF b > N THEN <<>> ELSE iter[c]
  <2>1. a \in 1..(N + 1)
    BY <1>0, SegStartIs DEF N
  <2>2. a <= N => /\ b \in a..(N + 1) /\ here \in S
                  /\ b <= N => c \in (i + 1)..(N + 1)
    BY <1>4
  <2>3. iter[i] = IF a > N THEN <<>> ELSE here \o rest
    BY <1>8
  <2> HIDE DEF a, b, c, here
  <2>4. CASE a > N
    BY <1>3, <2>3, <2>4
  <2>5. CASE a <= N
    <3>1. rest \in S
      <4>1. CASE b > N
        BY <1>3, <4>1
      <4>2. CASE b <= N
        <5>1. rest = iter[c] /\ c \in (i + 1)..(N + 4)
          BY <1>2, <2>1, <2>2, <2>5, <4>2
        <5> QED BY <1>9, <5>1
      <4> QED BY <1>2, <2>1, <2>2, <2>5, <4>1, <4>2
    <3> HIDE DEF rest
    <3>2. iter[i] = here \o rest /\ here \in S
      BY <1>2, <2>1, <2>2, <2>3, <2>5
    <3> QED BY <1>5, <3>1, <3>2
  <2> QED BY <1>2, <2>1, <2>4, <2>5
<1> HIDE DEF T
<1>10. 1..(N + 4) \subseteq T
  <2>1. 1 \in Nat /\ N + 4 \in Nat
    BY <1>2
  <2> QED BY <1>9, <2>1, BackInduction, ZenonT(40)
<1>11. SegRun(iter, n)
  BY <1>8, <1>10 DEF SegRun, T, N, S
<1> QED BY <1>1, <1>11 DEF n

\* The segments of a text have all that is seen of it.
LEMMA SegmentsInk ==
  ASSUME NEW t \in Seq(Symbols)
  PROVE  Segments(t) \in Seq(Seq(Symbols)) /\ Ink(FlattenSeq(Segments(t))) = Ink(t)
<1> DEFINE n == Normalized(t)
           N == Len(n)
           S == Seq(Seq(Symbols))
<1>0. n \in Seq(Symbols) /\ Ink(n) = Ink(t)
  BY NormalizedInk
<1>1. PICK f : SegRun(f, n) /\ Segments(t) = IF f[1] = <<>> THEN <<n>> ELSE f[1]
  BY SegmentsIs
<1> HIDE DEF n
<1>2. N \in Nat
  BY <1>0, SymbolsOf
<1>3. <<>> \in S /\ FlattenSeq(<<>>) = <<>> /\ Ink(<<>>) = <<>>
  BY EmptySeq, FlatIs, InkIs
<1>4. \A i \in 1..(N + 4) : SegStart(n, i) <= N =>
        /\ SegEnd(n, i) \in SegStart(n, i)..(N + 1)
        /\ SegHere(n, i) \in S
        /\ Ink(FlattenSeq(SegHere(n, i))) = Ink(SubSeq(n, SegStart(n, i), SegEnd(n, i) - 1))
        /\ SegEnd(n, i) <= N =>
             /\ SegNext(n, i) \in (i + 1)..(N + 1) /\ SegEnd(n, i) < SegNext(n, i)
             /\ \A j \in SegEnd(n, i)..(SegNext(n, i) - 1) : n[j] \in Hidden
  BY <1>0, SegIs
<1>5. /\ \A s \in S : s \o <<>> = s
      /\ \A s, r \in S : s \o r \in S
      /\ \A s, r \in S : FlattenSeq(s \o r) = FlattenSeq(s) \o FlattenSeq(r)
  BY ConcatProperties, ConcatEmptySeq, FlatConcat
<1> HIDE DEF S, N
<1>6. \A i \in 1..(N + 4) :
        /\ f[i] \in S
        /\ f[i] = IF SegStart(n, i) > N THEN <<>>
                  ELSE SegHere(n, i) \o (IF SegEnd(n, i) > N THEN <<>> ELSE f[SegNext(n, i)])
  BY <1>1 DEF SegRun, S, N
<1> DEFINE T == {i \in 1..(N + 4) :
                   i <= N + 1 => Ink(FlattenSeq(f[i])) = Ink(SubSeq(n, i, N))}
<1>7. ASSUME NEW i \in 1..(N + 4), \A j \in (i + 1)..(N + 4) : j \in T
      PROVE  i \in T
  <2> DEFINE a == SegStart(n, i)
             b == SegEnd(n, i)
             c == SegNext(n, i)
             here == SegHere(n, i)
             rest == IF b > N THEN <<>> ELSE f[c]
  <2>1. a \in 1..(N + 1) /\ (i <= N + 1 => i <= a) /\ \A j \in i..(a - 1) : n[j] \in Hidden
    BY <1>0, SegStartIs DEF N
  <2>2. a <= N => /\ b \in a..(N + 1) /\ here \in S
                  /\ Ink(FlattenSeq(here)) = Ink(SubSeq(n, a, b - 1))
                  /\ b <= N => /\ c \in (i + 1)..(N + 1) /\ b < c
                               /\ \A j \in b..(c - 1) : n[j] \in Hidden
    BY <1>4
  <2>3. f[i] = IF a > N THEN <<>> ELSE here \o rest
    BY <1>6
  <2> HIDE DEF a, b, c, here
  <2>4. i <= N + 1 => Ink(SubSeq(n, i, N)) = Ink(SubSeq(n, a, N))
    <3> SUFFICES ASSUME i <= N + 1 PROVE Ink(SubSeq(n, i, N)) = Ink(SubSeq(n, a, N))
      OBVIOUS
    <3> DEFINE k == a - 1
    <3>1. /\ i \in Nat \ {0} /\ k \in Nat /\ N \in Nat /\ N <= Len(n) /\ i <= k + 1 /\ k <= N
          /\ k + 1 = a
      BY <1>2, <2>1 DEF N
    <3>2. \A j \in i..k : n[j] \in Hidden
      BY <2>1
    <3> HIDE DEF k
    <3>3. Ink(SubSeq(n, i, N)) = Ink(SubSeq(n, k + 1, N))
      BY <1>0, <3>1, <3>2, InkBehind
    <3> QED BY <3>1, <3>3
  <2>5. CASE a > N
    <3>1. a \in Int /\ N \in Int /\ N < a
      BY <1>2, <2>1, <2>5
    <3>2. SubSeq(n, a, N) = <<>>
      BY <3>1, SubSeqEmpty
    <3> QED BY <1>3, <2>3, <2>4, <2>5, <3>2
  <2>6. CASE a <= N
    <3>1. rest \in S /\ Ink(FlattenSeq(rest)) = Ink(SubSeq(n, b, N))
      <4>1. CASE b > N
        <5>1. b \in Int /\ N \in Int /\ N < b
          BY <1>2, <2>1, <2>2, <2>6, <4>1
        <5>2. SubSeq(n, b, N) = <<>>
          BY <5>1, SubSeqEmpty
        <5> QED BY <1>3, <4>1, <5>2
      <4>2. CASE b <= N
        <5>1. /\ rest = f[c] /\ c \in (i + 1)..(N + 4) /\ c <= N + 1 /\ b < c
              /\ b \in Nat \ {0}
          BY <1>2, <2>1, <2>2, <2>6, <4>2
        <5>2. rest \in S /\ Ink(FlattenSeq(rest)) = Ink(SubSeq(n, c, N))
          <6>1. c \in T /\ c \in 1..(N + 4)
            BY <1>2, <1>7, <5>1
          <6> QED BY <1>6, <5>1, <6>1
        <5> DEFINE k == c - 1
        <5>3. /\ k \in Nat /\ N \in Nat /\ N <= Len(n) /\ b <= k + 1 /\ k <= N /\ k + 1 = c
          BY <1>2, <5>1 DEF N
        <5>4. \A j \in b..k : n[j] \in Hidden
          BY <2>2, <2>6, <4>2
        <5> HIDE DEF k
        <5>5. Ink(SubSeq(n, b, N)) = Ink(SubSeq(n, k + 1, N))
          BY <1>0, <5>1, <5>3, <5>4, InkBehind
        <5> QED BY <5>2, <5>3, <5>5
      <4> QED BY <1>2, <2>1, <2>2, <2>6, <4>1, <4>2
    <3> HIDE DEF rest
    <3>2. f[i] = here \o rest /\ here \in S
      BY <1>2, <2>1, <2>2, <2>3, <2>6
    <3>3. f[i] \in S /\ FlattenSeq(f[i]) = FlattenSeq(here) \o FlattenSeq(rest)
      BY <1>5, <3>1, <3>2
    <3>4. FlattenSeq(here) \in Seq(Symbols) /\ FlattenSeq(rest) \in Seq(Symbols)
      BY <3>1, <3>2, FlatIs DEF S
    <3>5. Ink(FlattenSeq(f[i])) = Ink(FlattenSeq(here)) \o Ink(FlattenSeq(rest))
      BY <3>3, <3>4, InkConcat
    <3>6. Ink(SubSeq(n, a, N)) = Ink(SubSeq(n, a, b - 1)) \o Ink(SubSeq(n, b, N))
      <4> DEFINE k == b - 1
      <4>1. /\ a \in Nat \ {0} /\ k \in Nat /\ N \in Nat /\ N <= Len(n) /\ a <= k + 1 /\ k <= N
            /\ k + 1 = b
        BY <1>2, <2>1, <2>2, <2>6 DEF N
      <4> HIDE DEF k
      <4>2. Ink(SubSeq(n, a, N)) = Ink(SubSeq(n, a, k)) \o Ink(SubSeq(n, k + 1, N))
        BY <1>0, <4>1, InkSplit
      <4> QED BY <4>1, <4>2 DEF k
    <3> QED BY <2>2, <2>4, <2>6, <3>1, <3>3, <3>5, <3>6
  <2> QED BY <1>2, <2>1, <2>5, <2>6
<1> HIDE DEF T
<1>8. 1..(N + 4) \subseteq T
  <2>1. 1 \in Nat /\ N + 4 \in Nat
    BY <1>2
  <2> QED BY <1>7, <2>1, BackInduction, ZenonT(40)
<1>9. f[1] \in S /\ Ink(FlattenSeq(f[1])) = Ink(n)
  <2>1. 1 \in T /\ 1 <= N + 1
    BY <1>2, <1>8
  <2>2. SubSeq(n, 1, N) = n
    BY <1>0, SubSeqFull DEF N
  <2>3. f[1] \in S
    BY <1>2, <1>6
  <2> QED BY <2>1, <2>2, <2>3 DEF T
<1>10. CASE f[1] = <<>>
  <2>1. <<n>> \in Seq(Seq(Symbols)) /\ FlattenSeq(<<n>>) = n
    BY <1>0, FlatOne
  <2> QED BY <1>0, <1>1, <1>10, <2>1
<1>11. CASE f[1] # <<>>
  BY <1>0, <1>1, <1>9, <1>11 DEF S
<1> QED BY <1>10, <1>11

-----------------------------------------------------------------------------
(* remove_visual_image_tags, and what OCR delivers.                        *)

\* What a symbol adds to a text without its image tags.
TagsAdd(r, c) ==
  IF r.inside
  THEN IF c = TagClose
       THEN [inside |-> FALSE, text |-> r.text \o TagMarker]
       ELSE r
  ELSE IF c = TagOpen THEN [r EXCEPT !.inside = TRUE]
       ELSE [r EXCEPT !.text = Append(@, c)]

TagStates == [inside : BOOLEAN, text : Seq(Symbols)]
NoTags == [inside |-> FALSE, text |-> <<>>]
TagsStep == [p \in TagStates \X Symbols |-> TagsAdd(p[1], p[2])]

LEMMA TagsFolds ==
  /\ Steps(NoTags, TagsStep, TagStates, Symbols)
  /\ \A r \in TagStates, c \in Symbols : TagsStep[<<r, c>>] = TagsAdd(r, c)
  /\ \A t \in Seq(Symbols) : WithoutTags(t) = Folded(NoTags, TagsStep, t).text
<1> DEFINE S == TagStates
           C == Symbols
           step == TagsStep
           base == NoTags
<1>1. /\ Steps(base, step, S, C)
      /\ \A r \in S, c \in C : step[<<r, c>>] = TagsAdd(r, c)
  <2>1. NoTags \in TagStates
    BY EmptySeq DEF NoTags, TagStates
  <2>2. \A r \in TagStates, c \in Symbols : TagsAdd(r, c) \in TagStates
    <3>1. TagMarker \in Seq(Symbols)
      <4>1. NL \in Symbols /\ Marker \in Symbols
        BY SymbolFacts
      <4> HIDE DEF Symbols
      <4> QED BY <4>1 DEF TagMarker
    <3>2. \A s \in Seq(Symbols) : s \o TagMarker \in Seq(Symbols)
      BY <3>1, ConcatProperties
    <3>3. \A s \in Seq(Symbols), c \in Symbols : Append(s, c) \in Seq(Symbols)
      BY AppendProperties
    <3> QED BY <3>2, <3>3 DEF TagsAdd, TagStates
  <2> QED BY <2>1, <2>2 DEF Steps, TagsStep
<1> HIDE DEF step
<1>2. ASSUME NEW t \in Seq(C)
      PROVE  WithoutTags(t) = Folded(base, step, t).text
  <2> DEFINE Fold(f) == [s \in SUBSET DOMAIN t |->
                          IF s = {} THEN base ELSE TagsAdd(f[s \ {Max(s)}], t[Max(s)])]
             iter == CHOOSE f : f = Fold(f)
  <2>1. PICK f : FoldOf(f, base, step, t) /\ \A s \in SUBSET DOMAIN t : f[s] \in S
    <3> HIDE DEF S, C, base
    <3> QED BY <1>1, FoldExists
  <2>2. \A s \in SUBSET DOMAIN t : s # {} => t[Max(s)] \in C
    <3>1. DOMAIN t = 1..Len(t) /\ Len(t) \in Nat /\ \A i \in 1..Len(t) : t[i] \in C
      BY LenProperties, ElementOfSeq
    <3> HIDE DEF C
    <3> QED BY <3>1, MaxIs
  <2>3. f = Fold(f)
    <3> HIDE DEF S, C, base
    <3> QED BY <1>1, <2>1, <2>2 DEF FoldOf
  <2>4. iter = Fold(iter)
    <3> HIDE DEF Fold
    <3> QED BY <2>3, Zenon
  <2> HIDE DEF iter
  <2>5. FoldIn(iter, base, step, S, t)
    <3> HIDE DEF S, C, base
    <3>1. iter[{}] = base
      BY <2>4
    <3>2. \A s \in SUBSET DOMAIN t :
            s # {} => iter[s] = TagsAdd(iter[s \ {Max(s)}], t[Max(s)])
      BY <2>4
    <3> HIDE DEF Fold
    <3> QED BY <1>1, <2>2, <3>1, <3>2 DEF FoldIn
  <2>6. iter[DOMAIN t] = Folded(base, step, t)
    <3> HIDE DEF S, C, base
    <3> QED BY <1>1, <2>5, FoldIs
  <2>7. WithoutTags(t) = iter[DOMAIN t].text
    BY Zenon DEF WithoutTags, NoTags, FoldLeft, MapThenFoldSet, TagsAdd, iter
  <2> QED BY <2>6, <2>7
<1> QED BY <1>1, <1>2 DEF step

LEMMA OcrTextIs ==
  ASSUME NEW t \in Seq(Symbols)
  PROVE  WithoutTags(t) \in Seq(Symbols) /\ OcrText(t) \in Seq(Symbols)
<1>1. Folded(NoTags, TagsStep, t) \in TagStates
  BY TagsFolds, FoldedIs
<1>2. WithoutTags(t) \in Seq(Symbols)
  BY <1>1, TagsFolds DEF TagStates
<1> QED BY <1>2, NormalizedInk DEF OcrText

-----------------------------------------------------------------------------
(* parse_json_string_at.                                                   *)

At(d, k) == IF k <= Len(d) THEN d[k] ELSE ""

\* A string ends, goes wrong, or goes on behind the symbols that make up its next
\* character.
Ends(d, k) == At(d, k) = Quote
Escapes(d, k) == At(d, k) = Backslash /\ Meaning(At(d, k + 1)) # ""
Codes(d, k) == /\ At(d, k) = Backslash /\ At(d, k + 1) = "u"
               /\ CodeMeaning(At(d, k + 2)) # ""
Pairs(d, k) == /\ At(d, k) = Backslash /\ At(d, k + 1) = "u" /\ At(d, k + 2) = "d83d"
               /\ At(d, k + 3) = Backslash /\ At(d, k + 4) = "u" /\ At(d, k + 5) = "de00"
Plain(d, k) == At(d, k) \notin {Quote, Backslash, "", NL, Nul}
Moves(d, k) == Escapes(d, k) \/ Codes(d, k) \/ Pairs(d, k) \/ Plain(d, k)

Got(d, k) == IF Escapes(d, k) THEN Meaning(At(d, k + 1))
             ELSE IF Codes(d, k) THEN CodeMeaning(At(d, k + 2))
             ELSE IF Pairs(d, k) THEN Wide ELSE At(d, k)
Further(d, k) == IF Escapes(d, k) THEN k + 2 ELSE IF Codes(d, k) THEN k + 3
                 ELSE IF Pairs(d, k) THEN k + 6 ELSE k + 1

ParseValue(f, d, k) ==
  IF Ends(d, k) THEN [ok |-> TRUE, value |-> <<>>]
  ELSE IF Moves(d, k) THEN Then(Got(d, k), f[Further(d, k)])
  ELSE Fails

ParseBody(f, d, i) ==
  f = [k \in i..(Len(d) + 1) |->
        CASE At(d, k) = Quote -> [ok |-> TRUE, value |-> <<>>]
          [] At(d, k) \in {"", NL, Nul} -> Fails
          [] At(d, k) = Backslash /\ Meaning(At(d, k + 1)) # "" ->
               Then(Meaning(At(d, k + 1)), f[k + 2])
          [] At(d, k) = Backslash /\ At(d, k + 1) = "u" /\ CodeMeaning(At(d, k + 2)) # "" ->
               Then(CodeMeaning(At(d, k + 2)), f[k + 3])
          [] /\ At(d, k) = Backslash /\ At(d, k + 1) = "u" /\ At(d, k + 2) = "d83d"
             /\ At(d, k + 3) = Backslash /\ At(d, k + 4) = "u" /\ At(d, k + 5) = "de00" ->
               Then(Wide, f[k + 6])
          [] OTHER -> IF At(d, k) = Backslash THEN Fails ELSE Then(At(d, k), f[k + 1])]

LEMMA ParseBodyIs ==
  ASSUME NEW d, NEW i, NEW f
  PROVE  ParseBody(f, d, i) <=> f = [k \in i..(Len(d) + 1) |-> ParseValue(f, d, k)]
<1> DEFINE Case(k) ==
        CASE At(d, k) = Quote -> [ok |-> TRUE, value |-> <<>>]
          [] At(d, k) \in {"", NL, Nul} -> Fails
          [] At(d, k) = Backslash /\ Meaning(At(d, k + 1)) # "" ->
               Then(Meaning(At(d, k + 1)), f[k + 2])
          [] At(d, k) = Backslash /\ At(d, k + 1) = "u" /\ CodeMeaning(At(d, k + 2)) # "" ->
               Then(CodeMeaning(At(d, k + 2)), f[k + 3])
          [] /\ At(d, k) = Backslash /\ At(d, k + 1) = "u" /\ At(d, k + 2) = "d83d"
             /\ At(d, k + 3) = Backslash /\ At(d, k + 4) = "u" /\ At(d, k + 5) = "de00" ->
               Then(Wide, f[k + 6])
          [] OTHER -> IF At(d, k) = Backslash THEN Fails ELSE Then(At(d, k), f[k + 1])
<1>1. \A k \in i..(Len(d) + 1) : Case(k) = ParseValue(f, d, k)
  <2> SUFFICES ASSUME NEW k PROVE Case(k) = ParseValue(f, d, k)
    OBVIOUS
  <2>1. /\ Quote # Backslash /\ Backslash \notin {"", NL, Nul} /\ Quote \notin {"", NL, Nul}
        /\ Meaning("u") = "" /\ CodeMeaning("d83d") = ""
    BY DEF Quote, Backslash, NL, Nul, Meaning, CodeMeaning
  <2> DEFINE a == At(d, k)
             b == At(d, k + 1)
             c == At(d, k + 2)
  <2>2. CASE a = Quote
    BY <2>1, <2>2 DEF ParseValue, Ends
  <2>3. CASE a \in {"", NL, Nul}
    BY <2>1, <2>3 DEF ParseValue, Ends, Moves, Escapes, Codes, Pairs, Plain
  <2>4. CASE Escapes(d, k)
    BY <2>1, <2>4 DEF ParseValue, Ends, Moves, Escapes, Got, Further
  <2>5. CASE Codes(d, k)
    BY <2>1, <2>5 DEF ParseValue, Ends, Moves, Escapes, Codes, Got, Further
  <2>6. CASE Pairs(d, k)
    BY <2>1, <2>6 DEF ParseValue, Ends, Moves, Escapes, Codes, Pairs, Got, Further
  <2>7. CASE Plain(d, k)
    BY <2>1, <2>7 DEF ParseValue, Ends, Moves, Escapes, Codes, Pairs, Plain, Got, Further
  <2>8. CASE a = Backslash /\ ~Moves(d, k)
    BY <2>1, <2>8 DEF ParseValue, Ends, Moves, Escapes, Codes, Pairs, Plain
  <2> QED BY <2>2, <2>3, <2>4, <2>5, <2>6, <2>7, <2>8 DEF Plain, Moves
<1> HIDE DEF Case
<1>2. [k \in i..(Len(d) + 1) |-> Case(k)] = [k \in i..(Len(d) + 1) |-> ParseValue(f, d, k)]
  BY <1>1
<1>3. ParseBody(f, d, i) <=> f = [k \in i..(Len(d) + 1) |-> Case(k)]
  BY Zenon DEF ParseBody, Case
<1> QED BY <1>2, <1>3

\* What stands in a document, and behind its end.
LEMMA AtIs ==
  ASSUME NEW d \in Seq(Symbols), NEW k \in Nat \ {0}
  PROVE  /\ At(d, k) \in Symbols \/ At(d, k) = ""
         /\ At(d, k) # "" => k <= Len(d) /\ At(d, k) \in Symbols
<1>1. Len(d) \in Nat /\ \A j \in 1..Len(d) : d[j] \in Symbols
  BY SymbolsOf
<1>2. CASE k <= Len(d)
  <2>1. k \in 1..Len(d)
    BY <1>1, <1>2
  <2> QED BY <1>1, <1>2, <2>1 DEF At
<1>3. CASE ~(k <= Len(d))
  BY <1>3 DEF At
<1> QED BY <1>2, <1>3

\* The next character, and where the string goes on.
LEMMA MovesIs ==
  ASSUME NEW d \in Seq(Symbols), NEW k \in 1..(Len(d) + 1), Moves(d, k)
  PROVE  Further(d, k) \in (k + 1)..(Len(d) + 1) /\ Got(d, k) \in Symbols
<1> DEFINE N == Len(d)
<1>0. N \in Nat /\ k \in Nat /\ k # 0
  <2>1. Len(d) \in Nat
    BY SymbolsOf
  <2> QED BY <2>1
<1>1. /\ \A e : Meaning(e) = "" \/ Meaning(e) \in Symbols
      /\ \A h : CodeMeaning(h) = "" \/ CodeMeaning(h) \in Symbols
      /\ Wide \in Symbols /\ Meaning("") = "" /\ CodeMeaning("") = ""
      /\ Backslash # "" /\ "de00" # ""
  <2>1. {Quote, Backslash, NL, Nul, Wide} \subseteq Symbols
    BY SymbolFacts
  <2>2. \A e : Meaning(e) \in {Quote, Backslash, NL, ""}
    BY DEF Meaning
  <2>3. \A h : CodeMeaning(h) \in {Nul, NL, Quote, ""}
    BY DEF CodeMeaning
  <2>4. Meaning("") = "" /\ CodeMeaning("") = "" /\ Backslash # "" /\ "de00" # ""
    BY DEF Meaning, CodeMeaning, Quote, Backslash
  <2> HIDE DEF Symbols
  <2> QED BY <2>1, <2>2, <2>3, <2>4
<1>2. \A m \in Nat : m # 0 /\ At(d, m) # "" => m <= N /\ At(d, m) \in Symbols
  BY AtIs
<1> HIDE DEF N
<1>3. CASE Escapes(d, k)
  <2>1. At(d, k + 1) # "" /\ Got(d, k) = Meaning(At(d, k + 1)) /\ Further(d, k) = k + 2
        /\ Meaning(At(d, k + 1)) # ""
    BY <1>1, <1>3 DEF Escapes, Got, Further
  <2>2. k + 1 \in Nat /\ k + 1 # 0
    BY <1>0
  <2>3. k + 1 <= N
    BY <1>2, <2>1, <2>2
  <2>4. Further(d, k) \in (k + 1)..(N + 1)
    <3>1. k + 2 \in (k + 1)..(N + 1)
      BY <1>0, <2>3
    <3> QED BY <2>1, <3>1
  <2>5. Got(d, k) \in Symbols
    BY <1>1, <2>1
  <2> QED BY <2>4, <2>5 DEF N
<1>4. CASE Codes(d, k) /\ ~Escapes(d, k)
  <2>1. At(d, k + 2) # "" /\ Got(d, k) = CodeMeaning(At(d, k + 2)) /\ Further(d, k) = k + 3
        /\ CodeMeaning(At(d, k + 2)) # ""
    BY <1>1, <1>4 DEF Codes, Got, Further
  <2>2. k + 2 \in Nat /\ k + 2 # 0
    BY <1>0
  <2>3. k + 2 <= N
    BY <1>2, <2>1, <2>2
  <2>4. Further(d, k) \in (k + 1)..(N + 1)
    <3>1. k + 3 \in (k + 1)..(N + 1)
      BY <1>0, <2>3
    <3> QED BY <2>1, <3>1
  <2>5. Got(d, k) \in Symbols
    BY <1>1, <2>1
  <2> QED BY <2>4, <2>5 DEF N
<1>5. CASE Pairs(d, k) /\ ~Codes(d, k) /\ ~Escapes(d, k)
  <2>1. At(d, k + 5) # "" /\ Got(d, k) = Wide /\ Further(d, k) = k + 6
    BY <1>1, <1>5 DEF Pairs, Got, Further
  <2>2. k + 5 \in Nat /\ k + 5 # 0
    BY <1>0
  <2>3. k + 5 <= N
    BY <1>2, <2>1, <2>2
  <2>4. Further(d, k) \in (k + 1)..(N + 1)
    <3>1. k + 6 \in (k + 1)..(N + 1)
      BY <1>0, <2>3
    <3> QED BY <2>1, <3>1
  <2>5. Got(d, k) \in Symbols
    BY <1>1, <2>1
  <2> QED BY <2>4, <2>5 DEF N
<1>6. CASE Plain(d, k) /\ ~Pairs(d, k) /\ ~Codes(d, k) /\ ~Escapes(d, k)
  <2>1. At(d, k) # "" /\ Got(d, k) = At(d, k) /\ Further(d, k) = k + 1
    BY <1>6 DEF Plain, Got, Further
  <2>2. k <= N /\ At(d, k) \in Symbols
    BY <1>0, <1>2, <2>1
  <2>3. Further(d, k) \in (k + 1)..(N + 1)
    <3>1. k + 1 \in (k + 1)..(N + 1)
      BY <1>0, <2>2
    <3> QED BY <2>1, <3>1
  <2>4. Got(d, k) \in Symbols
    BY <2>1, <2>2
  <2> QED BY <2>3, <2>4 DEF N
<1> QED BY <1>3, <1>4, <1>5, <1>6 DEF Moves

Parses == [ok : BOOLEAN, value : Seq(Symbols)]

\* What is parsed is a text, and it is parsed character by character.
LEMMA ParseFromIs ==
  ASSUME NEW d \in Seq(Symbols), NEW i \in 1..(Len(d) + 1)
  PROVE  \E f : /\ ParseFrom(d, i) = f[i]
                /\ \A k \in i..(Len(d) + 1) : f[k] = ParseValue(f, d, k) /\ f[k] \in Parses
<1> DEFINE N == Len(d) + 1
           iter == CHOOSE f : ParseBody(f, d, i)
<1>0. N \in Nat /\ i \in Nat /\ i <= N + 1 /\ \A k \in i..N : k \in 1..N
  <2>1. Len(d) \in Nat
    BY SymbolsOf
  <2> QED BY <2>1
<1>1. \A c \in Symbols, r \in Parses : Then(c, r) \in Parses
  <2> SUFFICES ASSUME NEW c \in Symbols, NEW r \in Parses PROVE Then(c, r) \in Parses
    OBVIOUS
  <2>1. r.ok \in BOOLEAN /\ r.value \in Seq(Symbols) /\ r = [ok |-> r.ok, value |-> r.value]
    BY DEF Parses
  <2>2. <<c>> \in Seq(Symbols)
    OBVIOUS
  <2>3. <<c>> \o r.value \in Seq(Symbols)
    BY <2>1, <2>2, ConcatProperties
  <2> HIDE DEF Symbols
  <2> QED BY <2>1, <2>3 DEF Then, Parses
<1>2. [ok |-> TRUE, value |-> <<>>] \in Parses /\ Fails \in Parses
  BY EmptySeq DEF Fails, Parses
<1>3. \A k \in i..N : Moves(d, k) => Further(d, k) \in (k + 1)..N /\ Got(d, k) \in Symbols
  BY <1>0, MovesIs
<1> HIDE DEF N
<1>4. \E f : ParseBody(f, d, i)
  <2> DEFINE last == {k \in i..N : Ends(d, k) \/ ~Moves(d, k)}
             base == [k \in i..N |-> IF Ends(d, k) THEN [ok |-> TRUE, value |-> <<>>] ELSE Fails]
             next == [k \in i..N |-> Further(d, k)]
             step == [q \in (i..N) \X Parses |-> Then(Got(d, q[1]), q[2])]
  <2>1. \A k \in i..N :
          /\ k \in last <=> Ends(d, k) \/ ~Moves(d, k)
          /\ base[k] = IF Ends(d, k) THEN [ok |-> TRUE, value |-> <<>>] ELSE Fails
          /\ next[k] = Further(d, k)
    OBVIOUS
  <2>2. \A k \in i..N, r \in Parses : step[<<k, r>>] = Then(Got(d, k), r)
    OBVIOUS
  <2> HIDE DEF last, base, next, step
  <2>3. GoesOn(i, N, Parses, last, base, next, step)
    <3> SUFFICES ASSUME NEW k \in i..N
                 PROVE  /\ k \in last => base[k] \in Parses
                        /\ k \notin last => next[k] \in (k + 1)..N
                                            /\ \A r \in Parses : step[<<k, r>>] \in Parses
      BY DEF GoesOn
    <3>1. base[k] \in Parses
      BY <1>2, <2>1
    <3>2. k \notin last => next[k] \in (k + 1)..N
      BY <1>3, <2>1
    <3>3. k \notin last => \A r \in Parses : step[<<k, r>>] \in Parses
      BY <1>1, <1>3, <2>1, <2>2
    <3> QED BY <3>1, <3>2, <3>3
  <2>4. PICK f : /\ f = [k \in i..N |->
                           IF k \in last THEN base[k] ELSE step[<<k, f[next[k]]>>]]
                 /\ \A k \in i..N : f[k] \in Parses
    <3>1. PICK f : FromPlaces(f, i, N, Parses, last, base, next, step)
      BY <1>0, <2>3, BackExists
    <3> QED BY <3>1 DEF FromPlaces
  <2>5. \A k \in i..N : f[k] = ParseValue(f, d, k)
    <3> SUFFICES ASSUME NEW k \in i..N PROVE f[k] = ParseValue(f, d, k)
      OBVIOUS
    <3>1. f[k] = IF k \in last THEN base[k] ELSE step[<<k, f[next[k]]>>]
      BY <2>4
    <3>2. k \notin last => f[next[k]] \in Parses
      <4>1. k \notin last => next[k] \in i..N
        BY <1>0, <1>3, <2>1
      <4> QED BY <2>4, <4>1
    <3> QED BY <2>1, <2>2, <3>1, <3>2 DEF ParseValue
  <2>6. f = [k \in i..N |-> ParseValue(f, d, k)]
    BY <2>4, <2>5
  <2>7. ParseBody(f, d, i)
    BY <2>6, ParseBodyIs DEF N
  <2> QED BY <2>7
<1>5. ParseBody(iter, d, i)
  <2> HIDE DEF ParseBody
  <2> QED BY <1>4, Zenon
<1> HIDE DEF iter
<1>6. \A k \in i..N : iter[k] = ParseValue(iter, d, k)
  <2>1. iter = [k \in i..N |-> ParseValue(iter, d, k)]
    BY <1>5, ParseBodyIs DEF N
  <2> QED BY <2>1
<1> DEFINE T == {k \in i..N : iter[k] \in Parses}
<1>7. ASSUME NEW k \in i..N, \A j \in (k + 1)..N : j \in T
      PROVE  k \in T
  <2>1. iter[k] = ParseValue(iter, d, k)
    BY <1>6
  <2>2. Moves(d, k) => iter[Further(d, k)] \in Parses /\ Got(d, k) \in Symbols
    BY <1>3, <1>7
  <2>3. Moves(d, k) => Then(Got(d, k), iter[Further(d, k)]) \in Parses
    BY <1>1, <2>2
  <2> QED BY <1>2, <2>1, <2>3 DEF ParseValue
<1> HIDE DEF T
<1>8. i..N \subseteq T
  BY <1>0, <1>7, BackInduction
<1>9. ParseFrom(d, i) = iter[i]
  BY Zenon DEF ParseFrom, ParseBody, At, iter
<1>10. \A k \in i..N : iter[k] = ParseValue(iter, d, k) /\ iter[k] \in Parses
  BY <1>6, <1>8 DEF T
<1> QED BY <1>9, <1>10 DEF N

-----------------------------------------------------------------------------
(* json_string, and the documents there are.                               *)

\* The first place behind the blanks.
LEMMA NoBlankIs ==
  ASSUME NEW d \in Seq(Symbols), NEW k \in Nat \ {0}
  PROVE  /\ NoBlank(d, k) \in 1..(Len(d) + 1)
         /\ k <= Len(d) /\ d[k] \notin Blank => NoBlank(d, k) = k
<1> DEFINE T == {i \in k..Len(d) : d[i] \notin Blank} \cup {Len(d) + 1}
           m == Min(T)
<1>1. Len(d) \in Nat
  BY SymbolsOf
<1>2. T \subseteq Nat /\ T # {} /\ \A x \in T : x \in 1..(Len(d) + 1)
  BY <1>1
<1>3. k <= Len(d) /\ d[k] \notin Blank => k \in T /\ \A x \in T : k <= x
  BY <1>1
<1> HIDE DEF T
<1>4. m \in T /\ m \in Nat /\ \A y \in T : m <= y
  BY <1>2, MinIs
<1>5. NoBlank(d, k) = m
  BY DEF NoBlank, T
<1> HIDE DEF m
<1>6. k <= Len(d) /\ d[k] \notin Blank => m = k
  BY <1>3, <1>4
<1> QED BY <1>2, <1>4, <1>5, <1>6

\* One blank is skipped.
LEMMA NoBlankBehind ==
  ASSUME NEW d \in Seq(Symbols), NEW k \in Nat \ {0}, k + 1 <= Len(d),
         d[k] \in Blank, d[k + 1] \notin Blank
  PROVE  NoBlank(d, k) = k + 1
<1> DEFINE T == {i \in k..Len(d) : d[i] \notin Blank} \cup {Len(d) + 1}
           m == Min(T)
<1>1. Len(d) \in Nat
  BY SymbolsOf
<1>2. T \subseteq Nat /\ T # {}
  BY <1>1
<1>3. k + 1 \in T /\ k \notin T /\ \A x \in T : k <= x
  BY <1>1
<1> HIDE DEF T
<1>4. m \in T /\ m \in Nat /\ \A y \in T : m <= y
  BY <1>2, MinIs
<1>5. NoBlank(d, k) = m
  BY DEF NoBlank, T
<1> HIDE DEF m
<1>6. m # k /\ k <= m /\ m <= k + 1
  BY <1>3, <1>4
<1> QED BY <1>4, <1>5, <1>6

\* What a search leaves is a text.
LEMMA JsonStringIs ==
  ASSUME NEW d \in Seq(Symbols), NEW name, NEW old \in Seq(Symbols)
  PROVE  JsonString(d, name, old).value \in Seq(Symbols)
<1> DEFINE places == {k \in 1..(Len(d) - 2) : Named(d, name, k)}
           colon == NoBlank(d, Min(places) + 3)
           start == NoBlank(d, colon + 1)
           none == \/ places = {} \/ colon > Len(d) \/ d[colon] # ":"
                   \/ start > Len(d) \/ d[start] # Quote
<1>1. JsonString(d, name, old) = IF none THEN [ok |-> FALSE, value |-> old]
                                 ELSE ParseFrom(d, start + 1)
  BY Zenon DEF JsonString
<1>2. Len(d) \in Nat
  BY SymbolsOf
<1>3. CASE none
  BY <1>1, <1>3
<1>4. CASE ~none
  <2>1. places # {} /\ places \subseteq Nat /\ ~(start > Len(d))
    BY <1>2, <1>4
  <2> HIDE DEF places
  <2>2. Min(places) + 3 \in Nat \ {0}
    <3>1. Min(places) \in Nat
      BY <2>1, MinIs
    <3> QED BY <3>1
  <2>3. colon \in 1..(Len(d) + 1)
    BY <2>2, NoBlankIs
  <2> HIDE DEF colon
  <2>4. colon + 1 \in Nat \ {0}
    BY <1>2, <2>3
  <2>5. start \in 1..(Len(d) + 1)
    BY <2>4, NoBlankIs
  <2> HIDE DEF start
  <2> DEFINE i == start + 1
  <2>6. i \in 1..(Len(d) + 1)
    BY <1>2, <2>1, <2>5
  <2> HIDE DEF i
  <2>7. ParseFrom(d, i) \in Parses
    <3>1. PICK f : /\ ParseFrom(d, i) = f[i]
                   /\ \A k \in i..(Len(d) + 1) : f[k] = ParseValue(f, d, k) /\ f[k] \in Parses
      BY <2>6, ParseFromIs
    <3>2. i \in i..(Len(d) + 1)
      BY <1>2, <2>6
    <3> QED BY <3>1, <3>2
  <2>8. JsonString(d, name, old) = ParseFrom(d, i)
    BY <1>1, <1>4 DEF i
  <2> QED BY <2>7, <2>8 DEF Parses
<1> QED BY <1>3, <1>4

\* c_str() leaves a text.
LEMMA UpToNulIs ==
  ASSUME NEW t \in Seq(Symbols)
  PROVE  UpToNul(t) \in Seq(Symbols)
<1> DEFINE T == {i \in DOMAIN t : t[i] = Nul} \cup {Len(t) + 1}
           m == Min(T) - 1
<1>1. Len(t) \in Nat /\ DOMAIN t = 1..Len(t)
  BY SymbolsOf
<1>2. T \subseteq Nat \ {0} /\ T \subseteq Nat /\ T # {} /\ \A x \in T : x <= Len(t) + 1
  BY <1>1
<1> HIDE DEF T
<1>3. Min(T) \in T /\ Min(T) \in Nat
  BY <1>2, MinIs
<1>4. m \in Nat /\ m <= Len(t) /\ 1 <= m + 1 /\ 1 \in Nat \ {0}
  BY <1>1, <1>2, <1>3
<1>5. UpToNul(t) = SubSeq(t, 1, m)
  BY DEF UpToNul, T
<1> HIDE DEF m
<1>6. SubSeq(t, 1, m) \in Seq(Symbols)
  BY <1>4, PieceIs
<1> QED BY <1>5, <1>6

\* Short sequences.
LEMMA TupleIs ==
  ASSUME NEW S, NEW a \in S, NEW b \in S
  PROVE  /\ <<a>> \in Seq(S) /\ <<a, b>> \in Seq(S)
         /\ \A c \in S : <<a, b, c>> \in Seq(S)
         /\ \A c, e, f, g \in S : <<a, b, c, e, f, g>> \in Seq(S)
OBVIOUS

\* A text, spelled character by character, every one of the same character in the
\* same way.
Speller(h) == \A c \in Symbols : h[c] \in Spellings(c)
Spelt(h, t) == FlattenSeq(Mapped(h, t))

\* The ways there are to spell a character.
LEMMA SpellingIs ==
  ASSUME NEW c \in Symbols, NEW x \in Spellings(c)
  PROVE  /\ x \in Seq(Symbols)
         /\ \/ \E e : x = <<Backslash, e>> /\ Meaning(e) = c
            \/ \E h : x = <<Backslash, "u", h>> /\ CodeMeaning(h) = c
            \/ x = <<Backslash, "u", "d83d", Backslash, "u", "de00">> /\ c = Wide
            \/ x = <<c>> /\ c \notin {Quote, Backslash, NL, Nul}
<1>1. Backslash \in Symbols /\ Quote \in Symbols /\ "n" \in Symbols
  BY SymbolFacts
<1>2. /\ "u" \in Symbols /\ "0022" \in Symbols /\ "000a" \in Symbols /\ "0000" \in Symbols
      /\ "d83d" \in Symbols /\ "de00" \in Symbols
  BY DEF Symbols
<1>3. /\ Quote # Backslash /\ Quote # NL /\ Quote # Nul /\ Backslash # NL /\ Backslash # Nul
      /\ NL # Nul /\ Wide \notin {Quote, Backslash, NL, Nul}
      /\ Meaning(Quote) = Quote /\ Meaning(Backslash) = Backslash /\ Meaning("n") = NL
      /\ CodeMeaning("0000") = Nul /\ CodeMeaning("000a") = NL /\ CodeMeaning("0022") = Quote
  BY DEF Quote, Backslash, NL, Nul, Wide, Meaning, CodeMeaning
<1>4. /\ <<Backslash, Quote>> \in Seq(Symbols) /\ <<Backslash, Backslash>> \in Seq(Symbols)
      /\ <<Backslash, "n">> \in Seq(Symbols) /\ <<c>> \in Seq(Symbols)
  BY <1>1, TupleIs
<1>5. /\ <<Backslash, "u", "0022">> \in Seq(Symbols)
      /\ <<Backslash, "u", "000a">> \in Seq(Symbols)
      /\ <<Backslash, "u", "0000">> \in Seq(Symbols)
  BY <1>1, <1>2, TupleIs
<1> DEFINE wide == <<Backslash, "u", "d83d", Backslash, "u", "de00">>
<1>6. wide \in Seq(Symbols)
  BY <1>1, <1>2, TupleIs
<1> HIDE DEF wide, Symbols
<1>7. CASE c = Quote
  <2>1. x = <<Backslash, Quote>> \/ x = <<Backslash, "u", "0022">>
    BY <1>3, <1>7 DEF Spellings
  <2> QED BY <1>3, <1>4, <1>5, <1>7, <2>1
<1>8. CASE c = Backslash
  <2>1. x = <<Backslash, Backslash>>
    BY <1>3, <1>8 DEF Spellings
  <2> QED BY <1>3, <1>4, <1>8, <2>1
<1>9. CASE c = NL
  <2>1. x = <<Backslash, "n">> \/ x = <<Backslash, "u", "000a">>
    BY <1>3, <1>9 DEF Spellings
  <2> QED BY <1>3, <1>4, <1>5, <1>9, <2>1
<1>10. CASE c = Nul
  <2>1. x = <<Backslash, "u", "0000">>
    BY <1>3, <1>10 DEF Spellings
  <2> QED BY <1>3, <1>5, <1>10, <2>1
<1>11. CASE c = Wide
  <2>1. x = <<c>> \/ x = wide
    BY <1>3, <1>11 DEF Spellings, wide
  <2> QED BY <1>3, <1>4, <1>6, <1>11, <2>1 DEF wide
<1>12. CASE c \notin {Quote, Backslash, NL, Nul, Wide}
  <2>1. x = <<c>>
    BY <1>12 DEF Spellings
  <2> QED BY <1>4, <1>12, <2>1
<1> QED BY <1>7, <1>8, <1>9, <1>10, <1>11, <1>12

LEMMA SpeltIs ==
  ASSUME NEW h, Speller(h)
  PROVE  /\ Spelt(h, <<>>) = <<>>
         /\ \A t \in Seq(Symbols) : Spelt(h, t) \in Seq(Symbols)
         /\ \A t \in Seq(Symbols), c \in Symbols :
              Spelt(h, Append(t, c)) = Spelt(h, t) \o h[c]
<1>1. Maps(h, Symbols, Seq(Symbols))
  <2> SUFFICES ASSUME NEW c \in Symbols PROVE h[c] \in Seq(Symbols)
    BY DEF Maps
  <2>1. h[c] \in Spellings(c)
    BY DEF Speller
  <2> QED BY <2>1, SpellingIs
<1>2. \A c \in Symbols : h[c] \in Seq(Symbols)
  BY <1>1 DEF Maps
<1>3. /\ Mapped(h, <<>>) = <<>>
      /\ \A t \in Seq(Symbols) : Mapped(h, t) \in Seq(Seq(Symbols))
      /\ \A t \in Seq(Symbols), c \in Symbols :
           Mapped(h, Append(t, c)) = Append(Mapped(h, t), h[c])
  BY <1>1, MappedIs
<1>4. Spelt(h, <<>>) = <<>>
  BY <1>3, FlatIs DEF Spelt
<1>5. \A t \in Seq(Symbols) : Spelt(h, t) \in Seq(Symbols)
  BY <1>3, FlatIs DEF Spelt
<1>6. ASSUME NEW t \in Seq(Symbols), NEW c \in Symbols
      PROVE  Spelt(h, Append(t, c)) = Spelt(h, t) \o h[c]
  <2>1. FlattenSeq(Append(Mapped(h, t), h[c])) = FlattenSeq(Mapped(h, t)) \o h[c]
    BY <1>2, <1>3, FlatIs
  <2> QED BY <1>3, <2>1 DEF Spelt
<1> QED BY <1>4, <1>5, <1>6

\* The harness spells as it escapes.
EscapeMap == [c \in Symbols |-> Escape(c)]
Escaped(t) == Spelt(EscapeMap, t)

LEMMA EscapedIs ==
  /\ Speller(EscapeMap)
  /\ \A t \in Seq(Symbols) : Escaped(t) \in Seq(Symbols)
  /\ \A t \in Seq(Symbols) :
       FlattenSeq([i \in DOMAIN t |-> Escape(t[i])]) = Escaped(t)
<1>1. \A c \in Symbols : EscapeMap[c] = Escape(c)
  BY DEF EscapeMap
<1>2. Speller(EscapeMap)
  <2> SUFFICES ASSUME NEW c \in Symbols PROVE Escape(c) \in Spellings(c)
    BY <1>1 DEF Speller
  <2>1. /\ Quote # Backslash /\ Quote # NL /\ Quote # Nul /\ Backslash # NL /\ Backslash # Nul
        /\ NL # Nul /\ Wide \notin {Quote, Backslash, NL, Nul}
    BY DEF Quote, Backslash, NL, Nul, Wide
  <2>2. CASE c \in {Quote, Backslash}
    BY <2>1, <2>2 DEF Escape, Spellings
  <2>3. CASE c = NL
    BY <2>1, <2>3 DEF Escape, Spellings
  <2>4. CASE c = Nul
    BY <2>1, <2>4 DEF Escape, Spellings
  <2>5. CASE c \notin {Quote, Backslash, NL, Nul}
    BY <2>1, <2>5 DEF Escape, Spellings
  <2> QED BY <2>2, <2>3, <2>4, <2>5
<1>3. \A t \in Seq(Symbols) : Escaped(t) \in Seq(Symbols)
  BY <1>2, SpeltIs DEF Escaped
<1>4. \A t \in Seq(Symbols) : FlattenSeq([i \in DOMAIN t |-> Escape(t[i])]) = Escaped(t)
  <2> SUFFICES ASSUME NEW t \in Seq(Symbols)
               PROVE  [i \in DOMAIN t |-> Escape(t[i])] = Mapped(EscapeMap, t)
    BY DEF Escaped, Spelt
  <2>1. \A i \in DOMAIN t : t[i] \in Symbols
    BY SymbolsOf
  <2> QED BY <1>1, <2>1 DEF Mapped
<1> QED BY <1>2, <1>3, <1>4

\* And a host's document spells its values.
LEMMA WrittenIs ==
  ASSUME NEW value \in Seq(Symbols), NEW spelled \in Written(value)
  PROVE  /\ \E h : Speller(h) /\ spelled = Spelt(h, value)
         /\ spelled \in Seq(Symbols)
<1> DEFINE C == ToSet(value)
<1>1. PICK how : /\ \A c \in C : how[c] \in Spellings(c)
                 /\ spelled = FlattenSeq([i \in DOMAIN value |-> how[value[i]]])
  BY DEF Written
<1>2. DOMAIN value = 1..Len(value) /\ \A i \in DOMAIN value : value[i] \in Symbols
  BY SymbolsOf
<1>3. C \subseteq Symbols /\ \A i \in DOMAIN value : value[i] \in C
  BY <1>2 DEF ToSet
<1> HIDE DEF C
<1> DEFINE h == [c \in Symbols |-> IF c \in C THEN how[c] ELSE EscapeMap[c]]
<1>4. Speller(h)
  <2>1. Speller(EscapeMap)
    BY EscapedIs
  <2> QED BY <1>1, <2>1 DEF Speller
<1>5. \A c \in C : h[c] = how[c]
  BY <1>3
<1> HIDE DEF h
<1>6. [i \in DOMAIN value |-> how[value[i]]] = Mapped(h, value)
  BY <1>3, <1>5 DEF Mapped
<1>7. spelled = Spelt(h, value)
  BY <1>1, <1>6 DEF Spelt
<1>8. Spelt(h, value) \in Seq(Symbols)
  BY <1>4, SpeltIs
<1> QED BY <1>4, <1>7, <1>8

\* What the constants are made of is made of symbols.
LEMMA ConstantSymbols ==
  /\ Pieces \subseteq Seq(Symbols) /\ Letters \subseteq Seq(Symbols)
  /\ Values \subseteq Seq(Symbols) /\ "}" \in Symbols /\ <<"{">> \in Seq(Symbols)
  /\ <<>> \in Seq(Symbols) /\ <<",">> \in Seq(Symbols) /\ <<Space>> \in Seq(Symbols)
  /\ Defaults \subseteq Seq(Symbols)
<1>1. Seq(Characters) \subseteq Seq(Symbols)
  <2>1. Characters \subseteq Symbols
    BY SymbolFacts
  <2> SUFFICES ASSUME NEW s \in Seq(Characters) PROVE s \in Seq(Symbols)
    OBVIOUS
  <2>2. Len(s) \in Nat /\ s \in [1..Len(s) -> Characters]
    BY LenProperties
  <2> HIDE DEF Symbols, Characters
  <2>3. s \in [1..Len(s) -> Symbols]
    BY <2>1, <2>2
  <2> QED BY <2>2, <2>3, SeqDef
<1>2. Texts = Seq(Characters)
  BY SymbolFacts
<1>3. "{" \in Symbols /\ "}" \in Symbols /\ "," \in Symbols
  BY DEF Symbols
<1>4. Space \in Symbols
  <2>1. Space \in Layout
    BY DEF Layout
  <2> QED BY <2>1, SymbolFacts
<1>5. /\ <<"{">> \in Seq(Symbols) /\ <<",">> \in Seq(Symbols)
      /\ <<Space>> \in Seq(Symbols)
  BY <1>3, <1>4, TupleIs
<1>6. <<>> \in Seq(Symbols)
  BY EmptySeq
<1>7. /\ Pieces \subseteq Seq(Symbols) /\ Letters \subseteq Seq(Symbols)
      /\ Values \subseteq Seq(Symbols) /\ Defaults \subseteq Seq(Symbols)
  BY <1>1, <1>2, TextAssumption, ValueAssumption
<1> QED BY <1>3, <1>5, <1>6, <1>7

\* The members of a request, and the document of an OCR job.
LEMMA DocumentIs ==
  /\ \A name \in Names, spelled, gap \in Seq(Symbols) : Member(name, spelled, gap) \in Seq(Symbols)
  /\ \A t \in Seq(Symbols) : Document(t) \in Seq(Symbols)
<1>1. \A s, t \in Seq(Symbols) : s \o t \in Seq(Symbols)
  BY ConcatProperties
<1>2. /\ "text" \in Symbols /\ Quote \in Symbols /\ ":" \in Symbols /\ Names \subseteq Symbols
  <2>1. "text" \in Names
    BY DEF Names
  <2> QED BY <2>1, SymbolFacts
<1>3. /\ "{" \in Symbols /\ "}" \in Symbols /\ "," \in Symbols /\ "1" \in Symbols
      /\ "sourceFrameId" \in Symbols
  BY DEF Symbols
<1>4. \A s \in Seq(Symbols) : Quoted(s) \in Seq(Symbols)
  <2>1. <<Quote>> \in Seq(Symbols)
    BY <1>2
  <2> QED BY <1>1, <2>1 DEF Quoted
<1>5. ASSUME NEW name \in Names, NEW spelled \in Seq(Symbols), NEW gap \in Seq(Symbols)
      PROVE  Member(name, spelled, gap) \in Seq(Symbols)
  <2>1. Quoted(<<name>>) \in Seq(Symbols) /\ <<":">> \in Seq(Symbols)
        /\ Quoted(spelled) \in Seq(Symbols)
    <3>1. <<name>> \in Seq(Symbols) /\ <<":">> \in Seq(Symbols)
      BY <1>2
    <3> QED BY <1>4, <3>1
  <2> QED BY <1>1, <2>1 DEF Member
<1>6. ASSUME NEW t \in Seq(Symbols)
      PROVE  Document(t) \in Seq(Symbols)
  <2>1. Quoted(Escaped(t)) \in Seq(Symbols)
    BY <1>4, EscapedIs
  <2>2. /\ <<"text">> \in Seq(Symbols) /\ <<"sourceFrameId">> \in Seq(Symbols)
        /\ <<"{">> \in Seq(Symbols) /\ <<":">> \in Seq(Symbols) /\ <<",">> \in Seq(Symbols)
        /\ <<":", "1", "}">> \in Seq(Symbols)
    BY <1>2, <1>3, TupleIs
  <2>3. Quoted(<<"text">>) \in Seq(Symbols) /\ Quoted(<<"sourceFrameId">>) \in Seq(Symbols)
    BY <1>4, <2>2
  <2>4. Document(t) = <<"{">> \o Quoted(<<"text">>) \o <<":">> \o Quoted(Escaped(t))
                      \o <<",">> \o Quoted(<<"sourceFrameId">>) \o <<":", "1", "}">>
    BY EscapedIs, Zenon DEF Document
  <2> DEFINE a == <<"{">> \o Quoted(<<"text">>)
             b == a \o <<":">>
             c == b \o Quoted(Escaped(t))
             e == c \o <<",">>
             f == e \o Quoted(<<"sourceFrameId">>)
  <2>5. Document(t) = f \o <<":", "1", "}">>
    BY <2>4
  <2>6. a \in Seq(Symbols)
    BY <1>1, <2>2, <2>3
  <2> HIDE DEF a
  <2>7. b \in Seq(Symbols)
    BY <1>1, <2>2, <2>6
  <2> HIDE DEF b
  <2>8. c \in Seq(Symbols)
    BY <1>1, <2>1, <2>7
  <2> HIDE DEF c
  <2>9. e \in Seq(Symbols)
    BY <1>1, <2>2, <2>8
  <2> HIDE DEF e
  <2>10. f \in Seq(Symbols)
    BY <1>1, <2>3, <2>9
  <2> HIDE DEF f
  <2> QED BY <1>1, <2>2, <2>5, <2>10
<1> QED BY <1>5, <1>6

-----------------------------------------------------------------------------
(* What is written is read.                                                *)

\* A document has these symbols from a place on.
StandsAt(d, i, s) ==
  /\ i + Len(s) <= Len(d) + 1
  /\ \A k \in 1..Len(s) : d[i + k - 1] = s[k]

\* A parser that gets to the end of its string with r.
Read(r) == [ok |-> TRUE, value |-> r]

\* A spelled character is parsed as itself.
LEMMA OneReads ==
  ASSUME NEW d \in Seq(Symbols), NEW k \in Nat \ {0}, NEW c \in Symbols, NEW f,
         f[k] = ParseValue(f, d, k), NEW x \in Spellings(c), StandsAt(d, k, x),
         NEW r \in Seq(Symbols), f[k + Len(x)] = Read(r)
  PROVE  f[k] = Read(<<c>> \o r)
<1>1. Len(d) \in Nat
  BY SymbolsOf
<1>2. c # ""
  BY SymbolFacts
<1>3. /\ Quote # Backslash /\ Backslash # "" /\ Quote # "" /\ NL # "" /\ Nul # ""
      /\ Meaning("u") = "" /\ CodeMeaning("d83d") = ""
  BY DEF Quote, Backslash, NL, Nul, Meaning, CodeMeaning
<1>4. Then(c, Read(r)) = Read(<<c>> \o r)
  <2> DEFINE v == <<c>> \o r
             q == Read(r)
  <2>1. <<c>> \in Seq(Symbols)
    OBVIOUS
  <2>2. v \in Seq(Symbols)
    BY <2>1, ConcatProperties
  <2>3. q \in Parses /\ q.ok = TRUE /\ q.value = r
    BY DEF Parses, Read
  <2>4. Then(c, q) = [q EXCEPT !.value = v]
    BY <2>3 DEF Then
  <2> HIDE DEF v, q
  <2> DEFINE p == [q EXCEPT !.value = v]
  <2>5. p \in Parses /\ p.ok = TRUE /\ p.value = v
    BY <2>2, <2>3 DEF Parses
  <2> HIDE DEF p
  <2>6. p = [ok |-> TRUE, value |-> v]
    BY <2>5 DEF Parses
  <2>7. Then(c, q) = p
    BY <2>4 DEF p
  <2> QED BY <2>6, <2>7 DEF v, q, Read
<1>5. x \in Seq(Symbols)
  BY SpellingIs
<1>6. /\ Len(x) \in Nat /\ k + Len(x) <= Len(d) + 1
      /\ \A i \in 1..Len(x) : d[k + i - 1] = x[i]
  BY <1>5, SymbolsOf DEF StandsAt
<1> DEFINE goes == \/ Escapes(d, k) /\ Meaning(At(d, k + 1)) = c /\ Len(x) = 2
                   \/ Codes(d, k) /\ CodeMeaning(At(d, k + 2)) = c /\ Len(x) = 3
                   \/ Pairs(d, k) /\ c = Wide /\ Len(x) = 6
                   \/ Plain(d, k) /\ At(d, k) = c /\ Len(x) = 1
<1>7. ASSUME NEW e, x = <<Backslash, e>>, Meaning(e) = c
      PROVE  goes
  <2>1. Len(x) = 2 /\ x[1] = Backslash /\ x[2] = e
    BY <1>7
  <2>2. 1 \in 1..2 /\ 2 \in 1..2 /\ k + 1 - 1 = k /\ k + 2 - 1 = k + 1
        /\ k <= Len(d) /\ k + 1 <= Len(d)
    BY <1>1, <1>6, <2>1
  <2>3. At(d, k) = Backslash /\ At(d, k + 1) = e
    BY <1>6, <2>1, <2>2 DEF At
  <2> QED BY <1>2, <1>7, <2>1, <2>3 DEF Escapes
<1>8. ASSUME NEW h, x = <<Backslash, "u", h>>, CodeMeaning(h) = c
      PROVE  goes
  <2>1. Len(x) = 3 /\ x[1] = Backslash /\ x[2] = "u" /\ x[3] = h
    BY <1>8
  <2>2. /\ 1 \in 1..3 /\ 2 \in 1..3 /\ 3 \in 1..3
        /\ k + 1 - 1 = k /\ k + 2 - 1 = k + 1 /\ k + 3 - 1 = k + 2
        /\ k <= Len(d) /\ k + 1 <= Len(d) /\ k + 2 <= Len(d)
    BY <1>1, <1>6, <2>1
  <2>3. At(d, k) = Backslash /\ At(d, k + 1) = "u" /\ At(d, k + 2) = h
    BY <1>6, <2>1, <2>2 DEF At
  <2> QED BY <1>2, <1>8, <2>1, <2>3 DEF Codes
<1>9. ASSUME x = <<Backslash, "u", "d83d", Backslash, "u", "de00">> /\ c = Wide
      PROVE  goes
  <2>1. /\ Len(x) = 6 /\ x[1] = Backslash /\ x[2] = "u" /\ x[3] = "d83d"
        /\ x[4] = Backslash /\ x[5] = "u" /\ x[6] = "de00"
    BY <1>9
  <2>2. /\ 1 \in 1..6 /\ 2 \in 1..6 /\ 3 \in 1..6 /\ 4 \in 1..6 /\ 5 \in 1..6 /\ 6 \in 1..6
        /\ k + 1 - 1 = k /\ k + 2 - 1 = k + 1 /\ k + 3 - 1 = k + 2
        /\ k + 4 - 1 = k + 3 /\ k + 5 - 1 = k + 4 /\ k + 6 - 1 = k + 5
        /\ k <= Len(d) /\ k + 1 <= Len(d) /\ k + 2 <= Len(d)
        /\ k + 3 <= Len(d) /\ k + 4 <= Len(d) /\ k + 5 <= Len(d)
    BY <1>1, <1>6, <2>1, SMTT(60)
  <2>3. /\ d[k] = Backslash /\ d[k + 1] = "u" /\ d[k + 2] = "d83d"
        /\ d[k + 3] = Backslash /\ d[k + 4] = "u" /\ d[k + 5] = "de00"
    BY <1>6, <2>1, <2>2
  <2>4. Pairs(d, k)
    BY <2>2, <2>3 DEF Pairs, At
  <2>5. c = Wide /\ Len(x) = 6
    BY <1>9, <2>1
  <2> QED BY <2>4, <2>5
<1>10. ASSUME x = <<c>> /\ c \notin {Quote, Backslash, NL, Nul}
       PROVE  goes
  <2>1. Len(x) = 1 /\ x[1] = c
    BY <1>10
  <2>2. 1 \in 1..1 /\ k + 1 - 1 = k /\ k <= Len(d)
    BY <1>1, <1>6, <2>1
  <2>3. At(d, k) = c
    BY <1>6, <2>1, <2>2 DEF At
  <2>4. Plain(d, k)
    BY <1>2, <1>10, <2>3 DEF Plain
  <2> QED BY <2>1, <2>3, <2>4
<1> HIDE DEF goes
<1>11. goes
  BY <1>7, <1>8, <1>9, <1>10, SpellingIs
<1>12. Moves(d, k) /\ ~Ends(d, k) /\ Got(d, k) = c /\ Further(d, k) = k + Len(x)
  BY <1>2, <1>3, <1>11 DEF goes, Moves, Ends, Got, Further, Escapes, Codes, Pairs, Plain
<1> QED BY <1>4, <1>12 DEF ParseValue

\* What stands somewhere stands there part by part.
LEMMA StandsParts ==
  ASSUME NEW d \in Seq(Symbols), NEW i \in Nat \ {0},
         NEW s \in Seq(Symbols), NEW u \in Seq(Symbols), StandsAt(d, i, s \o u)
  PROVE  /\ StandsAt(d, i, s) /\ StandsAt(d, i + Len(s), u)
         /\ Len(s) \in Nat /\ Len(s \o u) = Len(s) + Len(u)
         /\ i + Len(s) \in Nat \ {0}
<1> DEFINE k == i + Len(s)
           z == s \o u
<1>1. Len(d) \in Nat /\ Len(s) \in Nat /\ Len(u) \in Nat /\ k \in Nat /\ k # 0
  <2>1. Len(d) \in Nat /\ Len(s) \in Nat /\ Len(u) \in Nat
    BY SymbolsOf
  <2> QED BY <2>1
<1>2. /\ Len(z) = Len(s) + Len(u)
      /\ \A j \in 1..(Len(s) + Len(u)) : z[j] = IF j <= Len(s) THEN s[j] ELSE u[j - Len(s)]
  BY ConcatProperties
<1>3. i + Len(z) <= Len(d) + 1 /\ \A j \in 1..Len(z) : d[i + j - 1] = z[j]
  BY DEF StandsAt
<1> HIDE DEF z
<1>4. i + Len(s) <= Len(d) + 1 /\ k + Len(u) <= Len(d) + 1
  BY <1>1, <1>2, <1>3
<1>5. \A j \in 1..Len(s) : d[i + j - 1] = s[j]
  <2> SUFFICES ASSUME NEW j \in 1..Len(s) PROVE d[i + j - 1] = s[j]
    OBVIOUS
  <2>1. j \in 1..(Len(s) + Len(u)) /\ j <= Len(s)
    BY <1>1
  <2> QED BY <1>2, <1>3, <2>1
<1>6. \A j \in 1..Len(u) : d[k + j - 1] = u[j]
  <2> SUFFICES ASSUME NEW j \in 1..Len(u) PROVE d[k + j - 1] = u[j]
    OBVIOUS
  <2> DEFINE m == Len(s) + j
  <2>1. m \in 1..(Len(s) + Len(u)) /\ ~(m <= Len(s)) /\ m - Len(s) = j
        /\ i + m - 1 = k + j - 1
    BY <1>1
  <2> HIDE DEF m, k
  <2>2. z[m] = u[j] /\ d[i + m - 1] = z[m]
    BY <1>2, <1>3, <2>1
  <2> QED BY <2>1, <2>2
<1>7. StandsAt(d, i, s) /\ StandsAt(d, k, u)
  BY <1>4, <1>5, <1>6 DEF StandsAt
<1> QED BY <1>1, <1>2, <1>7 DEF z

\* One symbol.
LEMMA SymbolStands ==
  ASSUME NEW d \in Seq(Symbols), NEW i \in Nat \ {0}, NEW c, StandsAt(d, i, <<c>>)
  PROVE  d[i] = c /\ i <= Len(d)
<1>1. Len(d) \in Nat
  BY SymbolsOf
<1>2. i + 1 <= Len(d) + 1 /\ \A j \in 1..1 : d[i + j - 1] = <<c>>[j]
  BY DEF StandsAt
<1>3. 1 \in 1..1 /\ i + 1 - 1 = i /\ i <= Len(d)
  BY <1>1, <1>2
<1> QED BY <1>2, <1>3

\* What parses a document from a place on.
Parser(f, d, i) == \A k \in i..(Len(d) + 1) : f[k] = ParseValue(f, d, k)

\* So is every text, whatever it looks like and however it is spelled.
LEMMA TextReads ==
  ASSUME NEW d \in Seq(Symbols), NEW f, NEW i \in Nat \ {0}, Parser(f, d, i),
         NEW h, Speller(h), NEW t \in Seq(Symbols), StandsAt(d, i, Spelt(h, t)),
         NEW q \in Seq(Symbols), f[i + Len(Spelt(h, t))] = Read(q)
  PROVE  f[i] = Read(t \o q)
<1> DEFINE P == {u \in Seq(Symbols) :
                   StandsAt(d, i, Spelt(h, u)) =>
                     \A r \in Seq(Symbols) :
                       f[i + Len(Spelt(h, u))] = Read(r) => f[i] = Read(u \o r)}
<1>0. Len(d) \in Nat /\ \A u \in Seq(Symbols) : Len(u) \in Nat
  BY SymbolsOf
<1>1. <<>> \in P
  <2>1. \A r \in Seq(Symbols) : <<>> \o r = r
    BY ConcatEmptySeq
  <2>2. Spelt(h, <<>>) = <<>> /\ Len(<<>>) = 0 /\ i + 0 = i
    BY SpeltIs
  <2>3. <<>> \in Seq(Symbols)
    BY EmptySeq
  <2> HIDE DEF Symbols
  <2>4. i + Len(Spelt(h, <<>>)) = i
    BY <2>2
  <2>5. \A r \in Seq(Symbols) :
          f[i + Len(Spelt(h, <<>>))] = Read(r) => f[i] = Read(<<>> \o r)
    BY <2>1, <2>4
  <2> QED BY <2>3, <2>5
<1>2. ASSUME NEW u \in Seq(Symbols), NEW c \in Symbols, u \in P
      PROVE  Append(u, c) \in P
  <2> DEFINE e == Spelt(h, u)
             x == h[c]
             k == i + Len(e)
  <2>0. x \in Spellings(c)
    BY DEF Speller
  <2>1. e \in Seq(Symbols) /\ x \in Seq(Symbols) /\ Spelt(h, Append(u, c)) = e \o x
        /\ Append(u, c) \in Seq(Symbols)
    BY <2>0, SpellingIs, SpeltIs, AppendProperties
  <2>2. Len(e) \in Nat /\ Len(x) \in Nat /\ k \in Nat /\ k # 0 /\ i <= k
    BY <1>0, <2>1
  <2> SUFFICES ASSUME StandsAt(d, i, Spelt(h, Append(u, c))),
                      NEW r \in Seq(Symbols),
                      f[i + Len(Spelt(h, Append(u, c)))] = Read(r)
               PROVE  f[i] = Read(Append(u, c) \o r)
    BY <2>1
  <2> HIDE DEF e, x, P
  <2>3. StandsAt(d, i, e) /\ StandsAt(d, k, x)
    BY <2>1, StandsParts
  <2>4. k + Len(x) = i + Len(Spelt(h, Append(u, c)))
    <3>1. Len(e \o x) = Len(e) + Len(x)
      BY <2>1, ConcatProperties
    <3>2. k + Len(x) = i + (Len(e) + Len(x))
      BY <2>2
    <3> QED BY <2>1, <3>1, <3>2
  <2>5. k \in i..(Len(d) + 1)
    <3>1. k + Len(x) <= Len(d) + 1
      BY <2>3 DEF StandsAt
    <3> QED BY <1>0, <2>2, <3>1
  <2>6. f[k] = ParseValue(f, d, k)
    BY <2>5 DEF Parser
  <2>7. f[k] = Read(<<c>> \o r)
    <3> HIDE DEF k
    <3>1. k \in Nat \ {0}
      BY <2>2
    <3>2. StandsAt(d, k, x) /\ f[k + Len(x)] = Read(r)
      BY <2>3, <2>4
    <3> QED BY <2>0, <2>6, <3>1, <3>2, OneReads
  <2>8. <<c>> \in Seq(Symbols) /\ <<c>> \o r \in Seq(Symbols)
    <3>1. <<c>> \in Seq(Symbols)
      OBVIOUS
    <3> QED BY <3>1, ConcatProperties
  <2>9. f[i] = Read(u \o (<<c>> \o r))
    BY <1>2, <2>3, <2>7, <2>8 DEF P, k, e
  <2>10. u \o (<<c>> \o r) = Append(u, c) \o r
    <3>1. (u \o <<c>>) \o r = u \o (<<c>> \o r)
      <4>1. Associates(u, <<c>>, r)
        BY <2>8, Associative
      <4> QED BY <4>1 DEF Associates
    <3>2. Append(u, c) = u \o <<c>>
      BY AppendIsConcat
    <3> QED BY <3>1, <3>2
  <2> QED BY <2>9, <2>10
<1> HIDE DEF P
<1>3. Seq(Symbols) \subseteq P
  <2> HIDE DEF Symbols
  <2> QED BY <1>1, <1>2, SeqInduction
<1> QED BY <1>3 DEF P

\* Something between quotes.
LEMMA QuotedStands ==
  ASSUME NEW d \in Seq(Symbols), NEW i \in Nat \ {0}, NEW s \in Seq(Symbols),
         StandsAt(d, i, Quoted(s))
  PROVE  /\ d[i] = Quote /\ StandsAt(d, i + 1, s) /\ d[i + 1 + Len(s)] = Quote
         /\ i + 1 + Len(s) <= Len(d) /\ Len(Quoted(s)) = 2 + Len(s) /\ Len(s) \in Nat
<1> DEFINE q == <<Quote>>
           qs == q \o s
           k == i + 1
           m == k + Len(s)
<1>0. q \in Seq(Symbols) /\ Len(q) = 1
  <2>1. Quote \in Symbols
    BY SymbolFacts
  <2> QED BY <2>1, TupleIs
<1> HIDE DEF q
<1>1. qs \in Seq(Symbols) /\ Quoted(s) = qs \o q
  BY <1>0, ConcatProperties DEF Quoted, q
<1> HIDE DEF qs
<1>2. /\ StandsAt(d, i, qs) /\ StandsAt(d, i + Len(qs), q) /\ i + Len(qs) \in Nat \ {0}
      /\ Len(Quoted(s)) = Len(qs) + Len(q)
  <2>1. StandsAt(d, i, qs \o q)
    BY <1>1
  <2>2. /\ StandsAt(d, i, qs) /\ StandsAt(d, i + Len(qs), q)
        /\ Len(qs \o q) = Len(qs) + Len(q) /\ i + Len(qs) \in Nat \ {0}
    <3>1. qs \in Seq(Symbols) /\ q \in Seq(Symbols)
      BY <1>0, <1>1
    <3>2. StandsAt(d, i, qs) /\ StandsAt(d, i + Len(qs), q)
      BY <2>1, <3>1, StandsParts
    <3>3. Len(qs \o q) = Len(qs) + Len(q) /\ i + Len(qs) \in Nat \ {0}
      BY <2>1, <3>1, StandsParts
    <3> QED BY <3>2, <3>3
  <2> QED BY <1>1, <2>2
<1>3. StandsAt(d, i, q) /\ StandsAt(d, i + Len(q), s) /\ Len(qs) = Len(q) + Len(s)
  <2>1. StandsAt(d, i, q \o s)
    BY <1>2 DEF qs
  <2>2. /\ StandsAt(d, i, q) /\ StandsAt(d, i + Len(q), s)
        /\ Len(q \o s) = Len(q) + Len(s)
    <3>1. q \in Seq(Symbols)
      BY <1>0
    <3>2. StandsAt(d, i, q) /\ StandsAt(d, i + Len(q), s)
      BY <2>1, <3>1, StandsParts
    <3>3. Len(q \o s) = Len(q) + Len(s)
      BY <2>1, <3>1, StandsParts
    <3> QED BY <3>2, <3>3
  <2> QED BY <2>2 DEF qs
<1>4. Len(s) \in Nat
  BY SymbolsOf
<1>5. i + Len(qs) = m /\ i + Len(q) = k /\ Len(qs) + Len(q) = 2 + Len(s)
  BY <1>0, <1>3, <1>4
<1> HIDE DEF m, k
<1>6. StandsAt(d, m, <<Quote>>) /\ m \in Nat \ {0} /\ StandsAt(d, i, <<Quote>>)
  BY <1>2, <1>3, <1>5 DEF q
<1>7. d[m] = Quote /\ m <= Len(d) /\ d[i] = Quote
  BY <1>6, SymbolStands
<1> QED BY <1>2, <1>3, <1>4, <1>5, <1>7 DEF m, k

\* A member stands at b: its name, a colon between g blanks on either side, and
\* its value, spelled s, up to a last quote.
LastQuote(b, s, g) == b + 5 + 2 * g + Len(s)

MemberAt(d, b, n, s, g) ==
  /\ d[b] = Quote /\ d[b + 1] = n /\ d[b + 2] = Quote
  /\ g = 1 => d[b + 3] = Space /\ d[b + 5] = Space
  /\ d[b + 3 + g] = ":" /\ d[b + 4 + 2 * g] = Quote
  /\ StandsAt(d, b + 5 + 2 * g, s)
  /\ d[LastQuote(b, s, g)] = Quote /\ LastQuote(b, s, g) <= Len(d)

\* Its name stands nowhere before it.
FirstAt(d, n, b) == \A k \in 1..(Len(d) - 2) : Named(d, n, k) => b <= k

\* A search for its name finds its value.
LEMMA ReadsMember ==
  ASSUME NEW d \in Seq(Symbols), NEW n, NEW b \in Nat \ {0}, NEW g \in 0..1,
         NEW h, Speller(h), NEW v \in Seq(Symbols), MemberAt(d, b, n, Spelt(h, v), g),
         FirstAt(d, n, b), NEW old
  PROVE  JsonString(d, n, old) = Read(v)
<1> DEFINE s == Spelt(h, v)
           L == Len(s)
           i == b + 5 + 2 * g
           places == {k \in 1..(Len(d) - 2) : Named(d, n, k)}
           colon == NoBlank(d, Min(places) + 3)
           start == NoBlank(d, colon + 1)
           none == \/ places = {} \/ colon > Len(d) \/ d[colon] # ":"
                   \/ start > Len(d) \/ d[start] # Quote
<1>1. JsonString(d, n, old) = IF none THEN [ok |-> FALSE, value |-> old]
                              ELSE ParseFrom(d, start + 1)
  BY Zenon DEF JsonString
<1>2. /\ Len(d) \in Nat /\ L \in Nat /\ s \in Seq(Symbols)
      /\ b + 5 + 2 * g + L <= Len(d) /\ g \in Nat /\ g <= 1 /\ b \in Nat
  <2>1. s \in Seq(Symbols)
    BY SpeltIs
  <2>2. Len(d) \in Nat /\ L \in Nat
    BY <2>1, SymbolsOf
  <2> QED BY <2>1, <2>2 DEF MemberAt, LastQuote
<1>3. /\ d[b] = Quote /\ d[b + 1] = n /\ d[b + 2] = Quote
      /\ g = 1 => d[b + 3] = Space /\ d[b + 5] = Space
      /\ d[b + 3 + g] = ":" /\ d[b + 4 + 2 * g] = Quote
      /\ StandsAt(d, i, s) /\ d[i + L] = Quote
  BY DEF MemberAt, LastQuote
<1> HIDE DEF L, s
<1>4. b \in places
  <2>1. b \in 1..(Len(d) - 2)
    BY <1>2
  <2> QED BY <1>3, <2>1 DEF Named
<1>5. Min(places) = b
  <2>1. places \subseteq Nat /\ places # {} /\ \A k \in places : b <= k
    BY <1>4 DEF FirstAt
  <2> HIDE DEF places
  <2>2. Min(places) \in places /\ Min(places) \in Nat /\ \A y \in places : Min(places) <= y
    BY <2>1, MinIs
  <2>3. Min(places) <= b /\ b <= Min(places)
    BY <1>4, <2>1, <2>2
  <2> QED BY <2>2, <2>3
<1> HIDE DEF places
<1>6. ":" \notin Blank /\ Quote \notin Blank /\ Space \in Blank
  BY DEF Blank, Quote, Space, NL, CR
<1>7. colon = b + 3 + g
  <2>1. CASE g = 0
    <3>1. b + 3 \in Nat \ {0} /\ b + 3 <= Len(d) /\ b + 3 + g = b + 3
      BY <1>2, <2>1
    <3>2. NoBlank(d, b + 3) = b + 3
      BY <1>3, <1>6, <3>1, NoBlankIs
    <3> QED BY <1>5, <3>1, <3>2
  <2>2. CASE g = 1
    <3>1. b + 3 \in Nat \ {0} /\ b + 3 <= Len(d) /\ b + 3 + g = (b + 3) + 1
          /\ (b + 3) + 1 <= Len(d)
      BY <1>2, <2>2
    <3>2. NoBlank(d, b + 3) = (b + 3) + 1
      BY <1>3, <1>6, <2>2, <3>1, NoBlankBehind
    <3> QED BY <1>5, <3>1, <3>2
  <2> QED BY <1>2, <2>1, <2>2
<1> HIDE DEF colon
<1>8. start = b + 4 + 2 * g
  <2>1. CASE g = 0
    <3>1. colon + 1 = b + 4 /\ b + 4 \in Nat \ {0} /\ b + 4 <= Len(d) /\ b + 4 + 2 * g = b + 4
      BY <1>2, <1>7, <2>1
    <3>2. NoBlank(d, b + 4) = b + 4
      BY <1>3, <1>6, <3>1, NoBlankIs
    <3> QED BY <3>1, <3>2
  <2>2. CASE g = 1
    <3>1. colon + 1 = b + 5 /\ b + 5 \in Nat \ {0} /\ b + 5 <= Len(d)
          /\ b + 4 + 2 * g = (b + 5) + 1 /\ (b + 5) + 1 <= Len(d)
      BY <1>2, <1>7, <2>2
    <3>2. NoBlank(d, b + 5) = (b + 5) + 1
      BY <1>3, <1>6, <2>2, <3>1, NoBlankBehind
    <3> QED BY <3>1, <3>2
  <2> QED BY <1>2, <2>1, <2>2
<1> HIDE DEF start
<1>9. ~none
  <2>1. ~(colon > Len(d)) /\ ~(start > Len(d))
    BY <1>2, <1>7, <1>8
  <2> QED BY <1>3, <1>4, <1>7, <1>8, <2>1
<1> HIDE DEF none
<1>10. JsonString(d, n, old) = ParseFrom(d, i)
  <2>1. start + 1 = i
    BY <1>2, <1>8
  <2> HIDE DEF i
  <2> QED BY <1>1, <1>9, <2>1
<1>11. i \in 1..(Len(d) + 1) /\ i \in i..(Len(d) + 1) /\ i + L \in i..(Len(d) + 1)
       /\ i \in Nat \ {0} /\ i + L <= Len(d)
  BY <1>2
<1> HIDE DEF i
<1>12. PICK f : /\ ParseFrom(d, i) = f[i]
                /\ \A k \in i..(Len(d) + 1) : f[k] = ParseValue(f, d, k) /\ f[k] \in Parses
  BY <1>11, ParseFromIs
<1>13. f[i] = Read(v \o <<>>)
  <2>1. \A k \in i..(Len(d) + 1) : f[k] = ParseValue(f, d, k)
    BY <1>12
  <2>2. <<>> \in Seq(Symbols)
    BY EmptySeq
  <2>3. Ends(d, i + L)
    BY <1>3, <1>11 DEF Ends, At
  <2>4. f[i + L] = Read(<<>>)
    BY <1>11, <2>1, <2>3 DEF ParseValue, Read
  <2> DEFINE nil == <<>>
  <2>5. nil \in Seq(Symbols) /\ f[i + Len(Spelt(h, v))] = Read(nil) /\ i \in Nat \ {0}
    BY <1>11, <2>2, <2>4 DEF L, s
  <2> HIDE DEF nil
  <2>6. Parser(f, d, i) /\ StandsAt(d, i, Spelt(h, v))
    BY <1>3, <2>1 DEF Parser, s
  <2>7. f[i] = Read(v \o nil)
    BY <2>5, <2>6, TextReads
  <2> QED BY <2>7 DEF nil
<1>14. v \o <<>> = v
  BY ConcatEmptySeq
<1> QED BY <1>10, <1>12, <1>13, <1>14

\* What a request is made of.
MemberEnds(b, n, s, gap) == b + Len(Member(n, s, gap)) = LastQuote(b, s, Len(gap)) + 1

LEMMA MemberSymbols ==
  ASSUME NEW d \in Seq(Symbols), NEW b \in Nat \ {0}, NEW n \in Symbols,
         NEW s \in Seq(Symbols), NEW gap \in {<<>>, <<Space>>},
         StandsAt(d, b, Member(n, s, gap))
  PROVE  /\ MemberAt(d, b, n, s, Len(gap)) /\ Len(gap) \in 0..1
         /\ MemberEnds(b, n, s, gap)
<1> DEFINE g == Len(gap)
           name == <<n>>
           is == <<":">>
           a0 == Quoted(name)
           a1 == a0 \o gap
           a2 == a1 \o is
           a3 == a2 \o gap
           a4 == a3 \o Quoted(s)
           b2 == b + 4 + g
           b3 == b + 4 + 2 * g
<1>1. \A t, u \in Seq(Symbols) : t \o u \in Seq(Symbols)
  BY ConcatProperties
<1>2. /\ name \in Seq(Symbols) /\ is \in Seq(Symbols) /\ <<Quote>> \in Seq(Symbols)
      /\ Len(name) = 1 /\ Len(is) = 1
  <2>1. ":" \in Symbols /\ Quote \in Symbols
    BY SymbolFacts
  <2> QED BY <2>1, TupleIs
<1>3. gap \in Seq(Symbols) /\ g \in 0..1 /\ (g = 1 => gap = <<Space>>)
  <2>1. <<>> \in Seq(Symbols) /\ <<Space>> \in Seq(Symbols)
    BY ConstantSymbols
  <2>2. CASE gap = <<>>
    <3>1. g = 0
      BY <2>2
    <3> QED BY <2>1, <2>2, <3>1
  <2>3. CASE gap = <<Space>>
    <3>1. g = 1
      BY <2>3
    <3> QED BY <2>1, <2>3, <3>1
  <2> QED BY <2>2, <2>3
<1>4. Member(n, s, gap) = a4
  BY Zenon DEF Member
<1> HIDE DEF name, is, g
<1>5. a0 \in Seq(Symbols) /\ Quoted(s) \in Seq(Symbols)
  BY <1>1, <1>2 DEF Quoted
<1> HIDE DEF a0
<1>6. a1 \in Seq(Symbols)
  BY <1>1, <1>3, <1>5
<1> HIDE DEF a1
<1>7. a2 \in Seq(Symbols)
  BY <1>1, <1>2, <1>6
<1> HIDE DEF a2
<1>8. a3 \in Seq(Symbols)
  BY <1>1, <1>3, <1>7
<1> HIDE DEF a3
<1>9. StandsAt(d, b, a3 \o Quoted(s))
  BY <1>4
<1>10. StandsAt(d, b, a3) /\ StandsAt(d, b + Len(a3), Quoted(s))
  BY <1>5, <1>8, <1>9, StandsParts
<1>11. Len(a3 \o Quoted(s)) = Len(a3) + Len(Quoted(s))
  BY <1>5, <1>8, <1>9, StandsParts
<1>12. StandsAt(d, b, a2 \o gap)
  BY <1>10 DEF a3
<1>13. StandsAt(d, b, a2) /\ StandsAt(d, b + Len(a2), gap)
  BY <1>3, <1>7, <1>12, StandsParts
<1>14. Len(a3) = Len(a2) + Len(gap)
  <2>1. Len(a2 \o gap) = Len(a2) + Len(gap)
    BY <1>3, <1>7, <1>12, StandsParts
  <2> QED BY <2>1 DEF a3
<1>15. StandsAt(d, b, a1 \o is)
  BY <1>13 DEF a2
<1>16. StandsAt(d, b, a1) /\ StandsAt(d, b + Len(a1), is)
  BY <1>2, <1>6, <1>15, StandsParts
<1>17. Len(a2) = Len(a1) + Len(is)
  <2>1. Len(a1 \o is) = Len(a1) + Len(is)
    BY <1>2, <1>6, ConcatProperties
  <2> QED BY <2>1 DEF a2
<1>18. StandsAt(d, b, a0 \o gap)
  BY <1>16 DEF a1
<1>19. StandsAt(d, b, a0) /\ StandsAt(d, b + Len(a0), gap)
  BY <1>3, <1>5, <1>18, StandsParts
<1>20. Len(a1) = Len(a0) + Len(gap)
  <2>1. Len(a0 \o gap) = Len(a0) + Len(gap)
    BY <1>3, <1>5, <1>18, StandsParts
  <2> QED BY <2>1 DEF a1
<1>21. /\ d[b] = Quote /\ StandsAt(d, b + 1, name) /\ d[b + 1 + Len(name)] = Quote
       /\ Len(a0) = 2 + Len(name)
  <2>1. StandsAt(d, b, Quoted(name))
    BY <1>19 DEF a0
  <2> QED BY <1>2, <2>1, QuotedStands DEF a0
<1>22. Len(a0) = 3 /\ Len(a1) = 3 + g /\ Len(a2) = 4 + g /\ Len(a3) = 4 + 2 * g
  BY <1>2, <1>3, <1>14, <1>17, <1>20, <1>21 DEF g
<1>23. d[b + 1] = n /\ d[b + 2] = Quote
  <2>1. b + 1 \in Nat \ {0} /\ b + 1 + Len(name) = b + 2
    BY <1>2
  <2>2. StandsAt(d, b + 1, <<n>>)
    BY <1>21 DEF name
  <2> QED BY <1>21, <2>1, <2>2, SymbolStands
<1>24. d[b + 3 + g] = ":"
  <2> DEFINE j == b + 3 + g
  <2>1. j \in Nat \ {0} /\ b + Len(a1) = j
    BY <1>3, <1>22
  <2> HIDE DEF j
  <2>2. StandsAt(d, j, <<":">>)
    BY <1>16, <2>1 DEF is
  <2>3. d[j] = ":"
    BY <2>1, <2>2, SymbolStands
  <2> QED BY <2>3 DEF j
<1>25. ASSUME g = 1
       PROVE  d[b + 3] = Space /\ d[b + 5] = Space
  <2>1. b + Len(a0) = b + 3 /\ b + Len(a2) = b + 5 /\ b + 3 \in Nat \ {0} /\ b + 5 \in Nat \ {0}
    BY <1>22, <1>25
  <2>2. StandsAt(d, b + 3, <<Space>>) /\ StandsAt(d, b + 5, <<Space>>)
    BY <1>3, <1>13, <1>19, <1>25, <2>1
  <2> QED BY <2>1, <2>2, SymbolStands
<1>26. /\ d[b3] = Quote /\ StandsAt(d, b3 + 1, s) /\ d[b3 + 1 + Len(s)] = Quote
       /\ b3 + 1 + Len(s) <= Len(d) /\ Len(Quoted(s)) = 2 + Len(s) /\ Len(s) \in Nat
  <2>1. b3 \in Nat \ {0} /\ b + Len(a3) = b3
    BY <1>3, <1>22
  <2> HIDE DEF b3
  <2>2. StandsAt(d, b3, Quoted(s))
    BY <1>10, <2>1
  <2> QED BY <2>1, <2>2, QuotedStands
<1>27. b3 + 1 = b + 5 + 2 * g /\ b3 + 1 + Len(s) = LastQuote(b, s, g)
  BY <1>3, <1>26 DEF LastQuote
<1>28. b + Len(a3 \o Quoted(s)) = LastQuote(b, s, g) + 1
  BY <1>3, <1>11, <1>22, <1>26 DEF LastQuote
<1>29. MemberAt(d, b, n, s, g)
  BY <1>21, <1>23, <1>24, <1>25, <1>26, <1>27 DEF MemberAt
<1> QED BY <1>3, <1>4, <1>28, <1>29 DEF g, MemberEnds

\* A quote inside a spelled text is always escaped.
Safe(x) == \A i \in 1..Len(x) : x[i] = Quote => i # 1 /\ x[i - 1] = Backslash

LEMMA SpellingQuotes ==
  ASSUME NEW c \in Symbols, NEW x \in Spellings(c)
  PROVE  /\ x \in Seq(Symbols) /\ Len(x) \in Nat \ {0} /\ Safe(x)
         /\ x[Len(x)] = Quote => c = Quote
         /\ x[Len(x)] \in Names => x = <<c>>
<1> DEFINE good == /\ Len(x) \in Nat \ {0} /\ Safe(x)
                   /\ x[Len(x)] = Quote => c = Quote
                   /\ x[Len(x)] \in Names => x = <<c>>
<1>1. /\ Backslash # Quote /\ "u" # Quote /\ "de00" # Quote /\ "d83d" # Quote
      /\ Meaning(Quote) = Quote /\ CodeMeaning(Quote) = ""
      /\ \A n \in Names : Meaning(n) = "" /\ CodeMeaning(n) = "" /\ n # "de00"
  BY DEF Backslash, Quote, Meaning, CodeMeaning, Names, LanguageNames
<1>2. c # ""
  BY SymbolFacts
<1>3. ASSUME NEW e, x = <<Backslash, e>>, Meaning(e) = c
      PROVE  good
  <2>1. Len(x) = 2 /\ x[1] = Backslash /\ x[2] = e
    BY <1>3
  <2>2. Safe(x)
    <3> SUFFICES ASSUME NEW i \in 1..2, x[i] = Quote PROVE i # 1 /\ x[i - 1] = Backslash
      BY <2>1 DEF Safe
    <3>1. i # 1
      BY <1>1, <2>1
    <3>2. i - 1 = 1
      BY <3>1
    <3> QED BY <2>1, <3>1, <3>2
  <2>3. e = Quote => c = Quote
    BY <1>1, <1>3
  <2>4. e \notin Names
    BY <1>1, <1>2, <1>3
  <2> QED BY <2>1, <2>2, <2>3, <2>4
<1>4. ASSUME NEW h, x = <<Backslash, "u", h>>, CodeMeaning(h) = c
      PROVE  good
  <2>1. Len(x) = 3 /\ x[1] = Backslash /\ x[2] = "u" /\ x[3] = h
    BY <1>4
  <2>2. h # Quote /\ h \notin Names
    BY <1>1, <1>2, <1>4
  <2>3. Safe(x)
    <3> SUFFICES ASSUME NEW i \in 1..3 PROVE x[i] # Quote
      BY <2>1 DEF Safe
    <3>1. i = 1 \/ i = 2 \/ i = 3
      OBVIOUS
    <3> QED BY <1>1, <2>1, <2>2, <3>1
  <2> QED BY <2>1, <2>2, <2>3
<1>5. ASSUME x = <<Backslash, "u", "d83d", Backslash, "u", "de00">>
      PROVE  good
  <2>1. /\ Len(x) = 6 /\ x[1] = Backslash /\ x[2] = "u" /\ x[3] = "d83d"
        /\ x[4] = Backslash /\ x[5] = "u" /\ x[6] = "de00"
    BY <1>5
  <2>2. Safe(x)
    <3> SUFFICES ASSUME NEW i \in 1..6 PROVE x[i] # Quote
      BY <2>1 DEF Safe
    <3>1. i = 1 \/ i = 2 \/ i = 3 \/ i = 4 \/ i = 5 \/ i = 6
      OBVIOUS
    <3> QED BY <1>1, <2>1, <3>1
  <2>3. Len(x) = 6 /\ x[Len(x)] = "de00"
    BY <2>1
  <2>4. "de00" \notin Names /\ "de00" # Quote
    BY <1>1
  <2> QED BY <2>2, <2>3, <2>4
<1>6. ASSUME x = <<c>>, c \notin {Quote, Backslash, NL, Nul}
      PROVE  good
  <2>1. Len(x) = 1 /\ x[1] = c
    BY <1>6
  <2>2. \A i \in 1..1 : i = 1
    OBVIOUS
  <2> QED BY <1>6, <2>1, <2>2 DEF Safe
<1> HIDE DEF good
<1>7. good
  BY <1>3, <1>4, <1>5, <1>6, SpellingIs
<1>8. x \in Seq(Symbols)
  BY SpellingIs
<1> QED BY <1>7, <1>8 DEF good

LEMMA SpeltSafe ==
  ASSUME NEW h, Speller(h), NEW v \in Seq(Symbols)
  PROVE  Safe(Spelt(h, v))
<1> DEFINE P == {u \in Seq(Symbols) : Safe(Spelt(h, u))}
<1>1. <<>> \in P
  <2>1. Spelt(h, <<>>) = <<>> /\ <<>> \in Seq(Symbols) /\ Len(<<>>) = 0
    BY SpeltIs, EmptySeq
  <2>2. Safe(<<>>)
    BY <2>1 DEF Safe
  <2> QED BY <2>1, <2>2
<1>2. ASSUME NEW u \in Seq(Symbols), NEW c \in Symbols, u \in P
      PROVE  Append(u, c) \in P
  <2> DEFINE s == Spelt(h, u)
             x == h[c]
             z == s \o x
  <2>1. x \in Spellings(c)
    BY DEF Speller
  <2>2. x \in Seq(Symbols) /\ Len(x) \in Nat \ {0} /\ Safe(x)
    BY <2>1, SpellingQuotes
  <2>3. s \in Seq(Symbols) /\ Safe(s) /\ Spelt(h, Append(u, c)) = z
    BY <1>2, SpeltIs
  <2>4. Append(u, c) \in Seq(Symbols) /\ Len(s) \in Nat
    BY <2>3, SymbolsOf, AppendProperties
  <2> HIDE DEF s, x
  <2>5. /\ Len(z) = Len(s) + Len(x)
        /\ \A j \in 1..(Len(s) + Len(x)) : z[j] = IF j <= Len(s) THEN s[j] ELSE x[j - Len(s)]
    BY <2>2, <2>3, ConcatProperties
  <2> HIDE DEF z
  <2>6. ASSUME NEW i \in 1..(Len(s) + Len(x)), z[i] = Quote
        PROVE  i # 1 /\ z[i - 1] = Backslash
    <3>1. CASE i <= Len(s)
      <4>1. i \in 1..Len(s) /\ z[i] = s[i]
        BY <2>2, <2>4, <2>5, <3>1
      <4>2. i # 1 /\ s[i - 1] = Backslash
        BY <2>3, <2>6, <4>1 DEF Safe
      <4>3. i - 1 \in 1..(Len(s) + Len(x)) /\ i - 1 <= Len(s)
        BY <2>2, <2>4, <3>1, <4>2
      <4> QED BY <2>5, <4>2, <4>3
    <3>2. CASE ~(i <= Len(s))
      <4> DEFINE j == i - Len(s)
      <4>1. j \in 1..Len(x) /\ z[i] = x[j]
        BY <2>2, <2>4, <2>5, <3>2
      <4>2. j # 1 /\ x[j - 1] = Backslash
        <5> HIDE DEF j
        <5> QED BY <2>2, <2>6, <4>1 DEF Safe
      <4>3. /\ i - 1 \in 1..(Len(s) + Len(x)) /\ ~(i - 1 <= Len(s)) /\ i # 1
            /\ (i - 1) - Len(s) = j - 1
        BY <2>2, <2>4, <3>2, <4>1, <4>2
      <4> HIDE DEF j
      <4> QED BY <2>5, <4>2, <4>3
    <3> QED BY <3>1, <3>2
  <2>7. Safe(z)
    BY <2>5, <2>6 DEF Safe
  <2> QED BY <2>3, <2>4, <2>7
<1> HIDE DEF P
<1>3. Seq(Symbols) \subseteq P
  <2> HIDE DEF Symbols
  <2> QED BY <1>1, <1>2, SeqInduction
<1> QED BY <1>3 DEF P

\* The last symbol, and the one before it.
LEMMA LastOf ==
  ASSUME NEW s \in Seq(Symbols), NEW x \in Seq(Symbols), Len(x) # 0
  PROVE  /\ Len(s) \in Nat /\ Len(x) \in Nat /\ Len(s \o x) = Len(s) + Len(x)
         /\ (s \o x)[Len(s \o x)] = x[Len(x)]
         /\ Len(x) = 1 /\ Len(s) # 0 => (s \o x)[Len(s \o x) - 1] = s[Len(s)]
<1> DEFINE z == s \o x
<1>1. Len(s) \in Nat /\ Len(x) \in Nat
  BY SymbolsOf
<1>2. /\ Len(z) = Len(s) + Len(x)
      /\ \A j \in 1..(Len(s) + Len(x)) : z[j] = IF j <= Len(s) THEN s[j] ELSE x[j - Len(s)]
  BY ConcatProperties
<1> HIDE DEF z
<1>3. z[Len(s) + Len(x)] = x[Len(x)]
  <2>1. /\ Len(s) + Len(x) \in 1..(Len(s) + Len(x)) /\ ~(Len(s) + Len(x) <= Len(s))
        /\ (Len(s) + Len(x)) - Len(s) = Len(x)
    BY <1>1
  <2> QED BY <1>2, <2>1
<1>4. ASSUME Len(x) = 1, Len(s) # 0
      PROVE  z[Len(z) - 1] = s[Len(s)]
  <2>1. Len(z) - 1 = Len(s) /\ Len(s) \in 1..(Len(s) + Len(x)) /\ Len(s) <= Len(s)
    BY <1>1, <1>2, <1>4
  <2> QED BY <1>2, <2>1
<1> QED BY <1>1, <1>2, <1>3, <1>4 DEF z

\* What can be taken for a name at the end of a value.
MistakenFor(v, m) ==
  \/ v = <<m>>
  \/ Len(v) >= 2 /\ SubSeq(v, Len(v) - 1, Len(v)) = <<Quote, m>>

LEMMA SpeltEnds ==
  ASSUME NEW h, Speller(h), NEW v \in Seq(Symbols), NEW s, s = Spelt(h, v),
         NEW m \in Names, Len(s) # 0, s[Len(s)] = m,
         Len(s) = 1 \/ s[Len(s) - 1] = Quote
  PROVE  MistakenFor(v, m)
<1>0. /\ Spelt(h, <<>>) = <<>> /\ Len(<<>>) = 0
      /\ \A t \in Seq(Symbols) : Spelt(h, t) \in Seq(Symbols)
      /\ \A t \in Seq(Symbols), c \in Symbols : Spelt(h, Append(t, c)) = Spelt(h, t) \o h[c]
  BY SpeltIs
<1>1. v # <<>>
  BY <1>0
<1>2. PICK u \in Seq(Symbols), c \in Symbols : v = Append(u, c)
  <2> HIDE DEF Symbols
  <2> QED BY <1>1, SequenceEmptyOrAppend
<1> DEFINE x == h[c]
           r == Spelt(h, u)
<1>3. /\ x \in Seq(Symbols) /\ Len(x) \in Nat \ {0} /\ (x[Len(x)] \in Names => x = <<c>>)
  <2>1. x \in Spellings(c)
    BY DEF Speller
  <2> QED BY <2>1, SpellingQuotes
<1>4. s = r \o x /\ r \in Seq(Symbols)
  BY <1>0, <1>2
<1> HIDE DEF x, r
<1>5. /\ s[Len(s)] = x[Len(x)] /\ Len(s) = Len(r) + Len(x) /\ Len(r) \in Nat
      /\ Len(x) = 1 /\ Len(r) # 0 => s[Len(s) - 1] = r[Len(r)]
  BY <1>3, <1>4, LastOf
<1>6. x = <<m>> /\ c = m /\ Len(x) = 1
  <2>1. x = <<c>> /\ x[Len(x)] = m
    BY <1>3, <1>5
  <2>2. Len(x) = 1 /\ x[1] = c
    BY <2>1
  <2> QED BY <2>1, <2>2
<1>7. CASE u = <<>>
  <2>1. v = <<m>>
    BY <1>2, <1>6, <1>7
  <2> QED BY <2>1 DEF MistakenFor
<1>8. CASE u # <<>>
  <2>1. PICK w \in Seq(Symbols), e \in Symbols : u = Append(w, e)
    <3> HIDE DEF Symbols
    <3> QED BY <1>8, SequenceEmptyOrAppend
  <2> DEFINE y == h[e]
             t == Spelt(h, w)
  <2>2. y \in Seq(Symbols) /\ Len(y) \in Nat \ {0} /\ (y[Len(y)] = Quote => e = Quote)
    <3>1. y \in Spellings(e)
      BY DEF Speller
    <3> QED BY <3>1, SpellingQuotes
  <2>3. r = t \o y /\ t \in Seq(Symbols)
    BY <1>0, <2>1 DEF r
  <2> HIDE DEF y, t
  <2>4. r[Len(r)] = y[Len(y)] /\ Len(r) # 0
    <3>1. r[Len(r)] = y[Len(y)] /\ Len(r) = Len(t) + Len(y) /\ Len(t) \in Nat
      BY <2>2, <2>3, LastOf
    <3> QED BY <2>2, <3>1
  <2>5. Len(s) # 1
    BY <1>5, <1>6, <2>4
  <2>6. e = Quote
    BY <1>5, <1>6, <2>2, <2>4, <2>5
  <2>7. /\ Len(v) = Len(w) + 2 /\ Len(w) \in Nat
        /\ v[Len(w) + 1] = Quote /\ v[Len(w) + 2] = m
    <3>1. Len(u) = Len(w) + 1 /\ Len(w) \in Nat /\ u[Len(w) + 1] = e
      BY <2>1, Appended
    <3>2. Len(v) = Len(u) + 1 /\ v[Len(u) + 1] = c /\ \A j \in 1..Len(u) : v[j] = u[j]
      BY <1>2, Appended
    <3>3. Len(w) + 1 \in 1..Len(u) /\ Len(u) + 1 = Len(w) + 2
      BY <3>1
    <3> QED BY <1>6, <2>6, <3>1, <3>2, <3>3
  <2> DEFINE p == SubSeq(v, Len(v) - 1, Len(v))
  <2>8. p \in Seq(Symbols) /\ Len(p) = 2 /\ p[1] = Quote /\ p[2] = m
    <3>1. /\ Len(v) - 1 \in Nat \ {0} /\ Len(v) \in Nat /\ Len(v) <= Len(v)
          /\ Len(v) - 1 <= Len(v) + 1 /\ Len(v) - (Len(v) - 1) + 1 = 2
          /\ (Len(v) - 1) + 1 - 1 = Len(w) + 1 /\ (Len(v) - 1) + 2 - 1 = Len(w) + 2
      BY <2>7
    <3>2. p \in Seq(Symbols) /\ Len(p) = 2 /\ \A i \in 1..2 : p[i] = v[(Len(v) - 1) + i - 1]
      BY <3>1, PieceIs
    <3>3. 1 \in 1..2 /\ 2 \in 1..2
      OBVIOUS
    <3> QED BY <2>7, <3>1, <3>2, <3>3
  <2> HIDE DEF p
  <2>9. p = <<Quote, m>>
    <3>1. <<Quote, m>> \in Seq(Symbols) /\ Len(<<Quote, m>>) = 2
          /\ <<Quote, m>>[1] = Quote /\ <<Quote, m>>[2] = m
      <4>1. Quote \in Symbols /\ m \in Symbols
        BY SymbolFacts
      <4> QED BY <4>1, TupleIs
    <3>2. \A i \in 1..2 : i = 1 \/ i = 2
      OBVIOUS
    <3> DEFINE o == <<Quote, m>>
    <3>3. o \in Seq(Symbols) /\ Len(o) = 2 /\ o[1] = Quote /\ o[2] = m
      BY <3>1
    <3> HIDE DEF o
    <3>4. p = o
      BY <2>8, <3>2, <3>3, SameSeq
    <3> QED BY <3>4 DEF o
  <2>10. Len(v) >= 2
    BY <2>7
  <2> QED BY <2>9, <2>10 DEF MistakenFor, p
<1> QED BY <1>7, <1>8

\* Where a name stands between quotes in a member: where the member begins, or
\* where its value ends, if its value ends in one.
LEMMA MemberPlaces ==
  ASSUME NEW d \in Seq(Symbols), NEW b \in Nat \ {0}, NEW g \in 0..1, NEW n,
         NEW h, Speller(h), NEW v \in Seq(Symbols), MemberAt(d, b, n, Spelt(h, v), g),
         NEW m \in Names, NEW k \in Nat, b <= k, k + 2 <= LastQuote(b, Spelt(h, v), g),
         Named(d, m, k)
  PROVE  \/ k = b /\ n = m
         \/ k + 2 = LastQuote(b, Spelt(h, v), g) /\ MistakenFor(v, m)
<1> DEFINE s == Spelt(h, v)
           i == b + 5 + 2 * g
           L == Len(s)
<1>1. s \in Seq(Symbols) /\ L \in Nat /\ Safe(s)
  <2>1. s \in Seq(Symbols)
    BY SpeltIs
  <2> QED BY <2>1, SymbolsOf, SpeltSafe
<1>2. d[k] = Quote /\ d[k + 1] = m /\ d[k + 2] = Quote
  BY DEF Named
<1>3. /\ d[b + 1] = n /\ d[b + 2] = Quote
      /\ g = 1 => d[b + 3] = Space /\ d[b + 5] = Space
      /\ d[b + 3 + g] = ":" /\ d[b + 4 + 2 * g] = Quote
      /\ \A j \in 1..L : d[i + j - 1] = s[j]
  BY DEF MemberAt, StandsAt
<1>4. LastQuote(b, s, g) = i + L
  BY DEF LastQuote
<1>5. m \notin {Quote, Space, ":", Backslash}
  BY DEF Names, LanguageNames, Quote, Space, Backslash
<1>6. /\ d[b + 2] # m /\ d[b + 3 + g] # m /\ d[b + 4 + 2 * g] # m
      /\ g = 1 => d[b + 3] # m /\ d[b + 5] # m
  BY <1>3, <1>5
<1>7. k + 1 = b + 1 \/ k + 1 >= i
  <2>1. CASE g = 0
    <3>1. /\ b + 3 + g = b + 3 /\ b + 4 + 2 * g = b + 4 /\ i = b + 5
      BY <2>1
    <3>2. k + 1 \notin {b + 2, b + 3, b + 4}
      BY <1>2, <1>6, <3>1
    <3> QED BY <3>1, <3>2
  <2>2. CASE g = 1
    <3>1. /\ b + 3 + g = b + 4 /\ b + 4 + 2 * g = b + 6 /\ i = b + 7
      BY <2>2
    <3>2. k + 1 \notin {b + 2, b + 3, b + 4, b + 5, b + 6}
      BY <1>2, <1>6, <2>2, <3>1
    <3> QED BY <3>1, <3>2
  <2> QED BY <2>1, <2>2
<1> HIDE DEF s
<1>8. CASE k + 1 = b + 1
  <2>1. k = b
    BY <1>8
  <2> QED BY <1>2, <1>3, <2>1
<1>9. CASE k + 1 >= i
  <2> DEFINE j == k + 1 - i + 1
  <2>1. /\ j \in 1..L /\ i + j - 1 = k + 1 /\ (j = L \/ j + 1 \in 1..L)
        /\ i + (j + 1) - 1 = k + 2 /\ i + (j - 1) - 1 = k
        /\ (j = 1 \/ j - 1 \in 1..L) /\ (j = L => k + 2 = i + L)
    <3>1. k + 2 <= i + L /\ i \in Nat
      BY <1>4 DEF s
    <3> QED BY <1>1, <1>9, <3>1, SMTT(60)
  <2> HIDE DEF j, i
  <2>2. s[j] = m
    BY <1>2, <1>3, <2>1
  <2>3. j = L
    <3> SUFFICES ASSUME j + 1 \in 1..L PROVE FALSE
      BY <2>1
    <3>1. s[j + 1] = Quote
      BY <1>2, <1>3, <2>1
    <3>2. s[(j + 1) - 1] = Backslash /\ (j + 1) - 1 = j
      BY <1>1, <2>1, <3>1 DEF Safe
    <3> QED BY <1>5, <2>2, <3>2
  <2>4. L = 1 \/ s[L - 1] = Quote
    BY <1>2, <1>3, <2>1, <2>3
  <2>5. L # 0
    BY <2>1
  <2>6. MistakenFor(v, m)
    BY <2>2, <2>3, <2>4, <2>5, SpeltEnds DEF s
  <2> QED BY <1>4, <2>1, <2>3, <2>6 DEF s
<1> QED BY <1>7, <1>8, <1>9

\* There are only symbols of T behind the first n.
OnlyAfter(s, n, T) == \A j \in (n + 1)..Len(s) : s[j] \in T
NoNames == Symbols \ Names

LEMMA OnlyBehind ==
  ASSUME NEW s \in Seq(Symbols), NEW n \in Nat, NEW T, OnlyAfter(s, n, T),
         NEW u \in Seq(T), u \in Seq(Symbols)
  PROVE  OnlyAfter(s \o u, n, T)
<1> DEFINE z == s \o u
<1>1. Len(s) \in Nat /\ Len(u) \in Nat /\ \A j \in 1..Len(u) : u[j] \in T
  <2>1. \A j \in 1..Len(u) : u[j] \in T
    BY ElementOfSeq
  <2> QED BY <2>1, SymbolsOf
<1>2. /\ Len(z) = Len(s) + Len(u)
      /\ \A j \in 1..(Len(s) + Len(u)) : z[j] = IF j <= Len(s) THEN s[j] ELSE u[j - Len(s)]
  BY ConcatProperties
<1> HIDE DEF z
<1>3. ASSUME NEW j \in (n + 1)..(Len(s) + Len(u))
      PROVE  z[j] \in T
  <2>1. CASE j <= Len(s)
    <3>1. j \in (n + 1)..Len(s) /\ j \in 1..(Len(s) + Len(u))
      BY <1>1, <2>1
    <3> QED BY <1>2, <2>1, <3>1 DEF OnlyAfter
  <2>2. CASE ~(j <= Len(s))
    <3>1. j - Len(s) \in 1..Len(u) /\ j \in 1..(Len(s) + Len(u))
      BY <1>1, <2>2
    <3>2. z[j] = u[j - Len(s)] /\ u[j - Len(s)] \in T
      BY <1>1, <1>2, <2>2, <3>1
    <3> QED BY <3>2
  <2> QED BY <2>1, <2>2
<1> QED BY <1>2, <1>3 DEF OnlyAfter, z

\* The document of an OCR job, symbol by symbol.
LEMMA DocumentSymbols ==
  ASSUME NEW t \in Seq(Symbols), NEW d, d = Document(t)
  PROVE  /\ d \in Seq(Symbols) /\ d[1] = "{" /\ MemberAt(d, 2, "text", Escaped(t), 0)
         /\ OnlyAfter(d, LastQuote(2, Escaped(t), 0), NoNames)
<1> DEFINE e == Escaped(t)
           q == <<Quote>>
           open == <<"{">>
           name == <<"text">>
           is == <<":">>
           comma == <<",">>
           frame == <<"sourceFrameId">>
           end == <<":", "1", "}">>
           a1 == open \o Quoted(name)
           a2 == a1 \o is
           a3 == a2 \o Quoted(e)
           a4 == a3 \o comma
           a5 == a4 \o Quoted(frame)
           a6 == a5 \o end
<1>1. \A s, u \in Seq(Symbols) : s \o u \in Seq(Symbols)
  BY ConcatProperties
<1>2. /\ "text" \in Symbols /\ Quote \in Symbols /\ ":" \in Symbols
      /\ "{" \in Symbols /\ "}" \in Symbols /\ "," \in Symbols /\ "1" \in Symbols
      /\ "sourceFrameId" \in Symbols
  <2>1. "text" \in Names
    BY DEF Names
  <2>2. /\ "{" \in Symbols /\ "}" \in Symbols /\ "," \in Symbols /\ "1" \in Symbols
        /\ "sourceFrameId" \in Symbols
    BY DEF Symbols
  <2> QED BY <2>1, <2>2, SymbolFacts
<1>3. e \in Seq(Symbols) /\ Len(e) \in Nat
  <2>1. e \in Seq(Symbols)
    BY EscapedIs
  <2> QED BY <2>1, SymbolsOf
<1>4. /\ open \in Seq(Symbols) /\ name \in Seq(Symbols) /\ is \in Seq(Symbols)
      /\ comma \in Seq(Symbols) /\ frame \in Seq(Symbols) /\ q \in Seq(Symbols)
      /\ end \in Seq(Symbols)
  BY <1>2, TupleIs
<1>5. d = a6
  <2>1. Document(t) = <<"{">> \o Quoted(<<"text">>) \o <<":">> \o Quoted(Escaped(t))
                      \o <<",">> \o Quoted(<<"sourceFrameId">>) \o <<":", "1", "}">>
    BY EscapedIs, Zenon DEF Document
  <2> QED BY <2>1
<1>21. /\ Len(open) = 1 /\ Len(is) = 1 /\ Len(name) = 1 /\ Len(q) = 1
  OBVIOUS
<1> HIDE DEF e, open, name, is, comma, frame, end
<1>6. \A s \in Seq(Symbols) :
        /\ q \o s \in Seq(Symbols) /\ Quoted(s) = (q \o s) \o q /\ Quoted(s) \in Seq(Symbols)
  BY <1>1, <1>4 DEF Quoted
<1>7. Quoted(name) \in Seq(Symbols) /\ Quoted(e) \in Seq(Symbols)
      /\ Quoted(frame) \in Seq(Symbols)
  BY <1>3, <1>4, <1>6
<1> HIDE DEF q
<1>8. a1 \in Seq(Symbols)
  BY <1>1, <1>4, <1>7
<1> HIDE DEF a1
<1>9. a2 \in Seq(Symbols)
  BY <1>1, <1>4, <1>8
<1> HIDE DEF a2
<1>10. a3 \in Seq(Symbols)
  BY <1>1, <1>7, <1>9
<1> HIDE DEF a3
<1>11. a4 \in Seq(Symbols)
  BY <1>1, <1>4, <1>10
<1> HIDE DEF a4
<1>12. a5 \in Seq(Symbols)
  BY <1>1, <1>7, <1>11
<1> HIDE DEF a5
<1>13. a6 \in Seq(Symbols)
  BY <1>1, <1>4, <1>12
<1> HIDE DEF a6
<1>14. d \in Seq(Symbols) /\ StandsAt(d, 1, a6)
  <2>1. Len(d) \in Nat
    BY <1>5, <1>13, SymbolsOf
  <2>2. \A k \in 1..Len(d) : 1 + k - 1 = k
    OBVIOUS
  <2> QED BY <1>5, <1>13, <2>1, <2>2 DEF StandsAt
<1>15. StandsAt(d, 1, a5)
  BY <1>4, <1>12, <1>14, StandsParts DEF a6
<1>16. StandsAt(d, 1, a4)
  BY <1>7, <1>11, <1>14, <1>15, StandsParts DEF a5
<1>17. StandsAt(d, 1, a3)
  BY <1>4, <1>10, <1>14, <1>16, StandsParts DEF a4
<1>18. StandsAt(d, 1, a2) /\ StandsAt(d, 1 + Len(a2), Quoted(e))
  BY <1>7, <1>9, <1>14, <1>17, StandsParts DEF a3
<1>19. StandsAt(d, 1, a1) /\ StandsAt(d, 1 + Len(a1), is) /\ Len(a2) = Len(a1) + Len(is)
  BY <1>4, <1>8, <1>14, <1>18, StandsParts DEF a2
<1>20. /\ StandsAt(d, 1, open) /\ StandsAt(d, 1 + Len(open), Quoted(name))
       /\ Len(a1) = Len(open) + Len(Quoted(name))
  BY <1>4, <1>7, <1>14, <1>19, StandsParts DEF a1
<1>22. StandsAt(d, 2, Quoted(name))
  BY <1>20, <1>21
<1>23. d[1] = "{"
  <2>1. 1 \in Nat \ {0}
    OBVIOUS
  <2> QED BY <1>14, <1>20, <2>1, SymbolStands DEF open
<1>24. /\ d[2] = Quote /\ StandsAt(d, 2 + 1, name) /\ d[2 + 1 + Len(name)] = Quote
       /\ Len(Quoted(name)) = 2 + Len(name)
  <2>1. 2 \in Nat \ {0}
    OBVIOUS
  <2> QED BY <1>4, <1>14, <1>22, <2>1, QuotedStands
<1>25. StandsAt(d, 3, name) /\ d[4] = Quote /\ Len(a1) = 4 /\ Len(a2) = 5
  <2>1. 2 + 1 = 3 /\ 2 + 1 + 1 = 4 /\ 1 + (2 + 1) = 4 /\ 4 + 1 = 5
    OBVIOUS
  <2> QED BY <1>19, <1>20, <1>21, <1>24, <2>1
<1>26. d[3] = "text" /\ d[5] = ":"
  <2>1. 1 + 4 = 5 /\ 3 \in Nat \ {0} /\ 5 \in Nat \ {0}
    OBVIOUS
  <2>2. StandsAt(d, 5, is)
    BY <1>19, <1>25, <2>1
  <2> QED BY <1>14, <1>25, <2>1, <2>2, SymbolStands DEF is, name
<1>27. /\ d[6] = Quote /\ StandsAt(d, 7, e) /\ d[7 + Len(e)] = Quote /\ 7 + Len(e) <= Len(d)
       /\ Len(a3) = 7 + Len(e)
  <2>1. 1 + 5 = 6 /\ 6 \in Nat \ {0} /\ 6 + 1 = 7
    OBVIOUS
  <2>2. StandsAt(d, 6, Quoted(e))
    BY <1>18, <1>25, <2>1
  <2>3. /\ d[6] = Quote /\ StandsAt(d, 6 + 1, e) /\ d[6 + 1 + Len(e)] = Quote
        /\ 6 + 1 + Len(e) <= Len(d) /\ Len(Quoted(e)) = 2 + Len(e)
    BY <1>3, <1>14, <2>1, <2>2, QuotedStands
  <2>4. Len(a3) = Len(a2) + Len(Quoted(e))
    BY <1>7, <1>9, ConcatProperties DEF a3
  <2> QED BY <1>3, <1>25, <2>1, <2>3, <2>4
<1>28. MemberAt(d, 2, "text", e, 0) /\ LastQuote(2, e, 0) = Len(a3)
  <2>1. /\ 2 + 1 = 3 /\ 2 + 2 = 4 /\ 2 + 3 + 0 = 5 /\ 2 + 4 + 2 * 0 = 6 /\ 2 + 5 + 2 * 0 = 7
        /\ 0 # 1
    OBVIOUS
  <2>2. LastQuote(2, e, 0) = 7 + Len(e)
    BY <2>1 DEF LastQuote
  <2> QED BY <1>24, <1>25, <1>26, <1>27, <2>1, <2>2 DEF MemberAt
<1>29. comma \in Seq(NoNames) /\ Quoted(frame) \in Seq(NoNames) /\ end \in Seq(NoNames)
  <2>1. /\ "," \in NoNames /\ Quote \in NoNames /\ "sourceFrameId" \in NoNames
        /\ ":" \in NoNames /\ "1" \in NoNames /\ "}" \in NoNames
    BY <1>2 DEF NoNames, Names, LanguageNames, Quote
  <2>2. /\ <<",">> \in Seq(NoNames) /\ <<"sourceFrameId">> \in Seq(NoNames)
        /\ <<Quote>> \in Seq(NoNames) /\ <<":", "1", "}">> \in Seq(NoNames)
    BY <2>1, TupleIs
  <2>3. <<Quote>> \o frame \in Seq(NoNames)
    BY <2>2, ConcatProperties DEF frame
  <2>4. (<<Quote>> \o frame) \o <<Quote>> \in Seq(NoNames)
    BY <2>2, <2>3, ConcatProperties
  <2> QED BY <2>2, <2>4 DEF comma, end, Quoted
<1>30. OnlyAfter(d, Len(a3), NoNames)
  <2>1. Len(a3) \in Nat
    BY <1>10, SymbolsOf
  <2>2. OnlyAfter(a3, Len(a3), NoNames)
    BY <2>1 DEF OnlyAfter
  <2>3. OnlyAfter(a4, Len(a3), NoNames)
    BY <1>4, <1>10, <1>29, <2>1, <2>2, OnlyBehind DEF a4
  <2>4. OnlyAfter(a5, Len(a3), NoNames)
    BY <1>7, <1>11, <1>29, <2>1, <2>3, OnlyBehind DEF a5
  <2> QED BY <1>4, <1>5, <1>12, <1>29, <2>1, <2>4, OnlyBehind DEF a6
<1> QED BY <1>14, <1>23, <1>28, <1>30 DEF e

\* A job that is given the document finds the text that is written in it.
LEMMA DocumentReads ==
  ASSUME NEW t \in Seq(Symbols), NEW old
  PROVE  /\ JsonString(Document(t), "text", old) = Read(t) /\ Document(t) # <<>>
<1> DEFINE d == Document(t)
           b == 2
           g == 0
<1>1. d \in Seq(Symbols) /\ d[1] = "{" /\ MemberAt(d, b, "text", Escaped(t), g)
  BY DocumentSymbols
<1>2. Len(d) # 0
  <2>1. Len(d) \in Nat /\ Len(Escaped(t)) \in Nat /\ LastQuote(b, Escaped(t), g) <= Len(d)
    BY <1>1, EscapedIs, SymbolsOf DEF MemberAt
  <2> QED BY <2>1 DEF LastQuote
<1>3. FirstAt(d, "text", b)
  <2>1. ~Named(d, "text", 1)
    BY <1>1 DEF Named, Quote
  <2>2. \A k \in 1..(Len(d) - 2) : k # 1 => 2 <= k
    <3>1. Len(d) \in Nat
      BY <1>1, SymbolsOf
    <3> QED BY <3>1
  <2> QED BY <2>1, <2>2 DEF FirstAt
<1>4. b \in Nat \ {0} /\ g \in 0..1
  OBVIOUS
<1> HIDE DEF b, g
<1>5. JsonString(d, "text", old) = Read(t)
  <2> HIDE DEF d
  <2>1. Speller(EscapeMap) /\ MemberAt(d, b, "text", Spelt(EscapeMap, t), g)
    BY <1>1, EscapedIs DEF Escaped
  <2> QED BY <1>1, <1>3, <1>4, <2>1, ReadsMember
<1>6. d # <<>>
  BY <1>2
<1> QED BY <1>5, <1>6

-----------------------------------------------------------------------------
(* What a request says is found in it.                                     *)

\* The value of a member, spelled in some way.
ValueAt(d, b, n, v) ==
  \E h : Speller(h) /\ \E g \in 0..1 : MemberAt(d, b, n, Spelt(h, v), g)

Nowhere(d, n) == \A k \in 1..(Len(d) - 2) : ~Named(d, n, k)

\* A document has the members ms, and nothing else looks like one before them.
Carries(d, ms) ==
  \A n \in Names :
    IF n \in DOMAIN ms
    THEN \E b \in Nat \ {0} : ValueAt(d, b, n, ms[n]) /\ FirstAt(d, n, b)
    ELSE Nowhere(d, n)

\* A member that is not there is not found.
LEMMA NotFound ==
  ASSUME NEW d, NEW n, Nowhere(d, n), NEW old
  PROVE  JsonString(d, n, old) = [ok |-> FALSE, value |-> old]
<1>1. {k \in 1..(Len(d) - 2) : Named(d, n, k)} = {}
  BY DEF Nowhere
<1> QED BY <1>1, Zenon DEF JsonString

LEMMA CarriesReads ==
  ASSUME NEW d \in Seq(Symbols), NEW ms, Carries(d, ms), NEW n \in Names, NEW old,
         n \in DOMAIN ms => ms[n] \in Seq(Symbols)
  PROVE  JsonString(d, n, old) = IF n \in DOMAIN ms THEN Read(ms[n])
                                 ELSE [ok |-> FALSE, value |-> old]
<1>1. CASE n \in DOMAIN ms
  <2> DEFINE v == ms[n]
  <2>1. v \in Seq(Symbols)
    BY <1>1
  <2>2. PICK b \in Nat \ {0} : ValueAt(d, b, n, v) /\ FirstAt(d, n, b)
    BY <1>1 DEF Carries
  <2> HIDE DEF v
  <2>3. PICK h : Speller(h) /\ \E g \in 0..1 : MemberAt(d, b, n, Spelt(h, v), g)
    BY <2>2 DEF ValueAt
  <2>4. PICK g \in 0..1 : MemberAt(d, b, n, Spelt(h, v), g)
    BY <2>3
  <2>5. JsonString(d, n, old) = Read(v)
    BY <2>1, <2>2, <2>3, <2>4, ReadsMember
  <2> QED BY <1>1, <2>5 DEF v
<1>2. CASE n \notin DOMAIN ms
  <2>1. Nowhere(d, n)
    BY <1>2 DEF Carries
  <2> QED BY <1>2, <2>1, NotFound
<1> QED BY <1>1, <1>2

\* What stands in a document stands in a longer one.
LEMMA Longer ==
  ASSUME NEW d \in Seq(Symbols), NEW u \in Seq(Symbols)
  PROVE  /\ Len(d) \in Nat /\ Len(u) \in Nat /\ d \o u \in Seq(Symbols)
         /\ Len(d \o u) = Len(d) + Len(u)
         /\ \A k \in 1..Len(d) : (d \o u)[k] = d[k]
         /\ StandsAt(d \o u, Len(d) + 1, u)
<1> DEFINE z == d \o u
<1>1. Len(d) \in Nat /\ Len(u) \in Nat
  BY SymbolsOf
<1>2. /\ Len(z) = Len(d) + Len(u) /\ z \in Seq(Symbols)
      /\ \A j \in 1..(Len(d) + Len(u)) : z[j] = IF j <= Len(d) THEN d[j] ELSE u[j - Len(d)]
  BY ConcatProperties
<1> HIDE DEF z
<1>3. \A k \in 1..Len(d) : z[k] = d[k]
  <2>1. \A k \in 1..Len(d) : k \in 1..(Len(d) + Len(u)) /\ k <= Len(d)
    BY <1>1
  <2> QED BY <1>2, <2>1
<1>4. \A k \in 1..Len(u) : z[Len(d) + 1 + k - 1] = u[k]
  <2> SUFFICES ASSUME NEW k \in 1..Len(u) PROVE z[Len(d) + 1 + k - 1] = u[k]
    OBVIOUS
  <2> DEFINE j == Len(d) + 1 + k - 1
  <2>1. j \in 1..(Len(d) + Len(u)) /\ ~(j <= Len(d)) /\ j - Len(d) = k
    BY <1>1
  <2> HIDE DEF j
  <2>2. z[j] = u[k]
    BY <1>2, <2>1
  <2> QED BY <2>2 DEF j
<1>5. StandsAt(z, Len(d) + 1, u)
  <2>1. Len(d) + 1 + Len(u) <= Len(z) + 1
    BY <1>1, <1>2
  <2> QED BY <1>4, <2>1 DEF StandsAt
<1> QED BY <1>1, <1>2, <1>3, <1>5 DEF z

LEMMA LongerMember ==
  ASSUME NEW d \in Seq(Symbols), NEW u \in Seq(Symbols), NEW b \in Nat \ {0}, NEW n,
         NEW v \in Seq(Symbols), ValueAt(d, b, n, v), FirstAt(d, n, b)
  PROVE  ValueAt(d \o u, b, n, v) /\ FirstAt(d \o u, n, b)
<1> DEFINE z == d \o u
<1>0. PICK h : Speller(h) /\ \E g \in 0..1 : MemberAt(d, b, n, Spelt(h, v), g)
  BY DEF ValueAt
<1>1. PICK g \in 0..1 : MemberAt(d, b, n, Spelt(h, v), g)
  BY <1>0
<1> DEFINE s == Spelt(h, v)
           i == b + 5 + 2 * g
<1>2. Len(s) \in Nat
  BY <1>0, SpeltIs, SymbolsOf
<1> HIDE DEF s
<1>3. /\ Len(d) \in Nat /\ Len(u) \in Nat /\ Len(z) = Len(d) + Len(u)
      /\ \A k \in 1..Len(d) : z[k] = d[k]
  BY Longer
<1> HIDE DEF z
<1>4. MemberAt(d, b, n, s, g)
  BY <1>1 DEF s
<1>5. i + Len(s) <= Len(d) /\ i + Len(s) = LastQuote(b, s, g)
  BY <1>4 DEF MemberAt, LastQuote
<1>6. /\ b \in 1..Len(d) /\ b + 1 \in 1..Len(d) /\ b + 2 \in 1..Len(d)
      /\ b + 3 \in 1..Len(d) /\ b + 5 \in 1..Len(d) /\ b + 3 + g \in 1..Len(d)
      /\ b + 4 + 2 * g \in 1..Len(d) /\ i + Len(s) \in 1..Len(d)
      /\ i + Len(s) <= Len(z) /\ i + Len(s) <= Len(z) + 1
      /\ \A j \in 1..Len(s) : i + j - 1 \in 1..Len(d)
  BY <1>2, <1>3, <1>5
<1>7. StandsAt(z, i, s)
  <2>1. \A j \in 1..Len(s) : d[i + j - 1] = s[j]
    BY <1>4 DEF MemberAt, StandsAt
  <2> HIDE DEF i
  <2>2. \A j \in 1..Len(s) : z[i + j - 1] = s[j]
    BY <1>3, <1>6, <2>1
  <2> QED BY <1>6, <2>2 DEF StandsAt
<1>8. MemberAt(z, b, n, s, g)
  <2>1. /\ d[b] = Quote /\ d[b + 1] = n /\ d[b + 2] = Quote
        /\ g = 1 => d[b + 3] = Space /\ d[b + 5] = Space
        /\ d[b + 3 + g] = ":" /\ d[b + 4 + 2 * g] = Quote /\ d[LastQuote(b, s, g)] = Quote
    BY <1>4 DEF MemberAt
  <2>2. /\ z[b] = Quote /\ z[b + 1] = n /\ z[b + 2] = Quote
        /\ g = 1 => z[b + 3] = Space /\ z[b + 5] = Space
        /\ z[b + 3 + g] = ":" /\ z[b + 4 + 2 * g] = Quote /\ z[LastQuote(b, s, g)] = Quote
    BY <1>3, <1>5, <1>6, <2>1
  <2> QED BY <1>5, <1>6, <1>7, <2>2 DEF MemberAt
<1>9. ValueAt(z, b, n, v)
  BY <1>0, <1>8 DEF ValueAt, s
<1>10. FirstAt(z, n, b)
  <2> SUFFICES ASSUME NEW k \in 1..(Len(z) - 2), Named(z, n, k), ~(b <= k) PROVE FALSE
    BY DEF FirstAt
  <2>1. /\ k \in 1..(Len(d) - 2) /\ k \in 1..Len(d) /\ k + 1 \in 1..Len(d)
        /\ k + 2 \in 1..Len(d)
    BY <1>3, <1>6
  <2>2. Named(d, n, k)
    BY <1>3, <2>1 DEF Named
  <2> QED BY <2>1, <2>2 DEF FirstAt
<1> QED BY <1>9, <1>10 DEF z

\* One more symbol makes no difference, if it is no quote.
LEMMA CarriesOne ==
  ASSUME NEW d \in Seq(Symbols), NEW ms, Carries(d, ms), NEW c \in Symbols, c # Quote,
         \A n \in Names \cap DOMAIN ms : ms[n] \in Seq(Symbols)
  PROVE  Carries(d \o <<c>>, ms)
<1> DEFINE one == <<c>>
           z == d \o one
<1>1. one \in Seq(Symbols) /\ Len(one) = 1 /\ one[1] = c
  BY TupleIs
<1> HIDE DEF one
<1>2. /\ Len(d) \in Nat /\ Len(z) = Len(d) + Len(one)
      /\ \A k \in 1..Len(d) : z[k] = d[k]
      /\ StandsAt(z, Len(d) + 1, one)
  BY <1>1, Longer
<1>3. z[Len(d) + 1] = c
  <2>1. \A k \in 1..1 : z[Len(d) + 1 + k - 1] = one[k]
    BY <1>1, <1>2 DEF StandsAt
  <2>2. 1 \in 1..1 /\ Len(d) + 1 + 1 - 1 = Len(d) + 1
    BY <1>2
  <2> HIDE DEF z
  <2> QED BY <1>1, <2>1, <2>2
<1> SUFFICES ASSUME NEW n \in Names
             PROVE  IF n \in DOMAIN ms
                    THEN \E b \in Nat \ {0} : ValueAt(z, b, n, ms[n]) /\ FirstAt(z, n, b)
                    ELSE Nowhere(z, n)
  BY DEF Carries, one
<1>4. CASE n \in DOMAIN ms
  <2> DEFINE v == ms[n]
  <2>1. PICK b \in Nat \ {0} : ValueAt(d, b, n, v) /\ FirstAt(d, n, b)
    BY <1>4 DEF Carries
  <2>2. v \in Seq(Symbols)
    BY <1>4
  <2> HIDE DEF v
  <2>3. ValueAt(z, b, n, v) /\ FirstAt(z, n, b)
    BY <1>1, <2>1, <2>2, LongerMember
  <2> HIDE DEF z
  <2> QED BY <1>4, <2>3 DEF v
<1>5. CASE n \notin DOMAIN ms
  <2> HIDE DEF z
  <2> SUFFICES ASSUME NEW k \in 1..(Len(z) - 2), Named(z, n, k) PROVE FALSE
    BY <1>5 DEF Nowhere
  <2>1. k + 2 # Len(d) + 1
    BY <1>3 DEF Named
  <2>2. /\ k \in 1..(Len(d) - 2) /\ k \in 1..Len(d) /\ k + 1 \in 1..Len(d)
        /\ k + 2 \in 1..Len(d)
    BY <1>1, <1>2, <2>1
  <2>3. Named(d, n, k)
    BY <1>2, <2>2 DEF Named
  <2> QED BY <1>5, <2>2, <2>3 DEF Carries, Nowhere
<1> QED BY <1>4, <1>5

\* One more member.
Added(ms, name, value) ==
  [n \in DOMAIN ms \cup {name} |-> IF n = name THEN value ELSE ms[n]]

LEMMA CarriesMember ==
  ASSUME NEW d \in Seq(Symbols), NEW ms, Carries(d, ms),
         \A n \in Names \cap DOMAIN ms : ms[n] \in Seq(Symbols),
         Len(d) # 0, d[Len(d)] \notin Names \cup {Quote},
         NEW name \in Names, name \notin DOMAIN ms,
         NEW h, Speller(h), NEW value \in Seq(Symbols),
         \A m \in Names : ~MistakenFor(value, m), NEW gap \in {<<>>, <<Space>>}
  PROVE  Carries(d \o Member(name, Spelt(h, value), gap), Added(ms, name, value))
<1> DEFINE s == Spelt(h, value)
           more == Member(name, s, gap)
           z == d \o more
           b == Len(d) + 1
           g == Len(gap)
           more2 == Added(ms, name, value)
<1>1. s \in Seq(Symbols) /\ more \in Seq(Symbols) /\ name \in Symbols
  <2>1. gap \in Seq(Symbols)
    <3>1. <<>> \in Seq(Symbols) /\ <<Space>> \in Seq(Symbols)
      BY ConstantSymbols
    <3> QED BY <3>1
  <2>2. s \in Seq(Symbols)
    BY SpeltIs
  <2>3. more \in Seq(Symbols)
    BY <2>1, <2>2, DocumentIs
  <2>4. name \in Symbols
    BY SymbolFacts
  <2> QED BY <2>2, <2>3, <2>4
<1>2. /\ Len(d) \in Nat /\ Len(more) \in Nat /\ z \in Seq(Symbols)
      /\ Len(z) = Len(d) + Len(more)
      /\ \A k \in 1..Len(d) : z[k] = d[k]
      /\ StandsAt(z, b, more)
  <2> HIDE DEF more
  <2> QED BY <1>1, Longer
<1>3. b \in Nat \ {0}
  BY <1>2
<1> HIDE DEF z, b, s, g
<1>4. /\ MemberAt(z, b, name, s, g) /\ g \in 0..1 /\ b + Len(more) = LastQuote(b, s, g) + 1
  <2>1. StandsAt(z, b, Member(name, s, gap))
    BY <1>2
  <2>2. MemberAt(z, b, name, s, Len(gap)) /\ Len(gap) \in 0..1
    BY <1>1, <1>2, <1>3, <2>1, MemberSymbols
  <2>3. MemberEnds(b, name, s, gap)
    BY <1>1, <1>2, <1>3, <2>1, MemberSymbols
  <2> QED BY <2>2, <2>3 DEF g, MemberEnds
<1> HIDE DEF more
<1>5. ASSUME NEW n \in Names, NEW k \in 1..(Len(z) - 2), Named(z, n, k)
      PROVE  \/ k \in 1..(Len(d) - 2) /\ Named(d, n, k)
             \/ k = b /\ n = name
  <2>1. CASE k + 2 <= Len(d)
    <3>1. /\ k \in 1..(Len(d) - 2) /\ k \in 1..Len(d) /\ k + 1 \in 1..Len(d)
          /\ k + 2 \in 1..Len(d)
      BY <1>2, <2>1
    <3>2. Named(d, n, k)
      BY <1>2, <1>5, <3>1 DEF Named
    <3> QED BY <3>1, <3>2
  <2>2. CASE b <= k
    <3>1. k + 2 <= LastQuote(b, s, g) /\ k \in Nat
      <4>1. k + 2 <= Len(z) /\ Len(z) = b + Len(more) - 1
        BY <1>2 DEF b
      <4>2. LastQuote(b, s, g) \in Nat
        <5>1. Len(s) \in Nat
          BY <1>1, SymbolsOf
        <5> QED BY <1>3, <1>4, <5>1 DEF LastQuote
      <4> QED BY <1>2, <1>3, <1>4, <4>1, <4>2
    <3>2. \/ k = b /\ name = n
          \/ k + 2 = LastQuote(b, s, g) /\ MistakenFor(value, n)
      BY <1>2, <1>3, <1>4, <1>5, <2>2, <3>1, MemberPlaces DEF s
    <3> QED BY <3>2
  <2>3. CASE ~(k + 2 <= Len(d)) /\ ~(b <= k)
    <3>1. Len(d) \in 1..Len(d) /\ (k = Len(d) \/ k + 1 = Len(d))
      BY <1>2, <2>3 DEF b
    <3>2. z[Len(d)] \notin Names \cup {Quote}
      BY <1>2, <3>1
    <3>3. z[k] = Quote /\ z[k + 1] = n
      BY <1>5 DEF Named
    <3> QED BY <3>1, <3>2, <3>3
  <2> QED BY <2>1, <2>2, <2>3
<1>6. /\ DOMAIN more2 = DOMAIN ms \cup {name} /\ more2[name] = value
      /\ \A n \in DOMAIN ms : n # name => more2[n] = ms[n]
  BY DEF Added
<1> HIDE DEF more2
<1>7. ASSUME NEW n \in Names
      PROVE  IF n \in DOMAIN more2
             THEN \E x \in Nat \ {0} : ValueAt(z, x, n, more2[n]) /\ FirstAt(z, n, x)
             ELSE Nowhere(z, n)
  <2>1. CASE n = name
    <3>1. Nowhere(d, name)
      BY DEF Carries
    <3>2. FirstAt(z, name, b)
      <4> SUFFICES ASSUME NEW k \in 1..(Len(z) - 2), Named(z, name, k) PROVE b <= k
        BY DEF FirstAt
      <4>1. k = b
        BY <1>5, <3>1 DEF Nowhere
      <4> QED BY <1>3, <4>1
    <3>3. ValueAt(z, b, name, value)
      BY <1>4 DEF ValueAt, s
    <3> QED BY <1>3, <1>6, <2>1, <3>2, <3>3
  <2>2. CASE n # name /\ n \in DOMAIN ms
    <3> DEFINE v == ms[n]
    <3>1. PICK x \in Nat \ {0} : ValueAt(d, x, n, v) /\ FirstAt(d, n, x)
      BY <2>2 DEF Carries
    <3>2. v \in Seq(Symbols)
      BY <2>2
    <3> HIDE DEF v
    <3>3. ValueAt(d \o more, x, n, v) /\ FirstAt(d \o more, n, x)
      BY <1>1, <3>1, <3>2, LongerMember DEF more
    <3>4. ValueAt(z, x, n, v) /\ FirstAt(z, n, x)
      BY <3>3 DEF z
    <3> QED BY <1>6, <2>2, <3>4 DEF v
  <2>3. CASE n # name /\ n \notin DOMAIN ms
    <3>1. Nowhere(d, n)
      BY <2>3 DEF Carries
    <3>2. Nowhere(z, n)
      BY <1>5, <2>3, <3>1 DEF Nowhere
    <3> QED BY <1>6, <2>3, <3>2
  <2> QED BY <2>1, <2>2, <2>3
<1>8. Carries(z, more2)
  BY <1>7 DEF Carries
<1> QED BY <1>8 DEF z, more, s, more2

\* A value the document of a request may end a name with.
LEMMA MistakableIs ==
  ASSUME NEW value
  PROVE  Mistakable(value) <=> \E m \in Names : MistakenFor(value, m)
BY Zenon DEF Mistakable, MistakenFor

\* The document of an OCR job says what the text is, and nothing else.
LEMMA DocumentCarries ==
  ASSUME NEW t \in Seq(Symbols), \A m \in Names : ~MistakenFor(t, m)
  PROVE  Carries(Document(t), [n \in {"text"} |-> t])
<1> DEFINE d == Document(t)
           e == Escaped(t)
           ms == [n \in {"text"} |-> t]
           b == 2
           g == 0
<1>1. /\ d \in Seq(Symbols) /\ d[1] = "{" /\ MemberAt(d, b, "text", e, g)
      /\ OnlyAfter(d, LastQuote(b, e, g), NoNames)
  BY DocumentSymbols
<1>2. Speller(EscapeMap) /\ e = Spelt(EscapeMap, t)
  BY EscapedIs DEF Escaped
<1>3. b \in Nat \ {0} /\ g \in 0..1 /\ \A k \in Nat \ {0} : k = 1 \/ b <= k
  OBVIOUS
<1>4. DOMAIN ms = {"text"} /\ ms["text"] = t
  OBVIOUS
<1> HIDE DEF d, e, ms, b, g
<1>5. Len(d) \in Nat /\ LastQuote(b, e, g) \in Nat /\ d[LastQuote(b, e, g)] = Quote
  <2>1. Len(e) \in Nat
    BY EscapedIs, SymbolsOf DEF e
  <2>2. LastQuote(b, e, g) \in Nat
    BY <1>3, <2>1 DEF LastQuote
  <2> QED BY <1>1, <2>2, SymbolsOf DEF MemberAt
<1>6. ASSUME NEW n \in Names, NEW k \in 1..(Len(d) - 2), Named(d, n, k)
      PROVE  k = b /\ n = "text"
  <2>1. d[k] = Quote /\ d[k + 1] = n
    BY <1>6 DEF Named
  <2>2. b <= k
    <3>1. k # 1
      BY <1>1, <2>1 DEF Quote
    <3> QED BY <1>3, <1>5, <3>1
  <2>3. k + 2 <= LastQuote(b, e, g)
    <3>1. k + 1 # LastQuote(b, e, g)
      BY <1>5, <2>1 DEF Names, LanguageNames, Quote
    <3>2. k + 1 \notin (LastQuote(b, e, g) + 1)..Len(d)
      BY <1>1, <2>1 DEF OnlyAfter, NoNames
    <3> QED BY <1>5, <3>1, <3>2
  <2>4. k \in Nat
    BY <1>5
  <2>5. \/ k = b /\ "text" = n
        \/ k + 2 = LastQuote(b, e, g) /\ MistakenFor(t, n)
    BY <1>1, <1>2, <1>3, <1>6, <2>2, <2>3, <2>4, MemberPlaces
  <2> QED BY <2>5
<1>7. ASSUME NEW n \in Names
      PROVE  IF n \in DOMAIN ms
             THEN \E x \in Nat \ {0} : ValueAt(d, x, n, ms[n]) /\ FirstAt(d, n, x)
             ELSE Nowhere(d, n)
  <2>1. CASE n = "text"
    <3>1. ValueAt(d, b, "text", t)
      BY <1>1, <1>2, <1>3 DEF ValueAt
    <3>2. FirstAt(d, n, b)
      <4> SUFFICES ASSUME NEW k \in 1..(Len(d) - 2), Named(d, n, k) PROVE b <= k
        BY DEF FirstAt
      <4>1. k = b
        BY <1>6
      <4> QED BY <1>3, <4>1
    <3> QED BY <1>3, <1>4, <2>1, <3>1, <3>2
  <2>2. CASE n # "text"
    <3>1. Nowhere(d, n)
      BY <1>6, <2>2 DEF Nowhere
    <3> QED BY <1>4, <2>2, <3>1
  <2> QED BY <2>1, <2>2
<1>8. Carries(d, ms)
  BY <1>7 DEF Carries
<1> QED BY <1>8 DEF d, ms

\* A search in parameters finds what they say of a language, or nothing.
Tells(d, says) ==
  \A l \in LanguageNames : \A old :
    JsonString(d, l, old).value = IF l \in DOMAIN says THEN says[l] ELSE old

\* What stands around the members of a document.
Opening == "{"
Closing == "}"
OneMember(name, s) == <<"{">> \o Member(name, s, <<>>) \o <<"}">>

\* The last member of a document is followed by a brace.
LEMMA StrayPlace ==
  ASSUME NEW d \in Seq(Symbols), NEW n, NEW b \in Nat, NEW c \in Nat,
         c = b + 3, Len(d) = c, d[c] = Closing,
         \A k \in 1..(Len(d) - 2) : Named(d, n, k) => k = b, NEW old
  PROVE  JsonString(d, n, old).value = old
<1> DEFINE places == {k \in 1..(Len(d) - 2) : Named(d, n, k)}
           colon == NoBlank(d, Min(places) + 3)
           start == NoBlank(d, colon + 1)
           none == \/ places = {} \/ colon > Len(d) \/ d[colon] # ":"
                   \/ start > Len(d) \/ d[start] # Quote
<1>1. JsonString(d, n, old) = IF none THEN [ok |-> FALSE, value |-> old]
                              ELSE ParseFrom(d, start + 1)
  BY Zenon DEF JsonString
<1>2. none
  <2> SUFFICES ASSUME places # {} PROVE d[colon] # ":"
    OBVIOUS
  <2>1. places \subseteq Nat /\ \A k \in places : k = b
    OBVIOUS
  <2> HIDE DEF places
  <2>2. Min(places) = b
    BY <2>1, MinIs
  <2>3. c \in Nat \ {0} /\ c <= Len(d)
    OBVIOUS
  <2>4. d[c] \notin Blank /\ d[c] # ":"
    BY DEF Blank, Space, NL, CR, Closing
  <2>5. colon = c
    BY <2>2, <2>3, <2>4, NoBlankIs
  <2> QED BY <2>4, <2>5
<1> HIDE DEF none
<1> QED BY <1>1, <1>2

LEMMA TellsMember ==
  ASSUME NEW l \in LanguageNames, NEW h, Speller(h), NEW value \in Seq(Symbols),
         NEW d, d = OneMember(l, Spelt(h, value))
  PROVE  d \in Seq(Symbols) /\ Tells(d, [n \in {l} |-> value])
<1> DEFINE s == Spelt(h, value)
           gap == <<>>
           more == Member(l, s, gap)
           one == <<Opening>>
           last == <<Closing>>
           y == one \o more
           b == 2
           g == Len(gap)
           says == [n \in {l} |-> value]
<1>1. /\ s \in Seq(Symbols) /\ one \in Seq(Symbols) /\ last \in Seq(Symbols)
      /\ gap \in Seq(Symbols) /\ gap \in {<<>>, <<Space>>}
  <2>1. Opening \in Symbols /\ Closing \in Symbols
    BY Zenon DEF Symbols, Opening, Closing
  <2>2. <<>> \in Seq(Symbols)
    BY EmptySeq
  <2>3. s \in Seq(Symbols)
    BY SpeltIs
  <2> QED BY <2>1, <2>2, <2>3, TupleIs
<1>2. l \in Names /\ l \in Symbols /\ b \in Nat \ {0}
  <2>1. l \in Names
    BY DEF Names
  <2>2. l \in Symbols
    BY <2>1, SymbolFacts, Zenon
  <2>3. b \in Nat \ {0}
    OBVIOUS
  <2> QED BY <2>1, <2>2, <2>3
<1>3. Len(one) = 1 /\ one[1] = Opening /\ Len(last) = 1 /\ last[1] = Closing /\ 1 + 1 = b
  OBVIOUS
<1>4. DOMAIN says = {l} /\ says[l] = value
  OBVIOUS
<1>5. d = y \o last
  BY Zenon DEF OneMember, Opening, Closing
<1> HIDE DEF s, gap, one, last, b, says
<1>6. more \in Seq(Symbols)
  BY <1>1, <1>2, DocumentIs
<1> HIDE DEF more
<1>7. /\ y \in Seq(Symbols) /\ Len(y) = Len(one) + Len(more) /\ Len(more) \in Nat
      /\ y[1] = one[1] /\ StandsAt(y, Len(one) + 1, more)
  <2>1. 1 \in 1..Len(one)
    BY <1>3
  <2> QED BY <1>1, <1>6, <2>1, Longer
<1> HIDE DEF y
<1>8. /\ d \in Seq(Symbols) /\ Len(d) = Len(y) + 1 /\ Len(y) \in Nat
      /\ \A k \in 1..Len(y) : d[k] = y[k]
      /\ StandsAt(d, Len(y) + 1, last)
  <2> DEFINE z == y \o last
  <2>1. /\ z \in Seq(Symbols) /\ Len(z) = Len(y) + Len(last) /\ Len(y) \in Nat
        /\ \A k \in 1..Len(y) : z[k] = y[k]
        /\ StandsAt(z, Len(y) + 1, last)
    BY <1>1, <1>7, Longer
  <2> HIDE DEF z
  <2>2. Len(z) = Len(y) + 1
    BY <1>3, <2>1
  <2>3. d = z
    BY <1>5 DEF z
  <2> QED BY <2>1, <2>2, <2>3
<1>9. StandsAt(d, b, more)
  <2>1. StandsAt(d, 1, y)
    <3>1. \A k \in 1..Len(y) : 1 + k - 1 = k
      OBVIOUS
    <3>2. 1 + Len(y) <= Len(d) + 1
      BY <1>8
    <3> QED BY <1>8, <3>1, <3>2 DEF StandsAt
  <2>2. StandsAt(d, 1, one \o more) /\ 1 \in Nat \ {0}
    BY <2>1 DEF y
  <2>3. StandsAt(d, 1 + Len(one), more)
    BY <1>1, <1>6, <1>8, <2>2, StandsParts
  <2> QED BY <1>3, <2>3
<1>10. MemberAt(d, b, l, s, g) /\ g \in 0..1 /\ MemberEnds(b, l, s, gap)
  <2>1. StandsAt(d, b, Member(l, s, gap))
    BY <1>9 DEF more
  <2> QED BY <1>1, <1>2, <1>8, <2>1, MemberSymbols
<1> HIDE DEF g
<1>11. d[1] = Opening /\ d[Len(d)] = Closing /\ Len(d) = LastQuote(b, s, g) + 1
       /\ LastQuote(b, s, g) \in Nat
  <2>1. 1 \in 1..Len(y) /\ Len(y) + 1 \in Nat \ {0}
    BY <1>3, <1>7, <1>8
  <2>2. StandsAt(d, Len(y) + 1, <<Closing>>)
    BY <1>8 DEF last
  <2>3. d[Len(y) + 1] = Closing
    BY <1>8, <2>1, <2>2, SymbolStands
  <2>4. b + Len(more) = LastQuote(b, s, g) + 1
    BY <1>10 DEF MemberEnds, more, g
  <2>5. LastQuote(b, s, g) \in Nat
    <3>1. Len(s) \in Nat
      BY <1>1, SymbolsOf
    <3> QED BY <1>2, <1>10, <3>1 DEF LastQuote
  <2> QED BY <1>3, <1>7, <1>8, <2>1, <2>3, <2>4, <2>5
<1>12. ASSUME NEW n \in Names, NEW k \in 1..(Len(d) - 2), Named(d, n, k)
       PROVE  b <= k /\ (n # l => k + 2 = LastQuote(b, s, g))
  <2>1. d[k] = Quote /\ d[k + 2] = Quote
    BY <1>12 DEF Named
  <2>2. k # 1 /\ k + 2 # Len(d)
    <3>1. Opening # Quote /\ Closing # Quote
      BY Zenon DEF Opening, Closing, Quote
    <3> QED BY <1>11, <2>1, <3>1
  <2>3. b <= k /\ k + 2 <= LastQuote(b, s, g) /\ k \in Nat
    BY <1>3, <1>8, <1>11, <2>2
  <2>4. \/ k = b /\ l = n
        \/ k + 2 = LastQuote(b, s, g) /\ MistakenFor(value, n)
    BY <1>2, <1>8, <1>10, <1>12, <2>3, MemberPlaces DEF s
  <2> QED BY <2>3, <2>4
<1>13. ASSUME NEW n \in LanguageNames, NEW old
       PROVE  JsonString(d, n, old).value = IF n \in DOMAIN says THEN says[n] ELSE old
  <2>0. n \in Names
    BY DEF Names
  <2>1. CASE n = l
    <3>1. FirstAt(d, l, b)
      BY <1>2, <1>12 DEF FirstAt
    <3>2. JsonString(d, l, old) = Read(value)
      BY <1>2, <1>8, <1>10, <3>1, ReadsMember DEF s
    <3>3. Read(value).value = value
      BY DEF Read
    <3> QED BY <1>4, <2>1, <3>2, <3>3
  <2>2. CASE n # l
    <3> DEFINE c == LastQuote(b, s, g) - 2
    <3>1. c \in Nat /\ c + 3 = Len(d)
      <4>1. LastQuote(b, s, g) >= 2
        <5>1. Len(s) \in Nat
          BY <1>1, SymbolsOf
        <5> QED BY <1>2, <1>10, <5>1 DEF LastQuote
      <4> QED BY <1>11, <4>1
    <3>2. \A k \in 1..(Len(d) - 2) : Named(d, n, k) => k = c
      <4> SUFFICES ASSUME NEW k \in 1..(Len(d) - 2), Named(d, n, k) PROVE k = c
        OBVIOUS
      <4>1. k + 2 = LastQuote(b, s, g)
        BY <1>12, <2>0, <2>2
      <4> QED BY <1>8, <1>11, <4>1
    <3> HIDE DEF c
    <3>3. JsonString(d, n, old).value = old
      BY <1>8, <1>11, <3>1, <3>2, StrayPlace
    <3> QED BY <1>4, <2>2, <3>3
  <2> QED BY <2>1, <2>2
<1> QED BY <1>8, <1>13 DEF Tells, says

\* A language is looked for in one document after the other.
Looked(l, known, documents) ==
  FoldLeft(LAMBDA old, d : JsonString(d, l, old).value, known, documents)

LEMMA LookedIs ==
  ASSUME NEW l, NEW known \in Seq(Symbols), NEW d \in Seq(Symbols), NEW e \in Seq(Symbols)
  PROVE  Looked(l, known, <<d, e>>) = JsonString(e, l, JsonString(d, l, known).value).value
<1> DEFINE C == Seq(Symbols)
           Add(r, c) == JsonString(c, l, r).value
           step == [p \in C \X C |-> Add(p[1], p[2])]
           t == <<d, e>>
<1>1. /\ Steps(known, step, C, C)
      /\ \A r \in C, c \in C : step[<<r, c>>] = Add(r, c)
  <2>1. \A r \in C, c \in C : Add(r, c) \in C
    BY JsonStringIs
  <2> HIDE DEF C, Add
  <2>2. known \in C
    BY DEF C
  <2> QED BY <2>1, <2>2 DEF Steps
<1>2. /\ <<>> \in Seq(C) /\ <<d>> \in Seq(C) /\ t \in Seq(C)
      /\ <<d>> = Append(<<>>, d) /\ t = Append(<<d>>, e)
  <2>1. d \in C /\ e \in C
    OBVIOUS
  <2> HIDE DEF C
  <2> QED BY <2>1
<1> HIDE DEF step
<1>3. Folded(known, step, t) = Add(Add(known, d), e)
  <2>1. d \in C /\ e \in C /\ known \in C
    OBVIOUS
  <2> HIDE DEF C, t
  <2>2. Folded(known, step, <<>>) = known
    BY <1>1, FoldedIs
  <2> HIDE DEF Add
  <2>0. \A u \in Seq(C), c \in C :
          Folded(known, step, Append(u, c)) = step[<<Folded(known, step, u), c>>]
    <3>1. Steps(known, step, C, C)
      BY <1>1
    <3> QED BY <3>1, FoldedIs
  <2>3. Folded(known, step, <<d>>) = step[<<known, d>>]
    <3>1. Folded(known, step, Append(<<>>, d)) = step[<<Folded(known, step, <<>>), d>>]
      BY <1>2, <2>0, <2>1
    <3> QED BY <1>2, <2>2, <3>1
  <2>4. Folded(known, step, t) = step[<<step[<<known, d>>], e>>]
    <3>1. Folded(known, step, Append(<<d>>, e)) = step[<<Folded(known, step, <<d>>), e>>]
      BY <1>2, <2>0, <2>1
    <3> QED BY <1>2, <2>3, <3>1
  <2>5. step[<<known, d>>] = Add(known, d) /\ Add(known, d) \in C
    <3>1. step[<<known, d>>] \in C
      BY <1>1, <2>1 DEF Steps
    <3> QED BY <1>1, <2>1, <3>1
  <2> QED BY <1>1, <2>1, <2>4, <2>5
<1> DEFINE Fold(f) == [s \in SUBSET DOMAIN t |->
                        IF s = {} THEN known ELSE Add(f[s \ {Max(s)}], t[Max(s)])]
           iter == CHOOSE f : f = Fold(f)
<1> HIDE DEF t
<1>4. PICK f : FoldOf(f, known, step, t) /\ \A s \in SUBSET DOMAIN t : f[s] \in C
  <2> HIDE DEF C
  <2> QED BY <1>1, <1>2, FoldExists
<1>5. \A s \in SUBSET DOMAIN t : s # {} => t[Max(s)] \in C
  <2> HIDE DEF C
  <2>1. DOMAIN t = 1..Len(t) /\ Len(t) \in Nat /\ \A i \in 1..Len(t) : t[i] \in C
    BY <1>2, LenProperties, ElementOfSeq
  <2> QED BY <2>1, MaxIs
<1>6. f = Fold(f)
  <2> HIDE DEF C, Add
  <2> QED BY <1>1, <1>4, <1>5 DEF FoldOf
<1>7. iter = Fold(iter)
  <2> HIDE DEF Fold
  <2> QED BY <1>6, Zenon
<1> HIDE DEF iter
<1>8. FoldIn(iter, known, step, C, t)
  <2> HIDE DEF C, Add
  <2>1. iter[{}] = known
    BY <1>7
  <2>2. \A s \in SUBSET DOMAIN t :
          s # {} => iter[s] = Add(iter[s \ {Max(s)}], t[Max(s)])
    BY <1>7
  <2> HIDE DEF Fold
  <2> QED BY <1>1, <1>5, <2>1, <2>2 DEF FoldIn
<1>9. iter[DOMAIN t] = Folded(known, step, t)
  <2> HIDE DEF C, Add
  <2>1. Steps(known, step, C, C) /\ t \in Seq(C)
    BY <1>1, <1>2
  <2> QED BY <1>8, <2>1, FoldIs
<1>10. Looked(l, known, t) = iter[DOMAIN t]
  BY Zenon DEF Looked, FoldLeft, MapThenFoldSet, iter
<1> QED BY <1>3, <1>9, <1>10 DEF t

-----------------------------------------------------------------------------
(* What stands on two sides of a boundary: line ends.                      *)

\* A text with something added behind it.
Continues(s, t) == \E w \in Seq(Symbols) : t = s \o w

LEMMA ContinuesIs ==
  ASSUME NEW s \in Seq(Symbols)
  PROVE  /\ Continues(s, s)
         /\ \A t \in Seq(Symbols), c \in Symbols : Continues(s, t) => Continues(s, Append(t, c))
<1>1. <<>> \in Seq(Symbols) /\ s = s \o <<>>
  BY EmptySeq, ConcatEmptySeq
<1>2. ASSUME NEW t \in Seq(Symbols), NEW c \in Symbols, Continues(s, t)
      PROVE  Continues(s, Append(t, c))
  <2>1. PICK w \in Seq(Symbols) : t = s \o w
    BY <1>2 DEF Continues
  <2>2. Append(w, c) \in Seq(Symbols) /\ s \o Append(w, c) = Append(s \o w, c)
    BY Appended, ConcatAppend
  <2> QED BY <2>1, <2>2 DEF Continues
<1> QED BY <1>1, <1>2 DEF Continues

\* Three line ends stand at the end.
EndsGap(r) == Len(r) >= 3 /\ r[Len(r) - 2] = NL /\ r[Len(r) - 1] = NL /\ r[Len(r)] = NL

LEMMA GapIs ==
  ASSUME NEW r \in Seq(Symbols), NEW m \in Nat \ {0}, NEW N \in Nat, N <= Len(r), N = m + 2
  PROVE  SubSeq(r, m, N) = <<NL, NL, NL>> <=> r[m] = NL /\ r[m + 1] = NL /\ r[N] = NL
<1>1. m <= N + 1
  OBVIOUS
<1>2. SubSeq(r, m, N) \in Seq(Symbols) /\ Len(SubSeq(r, m, N)) = N - m + 1
  <2>1. SubSeq(r, m, N) \in Seq(Symbols)
    BY <1>1, PieceIs
  <2>2. Len(SubSeq(r, m, N)) = N - m + 1
    BY <1>1, PieceIs
  <2> QED BY <2>1, <2>2
<1>3. \A i \in 1..(N - m + 1) : SubSeq(r, m, N)[i] = r[m + i - 1]
  BY <1>1, PieceIs
<1>4. N - m + 1 = 3 /\ m + 1 - 1 = m /\ m + 2 - 1 = m + 1 /\ m + 3 - 1 = N
  OBVIOUS
<1> DEFINE three == SubSeq(r, m, N)
<1>5. three \in Seq(Symbols) /\ Len(three) = 3 /\ \A i \in 1..3 : three[i] = r[m + i - 1]
  BY <1>2, <1>3, <1>4
<1> HIDE DEF three
<1>6. three[1] = r[m] /\ three[2] = r[m + 1] /\ three[3] = r[N]
  BY <1>4, <1>5
<1> DEFINE nls == <<NL, NL, NL>>
<1>7. nls \in Seq(Symbols) /\ Len(nls) = 3 /\ nls[1] = NL /\ nls[2] = NL /\ nls[3] = NL
  BY BoundaryInk
<1> HIDE DEF nls
<1>8. ASSUME three[1] = NL, three[2] = NL, three[3] = NL PROVE three = nls
  <2>1. \A i \in 1..3 : three[i] = nls[i]
    BY <1>7, <1>8
  <2> QED BY <1>5, <1>7, <2>1, SameSeq
<1>9. three = nls <=> r[m] = NL /\ r[m + 1] = NL /\ r[N] = NL
  BY <1>6, <1>7, <1>8
<1> QED BY <1>9 DEF three, nls

\* A symbol is added, unless it is a line end behind three of them.
LEMMA CompactAddIs ==
  ASSUME NEW r \in Seq(Symbols), NEW c \in Symbols
  PROVE  IF c = NL /\ EndsGap(r) THEN CompactAdd(r, c) = r
         ELSE CompactAdd(r, c) = Append(r, c)
<1> DEFINE N == Len(r)
           full == N >= 3 /\ SubSeq(r, N - 2, N) = <<NL, NL, NL>>
<1>1. CompactAdd(r, c) = IF c # NL THEN Append(r, c) ELSE IF full THEN r ELSE Append(r, c)
  BY DEF CompactAdd
<1>2. full <=> EndsGap(r)
  <2>1. Len(r) \in Nat
    BY SymbolsOf
  <2>2. CASE N >= 3
    <3>1. PICK m \in Nat : m = N - 2
      BY <2>1, <2>2
    <3>2. N \in Nat /\ N = m + 2 /\ m # 0 /\ m \in Nat \ {0} /\ N - 2 = m /\ N - 1 = m + 1
          /\ N <= Len(r)
      BY <2>1, <2>2, <3>1
    <3>3. SubSeq(r, m, N) = <<NL, NL, NL>> <=> r[m] = NL /\ r[m + 1] = NL /\ r[N] = NL
      BY <3>2, GapIs
    <3> QED BY <2>2, <3>2, <3>3 DEF EndsGap
  <2>3. CASE ~(N >= 3)
    BY <2>3 DEF EndsGap
  <2> QED BY <2>2, <2>3
<1> HIDE DEF full
<1> QED BY <1>1, <1>2

LEMMA CompactGrows ==
  ASSUME NEW a \in Seq(Symbols), NEW w \in Seq(Symbols)
  PROVE  Continues(Compact(a), Compact(a \o w))
<1> DEFINE P == {x \in Seq(Symbols) : Continues(Compact(a), Compact(a \o x))}
<1>0. Compact(a) \in Seq(Symbols)
  BY CompactIs
<1>1. <<>> \in P
  <2>1. <<>> \in Seq(Symbols) /\ a \o <<>> = a
    BY EmptySeq, ConcatEmptySeq
  <2> QED BY <1>0, <2>1, ContinuesIs
<1>2. ASSUME NEW x \in Seq(Symbols), NEW c \in Symbols, x \in P
      PROVE  Append(x, c) \in P
  <2>1. /\ a \o x \in Seq(Symbols) /\ Append(x, c) \in Seq(Symbols)
        /\ a \o Append(x, c) = Append(a \o x, c)
    BY ConcatProperties, Appended, ConcatAppend
  <2>2. /\ Compact(a \o x) \in Seq(Symbols)
        /\ Compact(Append(a \o x, c)) = CompactAdd(Compact(a \o x), c)
    BY <2>1, CompactIs
  <2> DEFINE r == Compact(a \o x)
  <2>3. Continues(Compact(a), r)
    BY <1>2
  <2> HIDE DEF r
  <2>4. CompactAdd(r, c) = r \/ CompactAdd(r, c) = Append(r, c)
    BY <2>2, CompactAddIs DEF r
  <2>5. Continues(Compact(a), Append(r, c))
    BY <1>0, <2>2, <2>3, ContinuesIs DEF r
  <2>6. Continues(Compact(a), CompactAdd(r, c))
    BY <2>3, <2>4, <2>5
  <2> QED BY <2>1, <2>2, <2>6 DEF r
<1> HIDE DEF P
<1>3. Seq(Symbols) \subseteq P
  BY <1>1, <1>2, SeqInduction
<1> QED BY <1>3 DEF P

\* The text as far as it has one kind of line end, and whether a CR was the last
\* of it.
Tidied(t) == Folded(NoLineEnd, LineEndStep, t)

LEMMA TidiedIs ==
  /\ Tidied(<<>>) = NoLineEnd
  /\ \A t \in Seq(Symbols) : /\ Tidied(t) \in LineEnds /\ Tidied(t).text \in Seq(Symbols)
                             /\ OneLineEnd(t) = Tidied(t).text
  /\ \A t \in Seq(Symbols), c \in Symbols : Tidied(Append(t, c)) = LineEndAdd(Tidied(t), c)
<1>1. /\ Tidied(<<>>) = NoLineEnd
      /\ \A t \in Seq(Symbols) : Tidied(t) \in LineEnds
      /\ \A t \in Seq(Symbols), c \in Symbols :
           Tidied(Append(t, c)) = LineEndStep[<<Tidied(t), c>>]
  BY LineEndFolds, FoldedIs DEF Tidied
<1>2. \A t \in Seq(Symbols) : Tidied(t) \in LineEnds => Tidied(t).text \in Seq(Symbols)
  BY DEF LineEnds
<1>3. \A t \in Seq(Symbols) : OneLineEnd(t) = Tidied(t).text
  BY LineEndFolds DEF Tidied
<1> QED BY <1>1, <1>2, <1>3, LineEndFolds

LEMMA LineEndAddIs ==
  ASSUME NEW r \in LineEnds, NEW c \in Symbols
  PROVE  /\ c = CR => LineEndAdd(r, c).cr /\ LineEndAdd(r, c).text = Append(r.text, NL)
         /\ c = NL /\ r.cr => ~LineEndAdd(r, c).cr /\ LineEndAdd(r, c).text = r.text
         /\ c # CR /\ ~(c = NL /\ r.cr) =>
              ~LineEndAdd(r, c).cr /\ LineEndAdd(r, c).text = Append(r.text, c)
<1>1. NL # CR
  BY DEF NL, CR
<1> QED BY <1>1 DEF LineEndAdd, LineEnds

LEMMA OneLineEndGrows ==
  ASSUME NEW a \in Seq(Symbols), NEW w \in Seq(Symbols)
  PROVE  Continues(OneLineEnd(a), OneLineEnd(a \o w))
<1> DEFINE P == {x \in Seq(Symbols) : Continues(Tidied(a).text, Tidied(a \o x).text)}
<1>0. Tidied(a).text \in Seq(Symbols)
  BY TidiedIs
<1>1. <<>> \in P
  <2>1. <<>> \in Seq(Symbols) /\ a \o <<>> = a
    BY EmptySeq, ConcatEmptySeq
  <2> QED BY <1>0, <2>1, ContinuesIs
<1>2. ASSUME NEW x \in Seq(Symbols), NEW c \in Symbols, x \in P
      PROVE  Append(x, c) \in P
  <2>1. /\ a \o x \in Seq(Symbols) /\ Append(x, c) \in Seq(Symbols)
        /\ a \o Append(x, c) = Append(a \o x, c)
    BY ConcatProperties, Appended, ConcatAppend
  <2> DEFINE r == Tidied(a \o x)
  <2>2. /\ r \in LineEnds /\ r.text \in Seq(Symbols)
        /\ Tidied(a \o Append(x, c)) = LineEndAdd(r, c)
    BY <2>1, TidiedIs
  <2>3. Continues(Tidied(a).text, r.text)
    BY <1>2
  <2> HIDE DEF r
  <2>4. \E e \in Symbols : \/ LineEndAdd(r, c).text = r.text
                           \/ LineEndAdd(r, c).text = Append(r.text, e)
    BY <2>2, SymbolFacts, LineEndAddIs
  <2>5. \A e \in Symbols : Continues(Tidied(a).text, Append(r.text, e))
    BY <1>0, <2>2, <2>3, ContinuesIs
  <2>6. Continues(Tidied(a).text, LineEndAdd(r, c).text)
    BY <2>3, <2>4, <2>5
  <2> QED BY <2>1, <2>2, <2>6
<1> HIDE DEF P
<1>3. Seq(Symbols) \subseteq P
  BY <1>1, <1>2, SeqInduction
<1>4. a \o w \in Seq(Symbols)
  BY ConcatProperties
<1> QED BY <1>3, <1>4, TidiedIs DEF P

\* A text with one kind of line end, and few of them in a row.
Neat(t) == Compact(OneLineEnd(t))

LEMMA NeatGrows ==
  ASSUME NEW a \in Seq(Symbols), NEW w \in Seq(Symbols)
  PROVE  Continues(Neat(a), Neat(a \o w))
<1>1. OneLineEnd(a) \in Seq(Symbols)
  BY OneLineEndInk
<1>2. PICK x \in Seq(Symbols) : OneLineEnd(a \o w) = OneLineEnd(a) \o x
  BY OneLineEndGrows DEF Continues
<1> QED BY <1>1, <1>2, CompactGrows DEF Neat

\* A line end, something, and a line end behind a text.
Three(u, c) == Append(Append(Append(u, NL), c), NL)

LEMMA ThreeIs ==
  ASSUME NEW u \in Seq(Symbols), NEW c \in {NL, Marker}
  PROVE  Three(u, c) \in Seq(Symbols) /\ Ink(Three(u, c)) = Ink(u)
<1>1. NL \in Symbols /\ c \in Symbols /\ NL \in Hidden /\ c \in Hidden
  BY SymbolFacts DEF Hidden, Blank
<1>2. Append(u, NL) \in Seq(Symbols) /\ Ink(Append(u, NL)) = Ink(u)
  BY <1>1, InkAppend
<1>3. /\ Append(Append(u, NL), c) \in Seq(Symbols)
      /\ Ink(Append(Append(u, NL), c)) = Ink(u)
  BY <1>1, <1>2, InkAppend
<1> QED BY <1>1, <1>3, InkAppend DEF Three

\* A CR has become a line end already when a line end follows it.
LEMMA AfterCR ==
  ASSUME NEW u \in Seq(Symbols), Tidied(u).cr
  PROVE  \E v \in Seq(Symbols) : Tidied(u).text = Append(v, NL)
<1> DEFINE P == {t \in Seq(Symbols) :
                   Tidied(t).cr => \E v \in Seq(Symbols) : Tidied(t).text = Append(v, NL)}
<1>1. <<>> \in P
  BY TidiedIs, EmptySeq DEF NoLineEnd
<1>2. ASSUME NEW t \in Seq(Symbols), NEW c \in Symbols, t \in P
      PROVE  Append(t, c) \in P
  <2>1. Append(t, c) \in Seq(Symbols)
    BY Appended
  <2>2. /\ Tidied(Append(t, c)) = LineEndAdd(Tidied(t), c) /\ Tidied(t) \in LineEnds
        /\ Tidied(t).text \in Seq(Symbols)
    BY TidiedIs
  <2>3. LineEndAdd(Tidied(t), c).cr =>
          LineEndAdd(Tidied(t), c).text = Append(Tidied(t).text, NL)
    BY <2>2, LineEndAddIs
  <2> QED BY <2>1, <2>2, <2>3
<1> HIDE DEF P
<1>3. Seq(Symbols) \subseteq P
  BY <1>1, <1>2, SeqInduction
<1> QED BY <1>3 DEF P

LEMMA OneLineEndThree ==
  ASSUME NEW u \in Seq(Symbols), NEW c \in {NL, Marker}
  PROVE  \E v \in Seq(Symbols) : OneLineEnd(Three(u, c)) = Three(v, c)
<1> DEFINE R(t) == Tidied(t)
           a == Append(u, NL)
           b == Append(a, c)
<1>0. /\ \A t \in Seq(Symbols) : /\ R(t) \in LineEnds /\ R(t).text \in Seq(Symbols)
                                 /\ OneLineEnd(t) = R(t).text
      /\ \A t \in Seq(Symbols), x \in Symbols : R(Append(t, x)) = LineEndAdd(R(t), x)
  BY TidiedIs
<1>1. R(u).cr => \E v \in Seq(Symbols) : R(u).text = Append(v, NL)
  BY AfterCR
<1> HIDE DEF R
<1>2. NL \in Symbols /\ c \in Symbols /\ NL # CR /\ c # CR
  BY SymbolFacts DEF NL, CR, Marker
<1>3. a \in Seq(Symbols) /\ b \in Seq(Symbols)
  BY <1>2, Appended
<1>4. R(a) = LineEndAdd(R(u), NL) /\ R(b) = LineEndAdd(R(a), c)
      /\ R(Append(b, NL)) = LineEndAdd(R(b), NL)
  BY <1>0, <1>2, <1>3
<1> HIDE DEF a, b
<1>5. ~R(a).cr /\ \E v \in Seq(Symbols) : R(a).text = Append(v, NL)
  <2> DEFINE r == R(u)
             e == LineEndAdd(r, NL)
  <2>1. r \in LineEnds /\ r.text \in Seq(Symbols)
    BY <1>0
  <2>2. r.cr => ~e.cr /\ e.text = r.text
    BY <1>2, <2>1, LineEndAddIs
  <2>3. ~r.cr => ~e.cr /\ e.text = Append(r.text, NL)
    BY <1>2, <2>1, LineEndAddIs
  <2>4. r.cr => \E v \in Seq(Symbols) : r.text = Append(v, NL)
    BY <1>1
  <2>5. R(a) = e
    BY <1>4
  <2> HIDE DEF r, e
  <2> QED BY <2>1, <2>2, <2>3, <2>4, <2>5
<1>6. ~R(b).cr /\ R(b).text = Append(R(a).text, c)
  <2> DEFINE r == R(a)
             e == LineEndAdd(r, c)
  <2>1. r \in LineEnds
    BY <1>0, <1>3
  <2>2. ~e.cr /\ e.text = Append(r.text, c)
    BY <1>2, <1>5, <2>1, LineEndAddIs
  <2> QED BY <1>4, <2>2
<1>7. R(Append(b, NL)).text = Append(R(b).text, NL)
  BY <1>0, <1>2, <1>3, <1>4, <1>6, LineEndAddIs
<1>8. PICK v \in Seq(Symbols) : R(a).text = Append(v, NL)
  BY <1>5
<1>9. Append(b, NL) \in Seq(Symbols) /\ Three(u, c) = Append(b, NL)
  BY <1>2, <1>3, Appended DEF Three, a, b
<1>10. OneLineEnd(Three(u, c)) = Three(v, c)
  BY <1>0, <1>6, <1>7, <1>8, <1>9 DEF Three
<1> QED BY <1>10

LEMMA PrefixIs ==
  ASSUME NEW S, NEW t \in Seq(S), NEW m \in Nat, m <= Len(t)
  PROVE  /\ SubSeq(t, 1, m) \in Seq(S) /\ Len(SubSeq(t, 1, m)) = m
         /\ \A i \in 1..m : SubSeq(t, 1, m)[i] = t[i]
<1> DEFINE v == SubSeq(t, 1, m)
<1>1. 1 \in Nat \ {0} /\ 1 <= m + 1 /\ m - 1 + 1 = m /\ \A i \in 1..m : 1 + i - 1 = i
  OBVIOUS
<1>2. v \in Seq(S)
  BY <1>1, PieceIs
<1>3. Len(v) = m - 1 + 1
  BY <1>1, PieceIs
<1>4. \A i \in 1..(m - 1 + 1) : v[i] = t[1 + i - 1]
  BY <1>1, PieceIs
<1> HIDE DEF v
<1>5. v \in Seq(S) /\ Len(v) = m /\ \A i \in 1..m : v[i] = t[i]
  BY <1>1, <1>2, <1>3, <1>4
<1> QED BY <1>5 DEF v

LEMMA CompactThree ==
  ASSUME NEW u \in Seq(Symbols), NEW c \in {NL, Marker}
  PROVE  \E v \in Seq(Symbols) : Compact(Three(u, c)) = Three(v, c)
<1> DEFINE a == Append(u, NL)
           b == Append(a, c)
           r == Compact(u)
           ra == Compact(a)
           rb == Compact(b)
           rc == Compact(Append(b, NL))
<1>1. NL \in Symbols /\ c \in Symbols /\ Marker # NL
  BY SymbolFacts DEF NL, Marker
<1>2. a \in Seq(Symbols) /\ b \in Seq(Symbols)
  BY <1>1, Appended
<1>3. /\ r \in Seq(Symbols) /\ ra \in Seq(Symbols) /\ rb \in Seq(Symbols)
      /\ ra = CompactAdd(r, NL) /\ rb = CompactAdd(ra, c) /\ rc = CompactAdd(rb, NL)
  BY <1>1, <1>2, CompactIs
<1>4. Three(u, c) = Append(b, NL)
  BY DEF Three
<1> HIDE DEF a, b, r, ra, rb, rc
<1>5. /\ IF EndsGap(r) THEN ra = r ELSE ra = Append(r, NL)
      /\ IF c = NL /\ EndsGap(ra) THEN rb = ra ELSE rb = Append(ra, c)
      /\ IF EndsGap(rb) THEN rc = rb ELSE rc = Append(rb, NL)
  BY <1>1, <1>3, CompactAddIs
<1>6. \A x \in Seq(Symbols) : EndsGap(x) => \E v \in Seq(Symbols) : x = Three(v, NL)
  <2> SUFFICES ASSUME NEW x \in Seq(Symbols), EndsGap(x)
               PROVE  \E v \in Seq(Symbols) : x = Three(v, NL)
    OBVIOUS
  <2>1. PICK m \in Nat : Len(x) = m + 3
    <3>1. Len(x) \in Nat /\ Len(x) >= 3
      BY SymbolsOf DEF EndsGap
    <3>2. Len(x) - 3 \in Nat /\ Len(x) = (Len(x) - 3) + 3
      BY <3>1
    <3> QED BY <3>2
  <2> DEFINE v == SubSeq(x, 1, m)
             va == Append(v, NL)
             vb == Append(va, NL)
             vc == Append(vb, NL)
  <2>2. /\ v \in Seq(Symbols) /\ Len(v) = m /\ \A i \in 1..m : v[i] = x[i]
    <3>1. m <= Len(x)
      BY <2>1
    <3> QED BY <3>1, PrefixIs
  <2>3. /\ va \in Seq(Symbols) /\ Len(va) = m + 1 /\ va[m + 1] = NL /\ \A i \in 1..m : va[i] = x[i]
    BY <1>1, <2>2, Appended
  <2> HIDE DEF va
  <2>4. /\ vb \in Seq(Symbols) /\ Len(vb) = m + 2 /\ vb[m + 2] = NL
        /\ \A i \in 1..(m + 1) : vb[i] = va[i]
    BY <1>1, <2>3, Appended
  <2> HIDE DEF vb
  <2>5. /\ vc \in Seq(Symbols) /\ Len(vc) = m + 3 /\ vc[m + 3] = NL
        /\ \A i \in 1..(m + 2) : vc[i] = vb[i]
    BY <1>1, <2>4, Appended
  <2> HIDE DEF vc, v
  <2>6. x[m + 1] = NL /\ x[m + 2] = NL /\ x[m + 3] = NL
    <3>1. Len(x) - 2 = m + 1 /\ Len(x) - 1 = m + 2
      BY <2>1
    <3> QED BY <2>1, <3>1 DEF EndsGap
  <2>7. \A i \in 1..(m + 3) : vc[i] = x[i]
    <3> SUFFICES ASSUME NEW i \in 1..(m + 3) PROVE vc[i] = x[i]
      OBVIOUS
    <3>1. i \in 1..m \/ i = m + 1 \/ i = m + 2 \/ i = m + 3
      OBVIOUS
    <3> QED BY <2>3, <2>4, <2>5, <2>6, <3>1
  <2>8. x = vc
    BY <2>1, <2>5, <2>7, SameSeq
  <2>9. vc = Three(v, NL)
    BY DEF Three, vc, vb, va
  <2> QED BY <2>2, <2>8, <2>9
<1>7. \A x \in Seq(Symbols) : EndsGap(Append(x, Marker)) = FALSE
  <2> SUFFICES ASSUME NEW x \in Seq(Symbols) PROVE Append(x, Marker)[Len(Append(x, Marker))] # NL
    BY DEF EndsGap
  <2> DEFINE y == Append(x, Marker)
  <2>0. Marker \in Symbols
    BY SymbolFacts
  <2>1. Len(y) = Len(x) + 1 /\ y[Len(x) + 1] = Marker
    BY <2>0, Appended
  <2> HIDE DEF y
  <2> QED BY <1>1, <2>1 DEF y
<1>8. CASE c = NL
  <2>1. CASE EndsGap(r)
    <3>1. rc = r
      BY <1>5, <1>8, <2>1
    <3> QED BY <1>3, <1>4, <1>6, <1>8, <2>1, <3>1 DEF rc
  <2>2. CASE EndsGap(ra)
    <3>1. rc = ra
      BY <1>5, <1>8, <2>2
    <3> QED BY <1>3, <1>4, <1>6, <1>8, <2>2, <3>1 DEF rc
  <2>3. CASE EndsGap(rb)
    <3>1. rc = rb
      BY <1>5, <2>3
    <3> QED BY <1>3, <1>4, <1>6, <1>8, <2>3, <3>1 DEF rc
  <2>4. CASE ~EndsGap(r) /\ ~EndsGap(ra) /\ ~EndsGap(rb)
    <3>1. rc = Three(r, c)
      BY <1>5, <1>8, <2>4 DEF Three
    <3> QED BY <1>3, <1>4, <3>1 DEF rc
  <2> QED BY <2>1, <2>2, <2>3, <2>4
<1>9. CASE c = Marker
  <2>1. rb = Append(ra, Marker) /\ rc = Append(rb, NL)
    BY <1>1, <1>3, <1>5, <1>7, <1>9
  <2>2. \E v \in Seq(Symbols) : ra = Append(v, NL)
    <3>1. CASE EndsGap(r)
      <4>1. PICK v \in Seq(Symbols) : r = Three(v, NL)
        BY <1>3, <1>6, <3>1
      <4>2. Append(Append(v, NL), NL) \in Seq(Symbols)
        BY <1>1, Appended
      <4> QED BY <1>5, <3>1, <4>1, <4>2 DEF Three
    <3>2. CASE ~EndsGap(r)
      BY <1>3, <1>5, <3>2
    <3> QED BY <3>1, <3>2
  <2>3. PICK v \in Seq(Symbols) : ra = Append(v, NL)
    BY <2>2
  <2>4. rc = Three(v, c)
    BY <1>9, <2>1, <2>3 DEF Three
  <2> QED BY <1>4, <2>4 DEF rc
<1> QED BY <1>8, <1>9

LEMMA NeatIs ==
  ASSUME NEW t \in Seq(Symbols)
  PROVE  Neat(t) \in Seq(Symbols) /\ Ink(Neat(t)) = Ink(t)
BY OneLineEndInk, CompactInk DEF Neat

LEMMA NeatThree ==
  ASSUME NEW u \in Seq(Symbols), NEW c \in {NL, Marker}
  PROVE  \E v \in Seq(Symbols) : Neat(Three(u, c)) = Three(v, c) /\ Ink(v) = Ink(u)
<1>1. PICK x \in Seq(Symbols) : OneLineEnd(Three(u, c)) = Three(x, c)
  BY OneLineEndThree
<1>2. PICK v \in Seq(Symbols) : Compact(Three(x, c)) = Three(v, c)
  BY CompactThree
<1>3. Neat(Three(u, c)) = Three(v, c)
  BY <1>1, <1>2 DEF Neat
<1>4. Ink(v) = Ink(Neat(Three(u, c)))
  BY <1>3, ThreeIs
<1>5. Ink(Neat(Three(u, c))) = Ink(u)
  BY ThreeIs, NeatIs
<1> QED BY <1>3, <1>4, <1>5

\* A line end, something, and a line end stand at i.
ThreeAt(t, i, c) == /\ i \in Nat \ {0} /\ i + 2 <= Len(t)
                    /\ t[i] = NL /\ t[i + 1] = c /\ t[i + 2] = NL

\* When a marker line or three line ends stand in a text, they stand in the neat
\* text as well, with the same before them.
LEMMA NeatSplit ==
  ASSUME NEW t \in Seq(Symbols), NEW i, NEW c \in {NL, Marker}, ThreeAt(t, i, c)
  PROVE  \E v \in Seq(Symbols), w \in Seq(Symbols) :
           Neat(t) = Three(v, c) \o w /\ Ink(v) = Ink(SubSeq(t, 1, i - 1))
<1>1. PICK m \in Nat : i = m + 1
  <2>1. i - 1 \in Nat /\ i = (i - 1) + 1
    BY DEF ThreeAt
  <2> QED BY <2>1
<1> DEFINE N == Len(t)
           u == SubSeq(t, 1, m)
           y == SubSeq(t, 1, m + 3)
           z == SubSeq(t, m + 4, N)
<1>2. /\ N \in Nat /\ m + 3 <= N /\ t[m + 1] = NL /\ t[m + 2] = c /\ t[m + 3] = NL
      /\ i - 1 = m
  BY <1>1, SymbolsOf DEF ThreeAt
<1>3. 1 \in Nat \ {0} /\ m + 3 \in Nat /\ 1 <= (m + 3) + 1 /\ N <= Len(t)
  BY <1>2
<1>4. t = y \o z
  <2>1. SubSeq(t, 1, N) = t
    BY SubSeqFull
  <2> DEFINE k == m + 3
  <2>2. k \in Nat /\ 1 <= k + 1 /\ k <= N /\ k + 1 = m + 4
    BY <1>2
  <2> HIDE DEF k
  <2>3. SubSeq(t, 1, N) = SubSeq(t, 1, k) \o SubSeq(t, k + 1, N)
    BY <1>2, <1>3, <2>2, PieceSplit, ZenonT(40)
  <2> QED BY <2>1, <2>2, <2>3 DEF k
<1>5. u \in Seq(Symbols) /\ Len(u) = m /\ \A j \in 1..m : u[j] = t[j]
  <2>1. m <= N
    BY <1>2
  <2> QED BY <2>1, PrefixIs
<1>6. y \in Seq(Symbols) /\ Len(y) = m + 3 /\ \A j \in 1..(m + 3) : y[j] = t[j]
  BY <1>2, <1>3, PrefixIs
<1>7. z \in Seq(Symbols)
  <2> DEFINE k == m + 4
  <2>1. k \in Nat \ {0} /\ k <= N + 1
    BY <1>2
  <2> HIDE DEF k
  <2>2. SubSeq(t, k, N) \in Seq(Symbols)
    BY <1>2, <1>3, <2>1, PieceIs
  <2> QED BY <2>2 DEF k
<1> HIDE DEF u, y, z
<1>8. y = Three(u, c)
  <2> DEFINE a == Append(u, NL)
             b == Append(a, c)
             d == Append(b, NL)
  <2>1. NL \in Symbols /\ c \in Symbols
    BY SymbolFacts
  <2>2. a \in Seq(Symbols) /\ Len(a) = m + 1 /\ a[m + 1] = NL /\ \A j \in 1..m : a[j] = t[j]
    BY <1>5, <2>1, Appended
  <2> HIDE DEF a
  <2>3. b \in Seq(Symbols) /\ Len(b) = m + 2 /\ b[m + 2] = c /\ \A j \in 1..(m + 1) : b[j] = a[j]
    BY <2>1, <2>2, Appended
  <2> HIDE DEF b
  <2>4. d \in Seq(Symbols) /\ Len(d) = m + 3 /\ d[m + 3] = NL /\ \A j \in 1..(m + 2) : d[j] = b[j]
    BY <2>1, <2>3, Appended
  <2> HIDE DEF d
  <2>5. \A j \in 1..(m + 3) : d[j] = t[j]
    <3> SUFFICES ASSUME NEW j \in 1..(m + 3) PROVE d[j] = t[j]
      OBVIOUS
    <3>1. j \in 1..m \/ j = m + 1 \/ j = m + 2 \/ j = m + 3
      OBVIOUS
    <3> QED BY <1>2, <2>2, <2>3, <2>4, <3>1
  <2>6. \A j \in 1..Len(y) : y[j] = d[j]
    BY <1>6, <2>5
  <2>7. y = d
    BY <1>6, <2>4, <2>6, SameSeq
  <2> QED BY <2>7 DEF Three, a, b, d
<1>9. PICK v \in Seq(Symbols) : Neat(y) = Three(v, c) /\ Ink(v) = Ink(u)
  BY <1>5, <1>8, NeatThree
<1>10. PICK w \in Seq(Symbols) : Neat(t) = Neat(y) \o w
  BY <1>4, <1>6, <1>7, NeatGrows DEF Continues
<1> QED BY <1>2, <1>9, <1>10 DEF u

-----------------------------------------------------------------------------
(* What stands on two sides of a boundary: blocks.                         *)

LEMMA FrontLast ==
  ASSUME NEW S, NEW s \in Seq(S), NEW e \in S
  PROVE  Front(Append(s, e)) = s /\ Last(Append(s, e)) = e
<1> DEFINE u == Append(s, e)
           m == Len(s)
<1>1. u \in Seq(S) /\ m \in Nat /\ Len(u) = m + 1 /\ u[m + 1] = e /\ \A i \in 1..m : u[i] = s[i]
  BY Appended
<1>2. m + 1 - 1 = m /\ m <= Len(u)
  BY <1>1
<1> HIDE DEF u
<1>3. SubSeq(u, 1, m) \in Seq(S) /\ Len(SubSeq(u, 1, m)) = m
      /\ \A i \in 1..m : SubSeq(u, 1, m)[i] = u[i]
  BY <1>1, <1>2, PrefixIs
<1> DEFINE v == SubSeq(u, 1, m)
<1>4. v \in Seq(S) /\ Len(v) = m /\ \A i \in 1..m : v[i] = s[i]
  BY <1>1, <1>3
<1> HIDE DEF v
<1>5. v = s
  BY <1>4, SameSeq
<1>6. Front(u) = SubSeq(u, 1, m) /\ Last(u) = u[m + 1]
  BY <1>1, <1>2 DEF Front, Last
<1> QED BY <1>1, <1>5, <1>6 DEF u, v

\* The blocks of the lines of a text that have ended, and the line that has not.
Cut(t) == Folded(NoBlocks, BlockStep, Front(Lines(t)))
Rest(t) == Last(Lines(t))

LEMMA CutIs ==
  /\ \A t \in Seq(Symbols) :
       /\ Cut(t) \in BlockStates /\ Rest(t) \in Seq(Symbols)
       /\ Blocks(t) = BlockAdd(Cut(t), Rest(t))
  /\ \A t \in Seq(Symbols) : /\ Cut(Append(t, NL)) = BlockAdd(Cut(t), Rest(t))
                             /\ Rest(Append(t, NL)) = <<>>
  /\ \A t \in Seq(Symbols), c \in Symbols \ {NL} :
       /\ Cut(Append(t, c)) = Cut(t)
       /\ Rest(Append(t, c)) = Append(Rest(t), c)
<1> DEFINE S == Seq(Symbols)
           F(ls) == Folded(NoBlocks, BlockStep, ls)
<1>1. /\ \A ls \in Seq(S) : F(ls) \in BlockStates
      /\ \A ls \in Seq(S), l \in S : F(Append(ls, l)) = BlockStep[<<F(ls), l>>]
  BY BlockFolds, FoldedIs
<1>2. \A ls \in Seq(S), l \in S : F(Append(ls, l)) = BlockAdd(F(ls), l)
  BY <1>1, BlockFolds
<1>3. \A t \in S : Lines(t) \in LineLists
  BY LinesFolds, FoldedIs
<1>4. \A t \in S, c \in Symbols : Lines(Append(t, c)) = LinesAdd(Lines(t), c)
  <2>1. \A t \in S, c \in Symbols : Append(t, c) \in S
    BY Appended
  <2>2. \A t \in S, c \in Symbols :
          Folded(NoLines, LinesStep, Append(t, c)) = LinesStep[<<Folded(NoLines, LinesStep, t), c>>]
    BY LinesFolds, FoldedIs
  <2> QED BY <1>3, <2>1, <2>2, LinesFolds
<1>5. ASSUME NEW t \in S, NEW c \in Symbols
      PROVE  /\ Cut(t) \in BlockStates /\ Rest(t) \in S
             /\ Blocks(t) = BlockAdd(Cut(t), Rest(t))
             /\ c = NL => Cut(Append(t, c)) = BlockAdd(Cut(t), Rest(t)) /\ Rest(Append(t, c)) = <<>>
             /\ c # NL => Cut(Append(t, c)) = Cut(t) /\ Rest(Append(t, c)) = Append(Rest(t), c)
  <2> DEFINE ls == Lines(t)
             more == Lines(Append(t, c))
  <2>1. ls \in LineLists /\ more = LinesAdd(ls, c) /\ Blocks(t) = F(ls)
    BY <1>3, <1>4, BlockFolds
  <2>2. Cut(t) = F(Front(ls)) /\ Rest(t) = Last(ls)
        /\ Cut(Append(t, c)) = F(Front(more)) /\ Rest(Append(t, c)) = Last(more)
    BY DEF Cut, Rest
  <2> HIDE DEF ls, more, F
  <2>3. PICK front \in Seq(S), last \in S :
          /\ ls = Append(front, last)
          /\ more = IF c = NL THEN Append(ls, <<>>) ELSE Append(front, Append(last, c))
    BY <2>1, LinesAddIs
  <2>4. /\ Append(front, last) \in Seq(S) /\ <<>> \in S /\ Append(last, c) \in S
    BY Appended, EmptySeq
  <2>5. Front(ls) = front /\ Last(ls) = last
    BY <2>3, FrontLast
  <2>6. c = NL => Front(more) = ls /\ Last(more) = <<>>
    BY <2>3, <2>4, FrontLast
  <2>7. c # NL => Front(more) = front /\ Last(more) = Append(last, c)
    BY <2>3, <2>4, FrontLast
  <2>8. F(ls) = BlockAdd(F(front), last) /\ F(front) \in BlockStates
    BY <1>1, <1>2, <2>3
  <2> QED BY <2>1, <2>2, <2>3, <2>5, <2>6, <2>7, <2>8
<1> QED BY <1>5, SymbolFacts

LEMMA CutInk ==
  ASSUME NEW t \in Seq(Symbols)
  PROVE  BlockInk(Cut(t)) \o Ink(Rest(t)) = Ink(t)
<1>1. Cut(t) \in BlockStates /\ Rest(t) \in Seq(Symbols) /\ Blocks(t) = BlockAdd(Cut(t), Rest(t))
  BY CutIs
<1>2. BlockInk(BlockAdd(Cut(t), Rest(t))) = BlockInk(Cut(t)) \o Ink(Rest(t))
  BY <1>1, BlockAddInk
<1>3. BlockInk(Blocks(t)) = Ink(t)
  BY BlocksInk
<1> QED BY <1>1, <1>2, <1>3

LEMMA ConcatIs ==
  ASSUME NEW S, NEW s \in Seq(S), NEW t \in Seq(S)
  PROVE  /\ s \o t \in Seq(S) /\ Len(s) \in Nat /\ Len(t) \in Nat
         /\ Len(s \o t) = Len(s) + Len(t)
         /\ \A i \in 1..Len(s) : (s \o t)[i] = s[i]
         /\ \A i \in 1..Len(t) : (s \o t)[Len(s) + i] = t[i]
<1>1. Len(s) \in Nat /\ Len(t) \in Nat
  BY LenProperties
<1>2. /\ s \o t \in Seq(S) /\ Len(s \o t) = Len(s) + Len(t)
      /\ \A i \in 1..(Len(s) + Len(t)) :
           (s \o t)[i] = IF i <= Len(s) THEN s[i] ELSE t[i - Len(s)]
  BY ConcatProperties
<1> DEFINE u == s \o t
           m == Len(s)
           n == Len(t)
<1>3. \A i \in 1..(m + n) : u[i] = IF i <= m THEN s[i] ELSE t[i - m]
  BY <1>2
<1> HIDE DEF u, m, n
<1>4. m \in Nat /\ n \in Nat
  BY <1>1 DEF m, n
<1>5. \A i \in 1..m : i \in 1..(m + n) /\ i <= m
  BY <1>4
<1>7. \A i \in 1..m : u[i] = s[i]
  BY <1>3, <1>5
<1>8. \A i \in 1..n : u[m + i] = t[i]
  <2> SUFFICES ASSUME NEW i \in 1..n PROVE u[m + i] = t[i]
    OBVIOUS
  <2> DEFINE k == m + i
  <2>1. k \in 1..(m + n) /\ ~(k <= m) /\ k - m = i
    BY <1>4
  <2> HIDE DEF k
  <2>2. u[k] = t[k - m]
    BY <1>3, <2>1
  <2>3. u[k] = t[i]
    BY <2>1, <2>2
  <2> QED BY <2>3 DEF k
<1> QED BY <1>1, <1>2, <1>7, <1>8 DEF u, m, n

\* The beginnings of a sequence that is put together from two.
LEMMA PrefixOf ==
  ASSUME NEW S, NEW s \in Seq(S), NEW t \in Seq(S), NEW m \in Nat
  PROVE  /\ m <= Len(s) => SubSeq(s \o t, 1, m) = SubSeq(s, 1, m)
         /\ m <= Len(t) => SubSeq(s \o t, 1, Len(s) + m) = s \o SubSeq(t, 1, m)
<1> DEFINE u == s \o t
           K == Len(s)
           N == Len(t)
<1>1. /\ u \in Seq(S) /\ K \in Nat /\ N \in Nat /\ Len(u) = K + N
      /\ \A i \in 1..K : u[i] = s[i]
      /\ \A i \in 1..N : u[K + i] = t[i]
  BY ConcatIs
<1> HIDE DEF u
<1>2. ASSUME m <= K PROVE SubSeq(u, 1, m) = SubSeq(s, 1, m)
  <2> DEFINE p == SubSeq(u, 1, m)
             q == SubSeq(s, 1, m)
  <2>1. m <= Len(u)
    BY <1>1, <1>2
  <2>2. p \in Seq(S) /\ Len(p) = m /\ \A i \in 1..m : p[i] = u[i]
    BY <1>1, <2>1, PrefixIs
  <2>3. q \in Seq(S) /\ Len(q) = m /\ \A i \in 1..m : q[i] = s[i]
    BY <1>2, PrefixIs
  <2> HIDE DEF p, q
  <2>4. \A i \in 1..Len(p) : p[i] = q[i]
    BY <1>1, <1>2, <2>2, <2>3
  <2>5. p = q
    BY <2>2, <2>3, <2>4, SameSeq
  <2> QED BY <2>5 DEF p, q
<1>3. ASSUME m <= N PROVE SubSeq(u, 1, K + m) = s \o SubSeq(t, 1, m)
  <2> DEFINE p == SubSeq(u, 1, K + m)
             q == SubSeq(t, 1, m)
             r == s \o q
  <2>1. K + m <= Len(u) /\ K + m \in Nat
    BY <1>1, <1>3
  <2>2. p \in Seq(S) /\ Len(p) = K + m /\ \A i \in 1..(K + m) : p[i] = u[i]
    BY <1>1, <2>1, PrefixIs
  <2>3. q \in Seq(S) /\ Len(q) = m /\ \A i \in 1..m : q[i] = t[i]
    BY <1>3, PrefixIs
  <2> HIDE DEF p, q
  <2>4. /\ r \in Seq(S) /\ Len(r) = K + m
        /\ \A i \in 1..K : r[i] = s[i]
        /\ \A i \in 1..m : r[K + i] = q[i]
    <3>1. r \in Seq(S) /\ Len(r) = Len(s) + Len(q)
      BY <2>3, ConcatIs
    <3>2. \A i \in 1..Len(s) : r[i] = s[i]
      BY <2>3, ConcatIs
    <3>3. \A i \in 1..Len(q) : r[Len(s) + i] = q[i]
      BY <2>3, ConcatIs
    <3> HIDE DEF r
    <3> QED BY <2>3, <3>1, <3>2, <3>3
  <2> HIDE DEF r
  <2>5. \A i \in 1..Len(p) : p[i] = r[i]
    <3> SUFFICES ASSUME NEW i \in 1..(K + m) PROVE p[i] = r[i]
      BY <2>2
    <3>1. CASE i <= K
      BY <1>1, <2>2, <2>4, <3>1
    <3>2. CASE i > K
      <4>1. PICK j \in 1..m : i = K + j
        <5>1. i - K \in 1..m /\ i = K + (i - K)
          BY <1>1, <3>2
        <5> QED BY <5>1
      <4>2. j \in 1..N
        BY <1>1, <1>3
      <4>3. u[K + j] = t[j] /\ r[K + j] = q[j] /\ q[j] = t[j]
        BY <1>1, <2>3, <2>4, <4>2
      <4> QED BY <2>2, <4>1, <4>3
    <3> QED BY <1>1, <3>1, <3>2
  <2>6. p = r
    BY <2>2, <2>4, <2>5, SameSeq
  <2> QED BY <2>6 DEF p, q, r
<1> QED BY <1>2, <1>3 DEF u

\* What was seen before x stays apart from what comes after it: x is nothing, or
\* everything, or ends before three line ends.
Apart(t, x) ==
  \/ x = <<>>
  \/ x = Ink(t)
  \/ \E i : ThreeAt(t, i, NL) /\ x = Ink(SubSeq(t, 1, i - 1))

\* Behind the first m symbols of a block come three line ends, or two and, with
\* the next line, one more.
GapFrom(t, m) ==
  /\ m \in Nat /\ m + 2 <= Len(t) /\ t[m + 1] = NL /\ t[m + 2] = NL
  /\ m + 3 <= Len(t) => t[m + 3] = NL

LEMMA NothingApart ==
  ASSUME NEW x, Apart(<<>>, x)
  PROVE  x = <<>>
<1>1. Ink(<<>>) = <<>>
  BY InkIs
<1>2. \A i : ~ThreeAt(<<>>, i, NL)
  <2>1. Len(<<>>) = 0
    BY EmptySeq
  <2> QED BY <2>1 DEF ThreeAt
<1> QED BY <1>1, <1>2, Zenon DEF Apart

\* Trimming a block takes nothing from what is seen, and no gap from between.
LEMMA TrimApart ==
  ASSUME NEW t \in Seq(Symbols), NEW m, GapFrom(t, m)
  PROVE  Apart(Trimmed(t), Ink(SubSeq(t, 1, m)))
<1> DEFINE N == Len(t)
           ink == {i \in DOMAIN t : t[i] \notin Blank}
           T == Trimmed(t)
<1>1. N \in Nat /\ DOMAIN t = 1..N
  BY SymbolsOf
<1>2. m \in Nat /\ m + 2 <= N /\ t[m + 1] = NL /\ t[m + 2] = NL /\ (m + 3 <= N => t[m + 3] = NL)
  BY DEF GapFrom
<1>3. NL \in Blank /\ Blank \subseteq Hidden
  BY DEF Hidden, Blank
<1>4. T = IF ink = {} THEN <<>> ELSE SubSeq(t, Min(ink), Max(ink))
  BY DEF Trimmed
<1>5. T \in Seq(Symbols) /\ Ink(T) = Ink(t)
  BY TrimmedIs
<1>6. ink \subseteq 1..N /\ ink \subseteq Nat /\ \A i \in 1..N : i \notin ink => t[i] \in Hidden
  BY <1>1, <1>3
<1>7. \A i \in ink : i # m + 1 /\ i # m + 2 /\ i # m + 3
  BY <1>1, <1>2, <1>3
<1> SUFFICES Apart(T, Ink(SubSeq(t, 1, m)))
  OBVIOUS
<1> HIDE DEF ink, T, N
<1>8. 1 \in Nat \ {0} /\ m <= N /\ 1 <= m + 1 /\ N <= Len(t)
  BY <1>1, <1>2 DEF N
<1>9. CASE ink = {}
  <2>1. \A i \in 1..m : t[i] \in Hidden
    BY <1>1, <1>2, <1>6, <1>9
  <2>2. Ink(SubSeq(t, 1, m)) = <<>>
    BY <1>2, <1>8, <2>1, HiddenPiece DEF N
  <2> QED BY <2>2 DEF Apart
<1>10. CASE ink # {}
  <2> DEFINE a == Min(ink)
             b == Max(ink)
  <2>1. a \in ink /\ a \in 1..N /\ \A i \in ink : a <= i
    BY <1>6, <1>10, MinIs
  <2>2. b \in ink /\ b \in 1..N /\ \A i \in ink : i <= b
    BY <1>1, <1>6, <1>10, MaxIs
  <2>3. T = SubSeq(t, a, b) /\ a <= b
    BY <1>4, <1>10, <2>1, <2>2
  <2> HIDE DEF a, b
  <2>4. CASE m < a
    <3>1. \A i \in 1..m : i \notin ink /\ i \in 1..N
      BY <1>1, <1>2, <2>1, <2>4
    <3>2. \A i \in 1..m : t[i] \in Hidden
      BY <1>6, <3>1
    <3>3. Ink(SubSeq(t, 1, m)) = <<>>
      BY <1>2, <1>8, <3>2, HiddenPiece DEF N
    <3> QED BY <3>3 DEF Apart
  <2>5. CASE b <= m
    <3> DEFINE k == m + 1
    <3>1. k \in Nat \ {0} /\ k <= N + 1 /\ \A i \in k..N : i \notin ink /\ i \in 1..N
      BY <1>1, <1>2, <2>2, <2>5
    <3>2. \A i \in k..N : t[i] \in Hidden
      BY <1>6, <3>1
    <3> HIDE DEF k
    <3>3. Ink(SubSeq(t, k, N)) = <<>>
      BY <1>1, <1>8, <3>1, <3>2, HiddenPiece
    <3>4. /\ SubSeq(t, 1, m) \in Seq(Symbols)
          /\ Ink(SubSeq(t, 1, N)) = Ink(SubSeq(t, 1, m)) \o Ink(SubSeq(t, m + 1, N))
      BY <1>1, <1>2, <1>8, InkSplit
    <3>5. SubSeq(t, 1, N) = t
      BY SubSeqFull DEF N
    <3>6. Ink(SubSeq(t, 1, m)) \o <<>> = Ink(SubSeq(t, 1, m))
      BY <3>4, InkIs, ConcatEmptySeq
    <3>7. Ink(SubSeq(t, 1, m)) = Ink(T)
      BY <1>5, <3>3, <3>4, <3>5, <3>6 DEF k
    <3> QED BY <3>7 DEF Apart
  <2>6. CASE a <= m /\ m < b
    <3>1. b # m + 1 /\ b # m + 2 /\ b # m + 3
      BY <1>7, <2>2
    <3>2. m + 4 <= b /\ m + 3 <= N
      BY <1>1, <1>2, <2>2, <2>6, <3>1
    <3>3. PICK j \in Nat : j = m - a + 1
      <4>1. m - a + 1 \in Nat
        BY <1>1, <1>2, <2>1, <2>6
      <4> QED BY <4>1
    <3>4. /\ a \in Nat \ {0} /\ b \in Nat /\ b <= Len(t) /\ a <= b + 1
      BY <1>1, <2>1, <2>2, <2>3 DEF N
    <3>5. Len(T) = b - a + 1 /\ \A i \in 1..(b - a + 1) : T[i] = t[a + i - 1]
      <4>1. Len(SubSeq(t, a, b)) = b - a + 1
        BY <3>4, PieceIs
      <4>2. \A i \in 1..(b - a + 1) : SubSeq(t, a, b)[i] = t[a + i - 1]
        BY <3>4, PieceIs
      <4> QED BY <2>3, <4>1, <4>2
    <3>6. /\ j + 1 \in 1..(b - a + 1) /\ j + 2 \in 1..(b - a + 1) /\ j + 3 \in 1..(b - a + 1)
          /\ a + (j + 1) - 1 = m + 1 /\ a + (j + 2) - 1 = m + 2 /\ a + (j + 3) - 1 = m + 3
      BY <1>2, <3>2, <3>3, <3>4
    <3>7. T[j + 1] = NL /\ T[j + 2] = NL /\ T[j + 3] = NL
      <4>1. /\ T[j + 1] = t[a + (j + 1) - 1] /\ T[j + 2] = t[a + (j + 2) - 1]
            /\ T[j + 3] = t[a + (j + 3) - 1]
        BY <3>5, <3>6
      <4> QED BY <1>2, <3>2, <3>6, <4>1
    <3>8. ThreeAt(T, j + 1, NL)
      <4> DEFINE i == j + 1
      <4>1. /\ i \in Nat \ {0} /\ i + 2 <= Len(T) /\ i + 1 = j + 2 /\ i + 2 = j + 3
        <5>1. j + 3 <= b - a + 1
          BY <3>4, <3>6
        <5>2. i \in Nat \ {0} /\ i + 1 = j + 2 /\ i + 2 = j + 3
          BY <3>3
        <5> QED BY <3>5, <5>1, <5>2
      <4>2. T[i] = NL
        BY <3>7
      <4> HIDE DEF i
      <4>3. T[i + 1] = NL /\ T[i + 2] = NL
        BY <3>7, <4>1
      <4> QED BY <4>1, <4>2, <4>3 DEF ThreeAt, i
    <3>9. Ink(SubSeq(T, 1, j)) = Ink(SubSeq(t, 1, m))
      <4> DEFINE p == SubSeq(T, 1, j)
                 q == SubSeq(t, a, m)
                 k == a - 1
      <4>1. j <= Len(T) /\ j = m - a + 1 /\ m <= Len(t) /\ a <= m + 1
        BY <1>2, <1>8, <2>6, <3>3, <3>4, <3>5, <3>6 DEF N
      <4>2. p \in Seq(Symbols) /\ Len(p) = j /\ \A i \in 1..j : p[i] = T[i]
        BY <1>5, <4>1, PrefixIs
      <4>3. q \in Seq(Symbols)
        BY <1>2, <3>4, <4>1, PieceIs
      <4>4. Len(q) = m - a + 1
        BY <1>2, <3>4, <4>1, PieceIs
      <4>5. \A i \in 1..(m - a + 1) : q[i] = t[a + i - 1]
        BY <1>2, <3>4, <4>1, PieceIs
      <4> HIDE DEF p, q
      <4>6. \A i \in 1..j : i \in 1..(b - a + 1)
        BY <1>2, <3>2, <3>3, <3>4
      <4>7. \A i \in 1..Len(p) : p[i] = q[i]
        BY <3>5, <4>1, <4>2, <4>5, <4>6
      <4>8. p = q
        BY <4>1, <4>2, <4>3, <4>4, <4>7, SameSeq
      <4>9. /\ k \in Nat /\ k <= m /\ 1 <= k + 1 /\ k + 1 = a
            /\ \A i \in 1..k : i \notin ink /\ i \in 1..N
        BY <1>1, <1>2, <2>1, <2>6, <3>4
      <4>10. \A i \in 1..k : t[i] \in Hidden
        BY <1>6, <4>9
      <4> HIDE DEF k
      <4>11. Ink(SubSeq(t, 1, m)) = Ink(SubSeq(t, k + 1, m))
        BY <1>2, <1>8, <4>1, <4>9, <4>10, InkBehind
      <4> QED BY <4>8, <4>9, <4>11 DEF p, q
    <3>10. j + 1 - 1 = j
      BY <3>3
    <3> QED BY <3>8, <3>9, <3>10 DEF Apart
  <2> QED BY <1>2, <2>1, <2>2, <2>4, <2>5, <2>6
<1> QED BY <1>9, <1>10

LEMMA JoinedIs ==
  ASSUME NEW C, NEW by \in Seq(C)
  PROVE  /\ Joined(<<>>, by) = <<>>
         /\ \A ts \in Seq(Seq(C)), s \in Seq(C) :
              Joined(Append(ts, s), by)
                = IF ts = <<>> THEN s ELSE Joined(ts, by) \o (by \o s)
<1>1. \A ts : Joined(ts, by) = FlattenSeq(Between(ts, by))
  BY DEF Joined, Between
<1>2. /\ Between(<<>>, by) = <<>>
      /\ \A ts \in Seq(Seq(C)) : Between(ts, by) \in Seq(Seq(C))
      /\ \A ts \in Seq(Seq(C)), s \in Seq(C) :
           Between(Append(ts, s), by) = Append(Between(ts, by), IF ts = <<>> THEN s ELSE by \o s)
  BY BetweenIs
<1>3. /\ FlattenSeq(<<>>) = <<>>
      /\ \A ss \in Seq(Seq(C)), s \in Seq(C) : FlattenSeq(Append(ss, s)) = FlattenSeq(ss) \o s
  BY FlatIs
<1>4. ASSUME NEW ts \in Seq(Seq(C)), NEW s \in Seq(C)
      PROVE  Joined(Append(ts, s), by) = IF ts = <<>> THEN s ELSE Joined(ts, by) \o (by \o s)
  <2> DEFINE e == IF ts = <<>> THEN s ELSE by \o s
  <2>1. e \in Seq(C)
    BY ConcatProperties
  <2>2. Between(Append(ts, s), by) = Append(Between(ts, by), e) /\ Between(ts, by) \in Seq(Seq(C))
    BY <1>2
  <2>3. Joined(Append(ts, s), by) = Joined(ts, by) \o e
    <3> HIDE DEF e
    <3>1. FlattenSeq(Append(Between(ts, by), e)) = FlattenSeq(Between(ts, by)) \o e
      BY <1>3, <2>1, <2>2
    <3> QED BY <1>1, <2>2, <3>1
  <2>4. ts = <<>> => Joined(ts, by) = <<>> /\ <<>> \o s = s
    BY <1>1, <1>2, <1>3, ConcatEmptySeq
  <2> QED BY <2>3, <2>4
<1> QED BY <1>1, <1>2, <1>3, <1>4

\* Three line ends between two texts, or in one of two.
LEMMA ApartIn ==
  ASSUME NEW s \in Seq(Symbols), NEW t \in Seq(Symbols)
  PROVE  /\ Apart(s \o (BlockBoundary \o t), Ink(s))
         /\ \A i : ThreeAt(s, i, NL) => Apart(s \o t, Ink(SubSeq(s, 1, i - 1)))
         /\ \A i : ThreeAt(t, i, NL) => Apart(s \o t, Ink(s) \o Ink(SubSeq(t, 1, i - 1)))
<1> DEFINE K == Len(s)
           N == Len(t)
<1>0. K \in Nat /\ N \in Nat
  BY SymbolsOf
<1>1. Apart(s \o (BlockBoundary \o t), Ink(s))
  <2> DEFINE nls == BlockBoundary
             e == nls \o t
             u == s \o e
             i == K + 1
  <2>1. nls \in Seq(Symbols) /\ Len(nls) = 3 /\ nls[1] = NL /\ nls[2] = NL /\ nls[3] = NL
    BY BoundaryInk DEF BlockBoundary
  <2> HIDE DEF nls
  <2>2. e \in Seq(Symbols) /\ Len(e) = 3 + N /\ \A k \in 1..3 : e[k] = nls[k]
    <3>1. e \in Seq(Symbols) /\ Len(e) = Len(nls) + Len(t)
      BY <2>1, ConcatIs
    <3>2. \A k \in 1..Len(nls) : e[k] = nls[k]
      BY <2>1, ConcatIs
    <3> QED BY <2>1, <3>1, <3>2
  <2> HIDE DEF e
  <2>3. u \in Seq(Symbols) /\ Len(u) = K + Len(e) /\ \A k \in 1..Len(e) : u[K + k] = e[k]
    <3>1. u \in Seq(Symbols) /\ Len(u) = Len(s) + Len(e)
      BY <2>2, ConcatIs
    <3>2. \A k \in 1..Len(e) : u[Len(s) + k] = e[k]
      BY <2>2, ConcatIs
    <3> QED BY <3>1, <3>2
  <2>4. SubSeq(u, 1, K) = s
    <3>1. K <= Len(s) => SubSeq(u, 1, K) = SubSeq(s, 1, K)
      BY <1>0, <2>2, PrefixOf
    <3> QED BY <1>0, <3>1, SubSeqFull
  <2> HIDE DEF u, K
  <2>5. Len(u) = K + 3 + N /\ 1 \in 1..Len(e) /\ 2 \in 1..Len(e) /\ 3 \in 1..Len(e)
    BY <1>0, <2>2, <2>3
  <2>6. u[K + 1] = NL /\ u[K + 2] = NL /\ u[K + 3] = NL
    BY <2>1, <2>2, <2>3, <2>5
  <2>7. i \in Nat \ {0} /\ i + 2 <= Len(u) /\ i - 1 = K /\ i + 1 = K + 2 /\ i + 2 = K + 3
    BY <1>0, <2>5
  <2>8. ThreeAt(u, i, NL)
    <3>1. u[i] = NL
      BY <2>6
    <3> HIDE DEF i
    <3> QED BY <2>6, <2>7, <3>1 DEF ThreeAt
  <2>9. Apart(u, Ink(s))
    BY <2>4, <2>7, <2>8 DEF Apart
  <2> QED BY <2>9 DEF u, e, nls
<1> DEFINE u == s \o t
<1>2. u \in Seq(Symbols) /\ Len(u) = K + N
  BY ConcatIs
<1>3. \A k \in 1..K : u[k] = s[k]
  BY ConcatIs
<1>4. \A k \in 1..N : u[K + k] = t[k]
  BY ConcatIs
<1>5. \A m \in Nat : m <= K => SubSeq(u, 1, m) = SubSeq(s, 1, m)
  BY PrefixOf
<1>6. \A m \in Nat : m <= N => SubSeq(u, 1, K + m) = s \o SubSeq(t, 1, m)
  BY PrefixOf
<1> HIDE DEF u, K, N
<1>7. ASSUME NEW i, ThreeAt(s, i, NL)
      PROVE  Apart(u, Ink(SubSeq(s, 1, i - 1)))
  <2>1. i \in Nat \ {0} /\ i + 2 <= K /\ s[i] = NL /\ s[i + 1] = NL /\ s[i + 2] = NL
    BY <1>7 DEF ThreeAt, K
  <2>2. /\ i \in 1..K /\ i + 1 \in 1..K /\ i + 2 \in 1..K /\ i + 2 <= Len(u)
        /\ i - 1 \in Nat /\ i - 1 <= K
    BY <1>0, <1>2, <2>1
  <2>3. u[i] = NL /\ u[i + 1] = NL /\ u[i + 2] = NL
    BY <1>3, <2>1, <2>2
  <2>4. SubSeq(u, 1, i - 1) = SubSeq(s, 1, i - 1)
    BY <1>5, <2>2
  <2>5. ThreeAt(u, i, NL)
    BY <2>1, <2>2, <2>3 DEF ThreeAt
  <2> QED BY <2>4, <2>5 DEF Apart
<1>8. ASSUME NEW i, ThreeAt(t, i, NL)
      PROVE  Apart(u, Ink(s) \o Ink(SubSeq(t, 1, i - 1)))
  <2> DEFINE j == K + i
  <2>1. i \in Nat \ {0} /\ i + 2 <= N /\ t[i] = NL /\ t[i + 1] = NL /\ t[i + 2] = NL
    BY <1>8 DEF ThreeAt, N
  <2>2. PICK m \in Nat : i = m + 1
    <3>1. i - 1 \in Nat /\ i = (i - 1) + 1
      BY <2>1
    <3> QED BY <3>1
  <2>3. /\ i \in 1..N /\ i + 1 \in 1..N /\ i + 2 \in 1..N /\ i - 1 = m /\ m <= N
        /\ j \in Nat \ {0} /\ j + 2 <= Len(u) /\ j - 1 = K + m
        /\ j + 1 = K + (i + 1) /\ j + 2 = K + (i + 2)
    BY <1>0, <1>2, <2>1, <2>2
  <2>4. u[j] = t[i] /\ u[K + (i + 1)] = t[i + 1] /\ u[K + (i + 2)] = t[i + 2]
    BY <1>4, <2>3
  <2> HIDE DEF j
  <2>5. ThreeAt(u, j, NL)
    BY <2>1, <2>3, <2>4 DEF ThreeAt
  <2> DEFINE p == SubSeq(t, 1, m)
  <2>6. p \in Seq(Symbols)
    BY <2>3, PrefixIs DEF N
  <2>7. SubSeq(u, 1, K + m) = s \o p
    BY <1>6, <2>3
  <2> HIDE DEF p
  <2>8. Ink(SubSeq(u, 1, j - 1)) = Ink(s) \o Ink(p)
    BY <2>3, <2>6, <2>7, InkConcat, ZenonT(40)
  <2>9. Apart(u, Ink(s) \o Ink(p))
    BY <2>5, <2>8 DEF Apart
  <2> QED BY <2>3, <2>9 DEF p
<1> QED BY <1>1, <1>7, <1>8 DEF u

\* The blocks of a text that is delivered, one more of them.
Delivered(ts) == Joined(ts, BlockBoundary)

LEMMA DeliveredIs ==
  /\ Delivered(<<>>) = <<>>
  /\ \A ts \in Seq(Seq(Symbols)) : Delivered(ts) \in Seq(Symbols)
                                   /\ Ink(Delivered(ts)) = Ink(FlattenSeq(ts))
  /\ \A ts \in Seq(Seq(Symbols)), s \in Seq(Symbols) :
       Delivered(Append(ts, s))
         = IF ts = <<>> THEN s ELSE Delivered(ts) \o (BlockBoundary \o s)
<1>1. BlockBoundary \in Seq(Symbols) /\ Ink(BlockBoundary) = <<>>
  BY BoundaryInk DEF BlockBoundary
<1>2. \A ts \in Seq(Seq(Symbols)) : Delivered(ts) \in Seq(Symbols)
                                      /\ Ink(Delivered(ts)) = Ink(FlattenSeq(ts))
  BY <1>1, JoinedInk DEF Delivered
<1>3. \A ts \in Seq(Seq(Symbols)), s \in Seq(Symbols) :
        Delivered(Append(ts, s))
          = IF ts = <<>> THEN s ELSE Delivered(ts) \o (BlockBoundary \o s)
  BY <1>1, JoinedIs, ZenonT(40) DEF Delivered
<1>4. Delivered(<<>>) = <<>>
  BY <1>1, JoinedIs DEF Delivered
<1> QED BY <1>2, <1>3, <1>4

LEMMA ApartBefore ==
  ASSUME NEW ts \in Seq(Seq(Symbols)), NEW s \in Seq(Symbols), NEW x, Apart(Delivered(ts), x)
  PROVE  Apart(Delivered(Append(ts, s)), x)
<1> DEFINE n == Delivered(ts)
           e == BlockBoundary \o s
<1>1. CASE ts = <<>>
  <2>1. x = <<>>
    BY <1>1, DeliveredIs, NothingApart
  <2> QED BY <2>1 DEF Apart
<1>2. CASE ts # <<>>
  <2>1. n \in Seq(Symbols) /\ Delivered(Append(ts, s)) = n \o e
    BY <1>2, DeliveredIs
  <2>2. e \in Seq(Symbols)
    <3>1. BlockBoundary \in Seq(Symbols)
      BY BoundaryInk DEF BlockBoundary
    <3> QED BY <3>1, ConcatIs
  <2>3. Apart(n \o e, Ink(n))
    BY <2>1, ApartIn
  <2> HIDE DEF e, n
  <2>4. \A i : ThreeAt(n, i, NL) => Apart(n \o e, Ink(SubSeq(n, 1, i - 1)))
    BY <2>1, <2>2, ApartIn
  <2>5. x = <<>> \/ x = Ink(n) \/ \E i : ThreeAt(n, i, NL) /\ x = Ink(SubSeq(n, 1, i - 1))
    BY DEF Apart, n
  <2>6. x = <<>> => Apart(n \o e, x)
    BY DEF Apart
  <2> QED BY <2>1, <2>3, <2>4, <2>5, <2>6
<1> QED BY <1>1, <1>2

LEMMA ApartWithin ==
  ASSUME NEW ts \in Seq(Seq(Symbols)), NEW s \in Seq(Symbols), NEW x \in Seq(Symbols), Apart(s, x)
  PROVE  Apart(Delivered(Append(ts, s)), Ink(FlattenSeq(ts)) \o x)
<1> DEFINE n == Delivered(ts)
           nls == BlockBoundary
<1>1. CASE ts = <<>>
  <2>1. Ink(FlattenSeq(ts)) = <<>>
    BY <1>1, FlatIs, InkIs
  <2>2. Ink(FlattenSeq(ts)) \o x = x /\ Delivered(Append(ts, s)) = s
    BY <1>1, <2>1, ConcatEmptySeq, DeliveredIs
  <2> QED BY <2>2
<1>2. CASE ts # <<>>
  <2>1. n \in Seq(Symbols) /\ Delivered(Append(ts, s)) = n \o (nls \o s)
        /\ Ink(FlattenSeq(ts)) = Ink(n)
    BY <1>2, DeliveredIs
  <2>2. nls \in Seq(Symbols) /\ Ink(nls) = <<>>
    BY BoundaryInk DEF BlockBoundary
  <2>3. Apart(n \o (nls \o s), Ink(n))
    BY <2>1, ApartIn
  <2> HIDE DEF n, nls
  <2>4. n \o nls \in Seq(Symbols) /\ (n \o nls) \o s = n \o (nls \o s)
    BY <2>1, <2>2, ConcatIs, ConcatAssociative, SMTT(60)
  <2>5. Ink(n) \in Seq(Symbols) /\ Ink(n \o nls) = Ink(n) /\ Ink(n) \o <<>> = Ink(n)
    <3>1. Ink(n) \in Seq(Symbols)
      BY <2>1, InkIs
    <3>2. Ink(n) \o <<>> = Ink(n)
      BY <3>1, ConcatEmptySeq
    <3>3. Ink(n \o nls) = Ink(n) \o Ink(nls)
      BY <2>1, <2>2, InkConcat
    <3> QED BY <2>2, <3>1, <3>2, <3>3
  <2>6. Ink((n \o nls) \o s) = Ink(n) \o Ink(s)
    BY <2>4, <2>5, InkConcat
  <2>7. \A i : ThreeAt(s, i, NL) =>
          Apart((n \o nls) \o s, Ink(n) \o Ink(SubSeq(s, 1, i - 1)))
    BY <2>4, <2>5, ApartIn
  <2>8. x = <<>> \/ x = Ink(s) \/ \E i : ThreeAt(s, i, NL) /\ x = Ink(SubSeq(s, 1, i - 1))
    BY DEF Apart
  <2> DEFINE u == n \o (nls \o s)
  <2>9. Ink(u) = Ink(n) \o Ink(s) /\ Apart(u, Ink(n) \o <<>>)
    BY <2>3, <2>4, <2>5, <2>6
  <2>10. \A i : ThreeAt(s, i, NL) => Apart(u, Ink(n) \o Ink(SubSeq(s, 1, i - 1)))
    BY <2>4, <2>7
  <2> HIDE DEF u
  <2>11. Apart(u, Ink(n) \o Ink(s))
    BY <2>9 DEF Apart
  <2>12. Apart(u, Ink(n) \o x)
    BY <2>8, <2>9, <2>10, <2>11
  <2> QED BY <2>1, <2>12 DEF u
<1> QED BY <1>1, <1>2

\* The blocks so far keep what is seen up to x apart from the rest: between two of
\* them that have ended, inside one, or in the present one.
Held(bs, x) ==
  \/ Apart(Delivered(bs.done), x)
  \/ \E m : /\ GapFrom(bs.current, m)
            /\ x = Ink(FlattenSeq(bs.done)) \o Ink(SubSeq(bs.current, 1, m))

LEMMA HeldEnded ==
  ASSUME NEW bs \in BlockStates, NEW x, Held(bs, x)
  PROVE  Apart(Delivered(Ended(bs)), x)
<1> DEFINE done == bs.done
           cur == bs.current
           T == Trimmed(cur)
<1>1. done \in Seq(Seq(Symbols)) /\ cur \in Seq(Symbols)
  BY DEF BlockStates
<1>2. T \in Seq(Symbols)
  BY <1>1, TrimmedIs
<1>3. Ended(bs) = IF T = <<>> THEN done ELSE Append(done, T)
  BY DEF Ended
<1>4. CASE Apart(Delivered(done), x)
  <2> HIDE DEF T, done
  <2> QED BY <1>1, <1>2, <1>3, <1>4, ApartBefore
<1>5. ASSUME NEW m, GapFrom(cur, m), x = Ink(FlattenSeq(done)) \o Ink(SubSeq(cur, 1, m))
      PROVE  Apart(Delivered(Ended(bs)), x)
  <2> DEFINE y == Ink(SubSeq(cur, 1, m))
  <2>1. y \in Seq(Symbols)
    <3>1. m \in Nat /\ m + 2 <= Len(cur) /\ Len(cur) \in Nat
      BY <1>1, <1>5, SymbolsOf DEF GapFrom
    <3>2. m <= Len(cur)
      BY <3>1
    <3> HIDE DEF cur
    <3>3. SubSeq(cur, 1, m) \in Seq(Symbols)
      BY <1>1, <3>1, <3>2, PrefixIs
    <3> QED BY <3>3, InkIs
  <2>2. Apart(T, y)
    BY <1>1, <1>5, TrimApart
  <2>3. x = Ink(FlattenSeq(done)) \o y
    BY <1>5
  <2> HIDE DEF T, y, done, cur
  <2>4. CASE T = <<>>
    <3>1. y = <<>>
      BY <2>2, <2>4, NothingApart
    <3>2. FlattenSeq(done) \in Seq(Symbols)
      BY <1>1, FlatIs
    <3>3. Ink(FlattenSeq(done)) \in Seq(Symbols)
      BY <3>2, InkIs
    <3>4. x = Ink(FlattenSeq(done))
      BY <2>3, <3>1, <3>3, ConcatEmptySeq
    <3>5. x = Ink(Delivered(done))
      BY <1>1, <3>4, DeliveredIs
    <3> QED BY <1>3, <2>4, <3>5 DEF Apart
  <2>5. CASE T # <<>>
    BY <1>1, <1>2, <1>3, <2>1, <2>2, <2>3, <2>5, ApartWithin
  <2> QED BY <2>4, <2>5
<1> QED BY <1>4, <1>5 DEF Held

LEMMA BlockAddIs ==
  ASSUME NEW bs \in BlockStates, NEW l \in Seq(Symbols)
  PROVE  /\ BlockAdd(bs, l) \in BlockStates
         /\ Trimmed(l) = <<Marker>> =>
              BlockAdd(bs, l) = [done |-> Ended(bs), current |-> <<>>, seen |-> TRUE]
         /\ Trimmed(l) # <<Marker>> =>
              BlockAdd(bs, l) = [done |-> bs.done, seen |-> bs.seen,
                                 current |-> IF bs.current = <<>> THEN l
                                             ELSE (bs.current \o <<NL>>) \o l]
<1>1. BlockAdd(bs, l) \in BlockStates
  BY BlockAddInk
<1>2. Trimmed(l) = <<Marker>> =>
        BlockAdd(bs, l) = [done |-> Ended(bs), current |-> <<>>, seen |-> TRUE]
  BY DEF BlockAdd
<1>3. ASSUME Trimmed(l) # <<Marker>>
      PROVE  BlockAdd(bs, l) = [done |-> bs.done, seen |-> bs.seen,
                                current |-> IF bs.current = <<>> THEN l
                                            ELSE (bs.current \o <<NL>>) \o l]
  <2> DEFINE e == IF bs.current = <<>> THEN l ELSE (bs.current \o <<NL>>) \o l
  <2>1. BlockAdd(bs, l) = [bs EXCEPT !.current = e]
    BY <1>3 DEF BlockAdd
  <2> HIDE DEF e
  <2>2. BlockAdd(bs, l) = [done |-> bs.done, seen |-> bs.seen, current |-> e]
    BY <2>1 DEF BlockStates
  <2> QED BY <2>2 DEF e
<1> QED BY <1>1, <1>2, <1>3

LEMMA OneOf ==
  ASSUME NEW S, NEW s \in Seq(S), NEW e \in S
  PROVE  <<e>> \in Seq(S) /\ s \o <<e>> = Append(s, e)
OBVIOUS

\* A line more below a gap.
LEMMA GapStays ==
  ASSUME NEW t \in Seq(Symbols), NEW l \in Seq(Symbols), NEW m, GapFrom(t, m)
  PROVE  /\ t # <<>> /\ GapFrom((t \o <<NL>>) \o l, m)
         /\ SubSeq((t \o <<NL>>) \o l, 1, m) = SubSeq(t, 1, m)
<1> DEFINE K == Len(t)
           nl == <<NL>>
           a == t \o nl
           u == a \o l
<1>1. m \in Nat /\ m + 2 <= K /\ t[m + 1] = NL /\ t[m + 2] = NL /\ (m + 3 <= K => t[m + 3] = NL)
      /\ K \in Nat
  BY SymbolsOf DEF GapFrom
<1>2. NL \in Symbols /\ nl \in Seq(Symbols)
  BY SymbolFacts, OneOf
<1>3. a = Append(t, NL)
  BY <1>2, OneOf
<1>4. a \in Seq(Symbols) /\ Len(a) = K + 1 /\ \A i \in 1..K : a[i] = t[i]
  BY <1>2, <1>3, Appended
<1>5. a[K + 1] = NL
  BY <1>2, <1>3, Appended
<1> HIDE DEF nl
<1>6. SubSeq(a, 1, m) = SubSeq(t, 1, m)
  <2>1. m <= Len(t)
    BY <1>1
  <2> QED BY <1>1, <1>2, <2>1, PrefixOf
<1> HIDE DEF a
<1>7. Len(u) = K + 1 + Len(l) /\ Len(l) \in Nat /\ \A i \in 1..(K + 1) : u[i] = a[i]
  <2>1. \A i \in 1..Len(a) : u[i] = a[i]
    BY <1>4, ConcatIs
  <2>2. Len(u) = Len(a) + Len(l) /\ Len(l) \in Nat
    BY <1>4, ConcatIs
  <2> QED BY <1>4, <2>1, <2>2
<1>8. SubSeq(u, 1, m) = SubSeq(a, 1, m)
  <2>1. m <= Len(a)
    BY <1>1, <1>4
  <2> QED BY <1>1, <1>4, <2>1, PrefixOf
<1> HIDE DEF u
<1>9. GapFrom(u, m)
  <2>1. /\ m + 1 \in 1..K /\ m + 2 \in 1..K /\ m + 3 \in 1..(K + 1) /\ m + 2 <= Len(u)
        /\ m + 1 \in 1..(K + 1) /\ m + 2 \in 1..(K + 1)
    BY <1>1, <1>7
  <2>2. u[m + 1] = NL /\ u[m + 2] = NL
    BY <1>1, <1>4, <1>7, <2>1
  <2>3. u[m + 3] = NL
    <3>1. CASE m + 3 <= K
      <4>1. m + 3 \in 1..K
        BY <1>1, <3>1
      <4> QED BY <1>1, <1>4, <1>7, <2>1, <3>1, <4>1
    <3>2. CASE m + 3 = K + 1
      BY <1>5, <1>7, <2>1, <3>2
    <3> QED BY <1>1, <3>1, <3>2
  <2> QED BY <1>1, <2>1, <2>2, <2>3 DEF GapFrom
<1>10. t # <<>>
  <2>1. K # 0
    BY <1>1
  <2> QED BY <2>1, EmptySeq
<1> QED BY <1>6, <1>8, <1>9, <1>10 DEF u, a, nl

LEMMA HeldAdd ==
  ASSUME NEW bs \in BlockStates, NEW l \in Seq(Symbols), NEW x, Held(bs, x)
  PROVE  Held(BlockAdd(bs, l), x) /\ (bs.seen => BlockAdd(bs, l).seen)
<1> DEFINE b2 == BlockAdd(bs, l)
<1>1. CASE Trimmed(l) = <<Marker>>
  <2>1. b2 = [done |-> Ended(bs), current |-> <<>>, seen |-> TRUE]
    BY <1>1, BlockAddIs
  <2> HIDE DEF b2
  <2>2. b2.done = Ended(bs) /\ b2.seen
    BY <2>1
  <2>3. Apart(Delivered(b2.done), x)
    BY <2>2, HeldEnded
  <2> QED BY <2>2, <2>3 DEF Held, b2
<1>2. CASE Trimmed(l) # <<Marker>>
  <2> DEFINE cur == bs.current
             more == (cur \o <<NL>>) \o l
  <2>1. b2 = [done |-> bs.done, seen |-> bs.seen, current |-> IF cur = <<>> THEN l ELSE more]
    BY <1>2, BlockAddIs
  <2>2. cur \in Seq(Symbols)
    BY DEF BlockStates
  <2>3. \A m : GapFrom(cur, m) =>
          cur # <<>> /\ GapFrom(more, m) /\ SubSeq(more, 1, m) = SubSeq(cur, 1, m)
    BY <2>2, GapStays
  <2> HIDE DEF b2, more
  <2>4. b2.done = bs.done /\ b2.seen = bs.seen /\ (cur # <<>> => b2.current = more)
    BY <2>1
  <2>5. Held(b2, x)
    BY <2>3, <2>4 DEF Held
  <2> QED BY <2>4, <2>5 DEF b2
<1> QED BY <1>1, <1>2

LEMMA HeldBehind ==
  ASSUME NEW a \in Seq(Symbols), NEW w \in Seq(Symbols), NEW x, Held(Cut(a), x)
  PROVE  Held(Cut(a \o w), x) /\ (Cut(a).seen => Cut(a \o w).seen)
<1> DEFINE P == {y \in Seq(Symbols) :
                   Held(Cut(a \o y), x) /\ (Cut(a).seen => Cut(a \o y).seen)}
<1>1. <<>> \in P
  <2>1. <<>> \in Seq(Symbols) /\ a \o <<>> = a
    BY EmptySeq, ConcatEmptySeq
  <2> QED BY <2>1
<1>2. ASSUME NEW y \in Seq(Symbols), NEW c \in Symbols, y \in P
      PROVE  Append(y, c) \in P
  <2> DEFINE u == a \o y
             l == Rest(u)
  <2>1. /\ u \in Seq(Symbols) /\ Append(y, c) \in Seq(Symbols)
        /\ a \o Append(y, c) = Append(u, c)
    BY ConcatProperties, Appended, ConcatAppend
  <2>2. Held(Cut(u), x) /\ (Cut(a).seen => Cut(u).seen)
    BY <1>2
  <2> HIDE DEF u
  <2>3. /\ Cut(u) \in BlockStates /\ l \in Seq(Symbols)
        /\ c = NL => Cut(Append(u, c)) = BlockAdd(Cut(u), l)
        /\ c # NL => Cut(Append(u, c)) = Cut(u)
    BY <2>1, CutIs
  <2> HIDE DEF l
  <2>4. Held(BlockAdd(Cut(u), l), x) /\ (Cut(u).seen => BlockAdd(Cut(u), l).seen)
    BY <2>2, <2>3, HeldAdd
  <2>5. Held(Cut(Append(u, c)), x) /\ (Cut(a).seen => Cut(Append(u, c)).seen)
    BY <2>2, <2>3, <2>4
  <2> QED BY <2>1, <2>5
<1> HIDE DEF P
<1>3. Seq(Symbols) \subseteq P
  BY <1>1, <1>2, SeqInduction
<1> QED BY <1>3 DEF P

LEMMA TrimmedOnes ==
  Trimmed(<<>>) = <<>> /\ Trimmed(<<Marker>>) = <<Marker>> /\ <<>> # <<Marker>>
<1> DEFINE t == <<Marker>>
           ink == {i \in DOMAIN t : t[i] \notin Blank}
<1>1. t \in Seq(Symbols) /\ DOMAIN t = 1..1 /\ t[1] = Marker /\ Len(t) = 1
  <2>1. Marker \in Symbols
    BY SymbolFacts
  <2>2. t \in Seq(Symbols)
    BY <2>1, TupleIs
  <2>3. Len(t) = 1 /\ t[1] = Marker
    OBVIOUS
  <2> HIDE DEF t
  <2> QED BY <2>2, <2>3, SymbolsOf
<1>2. Marker \notin Blank
  BY DEF Marker, Blank, Space, NL, CR
<1>3. ink = {1}
  BY <1>1, <1>2
<1>4. Min({1}) = 1 /\ Max({1}) = 1
  <2>1. {1} \subseteq Nat /\ {1} \subseteq 1..1 /\ {1} # {} /\ 1 \in Nat
    OBVIOUS
  <2>2. Min({1}) \in {1}
    BY <2>1, MinIs
  <2>3. Max({1}) \in {1}
    BY <2>1, MaxIs
  <2> QED BY <2>2, <2>3
<1>5. Trimmed(t) = IF ink = {} THEN <<>> ELSE SubSeq(t, Min(ink), Max(ink))
  BY DEF Trimmed
<1> HIDE DEF ink, t
<1>6. {1} # {} /\ SubSeq(t, 1, 1) = t
  BY <1>1, SubSeqFull
<1>7. Trimmed(t) = t
  BY <1>3, <1>4, <1>5, <1>6
<1>8. Trimmed(<<>>) = <<>>
  <2> DEFINE none == {i \in DOMAIN <<>> : <<>>[i] \notin Blank}
  <2>1. none = {}
    OBVIOUS
  <2>2. Trimmed(<<>>) = IF none = {} THEN <<>> ELSE SubSeq(<<>>, Min(none), Max(none))
    BY DEF Trimmed
  <2> HIDE DEF none
  <2> QED BY <2>1, <2>2
<1>9. <<>> # t
  <2>1. ASSUME <<>> = t PROVE Len(t) = 0
    BY <2>1
  <2>2. Len(t) # 0
    BY <1>1
  <2> QED BY <2>1, <2>2
<1> QED BY <1>7, <1>8, <1>9 DEF t

LEMMA EmptyLine ==
  ASSUME NEW bs \in BlockStates
  PROVE  /\ BlockAdd(bs, <<>>) \in BlockStates
         /\ bs.current = <<>> => BlockAdd(bs, <<>>) = bs
         /\ bs.current # <<>> =>
              /\ BlockAdd(bs, <<>>).done = bs.done
              /\ BlockAdd(bs, <<>>).current = Append(bs.current, NL)
<1> DEFINE cur == bs.current
           e == IF cur = <<>> THEN <<>> ELSE (cur \o <<NL>>) \o <<>>
           b2 == BlockAdd(bs, <<>>)
<1>1. <<>> \in Seq(Symbols) /\ cur \in Seq(Symbols) /\ NL \in Symbols
  BY EmptySeq, SymbolFacts DEF BlockStates
<1>2. b2 \in BlockStates /\ b2 = [done |-> bs.done, seen |-> bs.seen, current |-> e]
  BY <1>1, TrimmedOnes, BlockAddIs
<1>3. cur \o <<NL>> = Append(cur, NL) /\ Append(cur, NL) \in Seq(Symbols)
  BY <1>1, OneOf, Appended
<1>4. Append(cur, NL) \o <<>> = Append(cur, NL)
  BY <1>3, ConcatEmptySeq
<1>5. cur # <<>> => e = Append(cur, NL)
  BY <1>3, <1>4
<1>6. cur = <<>> => e = cur
  OBVIOUS
<1> HIDE DEF e, b2
<1>7. b2.done = bs.done /\ b2.current = e
  BY <1>2
<1>8. bs = [done |-> bs.done, seen |-> bs.seen, current |-> bs.current]
  BY DEF BlockStates
<1>9. cur = <<>> => b2 = bs
  BY <1>2, <1>6, <1>8
<1> QED BY <1>2, <1>5, <1>7, <1>9 DEF b2

\* A marker line, or three line ends, keep apart what is before them.
LEMMA HeldThree ==
  ASSUME NEW v \in Seq(Symbols), NEW c \in {NL, Marker}
  PROVE  /\ Held(Cut(Three(v, c)), Ink(v))
         /\ c = Marker => Cut(Three(v, c)).seen
<1> DEFINE a == Append(v, NL)
           b == Append(a, c)
           bs == Cut(a)
           x == Ink(v)
<1>1. NL \in Symbols /\ c \in Symbols /\ NL \in Hidden /\ NL # Marker
  BY SymbolFacts DEF Hidden, Blank, NL, Marker
<1>2. a \in Seq(Symbols) /\ b \in Seq(Symbols) /\ Three(v, c) = Append(b, NL)
  BY <1>1, Appended DEF Three
<1>3. Ink(a) = x /\ x \in Seq(Symbols)
  BY <1>1, InkAppend, InkIs
<1>4. Rest(a) = <<>>
  BY CutIs
<1> HIDE DEF a
<1>5. /\ bs \in BlockStates /\ bs.done \in Seq(Seq(Symbols)) /\ bs.current \in Seq(Symbols)
  BY <1>2, CutIs DEF BlockStates
<1>6. BlockInk(bs) = x
  <2>1. BlockInk(bs) \o Ink(Rest(a)) = x
    BY <1>2, <1>3, CutInk
  <2>2. Ink(<<>>) = <<>>
    BY InkIs
  <2>3. BlockInk(bs) \in Seq(Symbols)
    <3>1. FlattenSeq(bs.done) \in Seq(Symbols)
      BY <1>5, FlatIs
    <3>2. Ink(FlattenSeq(bs.done)) \in Seq(Symbols) /\ Ink(bs.current) \in Seq(Symbols)
      BY <1>5, <3>1, InkIs
    <3> QED BY <3>2, ConcatIs DEF BlockInk
  <2>4. BlockInk(bs) \o <<>> = BlockInk(bs)
    BY <2>3, ConcatEmptySeq
  <2> QED BY <1>4, <2>1, <2>2, <2>4
<1> HIDE DEF bs, b, x
<1>7. CASE c = Marker
  <2> DEFINE last == BlockAdd(bs, <<Marker>>)
  <2>1. Rest(b) = <<Marker>> /\ Cut(b) = bs
    <3>1. Cut(b) = Cut(a) /\ Rest(b) = Append(Rest(a), c)
      BY <1>1, <1>2, <1>7, CutIs DEF b
    <3>2. Append(<<>>, Marker) = <<Marker>>
      OBVIOUS
    <3> QED BY <1>4, <1>7, <3>1, <3>2 DEF bs
  <2>2. Cut(Three(v, c)) = last
    BY <1>2, <2>1, CutIs
  <2>3. <<Marker>> \in Seq(Symbols)
    BY <1>1, <1>7, <1>2, OneOf
  <2>4. last = [done |-> Ended(bs), current |-> <<>>, seen |-> TRUE]
    BY <1>5, <2>3, TrimmedOnes, BlockAddIs
  <2> HIDE DEF last
  <2>5. last.done = Ended(bs) /\ last.seen
    BY <2>4
  <2>6. Ended(bs) \in Seq(Seq(Symbols)) /\ Ink(FlattenSeq(Ended(bs))) = x
    BY <1>5, <1>6, EndedInk
  <2>7. x = Ink(Delivered(last.done))
    BY <2>5, <2>6, DeliveredIs
  <2>8. Held(last, x)
    BY <2>7 DEF Held, Apart
  <2> QED BY <2>2, <2>5, <2>8 DEF x
<1>8. CASE c = NL
  <2> DEFINE one == BlockAdd(bs, <<>>)
             two == BlockAdd(one, <<>>)
  <2>1. Cut(b) = one /\ Rest(b) = <<>>
    BY <1>2, <1>4, <1>8, CutIs DEF b, bs
  <2>2. Cut(Three(v, c)) = two
    BY <1>2, <2>1, CutIs
  <2>3. CASE bs.current = <<>>
    <3>1. one = bs
      BY <1>5, <2>3, EmptyLine
    <3>2. two = bs
      BY <3>1
    <3>3. x = Ink(Delivered(bs.done))
      <4>1. Ink(bs.current) = <<>>
        BY <2>3, InkIs
      <4>2. x = Ink(FlattenSeq(bs.done)) \o <<>>
        BY <1>6, <4>1 DEF BlockInk
      <4>3. FlattenSeq(bs.done) \in Seq(Symbols)
        BY <1>5, FlatIs
      <4>4. Ink(FlattenSeq(bs.done)) \in Seq(Symbols)
        BY <4>3, InkIs
      <4> QED BY <1>5, <4>2, <4>4, ConcatEmptySeq, DeliveredIs
    <3>4. Held(bs, x)
      BY <3>3 DEF Held, Apart
    <3> QED BY <1>1, <1>8, <2>2, <3>2, <3>4 DEF x
  <2>4. CASE bs.current # <<>>
    <3> DEFINE cur == bs.current
               K == Len(cur)
               c1 == Append(cur, NL)
               c2 == Append(c1, NL)
    <3>1. one \in BlockStates /\ one.done = bs.done /\ one.current = c1
      BY <1>5, <2>4, EmptyLine
    <3> HIDE DEF one
    <3>2. cur \in Seq(Symbols) /\ K \in Nat
      BY <1>5, SymbolsOf
    <3> HIDE DEF cur
    <3>3. /\ c1 \in Seq(Symbols) /\ c1 # <<>> /\ Len(c1) = K + 1 /\ c1[K + 1] = NL
          /\ \A i \in 1..K : c1[i] = cur[i]
      BY <1>1, <3>2, Appended
    <3>4. two.done = bs.done /\ two.current = c2
      BY <3>1, <3>3, EmptyLine
    <3> HIDE DEF c1, two
    <3>5. /\ c2 \in Seq(Symbols) /\ Len(c2) = K + 2 /\ c2[K + 2] = NL
          /\ \A i \in 1..(K + 1) : c2[i] = c1[i]
      <4>1. Len(c2) = Len(c1) + 1 /\ c2[Len(c1) + 1] = NL /\ c2 \in Seq(Symbols)
        BY <1>1, <3>3, Appended
      <4>2. \A i \in 1..Len(c1) : c2[i] = c1[i]
        BY <1>1, <3>3, Appended
      <4>3. Len(c1) + 1 = K + 2
        BY <3>2, <3>3
      <4> HIDE DEF c2
      <4> QED BY <3>2, <3>3, <4>1, <4>2, <4>3
    <3> HIDE DEF c2
    <3>6. GapFrom(c2, K)
      <4>1. K + 1 \in 1..(K + 1) /\ K + 2 <= Len(c2) /\ ~(K + 3 <= Len(c2))
        BY <3>2, <3>5
      <4>2. c2[K + 1] = NL
        BY <3>3, <3>5, <4>1
      <4> HIDE DEF K
      <4> QED BY <3>2, <3>5, <4>1, <4>2 DEF GapFrom
    <3>7. SubSeq(c2, 1, K) = cur
      <4> DEFINE p == SubSeq(c2, 1, K)
      <4>1. K <= Len(c2)
        BY <3>2, <3>5
      <4>2. p \in Seq(Symbols) /\ Len(p) = K /\ \A i \in 1..K : p[i] = c2[i]
        BY <3>2, <3>5, <4>1, PrefixIs
      <4> HIDE DEF p
      <4>3. \A i \in 1..Len(p) : p[i] = cur[i]
        <5>1. \A i \in 1..K : i \in 1..(K + 1)
          BY <3>2
        <5> QED BY <3>3, <3>5, <4>2, <5>1
      <4>4. p = cur
        BY <3>2, <4>2, <4>3, SameSeq
      <4> QED BY <4>4 DEF p
    <3>8. x = Ink(FlattenSeq(bs.done)) \o Ink(cur)
      BY <1>6 DEF BlockInk, cur
    <3>9. Held(two, x)
      <4>1. GapFrom(two.current, K)
            /\ x = Ink(FlattenSeq(two.done)) \o Ink(SubSeq(two.current, 1, K))
        BY <3>4, <3>6, <3>7, <3>8
      <4> QED BY <4>1 DEF Held
    <3> QED BY <1>1, <1>8, <2>2, <3>9 DEF x
  <2> QED BY <2>3, <2>4
<1> QED BY <1>7, <1>8

\* What a marker line or three line ends keep apart in a text is kept apart in
\* what is delivered of it.
LEMMA NormalizedSplit ==
  ASSUME NEW t \in Seq(Symbols), NEW i, NEW c \in {NL, Marker}, ThreeAt(t, i, c)
  PROVE  Apart(Normalized(t), Ink(SubSeq(t, 1, i - 1)))
<1> DEFINE n == Neat(t)
           x == Ink(SubSeq(t, 1, i - 1))
           bs == Blocks(n)
<1>1. n \in Seq(Symbols)
  BY NeatIs
<1>2. Normalized(t) = IF bs.seen THEN Joined(Ended(bs), BlockBoundary) ELSE Trimmed(n)
  BY DEF Normalized, Neat
<1>3. PICK v \in Seq(Symbols), w \in Seq(Symbols) : n = Three(v, c) \o w /\ Ink(v) = x
  BY NeatSplit
<1> DEFINE a == Three(v, c)
<1>4. a \in Seq(Symbols)
  BY ThreeIs
<1>5. Held(Cut(a), x) /\ (c = Marker => Cut(a).seen)
  BY <1>3, HeldThree
<1>6. Held(Cut(a \o w), x) /\ (Cut(a).seen => Cut(a \o w).seen)
  BY <1>4, <1>5, HeldBehind
<1>7. Cut(n) \in BlockStates /\ Rest(n) \in Seq(Symbols) /\ bs = BlockAdd(Cut(n), Rest(n))
  BY <1>1, CutIs
<1> HIDE DEF a, n, x, bs
<1>8. Held(Cut(n), x) /\ (c = Marker => Cut(n).seen)
  BY <1>3, <1>5, <1>6 DEF a
<1>9. Held(bs, x) /\ (c = Marker => bs.seen)
  BY <1>7, <1>8, HeldAdd
<1>10. bs \in BlockStates
  BY <1>1, BlocksInk DEF bs
<1>11. CASE bs.seen
  <2>1. Apart(Delivered(Ended(bs)), x)
    BY <1>9, <1>10, HeldEnded
  <2> QED BY <1>2, <1>11, <2>1 DEF Delivered, x
<1>12. CASE ~bs.seen
  <2>1. c = NL
    BY <1>9, <1>12
  <2> DEFINE K == Len(v)
             c1 == Append(v, NL)
             c2 == Append(c1, NL)
             c3 == Append(c2, NL)
  <2>2. NL \in Symbols /\ K \in Nat
    BY SymbolFacts, SymbolsOf
  <2>3. c1 \in Seq(Symbols) /\ Len(c1) = K + 1 /\ c1[K + 1] = NL /\ \A j \in 1..K : c1[j] = v[j]
    BY <2>2, Appended
  <2> HIDE DEF c1
  <2>4. /\ c2 \in Seq(Symbols) /\ Len(c2) = K + 2 /\ c2[K + 2] = NL
        /\ \A j \in 1..(K + 1) : c2[j] = c1[j]
    <3>1. Len(c2) = Len(c1) + 1 /\ c2[Len(c1) + 1] = NL /\ c2 \in Seq(Symbols)
      BY <2>2, <2>3, Appended
    <3>2. \A j \in 1..Len(c1) : c2[j] = c1[j]
      BY <2>2, <2>3, Appended
    <3> HIDE DEF c2, K
    <3>3. Len(c1) + 1 = K + 2
      BY <2>2, <2>3
    <3> QED BY <2>3, <3>1, <3>2, <3>3
  <2> HIDE DEF c2
  <2>5. /\ c3 \in Seq(Symbols) /\ Len(c3) = K + 3 /\ c3[K + 3] = NL
        /\ \A j \in 1..(K + 2) : c3[j] = c2[j]
    <3>1. Len(c3) = Len(c2) + 1 /\ c3[Len(c2) + 1] = NL /\ c3 \in Seq(Symbols)
      BY <2>2, <2>4, Appended
    <3>2. \A j \in 1..Len(c2) : c3[j] = c2[j]
      BY <2>2, <2>4, Appended
    <3> HIDE DEF c3, K
    <3>3. Len(c2) + 1 = K + 3
      BY <2>2, <2>4
    <3> QED BY <2>4, <3>1, <3>2, <3>3
  <2> HIDE DEF c3
  <2>6. a = c3 /\ n = c3 \o w
    BY <1>3, <2>1 DEF a, Three, c1, c2, c3
  <2>7. /\ Len(n) = K + 3 + Len(w) /\ Len(w) \in Nat
        /\ \A j \in 1..(K + 3) : n[j] = c3[j]
    <3>1. Len(n) = Len(c3) + Len(w) /\ Len(w) \in Nat
      BY <2>5, <2>6, ConcatIs
    <3>2. \A j \in 1..Len(c3) : n[j] = c3[j]
      BY <2>5, <2>6, ConcatIs
    <3> HIDE DEF K
    <3> QED BY <2>5, <3>1, <3>2
  <2> HIDE DEF K
  <2>8. GapFrom(n, K)
    <3>1. /\ K + 1 \in 1..(K + 1) /\ K + 1 \in 1..(K + 2) /\ K + 1 \in 1..(K + 3)
          /\ K + 2 \in 1..(K + 2) /\ K + 2 \in 1..(K + 3) /\ K + 3 \in 1..(K + 3)
          /\ K + 2 <= Len(n)
      BY <2>2, <2>7
    <3>2. n[K + 1] = NL /\ n[K + 2] = NL /\ n[K + 3] = NL
      BY <2>3, <2>4, <2>5, <2>7, <3>1
    <3> QED BY <2>2, <3>1, <3>2 DEF GapFrom
  <2>9. SubSeq(n, 1, K) = v
    <3> DEFINE p == SubSeq(n, 1, K)
    <3>1. K <= Len(n)
      BY <2>2, <2>7
    <3>2. p \in Seq(Symbols) /\ Len(p) = K /\ \A j \in 1..K : p[j] = n[j]
      BY <1>1, <2>2, <3>1, PrefixIs DEF n
    <3> HIDE DEF p
    <3>3. \A j \in 1..K : j \in 1..(K + 1) /\ j \in 1..(K + 2) /\ j \in 1..(K + 3)
      BY <2>2
    <3>4. \A j \in 1..Len(p) : p[j] = v[j]
      BY <2>3, <2>4, <2>5, <2>7, <3>2, <3>3
    <3>5. p = v
      BY <3>2, <3>4, SameSeq DEF K
    <3> QED BY <3>5 DEF p
  <2>10. Apart(Trimmed(n), Ink(SubSeq(n, 1, K)))
    BY <1>1, <2>8, TrimApart
  <2> QED BY <1>2, <1>3, <1>12, <2>9, <2>10 DEF x
<1> QED BY <1>11, <1>12

LEMMA NormalizedApart ==
  ASSUME NEW t \in Seq(Symbols), NEW x, Apart(t, x)
  PROVE  Apart(Normalized(t), x)
<1>1. CASE x = <<>>
  BY <1>1 DEF Apart
<1>2. CASE x = Ink(t)
  BY <1>2, NormalizedInk DEF Apart
<1>3. ASSUME NEW i, ThreeAt(t, i, NL), x = Ink(SubSeq(t, 1, i - 1))
      PROVE  Apart(Normalized(t), x)
  BY <1>3, NormalizedSplit
<1> QED BY <1>1, <1>2, <1>3 DEF Apart

\* Nothing that is looked for stands before the place where it is found.
LEMMA FindLeast ==
  ASSUME NEW t \in Seq(Symbols), NEW what, NEW i \in Nat, NEW k \in Places(t, what, i)
  PROVE  Find(t, what, i) <= k
<1> DEFINE T == Places(t, what, i) \cup {Len(t) + 1}
<1>1. Len(t) \in Nat
  BY SymbolsOf
<1>2. T \subseteq Nat
  BY <1>1 DEF Places
<1>3. T # {} /\ k \in T
  OBVIOUS
<1> HIDE DEF T
<1>4. Min(T) <= k
  BY <1>2, <1>3, MinIs
<1> QED BY <1>4 DEF Find, T

\* Three line ends in a text are looked for, and what is before them and what is
\* behind them are in different segments.
LEMMA SegmentsApart ==
  ASSUME NEW t \in Seq(Symbols), NEW x, Apart(Normalized(t), x)
  PROVE  \E k \in 0..Len(Segments(t)) : Ink(FlattenSeq(SubSeq(Segments(t), 1, k))) = x
<1> DEFINE n == Normalized(t)
           N == Len(n)
           S == Seq(Seq(Symbols))
<1>0. n \in Seq(Symbols) /\ Ink(n) = Ink(t)
  BY NormalizedInk
<1>1. Segments(t) \in S /\ Ink(FlattenSeq(Segments(t))) = Ink(t)
  BY SegmentsInk
<1>2. PICK f : SegRun(f, n) /\ Segments(t) = IF f[1] = <<>> THEN <<n>> ELSE f[1]
  BY SegmentsIs
<1>3. /\ x = <<>> \/ x = Ink(n) \/ \E i : ThreeAt(n, i, NL) /\ x = Ink(SubSeq(n, 1, i - 1))
  BY DEF Apart
<1> HIDE DEF n
<1>4. N \in Nat
  BY <1>0, SymbolsOf
<1>5. \A s \in S : /\ 0 \in 0..Len(s) /\ Ink(FlattenSeq(SubSeq(s, 1, 0))) = <<>>
                   /\ Len(s) \in Nat /\ Len(s) \in 0..Len(s) /\ SubSeq(s, 1, Len(s)) = s
  <2>1. \A s \in S : Len(s) \in Nat /\ SubSeq(s, 1, Len(s)) = s
    BY LenProperties, SubSeqFull
  <2>2. \A s : SubSeq(s, 1, 0) = <<>>
    BY SubSeqEmpty
  <2>3. Ink(FlattenSeq(<<>>)) = <<>>
    BY FlatIs, InkIs
  <2>4. \A s : Ink(FlattenSeq(SubSeq(s, 1, 0))) = <<>>
    BY <2>2, <2>3
  <2>5. \A s \in S : 0 \in 0..Len(s) /\ Len(s) \in 0..Len(s)
    BY <2>1
  <2> QED BY <2>1, <2>4, <2>5
<1>6. CASE x = <<>>
  BY <1>1, <1>5, <1>6
<1>7. CASE x = Ink(n)
  BY <1>0, <1>1, <1>5, <1>7
<1>8. ASSUME NEW i0, ThreeAt(n, i0, NL), x = Ink(SubSeq(n, 1, i0 - 1))
      PROVE  \E k \in 0..Len(Segments(t)) : Ink(FlattenSeq(SubSeq(Segments(t), 1, k))) = x
  <2>1. PICK m \in Nat : i0 = m + 1
    <3>1. i0 - 1 \in Nat /\ i0 = (i0 - 1) + 1
      BY <1>8 DEF ThreeAt
    <3> QED BY <3>1
  <2>2. /\ m + 3 <= N /\ n[m + 1] = NL /\ n[m + 2] = NL /\ n[m + 3] = NL /\ i0 - 1 = m
    BY <1>4, <1>8, <2>1 DEF ThreeAt
  <2>3. m <= N /\ 1 <= m + 1 /\ m + 1 \in Nat \ {0} /\ m <= Len(n)
    BY <1>4, <2>2
  <2>4. \A i \in Nat : i <= m + 1 => m + 1 \in Places(n, HardBoundary, i)
    <3> DEFINE nls == HardBoundary
               j == m + 1
               q == m + 3
    <3>1. Len(nls) = 3
      BY BoundaryInk DEF HardBoundary
    <3>2. SubSeq(n, j, q) = nls
      <4>1. j \in Nat \ {0} /\ q \in Nat /\ q <= Len(n) /\ q = j + 2 /\ j + 1 = m + 2
        BY <1>4, <2>2
      <4>2. n[j] = NL /\ n[j + 1] = NL /\ n[q] = NL
        BY <2>2, <4>1
      <4> HIDE DEF j, q
      <4>3. SubSeq(n, j, q) = <<NL, NL, NL>>
        BY <1>0, <4>1, <4>2, GapIs
      <4> QED BY <4>3 DEF HardBoundary
    <3> HIDE DEF nls
    <3>3. j + Len(nls) - 1 = q /\ j <= N - Len(nls) + 1 /\ j \in Nat /\ N - Len(nls) + 1 \in Int
      BY <1>4, <2>2, <3>1
    <3>4. ASSUME NEW i \in Nat, i <= j PROVE j \in Places(n, nls, i)
      <4>1. j \in i..(N - Len(nls) + 1)
        BY <3>3, <3>4
      <4> HIDE DEF j, q
      <4>2. SubSeq(n, j, j + Len(nls) - 1) = nls
        BY <3>2, <3>3
      <4> QED BY <4>1, <4>2 DEF Places
    <3> QED BY <3>4 DEF nls
  <2>5. SegMark(n) = HardBoundary
    <3>1. Has(n, HardBoundary)
      <4>1. m + 1 \in Places(n, HardBoundary, 1)
        BY <2>3, <2>4
      <4> QED BY <4>1 DEF Has
    <3> QED BY <3>1 DEF SegMark
  <2> DEFINE T == {i \in 1..(N + 4) :
                     \E k \in 0..Len(f[i]) :
                       Ink(FlattenSeq(SubSeq(f[i], 1, k))) = Ink(SubSeq(n, i, m))}
  <2>6. ASSUME NEW i \in 1..(N + 4), \A j \in (i + 1)..(N + 4) : j \in T
        PROVE  i \in T
    <3> DEFINE a == SegStart(n, i)
               b == SegEnd(n, i)
               c == SegNext(n, i)
               here == SegHere(n, i)
    <3>1. /\ f[i] \in S
          /\ f[i] = IF a > N THEN <<>> ELSE here \o (IF b > N THEN <<>> ELSE f[c])
      BY <1>2 DEF SegRun
    <3>2. a \in 1..(N + 1) /\ (i <= N + 1 => i <= a) /\ \A j \in i..(a - 1) : n[j] \in Hidden
      BY <1>0, SegStartIs
    <3>3. a <= N => /\ b \in a..(N + 1) /\ here \in S
                    /\ Ink(FlattenSeq(here)) = Ink(SubSeq(n, a, b - 1))
                    /\ b <= N => /\ c \in (i + 1)..(N + 1) /\ b < c
                                 /\ \A j \in b..(c - 1) : n[j] \in Hidden
      BY <1>0, SegIs
    <3>4. a <= m + 1 => b <= m + 1
      <4>1. b = Find(n, HardBoundary, a)
        BY <2>5 DEF SegEnd
      <4>2. a \in Nat
        BY <1>4, <3>2
      <4> HIDE DEF a, b
      <4>3. ASSUME a <= m + 1 PROVE Find(n, HardBoundary, a) <= m + 1
        <5>1. m + 1 \in Places(n, HardBoundary, a)
          BY <2>4, <4>2, <4>3
        <5> QED BY <1>0, <4>2, <5>1, FindLeast
      <4> QED BY <4>1, <4>3
    <3> HIDE DEF a, b, c, here
    <3>5. Ink(SubSeq(n, i, m)) = <<>> => i \in T
      BY <1>5, <3>1
    <3>6. CASE i > m
      <4>1. SubSeq(n, i, m) = <<>>
        <5>1. i \in Int /\ m \in Int /\ m < i
          BY <3>6
        <5> QED BY <5>1, SubSeqEmpty
      <4> QED BY <3>5, <4>1, InkIs
    <3>7. CASE i <= m /\ a > m
      <4>1. i \in Nat \ {0} /\ i <= m + 1
        BY <1>4, <3>7
      <4>2. \A j \in i..m : n[j] \in Hidden
        BY <1>4, <3>2, <3>7
      <4>3. Ink(SubSeq(n, i, m)) = <<>>
        BY <1>0, <2>3, <4>1, <4>2, HiddenPiece
      <4> QED BY <3>5, <4>3
    <3>8. CASE i <= m /\ a <= m
      <4>1. /\ i \in Nat \ {0} /\ a \in Nat \ {0} /\ i <= a /\ a <= N
            /\ b \in Nat \ {0} /\ a <= b /\ b <= m + 1 /\ b <= N
            /\ c \in (i + 1)..(N + 4) /\ c \in Nat \ {0} /\ b < c
        BY <1>4, <2>2, <2>3, <3>2, <3>3, <3>4, <3>8
      <4>2. f[i] = here \o f[c] /\ here \in S /\ f[c] \in S
        <5>1. f[c] \in S
          <6>1. c \in 1..(N + 4)
            BY <4>1
          <6> QED BY <1>2, <6>1 DEF SegRun
        <5>2. ~(a > N) /\ ~(b > N)
          BY <1>4, <4>1
        <5> QED BY <3>1, <3>3, <4>1, <5>1, <5>2
      <4>3. PICK k \in 0..Len(f[c]) :
              Ink(FlattenSeq(SubSeq(f[c], 1, k))) = Ink(SubSeq(n, c, m))
        <5>1. c \in T
          BY <2>6, <4>1
        <5> QED BY <5>1
      <4> DEFINE r == f[c]
                 p == SubSeq(r, 1, k)
      <4>4. /\ Len(r) \in Nat /\ Len(here) \in Nat /\ k \in Nat /\ k <= Len(r)
            /\ Len(here) + k \in 0..Len(f[i])
        <5>1. Len(here \o r) = Len(here) + Len(r) /\ Len(here) \in Nat /\ Len(r) \in Nat
          BY <4>2, ConcatIs DEF S
        <5> HIDE DEF r
        <5>2. k \in 0..Len(r)
          BY DEF r
        <5> QED BY <4>2, <5>1, <5>2 DEF r
      <4>5. SubSeq(f[i], 1, Len(here) + k) = here \o p
        <5>1. r \in Seq(Seq(Symbols)) /\ here \in Seq(Seq(Symbols))
          BY <4>2 DEF S
        <5> HIDE DEF r
        <5>2. k \in Nat /\ k <= Len(r)
          BY <4>4 DEF r
        <5>3. SubSeq(here \o r, 1, Len(here) + k) = here \o SubSeq(r, 1, k)
          BY <5>1, <5>2, PrefixOf
        <5> QED BY <4>2, <5>3 DEF r
      <4>6. p \in S
        BY <4>2, <4>4, PrefixIs DEF S
      <4> HIDE DEF p, r
      <4>7. Ink(FlattenSeq(here \o p)) = Ink(FlattenSeq(here)) \o Ink(FlattenSeq(p))
        <5>1. FlattenSeq(here \o p) = FlattenSeq(here) \o FlattenSeq(p)
          BY <4>2, <4>6, FlatConcat DEF S
        <5>2. FlattenSeq(here) \in Seq(Symbols) /\ FlattenSeq(p) \in Seq(Symbols)
          BY <4>2, <4>6, FlatIs DEF S
        <5> QED BY <5>1, <5>2, InkConcat
      <4>8. Ink(FlattenSeq(p)) = Ink(SubSeq(n, c, m)) /\ Ink(FlattenSeq(here)) = Ink(SubSeq(n, a, b - 1))
        BY <3>3, <4>1, <4>3 DEF p, r
      <4>9. Ink(SubSeq(n, i, m)) = Ink(SubSeq(n, a, m))
        <5> DEFINE h == a - 1
        <5>1. h \in Nat /\ i <= h + 1 /\ h <= m /\ h + 1 = a
          BY <3>8, <4>1
        <5>2. \A j \in i..h : n[j] \in Hidden
          BY <3>2
        <5> HIDE DEF h
        <5>3. Ink(SubSeq(n, i, m)) = Ink(SubSeq(n, h + 1, m))
          BY <1>0, <2>3, <4>1, <5>1, <5>2, InkBehind
        <5> QED BY <5>1, <5>3
      <4>10. Ink(SubSeq(n, a, m)) = Ink(SubSeq(n, a, b - 1)) \o Ink(SubSeq(n, b, m))
        <5> DEFINE h == b - 1
        <5>1. h \in Nat /\ a <= h + 1 /\ h <= m /\ h + 1 = b
          BY <4>1
        <5> HIDE DEF h
        <5>2. a \in Nat \ {0} /\ m \in Nat /\ m <= Len(n)
          BY <2>3, <4>1
        <5> HIDE DEF N
        <5>3. Ink(SubSeq(n, a, m)) = Ink(SubSeq(n, a, h)) \o Ink(SubSeq(n, h + 1, m))
          BY <1>0, <5>1, <5>2, InkSplit
        <5> QED BY <5>1, <5>3 DEF h
      <4>11. \A j \in b..(c - 1) : n[j] \in Hidden
        BY <3>3, <4>1
      <4>12. Ink(SubSeq(n, b, m)) = Ink(SubSeq(n, c, m))
        <5> DEFINE h == c - 1
        <5>1. h \in Nat /\ b <= h + 1 /\ h + 1 = c
          BY <4>1
        <5> HIDE DEF h
        <5>2. CASE h <= m
          <6>1. \A j \in b..h : n[j] \in Hidden
            BY <4>11 DEF h
          <6>2. Ink(SubSeq(n, b, m)) = Ink(SubSeq(n, h + 1, m))
            BY <1>0, <2>3, <4>1, <5>1, <5>2, <6>1, InkBehind
          <6> QED BY <5>1, <6>2
        <5>3. CASE m < h
          <6>1. \A j \in b..m : j \in b..(c - 1)
            BY <4>1, <5>1, <5>3
          <6>2. \A j \in b..m : n[j] \in Hidden
            BY <4>11, <6>1
          <6>3. Ink(SubSeq(n, b, m)) = <<>>
            BY <1>0, <2>3, <4>1, <6>2, HiddenPiece
          <6>4. c \in Int /\ m \in Int /\ m < c
            BY <4>1, <5>1, <5>3
          <6>5. SubSeq(n, c, m) = <<>>
            BY <6>4, SubSeqEmpty
          <6> QED BY <6>3, <6>5, InkIs
        <5> QED BY <5>1, <5>2, <5>3
      <4>13. Ink(FlattenSeq(SubSeq(f[i], 1, Len(here) + k))) = Ink(SubSeq(n, i, m))
        BY <4>5, <4>7, <4>8, <4>9, <4>10, <4>12
      <4> QED BY <4>4, <4>13
    <3> QED BY <1>4, <3>2, <3>6, <3>7, <3>8
  <2> HIDE DEF T
  <2>7. 1..(N + 4) \subseteq T
    <3>1. 1 \in Nat /\ N + 4 \in Nat
      BY <1>4
    <3> HIDE DEF N
    <3> QED BY <2>6, <3>1, BackInduction, ZenonT(40)
  <2>8. PICK k \in 0..Len(f[1]) : Ink(FlattenSeq(SubSeq(f[1], 1, k))) = Ink(SubSeq(n, 1, m))
    <3>1. 1 \in T
      BY <1>4, <2>7
    <3> QED BY <3>1 DEF T
  <2>9. Ink(FlattenSeq(SubSeq(f[1], 1, k))) = x
    BY <1>8, <2>2, <2>8
  <2>10. CASE f[1] = <<>>
    <3>1. Len(f[1]) = 0
      BY <2>10
    <3>2. k = 0
      BY <2>8, <3>1
    <3>3. f[1] \in S
      <4>1. 1 \in 1..(N + 4)
        BY <1>4
      <4> QED BY <1>2, <4>1 DEF SegRun
    <3>4. x = <<>>
      BY <1>5, <2>9, <3>2, <3>3
    <3> QED BY <1>1, <1>5, <3>4
  <2>11. CASE f[1] # <<>>
    BY <1>2, <2>8, <2>9, <2>11
  <2> QED BY <2>10, <2>11
<1> QED BY <1>3, <1>6, <1>7, <1>8

-----------------------------------------------------------------------------
(* The way of a text.                                                      *)

\* What a text went through is made of symbols.
DocumentInv ==
  /\ generated \in Seq(Symbols) /\ buffer \in Seq(Symbols) /\ request \in Seq(Symbols)
  /\ planned \in Nat

\* A translation works on the segments of the text it was called with, and there
\* are none before it is called.
AskedInv ==
  IF stage \in {"asked", "called"}
  THEN call.text \in Seq(Symbols) /\ segments = Segments(call.text)
  ELSE segments = <<>>

\* Once there is something in the buffer it is the document of what OCR delivers,
\* and what follows is about it.
BufferInv ==
  buffer # <<>> =>
    /\ stage \in {"read", "submitted", "called", "refused"}
    /\ buffer = Document(OcrText(generated)) /\ Len(buffer) < planned
    /\ stage # "read" => request = buffer
    /\ stage = "called" => call.text = UpToNul(OcrText(generated))
    /\ stage = "refused" => \/ UpToNul(OcrText(generated)) = <<>>
                            \/ UpToNul(Language("target_language")) = <<>>

\* No value of the request can be taken for a name.
Honest == \A n \in DOMAIN members : ~Mistakable(members[n])

\* A request, as far as it is written, carries the members the host has put into
\* it, and the parameters say what they were written from.
HostInv ==
  /\ default \in Seq(Symbols)
  /\ DOMAIN members \subseteq Names
  /\ \A n \in DOMAIN members : members[n] \in Seq(Symbols)
  /\ stage = "read" => buffer = Document(OcrText(generated))
  /\ stage = "compose" /\ members = Nothing => request = <<Opening>>
  /\ Honest => Carries(request, members)
  /\ parameters.document \in Seq(Symbols)
  /\ Tells(parameters.document, parameters.says)

IInv == DocumentInv /\ AskedInv /\ BufferInv /\ HostInv /\ MembersArrive

\* The plan is a number of bytes.
LEMMA PlanIs ==
  ASSUME NEW n \in Nat
  PROVE  Plan(n) \in Nat
<1> DEFINE bytes == IF n > MaxUint32 THEN Fallback ELSE n
           T == {bytes, Largest}
           least == Min(T)
           U == {Smallest, least}
<1>1. bytes \in Nat /\ Largest \in Nat /\ Smallest \in Nat
  BY PlanAssumption
<1> HIDE DEF bytes
<1>2. T \subseteq Nat /\ T # {}
  BY <1>1
<1> HIDE DEF T
<1>3. least \in Nat
  BY <1>2, MinIs
<1> HIDE DEF least
<1>4. \E x \in U : \A y \in U : x >= y
  BY <1>1, <1>3
<1>5. Max(U) \in U
  BY <1>4, Zenon DEF Max
<1>6. Plan(n) = Max(U)
  BY DEF Plan, U, least, T, bytes
<1> QED BY <1>1, <1>3, <1>5, <1>6

\* There is nothing in the documents yet.
LEMMA NothingYet ==
  /\ <<Opening>> \in Seq(Symbols) /\ Carries(<<Opening>>, Nothing)
  /\ <<>> \in Seq(Symbols) /\ Tells(<<>>, Nothing)
<1>1. <<>> \in Seq(Symbols) /\ Len(<<>>) = 0 /\ DOMAIN Nothing = {}
  BY EmptySeq DEF Nothing
<1>2. <<Opening>> \in Seq(Symbols) /\ Len(<<Opening>>) = 1
  <2>1. Opening \in Symbols
    BY Zenon DEF Opening, Symbols
  <2> QED BY <2>1, TupleIs
<1>3. Carries(<<Opening>>, Nothing)
  <2> DEFINE d == <<Opening>>
  <2>1. Len(d) = 1
    BY <1>2
  <2> HIDE DEF d
  <2>2. \A n \in Names : Nowhere(d, n)
    BY <2>1 DEF Nowhere
  <2>3. Carries(d, Nothing)
    BY <1>1, <2>2 DEF Carries
  <2> QED BY <2>3 DEF d
<1>4. Tells(<<>>, Nothing)
  <2> DEFINE d == <<>>
  <2>1. Len(d) = 0 /\ d \in Seq(Symbols)
    BY <1>1
  <2> HIDE DEF d
  <2>2. \A n \in LanguageNames : Nowhere(d, n)
    BY <2>1 DEF Nowhere
  <2>3. ASSUME NEW n \in LanguageNames, NEW old
        PROVE  JsonString(d, n, old).value = old
    <3>1. JsonString(d, n, old) = [ok |-> FALSE, value |-> old]
      BY <2>1, <2>2, NotFound
    <3> QED BY <3>1
  <2>4. Tells(d, Nothing)
    BY <1>1, <2>3 DEF Tells
  <2> QED BY <2>4 DEF d
<1> QED BY <1>1, <1>2, <1>3, <1>4

LEMMA InitHolds == Init => IInv
<1> SUFFICES ASSUME Init PROVE IInv
  OBVIOUS
<1>1. <<>> \in Seq(Symbols) /\ <<"{">> \in Seq(Symbols)
  BY ConstantSymbols
<1>2. /\ generated = <<>> /\ buffer = <<>> /\ request = <<"{">> /\ planned = 0
      /\ stage \notin {"asked", "called"} /\ segments = <<>>
  BY DEF Init
<1>3. DocumentInv /\ AskedInv /\ BufferInv
  BY <1>1, <1>2 DEF DocumentInv, AskedInv, BufferInv
<1>4. HostInv
  <2>1. default \in Seq(Symbols)
    BY <1>1, ConstantSymbols DEF Init
  <2>2. /\ members = Nothing /\ parameters.document = <<>> /\ parameters.says = Nothing
        /\ stage # "read"
    BY DEF Init
  <2>3. request = <<Opening>>
    BY <1>2, Zenon DEF Opening
  <2>4. DOMAIN Nothing = {}
    BY DEF Nothing
  <2> QED BY <2>1, <2>2, <2>3, <2>4, NothingYet DEF HostInv
<1>5. MembersArrive
  BY DEF Init, MembersArrive
<1> QED BY <1>3, <1>4, <1>5 DEF IInv

\* One more member of a request.
LEMMA ComposeTyped ==
  ASSUME DocumentInv, NEW name \in Names, NEW value \in Values, Compose(name, value)
  PROVE  request' \in Seq(Symbols)
<1>1. PICK spelled \in Written(value), gap \in {<<>>, <<Space>>} :
        request' = request \o (IF members = Nothing THEN <<>> ELSE <<",">>)
                   \o Member(name, spelled, gap)
  BY DEF Compose
<1>2. spelled \in Seq(Symbols)
  <2>1. value \in Seq(Symbols)
    BY ConstantSymbols
  <2> QED BY <2>1, WrittenIs
<1>3. gap \in Seq(Symbols)
  <2>1. <<>> \in Seq(Symbols) /\ <<Space>> \in Seq(Symbols)
    BY ConstantSymbols
  <2> QED BY <2>1
<1> DEFINE comma == IF members = Nothing THEN <<>> ELSE <<",">>
           more == Member(name, spelled, gap)
<1>4. comma \in Seq(Symbols)
  <2>1. <<>> \in Seq(Symbols) /\ <<",">> \in Seq(Symbols)
    BY ConstantSymbols
  <2> QED BY <2>1
<1>5. more \in Seq(Symbols)
  BY <1>2, <1>3, DocumentIs
<1>6. request' = (request \o comma) \o more
  BY <1>1
<1> HIDE DEF comma, more
<1>7. request \o comma \in Seq(Symbols)
  BY <1>4, ConcatProperties DEF DocumentInv
<1>8. (request \o comma) \o more \in Seq(Symbols)
  BY <1>5, <1>7, ConcatProperties
<1> QED BY <1>6, <1>8

\* A language is looked for in the documents alone.
LanguageLooked == \A l : Language(l) = Looked(l, Default(l), Documents(l))

LEMMA LanguageIs == LanguageLooked
BY Zenon DEF Language, Looked, LanguageLooked

LEMMA LanguageKept ==
  ASSUME UNCHANGED <<request, parameters, default>>, NEW l
  PROVE  Language(l)' = Language(l)
<1>1. Language(l) = Looked(l, Default(l), Documents(l))
  BY LanguageIs DEF LanguageLooked
<1>2. Language(l)' = Looked(l, Default(l)', Documents(l)')
  <2>1. LanguageLooked'
    BY LanguageIs, PTL
  <2> QED BY <2>1 DEF LanguageLooked
<1>3. Default(l)' = Default(l) /\ Documents(l)' = Documents(l)
  BY DEF Default, Documents
<1> QED BY <1>1, <1>2, <1>3

\* A language is what the parameters say, or the request, or the model.
LEMMA LanguageArrives ==
  ASSUME DocumentInv, HostInv, Honest, NEW l \in LanguageNames
  PROVE  Language(l) = Says(l)
<1> DEFINE known == Default(l)
           e == parameters.document
           found == JsonString(request, l, known).value
<1>1. known \in Seq(Symbols)
  <2>1. <<Char>> \in Seq(Symbols)
    <3>1. Char \in Layout
      BY DEF Layout
    <3>2. Char \in Symbols
      BY <3>1, SymbolFacts, Zenon
    <3> QED BY <3>2, TupleIs
  <2>2. <<"a">> \in Seq(Symbols)
    BY <2>1 DEF Char
  <2>3. default \in Seq(Symbols)
    BY DEF HostInv
  <2> QED BY <2>2, <2>3 DEF Default
<1>2. request \in Seq(Symbols) /\ e \in Seq(Symbols) /\ Carries(request, members)
      /\ Tells(e, parameters.says)
  BY DEF DocumentInv, HostInv
<1>3. Language(l) = Looked(l, known, <<request, e>>)
  BY LanguageIs DEF LanguageLooked, Documents
<1> HIDE DEF known, e
<1>4. Language(l) = JsonString(e, l, found).value
  BY <1>1, <1>2, <1>3, LookedIs
<1>5. found = IF l \in DOMAIN members THEN members[l] ELSE known
  <2>1. l \in Names
    BY DEF Names
  <2>2. l \in DOMAIN members => members[l] \in Seq(Symbols)
    BY DEF HostInv
  <2>3. JsonString(request, l, known) = IF l \in DOMAIN members THEN Read(members[l])
                                        ELSE [ok |-> FALSE, value |-> known]
    BY <1>2, <2>1, <2>2, CarriesReads
  <2>4. Read(members[l]).value = members[l]
    BY DEF Read
  <2> QED BY <2>3, <2>4
<1> HIDE DEF found
<1>6. JsonString(e, l, found).value = IF l \in DOMAIN parameters.says
                                      THEN parameters.says[l] ELSE found
  BY <1>2 DEF Tells
<1> QED BY <1>4, <1>5, <1>6 DEF Says, known

\* Nothing happens to the documents of the host.
LEMMA HostKept ==
  ASSUME HostInv, UNCHANGED <<members, request, parameters, default>>,
         stage' = "compose" => stage = "compose",
         stage' = "read" => buffer' = Document(OcrText(generated))'
  PROVE  HostInv'
<1>1. /\ members' = members /\ request' = request /\ parameters' = parameters
      /\ default' = default
  OBVIOUS
<1>2. Honest' <=> Honest
  BY <1>1 DEF Honest, Mistakable
<1>3. Carries(request, members)' <=> Carries(request, members)
  BY <1>1
<1>4. Tells(parameters.document, parameters.says)' <=> Tells(parameters.document, parameters.says)
  BY <1>1
<1> QED BY <1>1, <1>2, <1>3, <1>4 DEF HostInv

\* A value of a request that is no name.
LEMMA HonestIs ==
  ASSUME NEW ms, \A n \in DOMAIN ms : ~Mistakable(ms[n]), NEW n \in DOMAIN ms
  PROVE  \A m \in Names : ~MistakenFor(ms[n], m)
<1>1. Mistakable(ms[n]) <=> \E m \in Names : MistakenFor(ms[n], m)
  BY MistakableIs
<1> QED BY <1>1

\* What a job is submitted with.
LEMMA SubmitTells ==
  ASSUME NEW document, Submit(document)
  PROVE  /\ parameters'.document \in Seq(Symbols)
         /\ Tells(parameters'.document, parameters'.says)
<1>1. CASE parameters' = [document |-> <<>>, says |-> Nothing]
  <2>1. parameters'.document = <<>> /\ parameters'.says = Nothing
    BY <1>1
  <2> QED BY <2>1, NothingYet
<1>2. ASSUME NEW l \in LanguageNames, NEW value \in Values, NEW spelled \in Written(value),
             parameters' = [document |-> OneMember(l, spelled), says |-> [n \in {l} |-> value]]
      PROVE  /\ parameters'.document \in Seq(Symbols)
             /\ Tells(parameters'.document, parameters'.says)
  <2> DEFINE d == OneMember(l, spelled)
             says == [n \in {l} |-> value]
  <2>1. value \in Seq(Symbols)
    BY ConstantSymbols
  <2>2. PICK h : Speller(h) /\ spelled = Spelt(h, value)
    BY <2>1, WrittenIs
  <2>3. d \in Seq(Symbols) /\ Tells(d, says)
    <3>1. d = OneMember(l, Spelt(h, value))
      BY <2>2
    <3> HIDE DEF d
    <3> QED BY <2>1, <2>2, <3>1, TellsMember
  <2> HIDE DEF d, says
  <2>4. parameters'.document = d /\ parameters'.says = says
    BY <1>2 DEF d, says
  <2> QED BY <2>3, <2>4
<1> QED BY <1>1, <1>2, Zenon DEF Submit, OneMember

LEMMA TypedNext == DocumentInv /\ [Next]_vars => DocumentInv'
<1> SUFFICES ASSUME DocumentInv, [Next]_vars PROVE DocumentInv'
  OBVIOUS
<1>0. planned \in Nat /\ generated \in Seq(Symbols) /\ buffer \in Seq(Symbols) /\ request \in Seq(Symbols)
  BY DEF DocumentInv
<1>1. ASSUME NEW p \in Pieces \cup Letters, Generate(p)
      PROVE  DocumentInv'
  <2>1. p \in Seq(Symbols)
    BY ConstantSymbols
  <2>2. generated' = generated \o p /\ buffer' = buffer /\ request' = request
        /\ planned' = planned
    BY <1>1 DEF Generate, hostVars
  <2>3. generated \o p \in Seq(Symbols)
    BY <1>0, <2>1, ConcatProperties
  <2> QED BY <1>0, <2>2, <2>3 DEF DocumentInv
<1>2. ASSUME NEW text, AskDirectly(text)
      PROVE  DocumentInv'
  BY <1>0, <1>2 DEF AskDirectly, ocrVars, hostVars, DocumentInv
<1>3. ASSUME NEW n \in Asked, PlanOutputs(n)
      PROVE  DocumentInv'
  <2>1. Plan(n) \in Nat
    BY PlanAssumption, PlanIs
  <2> QED BY <1>0, <1>3, <2>1 DEF PlanOutputs, hostVars, DocumentInv
<1>4. CASE WriteJobOutput
  <2>1. Document(OcrText(generated)) \in Seq(Symbols)
    BY <1>0, OcrTextIs, DocumentIs
  <2>2. /\ buffer' = Document(OcrText(generated)) \/ buffer' = buffer
        /\ generated' = generated /\ request' = request /\ planned' = planned
    BY <1>4 DEF WriteJobOutput, hostVars
  <2> QED BY <1>0, <2>1, <2>2 DEF DocumentInv
<1>5. ASSUME NEW name \in Names, NEW value \in Values, Compose(name, value)
      PROVE  DocumentInv'
  <2>1. generated' = generated /\ buffer' = buffer /\ planned' = planned
    BY <1>5 DEF Compose, ocrVars
  <2> QED BY <1>0, <1>5, <2>1, ComposeTyped DEF DocumentInv
<1>6. CASE SubmitRequest
  <2>1. request' = Append(request, "}") /\ generated' = generated /\ buffer' = buffer /\ planned' = planned
    BY <1>6 DEF SubmitRequest, Submit, ocrVars
  <2>2. Append(request, "}") \in Seq(Symbols)
    BY <1>0, ConstantSymbols, AppendProperties
  <2> QED BY <1>0, <2>1, <2>2 DEF DocumentInv
<1>7. CASE SubmitBuffer
  BY <1>0, <1>7 DEF SubmitBuffer, Submit, ocrVars, DocumentInv
<1>8. CASE Run
  BY <1>0, <1>8 DEF Run, ocrVars, hostVars, DocumentInv
<1>9. CASE UNCHANGED vars
  BY <1>0, <1>9 DEF vars, ocrVars, hostVars, DocumentInv
<1> QED BY <1>1, <1>2, <1>3, <1>4, <1>5, <1>6, <1>7, <1>8, <1>9 DEF Next, Ocr, Translation

LEMMA AskedNext == IInv /\ [Next]_vars => AskedInv'
<1> SUFFICES ASSUME IInv, [Next]_vars PROVE AskedInv'
  OBVIOUS
<1> DEFINE Called == {"asked", "called"}
<1>0. generated \in Seq(Symbols) /\ request \in Seq(Symbols)
  BY DEF IInv, DocumentInv
<1>1. ASSUME stage' \in Called <=> stage \in Called, UNCHANGED <<call, segments>>
      PROVE  AskedInv'
  BY <1>1 DEF IInv, AskedInv
<1>2. ASSUME stage' \in Called, call'.text \in Seq(Symbols), segments' = Segments(call'.text)
      PROVE  AskedInv'
  BY <1>2 DEF AskedInv
<1>3. ASSUME NEW p, Generate(p) PROVE AskedInv'
  BY <1>1, <1>3 DEF Generate, callVars
<1>4. ASSUME NEW text \in {generated, OcrText(generated)}, AskDirectly(text) PROVE AskedInv'
  <2>1. text \in Seq(Symbols)
    BY <1>0, OcrTextIs
  <2>2. stage' = "asked" /\ call'.text = text /\ segments' = Segments(text)
    BY <1>4 DEF AskDirectly, NoCall
  <2> QED BY <1>2, <2>1, <2>2
<1>5. ASSUME NEW n, PlanOutputs(n) PROVE AskedInv'
  BY <1>1, <1>5 DEF PlanOutputs, callVars
<1>6. CASE WriteJobOutput
  <2>1. /\ stage = "ocr" /\ stage' \in {"read", "failed"}
        /\ UNCHANGED <<call, segments>>
    BY <1>6 DEF WriteJobOutput, callVars
  <2> QED BY <1>1, <2>1
<1>7. ASSUME NEW name, NEW value, Compose(name, value) PROVE AskedInv'
  BY <1>1, <1>7 DEF Compose, callVars
<1>8. CASE SubmitRequest \/ SubmitBuffer
  <2>1. /\ stage \in {"compose", "read"} /\ stage' = "submitted"
        /\ UNCHANGED <<call, segments>>
    BY <1>8 DEF SubmitRequest, SubmitBuffer, Submit, callVars
  <2> QED BY <1>1, <2>1
<1>9. CASE Run
  <2> DEFINE text == JsonString(request, "text", <<>>)
  <2>1. UpToNul(text.value) \in Seq(Symbols)
    <3>1. <<>> \in Seq(Symbols)
      BY EmptySeq
    <3>2. text.value \in Seq(Symbols)
      BY <1>0, <3>1, JsonStringIs
    <3> QED BY <3>2, UpToNulIs
  <2> HIDE DEF text
  <2>2. \/ stage = "submitted" /\ stage' = "refused" /\ UNCHANGED <<call, segments>>
        \/ /\ stage' = "called" /\ call'.text = UpToNul(text.value)
           /\ segments' = Segments(UpToNul(text.value))
    BY <1>9 DEF Run, text, callVars
  <2> QED BY <1>1, <1>2, <2>1, <2>2
<1>10. CASE UNCHANGED vars
  BY <1>1, <1>10 DEF vars, callVars
<1>11. \/ \E p : Generate(p)
       \/ \E text \in {generated, OcrText(generated)} : AskDirectly(text)
       \/ \E n : PlanOutputs(n)
       \/ WriteJobOutput
       \/ \E name, value : Compose(name, value)
       \/ SubmitRequest \/ SubmitBuffer \/ Run \/ UNCHANGED vars
  BY Zenon DEF Next, Ocr, Translation
<1> QED BY <1>3, <1>4, <1>5, <1>6, <1>7, <1>8, <1>9, <1>10, <1>11

LEMMA BufferNext == IInv /\ [Next]_vars => BufferInv'
<1> SUFFICES ASSUME IInv, [Next]_vars PROVE BufferInv'
  OBVIOUS
<1> DEFINE read == OcrText(generated)
           Refusal == UpToNul(read) = <<>> \/ UpToNul(Language("target_language")) = <<>>
<1>0. generated \in Seq(Symbols) /\ BufferInv /\ planned \in Nat
  BY DEF IInv, DocumentInv
<1>1. read \in Seq(Symbols)
  BY <1>0, OcrTextIs
<1>2. stage \in {"direct", "ocr", "compose"} => buffer = <<>>
  BY <1>0 DEF BufferInv
<1>3. ASSUME buffer' = <<>> PROVE BufferInv'
  BY <1>3 DEF BufferInv
<1>4. \A p : Generate(p) => BufferInv'
  BY <1>2, <1>3 DEF Generate
<1>5. \A text : AskDirectly(text) => BufferInv'
  BY <1>2, <1>3 DEF AskDirectly, ocrVars
<1>6. \A n : PlanOutputs(n) => BufferInv'
  BY <1>2, <1>3 DEF PlanOutputs
<1>7. CASE WriteJobOutput
  <2>1. generated' = generated /\ planned' = planned /\ buffer = <<>>
    BY <1>2, <1>7 DEF WriteJobOutput
  <2>2. CASE buffer' = buffer
    BY <1>3, <2>1, <2>2
  <2>3. CASE buffer' = Document(read) /\ stage' = "read" /\ FitsBuffer(Document(read))
    <3>1. Len(Document(read)) < planned
      <4>1. Len(Document(read)) \in Nat /\ Len(Document(read)) + 1 <= planned
        BY <1>1, <2>3, DocumentIs, SymbolsOf DEF FitsBuffer
      <4> QED BY <1>0, <4>1
    <3> QED BY <2>1, <2>3, <3>1 DEF BufferInv
  <2> QED BY <1>7, <2>2, <2>3 DEF WriteJobOutput
<1>8. \A name, value : Compose(name, value) => BufferInv'
  BY <1>2, <1>3 DEF Compose, ocrVars
<1>9. CASE SubmitRequest
  BY <1>2, <1>3, <1>9 DEF SubmitRequest, Submit, ocrVars
<1>10. CASE SubmitBuffer
  <2>1. /\ stage' = "submitted" /\ request' = buffer
        /\ generated' = generated /\ planned' = planned /\ buffer' = buffer
    BY <1>10 DEF SubmitBuffer, Submit, ocrVars
  <2> QED BY <1>0, <2>1 DEF BufferInv
<1>11. CASE Run
  <2>1. /\ stage = "submitted" /\ stage' \in {"called", "refused"}
        /\ generated' = generated /\ planned' = planned /\ buffer' = buffer
        /\ request' = request /\ parameters' = parameters /\ default' = default
    BY <1>11 DEF Run, ocrVars, hostVars
  <2> SUFFICES ASSUME buffer # <<>> PROVE BufferInv'
    BY <1>3, <2>1
  <2>2. buffer = Document(read) /\ Len(buffer) < planned /\ request = buffer
    BY <1>0, <2>1 DEF BufferInv
  <2>3. JsonString(request, "text", <<>>) = Read(read)
    BY <1>1, <2>2, DocumentReads
  <2>4. Read(read).ok = TRUE /\ Read(read).value = read
    BY DEF Read
  <2>5. /\ stage' = "called" => call'.text = UpToNul(read)
        /\ stage' = "refused" => Refusal
    <3> DEFINE text == JsonString(request, "text", <<>>)
    <3>1. text.ok = TRUE /\ text.value = read
      BY <2>3, <2>4
    <3> HIDE DEF text
    <3>2. IF ~text.ok \/ UpToNul(text.value) = <<>> \/ UpToNul(Language("target_language")) = <<>>
          THEN stage' = "refused" ELSE stage' = "called" /\ call'.text = UpToNul(text.value)
      BY <1>11 DEF Run, text
    <3> HIDE DEF read
    <3> QED BY <3>1, <3>2 DEF read
  <2>6. Language("target_language")' = Language("target_language")
    BY <2>1, LanguageKept
  <2> QED BY <2>1, <2>2, <2>5, <2>6 DEF BufferInv
<1>12. CASE UNCHANGED vars
  <2>1. /\ stage' = stage /\ generated' = generated /\ planned' = planned /\ buffer' = buffer
        /\ request' = request /\ parameters' = parameters /\ default' = default
        /\ call' = call
    BY <1>12 DEF vars, ocrVars, hostVars, callVars
  <2>2. Language("target_language")' = Language("target_language")
    BY <2>1, LanguageKept
  <2> QED BY <1>0, <2>1, <2>2 DEF BufferInv
<1>13. \/ \E p : Generate(p)
       \/ \E text : AskDirectly(text)
       \/ \E n : PlanOutputs(n)
       \/ WriteJobOutput
       \/ \E name, value : Compose(name, value)
       \/ SubmitRequest \/ SubmitBuffer \/ Run \/ UNCHANGED vars
  BY Zenon DEF Next, Ocr, Translation
<1> QED BY <1>4, <1>5, <1>6, <1>7, <1>8, <1>9, <1>10, <1>11, <1>12, <1>13

\* One more member of the request, behind a comma unless it is the first.
LEMMA ComposeCarries ==
  ASSUME DocumentInv, HostInv, NEW name \in Names, NEW value \in Values,
         Compose(name, value)
  PROVE  HostInv'
<1> DEFINE comma == IF members = Nothing THEN <<>> ELSE <<",">>
           d == request \o comma
<1>1. PICK spelled \in Written(value), gap \in {<<>>, <<Space>>} :
        request' = d \o Member(name, spelled, gap)
  <2>1. PICK spelled \in Written(value), gap \in {<<>>, <<Space>>} :
          request' = request \o comma \o Member(name, spelled, gap)
    BY Zenon DEF Compose
  <2> QED BY <2>1
<1>2. /\ stage = "compose" /\ stage' = stage /\ name \notin DOMAIN members
      /\ members' = Added(members, name, value)
      /\ parameters' = parameters /\ default' = default
  BY DEF Compose, Added
<1>3. value \in Seq(Symbols) /\ request \in Seq(Symbols)
  BY ConstantSymbols DEF DocumentInv
<1>4. PICK h : Speller(h) /\ spelled = Spelt(h, value)
  BY <1>3, WrittenIs
<1>5. DOMAIN members' = DOMAIN members \cup {name} /\ members'[name] = value
      /\ \A n \in DOMAIN members : members'[n] = members[n]
  BY <1>2 DEF Added
<1>6. ASSUME Honest'
      PROVE  Carries(request, members) /\ \A m \in Names : ~MistakenFor(value, m)
  <2>1. \A n \in DOMAIN members' : ~Mistakable(members'[n])
    BY <1>6 DEF Honest, Mistakable
  <2>2. Honest
    BY <1>5, <2>1 DEF Honest
  <2>3. \A m \in Names : ~MistakenFor(members'[name], m)
    BY <1>5, <2>1, HonestIs
  <2> QED BY <1>5, <2>2, <2>3 DEF HostInv
<1>7. ASSUME Carries(request, members)
      PROVE  /\ d \in Seq(Symbols) /\ Carries(d, members) /\ Len(d) # 0
             /\ d[Len(d)] \notin Names \cup {Quote}
  <2>1. CASE members = Nothing
    <3>1. d = <<Opening>>
      <4>1. request = <<Opening>> /\ comma = <<>>
        BY <1>2, <2>1 DEF HostInv
      <4> HIDE DEF comma
      <4>2. request \o <<>> = request
        BY <1>3, ConcatEmptySeq
      <4> QED BY <4>1, <4>2
    <3> HIDE DEF d
    <3>2. Len(d) = 1 /\ d[1] = Opening
      BY <3>1
    <3>3. Opening \notin Names \cup {Quote}
      BY Zenon DEF Opening, Names, LanguageNames, Quote
    <3> QED BY <2>1, <3>1, <3>2, <3>3, NothingYet
  <2>2. CASE members # Nothing
    <3>1. d = request \o <<",">>
      BY <2>2
    <3> DEFINE c == ","
    <3>2. c \in Symbols /\ c # Quote /\ c \notin Names
      BY DEF Symbols, Quote, Names, LanguageNames
    <3> HIDE DEF d, c
    <3>3. d = request \o <<c>>
      BY <3>1 DEF c
    <3>4. \A n \in Names \cap DOMAIN members : members[n] \in Seq(Symbols)
      BY DEF HostInv
    <3>5. Carries(request \o <<c>>, members)
      BY <1>3, <1>7, <3>2, <3>4, CarriesOne
    <3>6. <<c>> \in Seq(Symbols) /\ Len(<<c>>) = 1 /\ <<c>>[1] = c
      BY <3>2, TupleIs
    <3>7. /\ d \in Seq(Symbols) /\ Len(request) \in Nat /\ Len(d) = Len(request) + 1
          /\ StandsAt(d, Len(request) + 1, <<c>>)
      <4> DEFINE one == <<c>>
      <4>1. one \in Seq(Symbols) /\ Len(one) = 1 /\ d = request \o one
        BY <3>3, <3>6
      <4> HIDE DEF one
      <4>2. /\ d \in Seq(Symbols) /\ Len(request) \in Nat /\ Len(d) = Len(request) + Len(one)
            /\ StandsAt(d, Len(request) + 1, one)
        BY <1>3, <4>1, Longer
      <4> QED BY <4>1, <4>2 DEF one
    <3>8. d[Len(d)] = c
      <4>1. Len(request) + 1 \in Nat \ {0}
        BY <3>7
      <4>2. d[Len(request) + 1] = c
        BY <3>7, <4>1, SymbolStands
      <4> QED BY <3>7, <4>2
    <3> QED BY <3>2, <3>3, <3>5, <3>7, <3>8
  <2> QED BY <2>1, <2>2
<1> HIDE DEF d
<1>8. ASSUME Honest'
      PROVE  Carries(request', members')
  <2>1. /\ d \in Seq(Symbols) /\ Carries(d, members) /\ Len(d) # 0
        /\ d[Len(d)] \notin Names \cup {Quote}
    BY <1>6, <1>7, <1>8
  <2>2. \A m \in Names : ~MistakenFor(value, m)
    BY <1>6, <1>8
  <2>3. \A n \in Names \cap DOMAIN members : members[n] \in Seq(Symbols)
    BY DEF HostInv
  <2>4. Carries(d \o Member(name, Spelt(h, value), gap), Added(members, name, value))
    BY <1>2, <1>3, <1>4, <2>1, <2>2, <2>3, CarriesMember
  <2> QED BY <1>1, <1>2, <1>4, <2>4
<1>9. members' # Nothing
  BY <1>5 DEF Nothing
<1>10. DOMAIN members' \subseteq Names /\ \A n \in DOMAIN members' : members'[n] \in Seq(Symbols)
  BY <1>3, <1>5 DEF HostInv
<1>11. stage' # "read"
  BY <1>2
<1>12. default' \in Seq(Symbols) /\ parameters'.document \in Seq(Symbols)
       /\ Tells(parameters'.document, parameters'.says)
  BY <1>2 DEF HostInv
<1> QED BY <1>8, <1>9, <1>10, <1>11, <1>12 DEF HostInv

\* A request is closed with a brace.
LEMMA SubmitRequestCarries ==
  ASSUME DocumentInv, HostInv, SubmitRequest
  PROVE  HostInv'
<1>1. /\ request' = Append(request, Closing) /\ members' = members /\ default' = default
      /\ stage' = "submitted"
  BY Zenon DEF SubmitRequest, Submit, callVars, Closing
<1>2. parameters'.document \in Seq(Symbols) /\ Tells(parameters'.document, parameters'.says)
  BY SubmitTells DEF SubmitRequest
<1>3. ASSUME Honest'
      PROVE  Carries(request', members')
  <2>1. Honest
    BY <1>1, <1>3 DEF Honest, Mistakable
  <2>2. Carries(request, members) /\ request \in Seq(Symbols)
    BY <2>1 DEF HostInv, DocumentInv
  <2>3. Closing \in Symbols /\ Closing # Quote
    BY Zenon DEF Closing, Quote, Symbols
  <2>4. \A n \in Names \cap DOMAIN members : members[n] \in Seq(Symbols)
    BY DEF HostInv
  <2>5. Carries(request \o <<Closing>>, members)
    BY <2>2, <2>3, <2>4, CarriesOne
  <2>6. Append(request, Closing) = request \o <<Closing>>
    BY <2>2, <2>3, AppendIsConcat
  <2> QED BY <1>1, <2>5, <2>6
<1> QED BY <1>1, <1>2, <1>3 DEF HostInv

\* The document of an OCR job is a request.
LEMMA SubmitBufferCarries ==
  ASSUME DocumentInv, HostInv, SubmitBuffer
  PROVE  HostInv'
<1> DEFINE t == OcrText(generated)
           ms == [n \in {"text"} |-> t]
<1>1. /\ request' = buffer /\ members' = ms /\ default' = default
      /\ stage' = "submitted" /\ stage = "read"
  BY DEF SubmitBuffer, Submit, callVars
<1>2. parameters'.document \in Seq(Symbols) /\ Tells(parameters'.document, parameters'.says)
  BY SubmitTells DEF SubmitBuffer
<1>3. t \in Seq(Symbols) /\ buffer = Document(t)
  BY <1>1, OcrTextIs DEF DocumentInv, HostInv
<1>4. DOMAIN ms = {"text"} /\ ms["text"] = t /\ "text" \in Names
  BY DEF Names
<1> HIDE DEF t, ms
<1>5. ASSUME Honest'
      PROVE  Carries(request', members')
  <2>1. \A n \in DOMAIN ms : ~Mistakable(ms[n])
    BY <1>1, <1>5 DEF Honest, Mistakable
  <2>2. \A m \in Names : ~MistakenFor(t, m)
    BY <1>4, <2>1, HonestIs
  <2>3. Carries(Document(t), [n \in {"text"} |-> t])
    BY <1>3, <2>2, DocumentCarries
  <2> QED BY <1>1, <1>3, <2>3 DEF ms
<1> QED BY <1>1, <1>2, <1>3, <1>4, <1>5 DEF HostInv

LEMMA HostNext == IInv /\ [Next]_vars => HostInv'
<1> SUFFICES ASSUME IInv, [Next]_vars PROVE HostInv'
  OBVIOUS
<1>0. DocumentInv /\ HostInv
  BY DEF IInv
<1> DEFINE Kept == UNCHANGED <<members, request, parameters, default>>
<1>1. ASSUME NEW p, Generate(p)
      PROVE  Kept /\ stage' \in {"direct", "ocr"}
  BY <1>1 DEF Generate, hostVars
<1>2. ASSUME NEW text, AskDirectly(text)
      PROVE  Kept /\ stage' = "asked"
  BY <1>2 DEF AskDirectly, hostVars
<1>3. ASSUME NEW n, PlanOutputs(n)
      PROVE  Kept /\ stage' = "ocr"
  BY <1>3 DEF PlanOutputs, hostVars
<1>4. CASE WriteJobOutput
  <2>1. Kept /\ generated' = generated
    BY <1>4 DEF WriteJobOutput, hostVars
  <2>2. \/ stage' = "read" /\ buffer' = Document(OcrText(generated))
        \/ stage' = "failed"
    BY <1>4 DEF WriteJobOutput
  <2> QED BY <1>0, <2>1, <2>2, HostKept
<1>5. ASSUME NEW name \in Names, NEW value \in Values, Compose(name, value)
      PROVE  HostInv'
  BY <1>0, <1>5, ComposeCarries
<1>6. CASE Run
  <2>1. Kept /\ stage' \in {"called", "refused"}
    BY <1>6 DEF Run, hostVars
  <2> QED BY <1>0, <2>1, HostKept
<1>7. CASE UNCHANGED vars
  <2>1. Kept /\ stage' = stage /\ generated' = generated /\ buffer' = buffer
    BY <1>7 DEF vars, ocrVars, hostVars
  <2>2. stage = "read" => buffer = Document(OcrText(generated))
    BY <1>0 DEF HostInv
  <2> QED BY <1>0, <2>1, <2>2, HostKept
<1>8. ASSUME Kept, stage' \in {"direct", "ocr", "asked"} PROVE HostInv'
  BY <1>0, <1>8, HostKept
<1>9. \/ \E p : Generate(p)
      \/ \E text : AskDirectly(text)
      \/ \E n : PlanOutputs(n)
      \/ WriteJobOutput
      \/ \E name \in Names, value \in Values : Compose(name, value)
      \/ SubmitRequest \/ SubmitBuffer \/ Run \/ UNCHANGED vars
  BY Zenon DEF Next, Ocr, Translation
<1> HIDE DEF Kept
<1>10. (\E p : Generate(p)) => HostInv'
  BY <1>1, <1>8
<1>11. (\E text : AskDirectly(text)) => HostInv'
  BY <1>2, <1>8
<1>12. (\E n : PlanOutputs(n)) => HostInv'
  BY <1>3, <1>8
<1>13. SubmitRequest => HostInv'
  BY <1>0, SubmitRequestCarries
<1>14. SubmitBuffer => HostInv'
  BY <1>0, SubmitBufferCarries
<1> QED BY <1>4, <1>5, <1>6, <1>7, <1>9, <1>10, <1>11, <1>12, <1>13, <1>14

\* Nothing happens to what the host says.
LEMMA SaysKept ==
  ASSUME UNCHANGED <<members, parameters, default>>
  PROVE  (Honest' <=> Honest) /\ \A l : Says(l)' = Says(l)
BY DEF Honest, Mistakable, Says, Default

\* The call of translate has what the host said.
LEMMA RunArrives ==
  ASSUME DocumentInv, HostInv, Honest, Run
  PROVE  /\ stage' = "called" =>
              /\ call'.text = UpToNul(members["text"])
              /\ \A l \in LanguageNames : call'.languages[l] = UpToNul(Says(l))
         /\ stage' = "refused" =>
              \/ "text" \notin DOMAIN members \/ UpToNul(members["text"]) = <<>>
              \/ UpToNul(Says("target_language")) = <<>>
<1> DEFINE text == JsonString(request, "text", <<>>)
           target == "target_language"
<1>1. /\ stage' = "refused" =>
           \/ ~text.ok \/ UpToNul(text.value) = <<>> \/ UpToNul(Language(target)) = <<>>
      /\ stage' = "called" =>
           /\ text.ok /\ call'.text = UpToNul(text.value)
           /\ call'.languages = [l \in LanguageNames |-> UpToNul(Language(l))]
  BY DEF Run
<1>2. text = IF "text" \in DOMAIN members THEN Read(members["text"])
             ELSE [ok |-> FALSE, value |-> <<>>]
  <2>1. "text" \in Names
    BY DEF Names
  <2>2. request \in Seq(Symbols) /\ Carries(request, members)
    BY DEF DocumentInv, HostInv
  <2>3. "text" \in DOMAIN members => members["text"] \in Seq(Symbols)
    BY DEF HostInv
  <2> QED BY <2>1, <2>2, <2>3, CarriesReads
<1>3. /\ "text" \in DOMAIN members => text.ok /\ text.value = members["text"]
      /\ "text" \notin DOMAIN members => ~text.ok
  BY <1>2 DEF Read
<1>4. \A l \in LanguageNames : Language(l) = Says(l)
  BY LanguageArrives
<1>5. target \in LanguageNames
  BY DEF LanguageNames
<1> HIDE DEF text, target
<1>6. stage' = "called" =>
        /\ call'.text = UpToNul(members["text"])
        /\ \A l \in LanguageNames : call'.languages[l] = UpToNul(Says(l))
  <2> SUFFICES ASSUME stage' = "called"
               PROVE  /\ call'.text = UpToNul(members["text"])
                      /\ \A l \in LanguageNames : call'.languages[l] = UpToNul(Says(l))
    OBVIOUS
  <2>1. call'.text = UpToNul(members["text"])
    BY <1>1, <1>3
  <2>2. \A l \in LanguageNames : call'.languages[l] = UpToNul(Language(l))
    BY <1>1
  <2> QED BY <1>4, <2>1, <2>2
<1>7. stage' = "refused" =>
        \/ "text" \notin DOMAIN members \/ UpToNul(members["text"]) = <<>>
        \/ UpToNul(Says(target)) = <<>>
  BY <1>1, <1>3, <1>4, <1>5
<1> QED BY <1>6, <1>7 DEF target

LEMMA ArriveNext == IInv /\ [Next]_vars => MembersArrive'
<1> SUFFICES ASSUME IInv, [Next]_vars, Honest'
             PROVE  /\ stage' = "called" =>
                         /\ call'.text = UpToNul(members'["text"])
                         /\ \A l \in LanguageNames : call'.languages[l] = UpToNul(Says(l)')
                    /\ stage' = "refused" =>
                         \/ "text" \notin DOMAIN members' \/ UpToNul(members'["text"]) = <<>>
                         \/ UpToNul(Says("target_language")') = <<>>
  BY DEF MembersArrive, Honest, UpToNul
<1>1. CASE Run
  <2>1. members' = members /\ parameters' = parameters /\ default' = default
    BY <1>1 DEF Run, hostVars
  <2>2. Honest /\ \A l : Says(l)' = Says(l)
    BY <2>1, SaysKept
  <2> QED BY <1>1, <2>1, <2>2, RunArrives DEF IInv
<1>2. CASE UNCHANGED vars
  <2>1. /\ members' = members /\ parameters' = parameters /\ default' = default
        /\ stage' = stage /\ call' = call
    BY <1>2 DEF vars, hostVars, callVars
  <2>2. Honest /\ \A l : Says(l)' = Says(l)
    BY <2>1, SaysKept
  <2>3. MembersArrive
    BY DEF IInv
  <2> QED BY <2>1, <2>2, <2>3 DEF MembersArrive, Honest
<1>3. CASE stage' \notin {"called", "refused"}
  BY <1>3
<1>4. \A p : Generate(p) => stage' \in {"direct", "ocr"}
  BY DEF Generate
<1>5. \A text : AskDirectly(text) => stage' = "asked"
  BY DEF AskDirectly
<1>6. \A n : PlanOutputs(n) => stage' = "ocr"
  BY DEF PlanOutputs
<1>7. WriteJobOutput => stage' \in {"read", "failed"}
  BY DEF WriteJobOutput
<1>8. \A name, value : Compose(name, value) => stage' = "compose"
  BY DEF Compose
<1>9. SubmitRequest \/ SubmitBuffer => stage' = "submitted"
  BY DEF SubmitRequest, SubmitBuffer, Submit
<1>10. \/ \E p : Generate(p)
       \/ \E text : AskDirectly(text)
       \/ \E n : PlanOutputs(n)
       \/ WriteJobOutput
       \/ \E name, value : Compose(name, value)
       \/ SubmitRequest \/ SubmitBuffer \/ Run \/ UNCHANGED vars
  BY Zenon DEF Next, Ocr, Translation
<1>11. Run \/ UNCHANGED vars \/ stage' \notin {"called", "refused"}
  BY <1>4, <1>5, <1>6, <1>7, <1>8, <1>9, <1>10
<1> QED BY <1>1, <1>2, <1>3, <1>11

\* Documents and texts stay what they were written from.
THEOREM InvariantHolds == Spec => []IInv
<1>1. Init => IInv
  BY InitHolds
<1>2. IInv /\ [Next]_vars => IInv'
  BY TypedNext, AskedNext, BufferNext, HostNext, ArriveNext DEF IInv
<1> QED BY <1>1, <1>2, PTL DEF Spec

\* What a translation sends, segment by segment, is what is seen of its text:
\* nothing is lost, doubled or moved, for every text and every way it comes.
THEOREM NothingIsLost == Spec => []NothingLost
<1>1. IInv => NothingLost
  <2> SUFFICES ASSUME IInv, stage \in {"asked", "called"}
               PROVE  Ink(FlattenSeq(segments)) = Ink(call.text)
    BY DEF NothingLost
  <2>1. call.text \in Seq(Symbols) /\ segments = Segments(call.text)
    BY DEF IInv, AskedInv
  <2> QED BY <2>1, SegmentsInk
<1> QED BY <1>1, InvariantHolds, PTL

\* What is seen of a text up to a marker line stands before a boundary in what OCR
\* delivers.
LEMMA MarkersSplit ==
  ASSUME NEW g \in Seq(Symbols), NEW i \in Places(WithoutTags(g), TagMarker, 1)
  PROVE  Apart(OcrText(g), Ink(SubSeq(WithoutTags(g), 1, i)))
<1> DEFINE t == WithoutTags(g)
<1>1. t \in Seq(Symbols) /\ Len(t) \in Nat
  BY OcrTextIs, SymbolsOf
<1>2. /\ Len(TagMarker) = 3 /\ TagMarker[1] = NL /\ TagMarker[2] = Marker
      /\ TagMarker[3] = NL
  BY DEF TagMarker
<1>3. i \in 1..(Len(t) - Len(TagMarker) + 1)
      /\ SubSeq(t, i, i + Len(TagMarker) - 1) = TagMarker
  BY DEF Places
<1> HIDE DEF t
<1>4. i \in Nat \ {0} /\ i + 2 \in Nat /\ i + 2 <= Len(t)
  BY <1>1, <1>2, <1>3
<1>5. SubSeq(t, i, i + 2) = TagMarker
  BY <1>2, <1>3, <1>4
<1>6. ThreeAt(t, i, Marker)
  <2>1. \A k \in 1..((i + 2) - i + 1) : SubSeq(t, i, i + 2)[k] = t[i + k - 1]
    BY <1>1, <1>4, PieceIs
  <2>2. t[i] = NL /\ t[i + 1] = Marker /\ t[i + 2] = NL
    BY <1>2, <1>4, <1>5, <2>1
  <2> QED BY <1>4, <2>2 DEF ThreeAt
<1>7. Ink(SubSeq(t, 1, i)) = Ink(SubSeq(t, 1, i - 1))
  <2>1. t[i] \in Hidden
    BY <1>6 DEF ThreeAt, Hidden, Blank
  <2> DEFINE k == i - 1
  <2>2. /\ 1 \in Nat \ {0} /\ k \in Nat /\ i \in Nat /\ i <= Len(t) /\ 1 <= k + 1 /\ k <= i
        /\ k + 1 = i
    BY <1>1, <1>4
  <2> HIDE DEF k
  <2>3. /\ SubSeq(t, 1, k) \in Seq(Symbols)
        /\ Ink(SubSeq(t, 1, i)) = Ink(SubSeq(t, 1, k)) \o Ink(SubSeq(t, k + 1, i))
    BY <1>1, <2>2, InkSplit
  <2>4. Ink(SubSeq(t, i, i)) = <<>>
    BY <1>1, <1>4, <2>1, <2>2, HiddenPiece
  <2>5. Ink(SubSeq(t, 1, k)) \in Seq(Symbols)
    BY <2>3, InkIs
  <2> QED BY <2>2, <2>3, <2>4, <2>5, ConcatEmptySeq DEF k
<1>8. Apart(Normalized(t), Ink(SubSeq(t, 1, i - 1)))
  BY <1>1, <1>6, NormalizedSplit
<1> QED BY <1>7, <1>8 DEF t, OcrText

\* A translation of what OCR delivers sends what stands before a marker line and
\* what stands after it in different segments, for every generated text: however
\* many boundaries of whatever width it has, and however long its blocks are.
THEOREM BlocksStaySeparate == Spec => []BlocksSeparate
<1>1. IInv => BlocksSeparate
  <2> SUFFICES ASSUME IInv, segments # <<>>, call.text = OcrText(generated),
                      NEW i \in Places(WithoutTags(generated), TagMarker, 1)
               PROVE  \E k \in 0..Len(segments) :
                        Ink(FlattenSeq(SubSeq(segments, 1, k)))
                          = Ink(SubSeq(WithoutTags(generated), 1, i))
    BY DEF BlocksSeparate
  <2> DEFINE x == Ink(SubSeq(WithoutTags(generated), 1, i))
  <2>1. generated \in Seq(Symbols)
    BY DEF IInv, DocumentInv
  <2>2. call.text \in Seq(Symbols) /\ segments = Segments(call.text)
    BY DEF IInv, AskedInv
  <2>3. Apart(call.text, x)
    BY <2>1, MarkersSplit
  <2> HIDE DEF x
  <2>4. Apart(Normalized(call.text), x)
    BY <2>2, <2>3, NormalizedApart
  <2>5. \E k \in 0..Len(segments) : Ink(FlattenSeq(SubSeq(segments, 1, k))) = x
    BY <2>2, <2>4, SegmentsApart
  <2> QED BY <2>5 DEF x
<1> QED BY <1>1, InvariantHolds, PTL

\* What the harness writes it reads back, whatever the text looks like, and it
\* stays within the buffer that was planned.
THEOREM ReadsWhatItWrote == Spec => []OutputReadsBack
<1>1. IInv => OutputReadsBack
  BY DEF IInv, BufferInv, OutputReadsBack
<1> QED BY <1>1, InvariantHolds, PTL

\* In whatever order and spelling the host writes its members, whatever their
\* values look like as long as none ends in a quoted name, translate gets the text
\* and the languages that the parameters, the request or the model say.
THEOREM MembersGetThere == Spec => []MembersArrive
<1>1. IInv => MembersArrive
  BY DEF IInv
<1> QED BY <1>1, InvariantHolds, PTL

=============================================================================
