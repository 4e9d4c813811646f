---------------------------- MODULE FoldTheorems ----------------------------
(***************************************************************************)
(* Induction over the naturals, over the left folds that the models of     *)
(* loops are built from, and over recursions along a sequence.  What a     *)
(* loop does is a parameter, so that other modules take the theorems for   *)
(* theirs by an INSTANCE of this one.                                      *)
(***************************************************************************)
EXTENDS Integers, Sequences, SequencesExt, WellFoundedInduction, TLAPS

CONSTANTS
  T,            \* what the sequence consists of
  Base(_),      \* the accumulator before the loop, where x is what the loop
  Op(_, _, _),  \* reads besides; its body: x, accumulator, element; or x, function, place
  P(_, _, _)    \* of x, the part that was read and the accumulator after it

\* A set that has 0 and with every number the next one has every number.
LEMMA EveryNumber ==
  ASSUME NEW S, 0 \in S, \A n \in Nat : n \in S => n + 1 \in S
  PROVE  \A n \in Nat : n \in S
<1> SUFFICES ASSUME Nat \ S # {} PROVE FALSE
  OBVIOUS
<1> DEFINE R == {p \in Nat \X Nat : p[1] < p[2]}
<1>1. IsWellFoundedOn(R, Nat)
  BY NatLessThanWellFounded DEF OpToRel
<1>2. \E n \in Nat \ S : \A m \in Nat \ S : <<m, n>> \notin R
  <2> HIDE DEF R
  <2> QED
    BY <1>1, WFMin
<1>3. PICK n \in Nat \ S : \A m \in Nat \ S : <<m, n>> \notin R
  BY <1>2
<1>4. n # 0 /\ n - 1 \in Nat /\ <<n - 1, n>> \in R
  OBVIOUS
<1>5. n - 1 \in S
  BY <1>3, <1>4
<1>6. (n - 1) + 1 \in S
  BY <1>4, <1>5
<1> QED
  BY <1>3, <1>6

\* Of some numbers one is the smallest.
LEMMA SmallestOf ==
  ASSUME NEW numbers \in SUBSET Nat, numbers # {}
  PROVE  \E m \in numbers : \A k \in numbers : m <= k
<1> SUFFICES ASSUME \A m \in numbers : \E k \in numbers : ~(m <= k) PROVE FALSE
  OBVIOUS
<1> DEFINE Below == {n \in Nat : \A k \in numbers : n <= k}
<1>1. 0 \in Below
  OBVIOUS
<1>2. ASSUME NEW n \in Nat, n \in Below PROVE n + 1 \in Below
  <2>1. \A k \in numbers : n <= k
    BY <1>2
  <2>2. n \notin numbers
    BY <2>1
  <2>3. \A k \in numbers : n + 1 <= k
    BY <2>1, <2>2
  <2> QED
    BY <2>3
<1> HIDE DEF Below
<1>3. \A n \in Nat : n \in Below
  BY <1>1, <1>2, EveryNumber
<1>4. PICK k \in numbers : k \in Nat
  OBVIOUS
<1>5. k + 1 \in Below
  BY <1>3, <1>4
<1> QED
  BY <1>4, <1>5 DEF Below

\* The loop
Fold(x, s) == FoldLeft(LAMBDA acc, e : Op(x, acc, e), Base(x), s)

\* FoldLeft recurs over the sets of indices; this is that recursion.
Unfolds(x, f, s, D) ==
  f = [S \in SUBSET D |-> IF S = {} THEN Base(x) ELSE Op(x, f[S \ {Max(S)}], s[Max(S)])]

\* The highest index of a set that ends with n.
LEMMA MaxIs ==
  ASSUME NEW n \in Nat, NEW S \in SUBSET (1 .. n + 1), n + 1 \in S
  PROVE  Max(S) = n + 1 /\ S \ {Max(S)} \in SUBSET (1 .. n)
<1>1. \A y \in S : n + 1 >= y
  OBVIOUS
<1>2. \A m \in S : (\A y \in S : m >= y) => m = n + 1
  OBVIOUS
<1>3. Max(S) = n + 1
  BY <1>1, <1>2 DEF Max
<1> QED
  BY <1>3

\* A set of indices that is not empty has a highest one.
LEMMA MaxExists ==
  ASSUME NEW n \in Nat, NEW S \in SUBSET (1 .. n), S # {}
  PROVE  Max(S) \in S /\ \A y \in S : Max(S) >= y
<1> DEFINE Good == {k \in Nat : \A U \in SUBSET (1 .. k) :
                                  U # {} => \E m \in U : \A y \in U : m >= y}
<1>1. 0 \in Good
  <2>1. 1 .. 0 = {}
    OBVIOUS
  <2> QED
    BY <2>1
<1>2. ASSUME NEW k \in Nat, k \in Good PROVE k + 1 \in Good
  <2> SUFFICES ASSUME NEW U \in SUBSET (1 .. k + 1), U # {}
               PROVE  \E m \in U : \A y \in U : m >= y
    OBVIOUS
  <2>1. CASE k + 1 \in U
    BY <2>1
  <2>2. CASE k + 1 \notin U
    <3>1. U \in SUBSET (1 .. k)
      BY <2>2
    <3> QED
      BY <1>2, <3>1
  <2> QED
    BY <2>1, <2>2
<1> HIDE DEF Good
<1>3. n \in Good
  BY <1>1, <1>2, EveryNumber
<1>4. \E m \in S : \A y \in S : m >= y
  BY <1>3 DEF Good
<1> QED
  BY <1>4 DEF Max

\* There is a function that recurs in this way over any number of indices.
LEMMA UnfoldingExists ==
  ASSUME NEW x, NEW s
  PROVE  \A n \in Nat : \E f : Unfolds(x, f, s, 1 .. n)
<1> DEFINE Good == {n \in Nat : \E f : Unfolds(x, f, s, 1 .. n)}
<1>1. 0 \in Good
  <2> DEFINE f == [S \in SUBSET (1 .. 0) |-> Base(x)]
  <2>1. \A S \in SUBSET (1 .. 0) : S = {}
    OBVIOUS
  <2>2. Unfolds(x, f, s, 1 .. 0)
    BY <2>1, Zenon DEF Unfolds
  <2> QED
    BY <2>2
<1>2. ASSUME NEW n \in Nat, n \in Good PROVE n + 1 \in Good
  <2>1. PICK f : Unfolds(x, f, s, 1 .. n)
    BY <1>2
  <2> DEFINE g == [S \in SUBSET (1 .. n + 1) |->
                     IF n + 1 \in S THEN Op(x, f[S \ {n + 1}], s[n + 1]) ELSE f[S]]
  <2>2. ASSUME NEW S \in SUBSET (1 .. n + 1)
        PROVE  g[S] = IF S = {} THEN Base(x) ELSE Op(x, g[S \ {Max(S)}], s[Max(S)])
    <3>1. CASE n + 1 \in S
      <4>1. Max(S) = n + 1 /\ S \ {n + 1} \in SUBSET (1 .. n)
        BY <3>1, MaxIs
      <4>2. S \ {n + 1} \in SUBSET (1 .. n + 1) /\ n + 1 \notin S \ {n + 1} /\ S # {}
        BY <3>1
      <4>3. g[S] = Op(x, f[S \ {n + 1}], s[n + 1]) /\ g[S \ {n + 1}] = f[S \ {n + 1}]
        BY <3>1, <4>2
      <4> QED
        BY <4>1, <4>2, <4>3
    <3>2. CASE n + 1 \notin S
      <4>1. S \in SUBSET (1 .. n)
        BY <3>2
      <4>2. f[S] = IF S = {} THEN Base(x) ELSE Op(x, f[S \ {Max(S)}], s[Max(S)])
        BY <2>1, <4>1 DEF Unfolds
      <4>3. S \ {Max(S)} \in SUBSET (1 .. n + 1) /\ n + 1 \notin S \ {Max(S)}
        BY <3>2
      <4>4. g[S] = f[S] /\ g[S \ {Max(S)}] = f[S \ {Max(S)}]
        BY <3>2, <4>3
      <4> QED
        BY <4>2, <4>4
    <3> QED
      BY <3>1, <3>2
  <2>3. g = [S \in SUBSET (1 .. n + 1) |-> g[S]]
    BY Zenon
  <2>4. Unfolds(x, g, s, 1 .. n + 1)
    <3> HIDE DEF g
    <3> QED
      BY <2>2, <2>3 DEF Unfolds
  <2> QED
    BY <2>4
<1> HIDE DEF Good
<1>3. \A n \in Nat : n \in Good
  BY <1>1, <1>2, EveryNumber
<1> QED
  BY <1>3 DEF Good

\* FoldLeft is what that recursion makes of all indices.
LEMMA FoldUnfolds ==
  ASSUME NEW x, NEW s \in Seq(T)
  PROVE  \E f : Unfolds(x, f, s, DOMAIN s) /\ Fold(x, s) = f[DOMAIN s]
<1> DEFINE F == CHOOSE f : f = [S \in SUBSET (DOMAIN s) |->
                  IF S = {} THEN Base(x) ELSE Op(x, f[S \ {Max(S)}], s[Max(S)])]
<1>1. Fold(x, s) = F[DOMAIN s]
  BY DEF Fold, FoldLeft, MapThenFoldSet
<1>2. \E f : Unfolds(x, f, s, DOMAIN s)
  <2>1. Len(s) \in Nat /\ DOMAIN s = 1 .. Len(s)
    OBVIOUS
  <2> QED
    BY <2>1, UnfoldingExists
<1>3. Unfolds(x, F, s, DOMAIN s)
  BY <1>2 DEF Unfolds
<1> QED
  BY <1>1, <1>3

\* The recursion, along the parts that loops read one after another.
LEMMA UnfoldsUp ==
  ASSUME NEW x, NEW f, NEW s, NEW n \in Nat, Unfolds(x, f, s, 1 .. n)
  PROVE  /\ f[1 .. 0] = Base(x)
         /\ \A k \in Nat : k + 1 <= n => f[1 .. k + 1] = Op(x, f[1 .. k], s[k + 1])
<1>1. f[1 .. 0] = Base(x)
  <2>1. 1 .. 0 = {}
    OBVIOUS
  <2> QED
    BY <2>1 DEF Unfolds
<1>2. ASSUME NEW k \in Nat, k + 1 <= n PROVE f[1 .. k + 1] = Op(x, f[1 .. k], s[k + 1])
  <2>1. 1 .. k + 1 \in SUBSET (1 .. n) /\ k + 1 \in 1 .. k + 1
    BY <1>2
  <2>2. Max(1 .. k + 1) = k + 1
    BY <2>1, MaxIs
  <2>3. \A i : i \in (1 .. k + 1) \ {k + 1} <=> i \in 1 .. k
    OBVIOUS
  <2>4. (1 .. k + 1) \ {k + 1} = 1 .. k /\ 1 .. k + 1 # {}
    BY <2>1, <2>3, Zenon
  <2> QED
    BY <2>1, <2>2, <2>4 DEF Unfolds
<1> QED
  BY <1>1, <1>2

\* What the recursion makes of a part depends on that part only, and so does what
\* it makes of one more element.
LEMMA UnfoldsNext ==
  ASSUME NEW x, NEW f, NEW g, NEW s, NEW t, NEW n \in Nat, NEW m \in Nat, n < m,
         Unfolds(x, f, s, 1 .. n), Unfolds(x, g, t, 1 .. m), \A k \in 1 .. n : t[k] = s[k]
  PROVE  g[1 .. n + 1] = Op(x, f[1 .. n], t[n + 1])
<1>1. /\ f[1 .. 0] = Base(x)
      /\ \A k \in Nat : k + 1 <= n => f[1 .. k + 1] = Op(x, f[1 .. k], s[k + 1])
  BY UnfoldsUp
<1>2. /\ g[1 .. 0] = Base(x)
      /\ \A k \in Nat : k + 1 <= m => g[1 .. k + 1] = Op(x, g[1 .. k], t[k + 1])
  BY UnfoldsUp
<1> DEFINE Same == {k \in Nat : k <= n => f[1 .. k] = g[1 .. k]}
<1>3. 0 \in Same
  BY <1>1, <1>2
<1>4. ASSUME NEW k \in Nat, k \in Same PROVE k + 1 \in Same
  <2>1. k + 1 <= n => k <= n /\ k + 1 \in 1 .. n /\ k + 1 <= m
    OBVIOUS
  <2> QED
    BY <1>1, <1>2, <1>4, <2>1
<1> HIDE DEF Same
<1>5. n \in Same
  BY <1>3, <1>4, EveryNumber
<1>6. f[1 .. n] = g[1 .. n]
  BY <1>5 DEF Same
<1> QED
  BY <1>2, <1>6

\* A loop over nothing does nothing.
LEMMA FoldEmpty == ASSUME NEW x PROVE Fold(x, <<>>) = Base(x)
<1>1. <<>> \in Seq(T) /\ DOMAIN <<>> = 1 .. 0
  OBVIOUS
<1>2. PICK f : Unfolds(x, f, <<>>, DOMAIN <<>>) /\ Fold(x, <<>>) = f[DOMAIN <<>>]
  BY <1>1, FoldUnfolds
<1> QED
  BY <1>1, <1>2, UnfoldsUp

\* One more element is one more run of the loop's body.
THEOREM FoldAppend ==
  ASSUME NEW x, NEW s \in Seq(T), NEW e \in T
  PROVE  Fold(x, Append(s, e)) = Op(x, Fold(x, s), e)
<1>1. Append(s, e) \in Seq(T) /\ Len(s) \in Nat /\ DOMAIN s = 1 .. Len(s)
  OBVIOUS
<1>2. ASSUME NEW t \in Seq(T), NEW n \in Nat, NEW m \in Nat, n < m,
             DOMAIN s = 1 .. n, DOMAIN t = 1 .. m, \A k \in 1 .. n : t[k] = s[k]
      PROVE  \E g : Fold(x, t) = g[1 .. m] /\ g[1 .. n + 1] = Op(x, Fold(x, s), t[n + 1])
  <2>1. PICK f : Unfolds(x, f, s, DOMAIN s) /\ Fold(x, s) = f[DOMAIN s]
    BY FoldUnfolds
  <2>2. PICK g : Unfolds(x, g, t, DOMAIN t) /\ Fold(x, t) = g[DOMAIN t]
    BY <1>2, FoldUnfolds
  <2> QED
    BY <1>2, <2>1, <2>2, UnfoldsNext
<1>3. /\ DOMAIN Append(s, e) = 1 .. (Len(s) + 1) /\ Append(s, e)[Len(s) + 1] = e
      /\ \A k \in 1 .. Len(s) : Append(s, e)[k] = s[k]
  OBVIOUS
<1>4. Len(s) + 1 \in Nat /\ Len(s) < Len(s) + 1
  OBVIOUS
<1>5. \E g : /\ Fold(x, Append(s, e)) = g[1 .. Len(s) + 1]
             /\ g[1 .. Len(s) + 1] = Op(x, Fold(x, s), Append(s, e)[Len(s) + 1])
  BY <1>1, <1>2, <1>3, <1>4, ZenonT(40)
<1> QED
  BY <1>3, <1>5, Zenon

\* What holds before a loop and is kept by its body holds after it, of the part
\* of the sequence that was read and the accumulator.
THEOREM FoldInduction ==
  ASSUME NEW x, P(x, <<>>, Base(x)),
         \A s \in Seq(T), e \in T : \A acc : P(x, s, acc) => P(x, Append(s, e), Op(x, acc, e))
  PROVE  \A s \in Seq(T) : P(x, s, Fold(x, s))
<1> TAKE s \in Seq(T)
<1>1. PICK f : Unfolds(x, f, s, DOMAIN s) /\ Fold(x, s) = f[DOMAIN s]
  BY FoldUnfolds
<1>2. Len(s) \in Nat /\ DOMAIN s = 1 .. Len(s) /\ \A i \in DOMAIN s : s[i] \in T
  OBVIOUS
<1> DEFINE Good == {n \in Nat : n <= Len(s) => P(x, SubSeq(s, 1, n), f[1 .. n])}
<1>3. /\ f[1 .. 0] = Base(x)
      /\ \A k \in Nat : k + 1 <= Len(s) => f[1 .. k + 1] = Op(x, f[1 .. k], s[k + 1])
  BY <1>1, <1>2, UnfoldsUp
<1>4. 0 \in Good
  <2>1. SubSeq(s, 1, 0) = <<>>
    OBVIOUS
  <2> QED
    BY <1>3, <2>1
<1>5. ASSUME NEW n \in Nat, n \in Good PROVE n + 1 \in Good
  <2> SUFFICES ASSUME n + 1 <= Len(s) PROVE P(x, SubSeq(s, 1, n + 1), f[1 .. n + 1])
    BY <1>2
  <2>1. P(x, SubSeq(s, 1, n), f[1 .. n])
    BY <1>2, <1>5
  <2>2. f[1 .. n + 1] = Op(x, f[1 .. n], s[n + 1])
    BY <1>3
  <2>3. SubSeq(s, 1, n) \in Seq(T) /\ s[n + 1] \in T
    BY <1>2
  <2>4. SubSeq(s, 1, n + 1) = Append(SubSeq(s, 1, n), s[n + 1])
    BY <1>2
  <2> QED
    BY <2>1, <2>2, <2>3, <2>4
<1> HIDE DEF Good
<1>6. Len(s) \in Good
  BY <1>2, <1>4, <1>5, EveryNumber
<1>7. SubSeq(s, 1, Len(s)) = s
  BY <1>2
<1>8. P(x, SubSeq(s, 1, Len(s)), f[1 .. Len(s)])
  BY <1>2, <1>6 DEF Good
<1> QED
  BY <1>1, <1>2, <1>7, <1>8, Zenon

\* A recursion over the places of a sequence, from each to places further on, is
\* one that a function satisfies.
THEOREM Recursion ==
  ASSUME NEW x, NEW len \in Nat,
         \A pos \in 1 .. len + 1 : \A f, g :
           (\A p \in pos + 1 .. len + 1 : g[p] = f[p]) => Op(x, g, pos) = Op(x, f, pos)
  PROVE  \E f : f = [pos \in 1 .. len + 1 |-> Op(x, f, pos)]
<1> DEFINE Places(n) == len + 2 - n .. len + 1
           Good == {n \in Nat : n <= len + 1 =>
                     \E f : \A pos \in Places(n) : f[pos] = Op(x, f, pos)}
<1>1. 0 \in Good
  <2>1. Places(0) = {}
    OBVIOUS
  <2> QED
    BY <2>1
<1>2. ASSUME NEW n \in Nat, n \in Good PROVE n + 1 \in Good
  <2> SUFFICES ASSUME n + 1 <= len + 1
               PROVE  \E g : \A pos \in Places(n + 1) : g[pos] = Op(x, g, pos)
    OBVIOUS
  <2>1. PICK f : \A pos \in Places(n) : f[pos] = Op(x, f, pos)
    BY <1>2
  <2>2. PICK next : next = len + 1 - n /\ next \in 1 .. len + 1
    OBVIOUS
  <2> DEFINE g == [pos \in 1 .. len + 1 |-> IF pos = next THEN Op(x, f, next) ELSE f[pos]]
  <2>3. /\ \A pos \in Places(n + 1) : pos = next \/ pos \in Places(n)
        /\ \A pos \in Places(n) : pos # next /\ pos \in 1 .. len + 1
                                  /\ pos + 1 .. len + 1 \subseteq Places(n)
        /\ next + 1 .. len + 1 \subseteq Places(n)
    BY <2>2
  <2>4. g[next] = Op(x, f, next) /\ \A pos \in Places(n) : g[pos] = f[pos]
    BY <2>2, <2>3
  <2> HIDE DEF g, Places
  <2>5. ASSUME NEW pos \in 1 .. len + 1, pos + 1 .. len + 1 \subseteq Places(n)
        PROVE  Op(x, g, pos) = Op(x, f, pos)
    <3>1. \A p \in pos + 1 .. len + 1 : g[p] = f[p]
      BY <2>4, <2>5
    <3> QED
      BY <3>1, Zenon
  <2>6. ASSUME NEW pos \in Places(n + 1) PROVE g[pos] = Op(x, g, pos)
    BY <2>1, <2>2, <2>3, <2>4, <2>5
  <2> QED
    BY <2>6
<1> HIDE DEF Good
<1>3. len + 1 \in Good
  BY <1>1, <1>2, EveryNumber
<1>4. PICK f : \A pos \in 1 .. len + 1 : f[pos] = Op(x, f, pos)
  <2>1. Places(len + 1) = 1 .. len + 1
    OBVIOUS
  <2>2. len + 1 \in Nat /\ len + 1 <= len + 1
    OBVIOUS
  <2> HIDE DEF Places
  <2>3. \E f : \A pos \in Places(len + 1) : f[pos] = Op(x, f, pos)
    BY <1>3, <2>2, Zenon DEF Good
  <2> QED
    BY <2>1, <2>3, Zenon
<1>5. PICK g : g = [pos \in 1 .. len + 1 |-> f[pos]]
  OBVIOUS
<1>6. ASSUME NEW pos \in 1 .. len + 1 PROVE Op(x, g, pos) = f[pos]
  <2>1. \A p \in pos + 1 .. len + 1 : p \in 1 .. len + 1
    OBVIOUS
  <2>2. \A p \in pos + 1 .. len + 1 : g[p] = f[p]
    BY <1>5, <2>1
  <2>3. Op(x, g, pos) = Op(x, f, pos)
    BY <2>2, Zenon
  <2> QED
    BY <1>4, <2>3
<1> QED
  BY <1>5, <1>6, Zenon

\* What later places pass on to earlier ones holds at all of them.
THEOREM RecursionTyped ==
  ASSUME NEW x, NEW len \in Nat, NEW f, NEW kind,
         \A pos \in 1 .. len + 1 : f[pos] = Op(x, f, pos),
         \A pos \in 1 .. len + 1 :
           (\A p \in pos + 1 .. len + 1 : f[p] \in kind) => Op(x, f, pos) \in kind
  PROVE  \A pos \in 1 .. len + 1 : f[pos] \in kind
<1> DEFINE Places(n) == len + 2 - n .. len + 1
           Typed == {n \in Nat : n <= len + 1 => \A pos \in Places(n) : f[pos] \in kind}
<1>1. 0 \in Typed
  <2>1. Places(0) = {}
    OBVIOUS
  <2> QED
    BY <2>1
<1>2. ASSUME NEW n \in Nat, n \in Typed PROVE n + 1 \in Typed
  <2> SUFFICES ASSUME n + 1 <= len + 1, NEW pos \in Places(n + 1) PROVE f[pos] \in kind
    OBVIOUS
  <2>1. /\ pos \in 1 .. len + 1
        /\ \A p \in pos + 1 .. len + 1 : p \in Places(n)
    OBVIOUS
  <2>2. \A p \in Places(n) : f[p] \in kind
    BY <1>2
  <2> HIDE DEF Places
  <2>3. \A p \in pos + 1 .. len + 1 : f[p] \in kind
    BY <2>1, <2>2, Zenon
  <2>4. f[pos] = Op(x, f, pos)
    BY <2>1, Zenon
  <2> QED
    BY <2>1, <2>3, <2>4, Zenon
<1> HIDE DEF Typed
<1>3. len + 1 \in Typed
  BY <1>1, <1>2, EveryNumber
<1>4. Places(len + 1) = 1 .. len + 1 /\ len + 1 \in Nat /\ len + 1 <= len + 1
  OBVIOUS
<1> HIDE DEF Places
<1> QED
  BY <1>3, <1>4, Zenon DEF Typed

=============================================================================
