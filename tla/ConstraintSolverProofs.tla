----------------------- MODULE ConstraintSolverProofs -----------------------
(***************************************************************************)
(* The constraint solver finds exactly the solutions, for every problem    *)
(* and every size of the caller's buffer.  The invariant ties the arrays   *)
(* that backtrack() changes in place to the stack of its recursion: below  *)
(* the top every variable is assigned the value at its position, and what  *)
(* is assigned satisfies the constraints.                                  *)
(***************************************************************************)
EXTENDS ConstraintSolver, TLAPS

Searching == pc \in {"try", "record"}

BoundedDomains == \A v \in Variables : Len(doms[v]) \in 1 .. MaxDomain

\* The recursion goes from the first variable up, each level within its domain
Stacked ==
  /\ pc = "idle" => at = <<>> /\ rows = <<>> /\ paths = <<>>
  /\ pc # "idle" =>
       /\ Level \in 1 .. Len(doms) /\ limit > 0
       /\ \A v \in 1 .. Level : at[v] <= Len(doms[v]) /\ (v < Level => at[v] > 0)
       /\ pc = "record" => Level = Len(doms) /\ at[Level] > 0

\* Exactly the variables below the top are assigned, to the values tried last
Placed ==
  /\ pc = "try" => \A v \in Variables : assigned[v] <=> v < Level
  /\ pc = "record" => \A v \in Variables : assigned[v]
  /\ Searching => \A v \in Variables : assigned[v] => value[v] = doms[v][at[v]]

\* What is assigned satisfies the constraints
Compatible ==
  Searching => \A i \in Constraints : Decidable(i, assigned) => Satisfied(i, value)

\* The search goes on while there is room, and returns at the end or without room
Buffered ==
  /\ Searching => Len(rows) < limit
  /\ pc = "return" =>
       Len(rows) = limit \/ (Len(rows) < limit /\ Level = 1 /\ Exhausted)

StackInv == TypeOK /\ BoundedDomains /\ Stacked /\ Placed /\ Compatible /\ Buffered

-----------------------------------------------------------------------------
(* Building the problem                                                    *)

LEMMA SequenceIsFunction ==
  ASSUME NEW S, NEW s \in Seq(S)
  PROVE  s \in [1 .. Len(s) -> S]
OBVIOUS

LEMMA OneMore ==
  ASSUME NEW S, NEW n \in Nat, NEW f \in [1 .. n -> S], NEW e \in S
  PROVE  Append(f, e) \in [1 .. n + 1 -> S]
<1>1. f \in Seq(S) /\ Len(f) = n
  OBVIOUS
<1>2. Append(f, e) \in Seq(S) /\ Len(Append(f, e)) = n + 1
  BY <1>1
<1> QED
  BY <1>2, SequenceIsFunction

LEMMA LargerRange ==
  ASSUME NEW S, NEW T, S \subseteq T, NEW s \in Seq(S)
  PROVE  s \in Seq(T)
OBVIOUS

\* Between two calls nothing is left of a search.
LEMMA IdleStep ==
  ASSUME pc' = "idle", at' = <<>>, rows' = <<>>, paths' = <<>>, limit' \in Nat,
         doms' \in Seq(Seq(Int)), BoundedDomains',
         cons' \in Seq([a : Variables', b : Variables', kind : Kinds]),
         flags' \in [Constraints' -> BOOLEAN],
         value' \in [Variables' -> Int], assigned' \in [Variables' -> BOOLEAN],
         found' \in Nat, status' \in {OK, ERROR, INVALID, NO_SOLUTION}
  PROVE  StackInv'
<1>1. \A v \in Variables' : Len(doms'[v]) > 0
  BY DEF BoundedDomains
<1>2. at' \in Seq(Nat) /\ rows' \in Seq([Variables' -> Int]) /\ paths' \in Seq(Seq(Nat))
  OBVIOUS
<1>3. TypeOK'
  BY <1>1, <1>2 DEF TypeOK
<1> QED
  BY <1>3 DEF StackInv, Stacked, Placed, Compatible, Buffered, Searching

LEMMA AddVariableStep == ASSUME StackInv, AddVariable PROVE StackInv'
<1>1. /\ TypeOK /\ BoundedDomains /\ pc' = "idle"
      /\ at' = <<>> /\ rows' = <<>> /\ paths' = <<>> /\ limit' = limit
      /\ cons' = cons /\ flags' = flags /\ found' = found
  BY DEF AddVariable, StackInv, Stacked, search
<1>2. /\ doms \in Seq(Seq(Int)) /\ Len(doms) \in Nat /\ limit \in Nat /\ found \in Nat
      /\ cons \in Seq([a : Variables, b : Variables, kind : Kinds])
      /\ flags' \in [Constraints' -> BOOLEAN]
      /\ value \in [1 .. Len(doms) -> Int] /\ assigned \in [1 .. Len(doms) -> BOOLEAN]
  BY <1>1 DEF TypeOK, Variables, Constraints
<1>3. PICK d \in Domains :
        \/ /\ Len(d) \in 1 .. MaxDomain
           /\ doms' = Append(doms, d)
           /\ value' = Append(value, 0)
           /\ assigned' = Append(assigned, FALSE)
           /\ status' = OK
        \/ /\ status' \in {ERROR, INVALID}
           /\ UNCHANGED <<doms, value, assigned>>
  BY DEF AddVariable
<1>4. CASE UNCHANGED <<doms, value, assigned>> /\ status' \in {OK, ERROR, INVALID}
  <2>1. Variables' = Variables /\ BoundedDomains'
    BY <1>1, <1>4 DEF Variables, BoundedDomains
  <2> QED
    BY <1>1, <1>2, <1>4, <2>1, IdleStep DEF Variables
<1>5. CASE /\ Len(d) \in 1 .. MaxDomain /\ doms' = Append(doms, d)
           /\ value' = Append(value, 0) /\ assigned' = Append(assigned, FALSE)
           /\ status' = OK
  <2>1. d \in Seq(Int)
    BY SolverAssumption DEF SolverAssumption
  <2>2. doms' \in Seq(Seq(Int)) /\ Len(doms') = Len(doms) + 1
    BY <1>2, <1>5, <2>1
  <2>3. \A v \in 1 .. Len(doms) + 1 :
          doms'[v] = IF v = Len(doms) + 1 THEN d ELSE doms[v]
    BY <1>2, <1>5, <2>1
  <2>4. Variables' = 1 .. Len(doms) + 1 /\ Variables \subseteq Variables'
    BY <1>2, <2>2 DEF Variables
  <2>5. BoundedDomains'
    BY <1>1, <1>2, <1>5, <2>1, <2>3, <2>4 DEF BoundedDomains, Variables
  <2>6. value' \in [Variables' -> Int]
    <3>1. 0 \in Int
      OBVIOUS
    <3> QED
      BY <1>2, <1>5, <2>4, <3>1, OneMore
  <2>7. assigned' \in [Variables' -> BOOLEAN]
    <3>1. FALSE \in BOOLEAN
      OBVIOUS
    <3> QED
      BY <1>2, <1>5, <2>4, <3>1, OneMore
  <2>8. cons' \in Seq([a : Variables', b : Variables', kind : Kinds])
    <3> DEFINE C == [a : Variables, b : Variables, kind : Kinds]
               D == [a : Variables', b : Variables', kind : Kinds]
    <3>1. C \subseteq D
      BY <2>4
    <3>2. cons \in Seq(C)
      BY <1>2
    <3> HIDE DEF C, D
    <3>3. cons \in Seq(D)
      BY <3>1, <3>2, LargerRange
    <3> QED
      BY <1>1, <3>3 DEF D
  <2> QED
    BY <1>1, <1>2, <1>5, <2>2, <2>5, <2>6, <2>7, <2>8, IdleStep
<1> QED
  BY <1>3, <1>4, <1>5

LEMMA AddConstraintStep == ASSUME StackInv, AddConstraint PROVE StackInv'
<1>1. /\ TypeOK /\ BoundedDomains /\ pc' = "idle"
      /\ at' = <<>> /\ rows' = <<>> /\ paths' = <<>> /\ limit' = limit
      /\ doms' = doms /\ value' = value /\ assigned' = assigned /\ found' = found
  BY DEF AddConstraint, StackInv, Stacked, search
<1>2. Variables' = Variables /\ BoundedDomains'
  BY <1>1 DEF BoundedDomains, Variables
<1>3. /\ doms' \in Seq(Seq(Int)) /\ Len(doms) \in Nat /\ limit' \in Nat /\ found' \in Nat
      /\ cons \in Seq([a : Variables, b : Variables, kind : Kinds]) /\ Len(cons) \in Nat
      /\ flags \in [1 .. Len(cons) -> BOOLEAN]
      /\ value' \in [Variables' -> Int] /\ assigned' \in [Variables' -> BOOLEAN]
  BY <1>1, <1>2 DEF TypeOK, Constraints
<1>4. PICK a \in 1 .. MaxVariables, b \in 1 .. MaxVariables, kind \in Kinds :
        \/ /\ a <= Len(doms) /\ b <= Len(doms)
           /\ cons' = Append(cons, [a |-> a, b |-> b, kind |-> kind])
           /\ flags' = Append(flags, FALSE)
           /\ status' = OK
        \/ status' \in {ERROR, INVALID} /\ UNCHANGED <<cons, flags>>
  BY DEF AddConstraint
<1>5. CASE UNCHANGED <<cons, flags>> /\ status' \in {ERROR, INVALID}
  BY <1>1, <1>2, <1>3, <1>5, IdleStep DEF Constraints
<1>6. CASE /\ a <= Len(doms) /\ b <= Len(doms)
           /\ cons' = Append(cons, [a |-> a, b |-> b, kind |-> kind])
           /\ flags' = Append(flags, FALSE) /\ status' = OK
  <2> DEFINE C == [a : Variables, b : Variables, kind : Kinds]
  <2>1. [a |-> a, b |-> b, kind |-> kind] \in C
    BY <1>3, <1>6 DEF Variables
  <2>2. cons' \in Seq(C) /\ Len(cons') = Len(cons) + 1
    BY <1>3, <1>6, <2>1
  <2>3. flags' \in [1 .. Len(cons) + 1 -> BOOLEAN]
    <3>1. FALSE \in BOOLEAN
      OBVIOUS
    <3> QED
      BY <1>3, <1>6, <3>1, OneMore
  <2> QED
    BY <1>1, <1>2, <1>3, <1>6, <2>2, <2>3, IdleStep DEF Constraints
<1> QED
  BY <1>4, <1>5, <1>6

LEMMA ResetStep == ASSUME StackInv, Reset PROVE StackInv'
<1>1. /\ TypeOK /\ BoundedDomains /\ pc' = "idle" /\ doms' = doms /\ cons' = cons
      /\ at' = <<>> /\ rows' = <<>> /\ paths' = <<>> /\ limit' = limit
      /\ assigned' = Nothing /\ value' = Zeroes /\ found' = 0 /\ status' = OK
      /\ flags' = [i \in Constraints |-> FALSE]
  BY DEF Reset, StackInv, Stacked, search, problem
<1>2. Variables' = Variables /\ Constraints' = Constraints /\ BoundedDomains'
  BY <1>1 DEF BoundedDomains, Variables, Constraints
<1> QED
  BY <1>1, <1>2, IdleStep DEF TypeOK, Nothing, Zeroes

LEMMA SolveNothingStep == ASSUME StackInv, SolveNothing PROVE StackInv'
<1>1. /\ TypeOK /\ BoundedDomains /\ pc' = "idle" /\ doms' = doms /\ cons' = cons
      /\ at' = <<>> /\ rows' = <<>> /\ paths' = <<>> /\ limit' = limit
      /\ assigned' = assigned /\ value' = value /\ found' = found /\ flags' = flags
      /\ status' = INVALID
  BY DEF SolveNothing, StackInv, Stacked, search, problem
<1>2. Variables' = Variables /\ Constraints' = Constraints /\ BoundedDomains'
  BY <1>1 DEF BoundedDomains, Variables, Constraints
<1> QED
  BY <1>1, <1>2, IdleStep DEF TypeOK

-----------------------------------------------------------------------------
(* The search                                                              *)

\* A constraint is between two of the variables.
LEMMA ConstraintIndices ==
  ASSUME cons \in Seq([a : Variables, b : Variables, kind : Kinds])
  PROVE  \A i \in Constraints : cons[i].a \in Variables /\ cons[i].b \in Variables
<1> DEFINE C == [a : Variables, b : Variables, kind : Kinds]
<1>1. \A c \in C : c.a \in Variables /\ c.b \in Variables
  OBVIOUS
<1>2. cons \in Seq(C)
  OBVIOUS
<1> HIDE DEF C
<1>3. \A i \in Constraints : cons[i] \in C
  BY <1>2 DEF Constraints
<1> QED
  BY <1>1, <1>3

\* What a step of the search takes from the invariant.
LEMMA SearchFacts ==
  ASSUME StackInv, pc # "idle"
  PROVE  /\ doms \in Seq(Seq(Int)) /\ Len(doms) \in Nat \ {0}
         /\ \A v \in Variables : doms[v] \in Seq(Int) /\ Len(doms[v]) \in 1 .. MaxDomain
         /\ cons \in Seq([a : Variables, b : Variables, kind : Kinds])
         /\ \A i \in Constraints : cons[i].a \in Variables /\ cons[i].b \in Variables
         /\ value \in [Variables -> Int] /\ assigned \in [Variables -> BOOLEAN]
         /\ at \in Seq(Nat) /\ Level \in 1 .. Len(doms) /\ Level \in Variables
         /\ at[Level] \in Nat
         /\ limit \in Nat \ {0} /\ Variables = 1 .. Len(doms)
<1>1. TypeOK /\ BoundedDomains /\ Stacked
  BY DEF StackInv
<1>2. /\ doms \in Seq(Seq(Int)) /\ at \in Seq(Nat) /\ limit \in Nat
      /\ value \in [Variables -> Int] /\ assigned \in [Variables -> BOOLEAN]
      /\ cons \in Seq([a : Variables, b : Variables, kind : Kinds])
  BY <1>1 DEF TypeOK
<1>3. Level \in 1 .. Len(doms) /\ limit > 0
  BY <1>1 DEF Stacked
<1>4. Len(doms) \in Nat /\ Variables = 1 .. Len(doms) /\ Constraints = DOMAIN cons
  BY <1>2 DEF Variables, Constraints
<1>5. \A v \in Variables : doms[v] \in Seq(Int) /\ Len(doms[v]) \in 1 .. MaxDomain
  BY <1>1, <1>2, <1>4 DEF BoundedDomains
<1>6. \A i \in Constraints : cons[i].a \in Variables /\ cons[i].b \in Variables
  BY <1>2, ConstraintIndices
<1>7. Level \in Variables /\ at[Level] \in Nat
  BY <1>2, <1>3, <1>4 DEF Level
<1> QED
  BY <1>2, <1>3, <1>4, <1>5, <1>6, <1>7

LEMMA SolveStep == ASSUME StackInv, Solve PROVE StackInv'
<1>1. /\ TypeOK /\ BoundedDomains /\ Stacked /\ pc' = "try" /\ doms' = doms /\ cons' = cons
      /\ at' = <<0>> /\ rows' = <<>> /\ paths' = <<>> /\ limit' \in Limits
      /\ assigned' = Nothing /\ value' = Zeroes /\ found' = found /\ flags' = flags
      /\ status' = status /\ doms # <<>>
  BY DEF Solve, StackInv, problem
<1>2. Variables' = Variables /\ Constraints' = Constraints /\ BoundedDomains'
  BY <1>1 DEF BoundedDomains, Variables, Constraints
<1>3. /\ at' \in Seq(Nat) /\ Len(at') = 1 /\ at'[1] = 0 /\ limit' \in Nat /\ limit' > 0
      /\ Len(doms) \in Nat /\ Len(doms) > 0 /\ Len(rows') = 0
      /\ rows' \in Seq([Variables -> Int]) /\ paths' \in Seq(Seq(Nat))
  BY <1>1, SolverAssumption DEF TypeOK, SolverAssumption
<1>4. /\ assigned' \in [Variables -> BOOLEAN] /\ value' \in [Variables -> Int]
      /\ \A v \in Variables : ~assigned'[v]
  BY <1>1 DEF Nothing, Zeroes
<1>5. TypeOK'
  BY <1>1, <1>2, <1>3, <1>4 DEF TypeOK
<1>6. Stacked'
  BY <1>1, <1>2, <1>3 DEF Stacked, Level, BoundedDomains, Variables
<1>7. Placed'
  BY <1>1, <1>2, <1>3, <1>4 DEF Placed, Searching, Level, Variables
<1>8. Compatible'
  <2>1. ASSUME NEW i \in Constraints PROVE ~Decidable(i, assigned')
    BY <1>1, <1>4, ConstraintIndices DEF TypeOK, Decidable
  <2> QED
    BY <1>1, <1>2, <2>1 DEF Compatible, Decidable
<1>9. Buffered'
  BY <1>1, <1>3 DEF Buffered, Searching
<1> QED
  BY <1>2, <1>5, <1>6, <1>7, <1>8, <1>9 DEF StackInv

LEMMA ReturnStep == ASSUME StackInv, Return PROVE StackInv'
<1>1. /\ TypeOK /\ BoundedDomains /\ pc' = "idle" /\ doms' = doms /\ cons' = cons
      /\ at' = <<>> /\ rows' = <<>> /\ paths' = <<>> /\ limit' = 0
      /\ assigned' = assigned /\ value' = value /\ flags' = flags
      /\ found' = Len(rows) /\ status' \in {OK, NO_SOLUTION}
  BY DEF Return, StackInv, problem
<1>2. Variables' = Variables /\ Constraints' = Constraints /\ BoundedDomains'
  BY <1>1 DEF BoundedDomains, Variables, Constraints
<1>3. found' \in Nat
  BY <1>1 DEF TypeOK
<1> QED
  BY <1>1, <1>2, <1>3, IdleStep DEF TypeOK

\* What is left alone by a step of the search.
LEMMA SameProblem ==
  ASSUME StackInv, doms' = doms, cons' = cons
  PROVE  Variables' = Variables /\ Constraints' = Constraints /\ BoundedDomains'
BY DEF StackInv, BoundedDomains, Variables, Constraints

\* Constraints between variables that were not touched stay as they were.
LEMMA Untouched ==
  ASSUME StackInv, pc # "idle", NEW i \in Constraints, NEW val,
         \A v \in Variables : v # Level => val[v] = value[v],
         Satisfied(i, value), cons[i].a # Level, cons[i].b # Level
  PROVE  Satisfied(i, val)
BY SearchFacts DEF Satisfied

\* A level puts value d of its domain into its variable, and goes on from there.
Tries(d, on, val, next) ==
  /\ d \in 1 .. Len(doms[Level]) /\ d = at[Level] + 1
  /\ on \in [Variables -> BOOLEAN]
  /\ \A v \in Variables : on[v] <=> v < Level \/ v = Level
  /\ val \in [Variables -> Int] /\ val[Level] = doms[Level][d]
  /\ \A v \in Variables : v # Level => val[v] = value[v]
  /\ next \in Seq(Nat) /\ Len(next) = Level /\ next[Level] = d
  /\ \A v \in 1 .. Level : v # Level => next[v] = at[v]
  /\ value' = val
  /\ \/ /\ ~Consistent(Level, on, val)
        /\ at' = next /\ pc' = "try" /\ assigned' = assigned
     \/ /\ Consistent(Level, on, val) /\ assigned' = on
        /\ \/ Level = Len(doms) /\ at' = next /\ pc' = "record"
           \/ Level # Len(doms) /\ at' = Append(next, 0) /\ pc' = "try"

LEMMA TryTries == ASSUME StackInv, Try PROVE \E d, on, val, next : Tries(d, on, val, next)
<1> DEFINE d == at[Level] + 1
           on == [assigned EXCEPT ![Level] = TRUE]
           val == [value EXCEPT ![Level] = doms[Level][d]]
           next == [at EXCEPT ![Level] = d]
<1>1. pc = "try" /\ at[Level] # Len(doms[Level])
  BY DEF Try, Exhausted
<1>2. /\ at \in Seq(Nat) /\ at[Level] \in Nat /\ Level \in Variables
      /\ doms[Level] \in Seq(Int) /\ Len(doms[Level]) \in Nat
      /\ value \in [Variables -> Int] /\ assigned \in [Variables -> BOOLEAN]
      /\ Level \in Nat \ {0} /\ Level = Len(at)
  <2>1. Level \in Variables /\ Level \in 1 .. Len(doms) /\ Len(doms) \in Nat
    BY <1>1, SearchFacts
  <2>2. doms[Level] \in Seq(Int) /\ Len(doms[Level]) \in Nat
    BY <1>1, <2>1, SearchFacts
  <2> QED
    BY <1>1, <2>1, <2>2, SearchFacts DEF Level
<1>3. d \in 1 .. Len(doms[Level])
  <2>1. at[Level] <= Len(doms[Level])
    BY <1>1, <1>2, SearchFacts DEF StackInv, Stacked
  <2> QED
    BY <1>1, <1>2, <2>1
<1>4. /\ value' = val
      /\ \/ /\ ~Consistent(Level, on, val)
            /\ at' = next /\ pc' = "try" /\ assigned' = assigned
         \/ /\ Consistent(Level, on, val) /\ assigned' = on
            /\ \/ Level = Len(doms) /\ at' = next /\ pc' = "record"
               \/ Level # Len(doms) /\ at' = Append(next, 0) /\ pc' = "try"
  BY DEF Try
<1>5. doms[Level][d] \in Int
  BY <1>2, <1>3
<1>6. on \in [Variables -> BOOLEAN] /\ \A v \in Variables : on[v] <=> v < Level \/ v = Level
  <2>1. \A v \in Variables : assigned[v] <=> v < Level
    BY <1>1 DEF StackInv, Placed
  <2> QED
    BY <1>2, <2>1
<1>7. /\ val \in [Variables -> Int] /\ val[Level] = doms[Level][d]
      /\ \A v \in Variables : v # Level => val[v] = value[v]
  BY <1>2, <1>5
<1>8. /\ next \in Seq(Nat) /\ Len(next) = Level /\ next[Level] = d
      /\ \A v \in 1 .. Level : v # Level => next[v] = at[v]
  BY <1>2, <1>3
<1>9. d = at[Level] + 1
  OBVIOUS
<1> HIDE DEF d, on, val, next
<1>10. Tries(d, on, val, next)
  BY <1>3, <1>4, <1>6, <1>7, <1>8, <1>9 DEF Tries
<1> QED
  BY <1>10

LEMMA TryStep == ASSUME StackInv, Try PROVE StackInv'
<1>1. /\ pc = "try" /\ doms' = doms /\ cons' = cons /\ flags' = flags /\ found' = found
      /\ status' = status /\ limit' = limit /\ rows' = rows /\ paths' = paths
  BY DEF Try, problem
<1>2. PICK d, on, val, next : Tries(d, on, val, next)
  BY TryTries
<1>3. /\ Variables' = Variables /\ Constraints' = Constraints /\ BoundedDomains'
      /\ TypeOK /\ Stacked /\ Placed /\ Compatible /\ Buffered
  BY <1>1, SameProblem DEF StackInv
<1>4. /\ Variables = 1 .. Len(doms) /\ Len(doms) \in Nat \ {0}
      /\ Level \in Variables /\ Level \in Nat \ {0} /\ Level <= Len(doms)
      /\ \A v \in Variables : Len(doms[v]) \in Nat \ {0}
      /\ at \in Seq(Nat) /\ Len(at) = Level /\ at[Level] \in Nat
      /\ assigned \in [Variables -> BOOLEAN]
  <2>1. \A v \in Variables : Len(doms[v]) \in Nat \ {0}
    <3>1. \A v \in Variables : doms[v] \in Seq(Int) /\ Len(doms[v]) \in 1 .. MaxDomain
      BY <1>1, SearchFacts
    <3> QED
      BY <3>1
  <2> QED
    BY <1>1, <2>1, SearchFacts DEF Level
<1>5. /\ d \in Nat \ {0} /\ d <= Len(doms[Level])
      /\ on \in [Variables -> BOOLEAN]
      /\ \A v \in Variables : on[v] <=> v < Level \/ v = Level
      /\ val \in [Variables -> Int] /\ val[Level] = doms[Level][d]
      /\ \A v \in Variables : v # Level => val[v] = value[v]
      /\ next \in Seq(Nat) /\ Len(next) = Level /\ next[Level] = d
      /\ \A v \in 1 .. Level : v # Level => next[v] = at[v]
      /\ value' = val
  BY <1>2, <1>4 DEF Tries
<1>6. /\ at' \in Seq(Nat) /\ Len(at') \in {Level, Level + 1} /\ Len(at') <= Len(doms)
      /\ \A v \in 1 .. Level : at'[v] = next[v]
      /\ Len(at') = Level + 1 => pc' = "try" /\ at'[Level + 1] = 0 /\ assigned' = on
      /\ Len(at') = Level /\ pc' = "try" => assigned' = assigned
      /\ pc' = "record" => Len(at') = Level /\ Level = Len(doms) /\ assigned' = on
      /\ pc' \in {"try", "record"}
  <2>1. CASE Level # Len(doms) /\ at' = Append(next, 0) /\ pc' = "try" /\ assigned' = on
    <3>1. /\ at' \in Seq(Nat) /\ Len(at') = Level + 1 /\ at'[Level + 1] = 0
          /\ \A v \in 1 .. Level : at'[v] = next[v]
      BY <1>4, <1>5, <2>1
    <3> QED
      BY <1>4, <2>1, <3>1
  <2>2. CASE at' = next
    BY <1>2, <1>4, <1>5, <2>2, <2>1 DEF Tries
  <2> QED
    BY <1>2, <2>1, <2>2 DEF Tries
<1>7. assigned' = on \/ assigned' = assigned
  BY <1>2 DEF Tries
<1>8. TypeOK'
  BY <1>1, <1>3, <1>4, <1>5, <1>6, <1>7 DEF TypeOK
<1>9. Stacked'
  <2>1. limit > 0 /\ \A v \in 1 .. Level : at[v] <= Len(doms[v]) /\ (v < Level => at[v] > 0)
    BY <1>1, <1>3 DEF Stacked
  <2>2. ASSUME NEW v \in 1 .. Len(at')
        PROVE  at'[v] <= Len(doms[v]) /\ (v < Len(at') => at'[v] > 0)
    <3>1. CASE v < Level
      <4>0. v \in 1 .. Level /\ v # Level
        BY <1>4, <3>1
      <4>1. at'[v] = next[v] /\ next[v] = at[v]
        BY <1>5, <1>6, <4>0
      <4>2. Len(at') >= Level
        BY <1>4, <1>6
      <4> QED
        BY <2>1, <3>1, <4>0, <4>1, <4>2
    <3>2. CASE v = Level
      <4>0. v \in 1 .. Level
        BY <1>4, <3>2
      <4>1. at'[v] = d /\ d <= Len(doms[v]) /\ d > 0
        BY <1>5, <1>6, <3>2, <4>0
      <4> QED
        BY <1>4, <1>5, <4>1
    <3>3. CASE v = Level + 1
      BY <1>4, <1>6, <2>2, <3>3
    <3> QED
      BY <1>4, <1>6, <2>2, <3>1, <3>2, <3>3
  <2>3. pc' = "record" => at'[Len(at')] > 0
    BY <1>4, <1>5, <1>6
  <2> QED
    BY <1>1, <1>4, <1>6, <2>1, <2>2, <2>3 DEF Stacked, Level
<1>10. \A v \in Variables : assigned[v] <=> v < Level
  BY <1>1, <1>3 DEF Placed
<1>11. Placed'
  <2>1. \A v \in Variables : assigned[v] => value[v] = doms[v][at[v]]
    BY <1>1, <1>3 DEF Placed, Searching
  <2>2. ASSUME pc' = "try", NEW v \in Variables PROVE assigned'[v] <=> v < Len(at')
    <3>1. CASE Len(at') = Level + 1
      <4>1. assigned'[v] <=> v < Level \/ v = Level
        BY <1>5, <1>6, <3>1
      <4> QED
        BY <1>4, <3>1, <4>1
    <3>2. CASE Len(at') = Level
      <4>1. assigned'[v] <=> v < Level
        BY <1>6, <1>10, <2>2, <3>2
      <4> QED
        BY <3>2, <4>1
    <3> QED
      BY <1>6, <3>1, <3>2
  <2>3. ASSUME pc' = "record", NEW v \in Variables PROVE assigned'[v]
    BY <1>4, <1>5, <1>6, <2>3
  <2>4. ASSUME NEW v \in Variables, assigned'[v] PROVE val[v] = doms[v][at'[v]]
    <3>1. v < Level \/ v = Level
      BY <1>5, <1>7, <1>10, <2>4
    <3>2. CASE v = Level
      <4>1. at'[v] = d /\ val[v] = doms[v][d]
        BY <1>4, <1>5, <1>6, <3>2
      <4> QED
        BY <4>1
    <3>3. CASE v < Level
      <4>1. v \in 1 .. Level /\ v # Level
        BY <1>4, <3>3
      <4>2. at'[v] = at[v] /\ val[v] = value[v] /\ value[v] = doms[v][at[v]]
        BY <1>5, <1>6, <1>10, <2>1, <3>3, <4>1
      <4> QED
        BY <4>2
    <3> QED
      BY <3>1, <3>2, <3>3
  <2> QED
    BY <1>1, <1>3, <1>5, <2>2, <2>3, <2>4 DEF Placed, Searching, Level
<1>12. Compatible'
  <2>1. ASSUME NEW i \in Constraints, Decidable(i, assigned') PROVE Satisfied(i, val)
    <3>1. cons[i].a \in Variables /\ cons[i].b \in Variables
      BY <1>1, SearchFacts
    <3>2. CASE Level \in {cons[i].a, cons[i].b}
      <4>1. ~assigned[Level]
        BY <1>4, <1>10
      <4>2. assigned' # assigned
        BY <2>1, <3>2, <4>1 DEF Decidable
      <4>3. assigned' = on /\ Consistent(Level, on, val)
        BY <1>2, <4>2 DEF Tries
      <4> QED
        BY <2>1, <3>2, <4>3 DEF Consistent
    <3>3. CASE Level # cons[i].a /\ Level # cons[i].b
      <4>1. \A v \in Variables : v # Level /\ assigned'[v] => assigned[v]
        BY <1>5, <1>7, <1>10
      <4>2. Decidable(i, assigned)
        BY <2>1, <3>1, <3>3, <4>1 DEF Decidable
      <4>3. Satisfied(i, value)
        BY <1>1, <1>3, <4>2 DEF Compatible, Searching
      <4> QED
        BY <1>1, <1>5, <3>3, <4>3, Untouched
    <3> QED
      BY <3>2, <3>3
  <2> QED
    BY <1>1, <1>3, <1>5, <2>1 DEF Compatible, Decidable, Satisfied
<1>13. Buffered'
  BY <1>1, <1>3, <1>6 DEF Buffered, Searching
<1> QED
  BY <1>3, <1>8, <1>9, <1>11, <1>12, <1>13 DEF StackInv

LEMMA RecordStep == ASSUME StackInv, Record PROVE StackInv'
<1>1. /\ pc = "record" /\ doms' = doms /\ cons' = cons /\ value' = value /\ found' = found
      /\ status' = status /\ at' = at /\ limit' = limit
      /\ rows' = Append(rows, value) /\ paths' = Append(paths, at)
      /\ flags' = [i \in Constraints |-> Decidable(i, assigned) /\ Satisfied(i, value)]
      /\ \/ Len(rows) + 1 >= limit /\ assigned' = Nothing /\ pc' = "return"
         \/ /\ ~(Len(rows) + 1 >= limit) /\ pc' = "try"
            /\ assigned' = [assigned EXCEPT ![Level] = FALSE]
  BY DEF Record, problem
<1>2. /\ Variables' = Variables /\ Constraints' = Constraints /\ BoundedDomains'
      /\ TypeOK /\ Stacked /\ Placed /\ Compatible /\ Buffered /\ Level' = Level
  BY <1>1, SameProblem DEF StackInv, Level
<1>3. /\ Variables = 1 .. Len(doms) /\ Level = Len(doms) /\ Level \in Nat \ {0}
      /\ assigned \in [Variables -> BOOLEAN] /\ \A v \in Variables : assigned[v]
      /\ value \in [Variables -> Int] /\ at \in Seq(Nat) /\ limit \in Nat
      /\ Len(rows) < limit
  BY <1>1, <1>2, SearchFacts DEF Stacked, Placed, Buffered, Searching
<1>4. /\ rows \in Seq([Variables -> Int]) /\ paths \in Seq(Seq(Nat)) /\ Len(rows) \in Nat
  BY <1>2 DEF TypeOK
<1>5. /\ rows' \in Seq([Variables -> Int]) /\ Len(rows') = Len(rows) + 1
  BY <1>1, <1>3, <1>4
<1>6. paths' \in Seq(Seq(Nat))
  BY <1>1, <1>3, <1>4
<1>7. flags' \in [Constraints -> BOOLEAN]
  BY <1>1 DEF Decidable
<1>8. assigned' \in [Variables -> BOOLEAN]
  BY <1>1, <1>3 DEF Nothing
<1>9. pc' = "try" => \A v \in Variables : assigned'[v] <=> v < Level
  BY <1>1, <1>3
<1>10. TypeOK'
  BY <1>1, <1>2, <1>5, <1>6, <1>7, <1>8 DEF TypeOK
<1>11. Stacked'
  BY <1>1, <1>2 DEF Stacked, Level
<1>12. Placed'
  BY <1>1, <1>2, <1>3, <1>9 DEF Placed, Searching, Level
<1>13. Compatible'
  <2>1. ASSUME NEW i \in Constraints PROVE Satisfied(i, value)
    <3>1. cons[i].a \in Variables /\ cons[i].b \in Variables
      BY <1>1, SearchFacts
    <3> QED
      BY <1>1, <1>2, <1>3, <3>1 DEF Compatible, Searching, Decidable
  <2> QED
    BY <1>1, <1>2, <2>1 DEF Compatible, Satisfied
<1>14. Buffered'
  BY <1>1, <1>2, <1>3, <1>4, <1>5 DEF Buffered, Searching
<1> QED
  BY <1>2, <1>10, <1>11, <1>12, <1>13, <1>14 DEF StackInv

LEMMA BacktrackStep == ASSUME StackInv, Backtrack PROVE StackInv'
<1>1. /\ pc = "try" /\ Exhausted /\ doms' = doms /\ cons' = cons /\ value' = value
      /\ found' = found /\ flags' = flags /\ status' = status /\ limit' = limit
      /\ rows' = rows /\ paths' = paths
      /\ \/ Level = 1 /\ pc' = "return" /\ assigned' = assigned /\ at' = at
         \/ /\ Level # 1 /\ pc' = "try" /\ assigned' = [assigned EXCEPT ![Level - 1] = FALSE]
            /\ at' = SubSeq(at, 1, Level - 1)
  BY DEF Backtrack, problem
<1>2. /\ Variables' = Variables /\ Constraints' = Constraints /\ BoundedDomains'
      /\ TypeOK /\ Stacked /\ Placed /\ Compatible /\ Buffered
  BY <1>1, SameProblem DEF StackInv
<1>3. /\ Variables = 1 .. Len(doms) /\ Len(doms) \in Nat /\ Level \in Nat \ {0}
      /\ Level <= Len(doms) /\ assigned \in [Variables -> BOOLEAN]
      /\ at \in Seq(Nat) /\ Len(at) = Level
  BY <1>1, SearchFacts DEF Level
<1>4. CASE Level = 1 /\ pc' = "return" /\ assigned' = assigned /\ at' = at
  <2>1. TypeOK' /\ Stacked' /\ Placed' /\ Compatible'
    BY <1>1, <1>2, <1>4 DEF TypeOK, Stacked, Placed, Compatible, Searching, Level
  <2>2. Buffered'
    BY <1>1, <1>2, <1>4 DEF Buffered, Searching, Exhausted, Level
  <2> QED
    BY <1>2, <2>1, <2>2 DEF StackInv
<1>5. CASE /\ Level # 1 /\ pc' = "try" /\ assigned' = [assigned EXCEPT ![Level - 1] = FALSE]
           /\ at' = SubSeq(at, 1, Level - 1)
  <2>1. /\ at' \in Seq(Nat) /\ Len(at') = Level - 1
        /\ \A v \in 1 .. Level - 1 : at'[v] = at[v]
    BY <1>3, <1>5
  <2>2. \A v \in Variables : assigned[v] <=> v < Level
    BY <1>1, <1>2 DEF Placed
  <2>3. /\ assigned' \in [Variables -> BOOLEAN]
        /\ \A v \in Variables : assigned'[v] <=> v < Level - 1
    BY <1>3, <1>5, <2>2
  <2>4. TypeOK'
    BY <1>1, <1>2, <1>5, <2>1, <2>3 DEF TypeOK
  <2>5. Stacked'
    <3>1. limit > 0 /\ \A v \in 1 .. Level : at[v] <= Len(doms[v]) /\ (v < Level => at[v] > 0)
      BY <1>1, <1>2 DEF Stacked
    <3>2. \A v \in 1 .. Len(at') : at'[v] <= Len(doms[v]) /\ (v < Len(at') => at'[v] > 0)
      BY <1>3, <1>5, <2>1, <3>1
    <3> QED
      BY <1>1, <1>3, <1>5, <2>1, <3>1, <3>2 DEF Stacked, Level
  <2>6. Placed'
    <3>1. \A v \in Variables : assigned[v] => value[v] = doms[v][at[v]]
      BY <1>1, <1>2 DEF Placed, Searching
    <3>2. \A v \in Variables : assigned'[v] => value[v] = doms[v][at'[v]]
      BY <1>3, <2>1, <2>2, <2>3, <3>1
    <3> QED
      BY <1>1, <1>2, <1>5, <2>1, <2>3, <3>2 DEF Placed, Searching, Level
  <2>7. Compatible'
    <3>1. ASSUME NEW i \in Constraints, Decidable(i, assigned') PROVE Satisfied(i, value)
      <4>1. cons[i].a \in Variables /\ cons[i].b \in Variables
        BY <1>1, SearchFacts
      <4>2. Decidable(i, assigned)
        BY <1>3, <2>2, <2>3, <3>1, <4>1 DEF Decidable
      <4> QED
        BY <1>1, <1>2, <4>2 DEF Compatible, Searching
    <3> QED
      BY <1>1, <1>2, <3>1 DEF Compatible, Decidable, Satisfied
  <2>8. Buffered'
    BY <1>1, <1>2, <1>5 DEF Buffered, Searching
  <2> QED
    BY <1>2, <2>4, <2>5, <2>6, <2>7, <2>8 DEF StackInv
<1> QED
  BY <1>1, <1>4, <1>5

LEMMA StackInit == ASSUME Init PROVE StackInv
<1>1. /\ doms = <<>> /\ cons = <<>> /\ flags = <<>> /\ value = <<>> /\ assigned = <<>>
      /\ found = 0 /\ status = OK /\ pc = "idle"
      /\ at = <<>> /\ limit = 0 /\ rows = <<>> /\ paths = <<>>
  BY DEF Init
<1>2. Variables = {} /\ Constraints = {}
  BY <1>1 DEF Variables, Constraints
<1>3. TypeOK
  BY <1>1, <1>2 DEF TypeOK
<1> QED
  BY <1>1, <1>2, <1>3
  DEF StackInv, BoundedDomains, Stacked, Placed, Compatible, Buffered, Searching

LEMMA StackStep == ASSUME StackInv, [Next]_vars PROVE StackInv'
<1>1. CASE UNCHANGED vars
  BY <1>1 DEF vars, problem, search, StackInv, TypeOK, BoundedDomains, Stacked, Placed,
     Compatible, Buffered, Searching, Variables, Constraints, Level, Exhausted, Decidable,
     Satisfied
<1> QED
  BY <1>1, AddVariableStep, AddConstraintStep, ResetStep, SolveStep, SolveNothingStep,
     TryStep, RecordStep, BacktrackStep, ReturnStep DEF Next, Search

LEMMA StackInvariant == Spec => []StackInv
BY StackInit, StackStep, PTL DEF Spec

\* Building, resetting and solving in any order keep the arrays in step with one
\* another and every index in range (constraint_solver.c).
THEOREM SolverTypeCorrect == Spec => []TypeOK
<1>1. StackInv => TypeOK
  BY DEF StackInv
<1> QED
  BY <1>1, StackInvariant, PTL

-----------------------------------------------------------------------------
(* What the search has behind it                                           *)

\* A vector has a position in the domain of every variable.
LEMMA VectorFacts ==
  ASSUME NEW s \in Vectors
  PROVE  \A v \in Variables : s[v] \in Nat \ {0} /\ s[v] <= Len(doms[v])
<1>1. s \in [Variables -> 1 .. MaxDomain] /\ \A v \in Variables : s[v] <= Len(doms[v])
  BY DEF Vectors
<1> QED
  BY <1>1, SolverAssumption DEF SolverAssumption

\* Steps that neither record a row nor pass a solution.
LEMMA NothingPassed ==
  ASSUME FindsExactly, pc # "idle", doms' = doms, cons' = cons, rows' = rows, paths' = paths,
         \A s \in Vectors : Solution(s) => (Done(s) <=> Done(s)')
  PROVE  FindsExactly'
<1>1. Variables' = Variables /\ Constraints' = Constraints
  BY DEF Variables, Constraints
<1>2. Vectors' = Vectors
  BY <1>1 DEF Vectors
<1>3. \A s : ValuesOf(s)' = ValuesOf(s)
  BY <1>1 DEF ValuesOf
<1>4. \A s : Solution(s)' <=> Solution(s)
  BY <1>1, <1>3 DEF Solution, Satisfied
<1>5. {s \in Vectors : Solution(s) /\ Done(s)}' = {s \in Vectors : Solution(s) /\ Done(s)}
  BY <1>2, <1>4
<1> QED
  BY <1>1, <1>3, <1>5 DEF FindsExactly, Before

\* A vector that goes on with the value just tried is a solution only if that
\* value is consistent: pruning loses nothing.
LEMMA PrunedNoSolution ==
  ASSUME StackInv, pc = "try", NEW d, NEW on, NEW val, NEW next, Tries(d, on, val, next),
         ~Consistent(Level, on, val),
         NEW s \in Vectors, \A v \in 1 .. Level : s[v] = next[v]
  PROVE  ~Solution(s)
<1>1. PICK i \in Constraints :
        Level \in {cons[i].a, cons[i].b} /\ Decidable(i, on) /\ ~Satisfied(i, val)
  BY DEF Consistent
<1>2. /\ Variables = 1 .. Len(doms) /\ Len(doms) \in Nat /\ Level \in Variables
      /\ cons[i].a \in Variables /\ cons[i].b \in Variables
  BY SearchFacts
<1>3. ASSUME NEW v \in Variables, on[v] PROVE val[v] = ValuesOf(s)[v]
  <2>1. v < Level \/ v = Level
    BY <1>3 DEF Tries
  <2>2. ValuesOf(s)[v] = doms[v][s[v]] /\ s[v] = next[v]
    BY <1>2, <2>1 DEF ValuesOf
  <2>3. CASE v = Level
    BY <2>2, <2>3 DEF Tries
  <2>4. CASE v < Level
    <3>1. assigned[v] /\ value[v] = doms[v][at[v]]
      BY <2>4 DEF StackInv, Placed, Searching
    <3>2. v # Level /\ v \in 1 .. Level
      BY <1>2, <2>4
    <3>3. val[v] = value[v] /\ next[v] = at[v]
      BY <3>2 DEF Tries
    <3> QED
      BY <2>2, <3>1, <3>3
  <2> QED
    BY <2>1, <2>3, <2>4
<1>4. val[cons[i].a] = ValuesOf(s)[cons[i].a] /\ val[cons[i].b] = ValuesOf(s)[cons[i].b]
  BY <1>1, <1>2, <1>3 DEF Decidable
<1> QED
  BY <1>1, <1>4 DEF Satisfied, Solution

LEMMA TryFinds == ASSUME StackInv, FindsExactly, Try PROVE FindsExactly'
<1>1. /\ pc = "try" /\ doms' = doms /\ cons' = cons /\ rows' = rows /\ paths' = paths
  BY DEF Try, problem
<1>2. PICK d, on, val, next : Tries(d, on, val, next)
  BY TryTries
<1>3. /\ Variables = 1 .. Len(doms) /\ Len(doms) \in Nat /\ Level \in Nat \ {0}
      /\ Level <= Len(doms) /\ at \in Seq(Nat) /\ at[Level] \in Nat /\ Len(at) = Level
  BY <1>1, SearchFacts DEF Level
<1>4. /\ d = at[Level] + 1 /\ next \in Seq(Nat) /\ Len(next) = Level /\ next[Level] = d
      /\ \A v \in 1 .. Level : v # Level => next[v] = at[v]
  BY <1>2 DEF Tries
<1>5. SUFFICES ASSUME NEW s \in Vectors, Solution(s) PROVE Done(s) <=> Done(s)'
  BY <1>1, NothingPassed
<1>6. \A v \in 1 .. Level : s[v] \in Nat \ {0}
  BY <1>3, VectorFacts
<1>7. Done(s) <=> \E v \in 1 .. Level :
                    (\A u \in 1 .. v - 1 : s[u] = next[u]) /\ s[v] < next[v]
  <2>1. ASSUME NEW v \in 1 .. Level
        PROVE  /\ (\A u \in 1 .. v - 1 : s[u] = at[u]) <=> (\A u \in 1 .. v - 1 : s[u] = next[u])
               /\ (s[v] < at[v] \/ (s[v] = at[v] /\ v = Level)) <=> s[v] < next[v]
    <3>1. \A u \in 1 .. v - 1 : u \in 1 .. Level /\ u # Level
      BY <1>3
    <3>2. \A u \in 1 .. v - 1 : next[u] = at[u]
      BY <1>4, <3>1
    <3>3. CASE v = Level
      BY <1>3, <1>4, <1>6, <3>2, <3>3
    <3>4. CASE v # Level
      BY <1>4, <3>2, <3>4
    <3> QED
      BY <3>3, <3>4
  <2> QED
    BY <1>1, <2>1 DEF Done
<1>8. CASE ~Consistent(Level, on, val) /\ at' = next /\ pc' = "try"
  <2>1. Level' = Level
    BY <1>4, <1>8 DEF Level
  <2>2. ~(\A v \in 1 .. Level : s[v] = next[v])
    BY <1>1, <1>2, <1>5, <1>8, PrunedNoSolution
  <2>3. ASSUME \A u \in 1 .. Level - 1 : s[u] = next[u] PROVE s[Level] # next[Level]
    <3>1. \A v \in 1 .. Level : v = Level \/ v \in 1 .. Level - 1
      BY <1>3
    <3> QED
      BY <2>2, <2>3, <3>1
  <2> QED
    BY <1>7, <1>8, <2>1, <2>3 DEF Done
<1>9. CASE at' = next /\ pc' = "record"
  <2>1. Level' = Level
    BY <1>4, <1>9 DEF Level
  <2> QED
    BY <1>7, <1>9, <2>1 DEF Done
<1>10. CASE Level # Len(doms) /\ at' = Append(next, 0) /\ pc' = "try"
  <2>1. /\ Level' = Level + 1 /\ at'[Level + 1] = 0 /\ \A v \in 1 .. Level : at'[v] = next[v]
    BY <1>3, <1>4, <1>10 DEF Level
  <2>2. s[Level + 1] \in Nat \ {0}
    BY <1>3, <1>10, VectorFacts
  <2>3. ASSUME NEW v \in 1 .. Level
        PROVE  (\A u \in 1 .. v - 1 : s[u] = at'[u]) <=> (\A u \in 1 .. v - 1 : s[u] = next[u])
    BY <1>3, <2>1
  <2>4. ASSUME NEW v \in 1 .. Level'
        PROVE  (s[v] < at'[v] \/ (s[v] = at'[v] /\ v = Level')) <=> v \in 1 .. Level /\ s[v] < next[v]
    <3>1. CASE v = Level + 1
      BY <1>3, <2>1, <2>2, <3>1
    <3>2. CASE v \in 1 .. Level
      BY <1>3, <2>1, <3>2
    <3> QED
      BY <1>3, <2>1, <3>1, <3>2
  <2>5. 1 .. Level \subseteq 1 .. Level'
    BY <1>3, <2>1
  <2> QED
    BY <1>7, <1>10, <2>3, <2>4, <2>5 DEF Done
<1> QED
  BY <1>2, <1>8, <1>9, <1>10 DEF Tries

LEMMA BacktrackFinds == ASSUME StackInv, FindsExactly, Backtrack PROVE FindsExactly'
<1>1. /\ pc = "try" /\ at[Level] = Len(doms[Level]) /\ doms' = doms /\ cons' = cons
      /\ rows' = rows /\ paths' = paths
      /\ \/ Level = 1 /\ pc' = "return" /\ at' = at
         \/ Level # 1 /\ pc' = "try" /\ at' = SubSeq(at, 1, Level - 1)
  BY DEF Backtrack, problem, Exhausted
<1>2. /\ Variables = 1 .. Len(doms) /\ Len(doms) \in Nat /\ Level \in Nat \ {0}
      /\ Level <= Len(doms) /\ at \in Seq(Nat) /\ at[Level] \in Nat /\ Len(at) = Level
  BY <1>1, SearchFacts DEF Level
<1>3. SUFFICES ASSUME NEW s \in Vectors PROVE Done(s) <=> Done(s)'
  BY <1>1, NothingPassed
<1>4. CASE Level = 1 /\ pc' = "return" /\ at' = at
  BY <1>1, <1>4 DEF Done, Level
<1>5. CASE Level # 1 /\ pc' = "try" /\ at' = SubSeq(at, 1, Level - 1)
  <2>1. /\ Level' = Level - 1 /\ \A v \in 1 .. Level - 1 : at'[v] = at[v]
    <3>1. Len(at') = Level - 1 /\ \A v \in 1 .. Level - 1 : at'[v] = at[v]
      BY <1>2, <1>5
    <3> QED
      BY <3>1 DEF Level
  <2>2. s[Level] \in Nat /\ s[Level] <= at[Level]
    BY <1>1, <1>2, VectorFacts
  <2>3. Done(s) <=> \/ \E v \in 1 .. Level - 1 :
                         (\A u \in 1 .. v - 1 : s[u] = at[u]) /\ s[v] < at[v]
                    \/ \A u \in 1 .. Level - 1 : s[u] = at[u]
    <3>1. \A v \in 1 .. Level : v = Level \/ v \in 1 .. Level - 1
      BY <1>2
    <3>2. Level \in 1 .. Level /\ \A v \in 1 .. Level - 1 : v \in 1 .. Level /\ v # Level
      BY <1>2
    <3>3. s[Level] < at[Level] \/ s[Level] = at[Level]
      BY <1>2, <2>2
    <3> QED
      BY <1>1, <3>1, <3>2, <3>3 DEF Done
  <2>4. Done(s)' <=> \E v \in 1 .. Level - 1 :
                       /\ \A u \in 1 .. v - 1 : s[u] = at[u]
                       /\ s[v] < at[v] \/ (s[v] = at[v] /\ v = Level - 1)
    <3>1. \A v \in 1 .. Level - 1 : \A u \in 1 .. v - 1 : u \in 1 .. Level - 1
      BY <1>2
    <3> QED
      BY <1>5, <2>1, <3>1 DEF Done
  <2>5. (\A u \in 1 .. Level - 1 : s[u] = at[u]) <=>
          (\A u \in 1 .. Level - 1 - 1 : s[u] = at[u]) /\ s[Level - 1] = at[Level - 1]
    <3>1. \A u \in 1 .. Level - 1 : u \in 1 .. Level - 1 - 1 \/ u = Level - 1
      BY <1>2
    <3>2. Level - 1 \in 1 .. Level - 1 /\ \A u \in 1 .. Level - 1 - 1 : u \in 1 .. Level - 1
      BY <1>2, <1>5
    <3> QED
      BY <3>1, <3>2
  <2>6. Level - 1 \in 1 .. Level - 1
    BY <1>2, <1>5
  <2> QED
    BY <2>3, <2>4, <2>5, <2>6
<1> QED
  BY <1>1, <1>4, <1>5

\* The vector that is recorded is a solution, and the next one after all found.
LEMMA Recorded ==
  ASSUME StackInv, pc = "record"
  PROVE  /\ at \in Vectors /\ value = ValuesOf(at) /\ Solution(at)
         /\ Variables = 1 .. Level /\ Level \in Nat \ {0}
<1>1. /\ Variables = 1 .. Len(doms) /\ Len(doms) \in Nat /\ Level = Len(doms)
      /\ Level \in Nat \ {0} /\ at \in Seq(Nat) /\ Len(at) = Level
      /\ value \in [Variables -> Int]
  BY SearchFacts DEF Level, StackInv, Stacked
<1>2. ASSUME NEW v \in Variables PROVE at[v] \in 1 .. MaxDomain /\ at[v] <= Len(doms[v])
  <2>1. at[v] \in Nat /\ at[v] <= Len(doms[v]) /\ at[v] > 0
    BY <1>1 DEF StackInv, Stacked
  <2>2. Len(doms[v]) \in 1 .. MaxDomain
    BY SearchFacts
  <2> QED
    BY <2>1, <2>2, SolverAssumption DEF SolverAssumption
<1>3. at \in [Variables -> 1 .. MaxDomain]
  BY <1>1, <1>2
<1>4. \A v \in Variables : value[v] = doms[v][at[v]] /\ assigned[v]
  BY DEF StackInv, Placed, Searching
<1>5. value = ValuesOf(at)
  BY <1>1, <1>4 DEF ValuesOf
<1>6. ASSUME NEW i \in Constraints PROVE Satisfied(i, value)
  <2>1. cons[i].a \in Variables /\ cons[i].b \in Variables
    BY SearchFacts
  <2> QED
    BY <1>4, <2>1 DEF StackInv, Compatible, Searching, Decidable
<1> QED
  BY <1>1, <1>2, <1>3, <1>5, <1>6 DEF Vectors, Solution

LEMMA RecordFinds == ASSUME StackInv, FindsExactly, Record PROVE FindsExactly'
<1>1. /\ pc = "record" /\ pc' \in {"try", "return"} /\ doms' = doms /\ cons' = cons
      /\ at' = at /\ rows' = Append(rows, value) /\ paths' = Append(paths, at)
  BY DEF Record, problem
<1>2. /\ at \in Vectors /\ value = ValuesOf(at) /\ Solution(at)
      /\ Variables = 1 .. Level /\ Level \in Nat \ {0}
  BY <1>1, Recorded
<1>3. /\ {paths[i] : i \in 1 .. Len(paths)} = {s \in Vectors : Solution(s) /\ Done(s)}
      /\ \A i, j \in 1 .. Len(paths) : i < j => Before(paths[i], paths[j])
      /\ rows = [i \in 1 .. Len(paths) |-> ValuesOf(paths[i])]
  BY <1>1 DEF FindsExactly
<1>4. /\ paths \in Seq(Seq(Nat)) /\ at \in Seq(Nat) /\ Len(paths) \in Nat
      /\ rows \in Seq([Variables -> Int]) /\ value \in [Variables -> Int]
  BY <1>1, SearchFacts DEF StackInv, TypeOK
<1>5. /\ paths' \in Seq(Seq(Nat)) /\ Len(paths') = Len(paths) + 1
      /\ paths'[Len(paths) + 1] = at
      /\ \A i \in 1 .. Len(paths) : paths'[i] = paths[i]
  BY <1>1, <1>4
<1>6. Variables' = Variables /\ Constraints' = Constraints /\ Level' = Level
  BY <1>1 DEF Variables, Constraints, Level
<1>7. Vectors' = Vectors
  BY <1>1, <1>6 DEF Vectors
<1>8. \A s : ValuesOf(s)' = ValuesOf(s)
  BY <1>1, <1>6 DEF ValuesOf
<1>9. \A s : Solution(s)' <=> Solution(s)
  BY <1>1, <1>6, <1>8 DEF Solution, Satisfied
<1>10. ASSUME NEW s \in Vectors PROVE Done(s)' <=> Done(s) \/ s = at
  <2>1. s \in [Variables -> 1 .. MaxDomain] /\ at \in [Variables -> 1 .. MaxDomain]
    BY <1>2 DEF Vectors
  <2>2. s = at <=> (\A u \in 1 .. Level - 1 : s[u] = at[u]) /\ s[Level] = at[Level]
    <3>1. \A v \in Variables : v = Level \/ v \in 1 .. Level - 1
      BY <1>2
    <3>2. ASSUME \A v \in Variables : s[v] = at[v] PROVE s = at
      BY <2>1, <3>2
    <3> QED
      BY <3>1, <3>2
  <2>3. Done(s) <=> \E v \in 1 .. Level : (\A u \in 1 .. v - 1 : s[u] = at[u]) /\ s[v] < at[v]
    BY <1>1 DEF Done
  <2>4. Done(s)' <=> \E v \in 1 .. Level : /\ \A u \in 1 .. v - 1 : s[u] = at[u]
                                           /\ s[v] < at[v] \/ (s[v] = at[v] /\ v = Level)
    BY <1>1, <1>6 DEF Done
  <2>5. Level \in 1 .. Level
    BY <1>2
  <2> QED
    BY <2>2, <2>3, <2>4, <2>5
<1>11. \A k : k \in {paths'[i] : i \in 1 .. Len(paths')}
                <=> k \in {paths[i] : i \in 1 .. Len(paths)} \/ k = at
  <2>1. /\ \A i \in 1 .. Len(paths') : i \in 1 .. Len(paths) \/ i = Len(paths) + 1
        /\ \A i \in 1 .. Len(paths) : i \in 1 .. Len(paths')
        /\ Len(paths) + 1 \in 1 .. Len(paths')
    BY <1>4, <1>5
  <2> QED
    BY <1>5, <2>1
<1>12. \A k : k \in {paths'[i] : i \in 1 .. Len(paths')}
                <=> k \in {s \in Vectors : Solution(s) /\ Done(s)}'
  BY <1>2, <1>3, <1>7, <1>9, <1>10, <1>11
<1>13. ASSUME NEW i \in 1 .. Len(paths'), NEW j \in 1 .. Len(paths'), i < j
       PROVE  Before(paths'[i], paths'[j])
  <2>1. i \in 1 .. Len(paths) /\ paths'[i] = paths[i]
    <3>1. Len(paths) \in Nat /\ Len(paths') = Len(paths) + 1
      BY <1>4, <1>5
    <3>2. i \in 1 .. Len(paths)
      BY <1>13, <3>1
    <3> QED
      BY <1>5, <3>2
  <2>2. CASE j \in 1 .. Len(paths)
    BY <1>3, <1>5, <1>13, <2>1, <2>2
  <2>3. CASE j = Len(paths) + 1
    <3>1. paths[i] \in {s \in Vectors : Solution(s) /\ Done(s)}
      BY <1>3, <2>1
    <3>2. Done(paths[i])
      BY <3>1
    <3>3. Before(paths[i], at)
      BY <1>1, <1>2, <3>2 DEF Before, Done
    <3> QED
      BY <1>5, <2>1, <2>3, <3>3
  <2> QED
    BY <1>4, <1>5, <2>2, <2>3
<1>14. rows' = [i \in 1 .. Len(paths') |-> ValuesOf(paths'[i])]
  <2>1. Len(rows) = Len(paths) /\ \A i \in 1 .. Len(paths) : rows[i] = ValuesOf(paths[i])
    BY <1>3, <1>4
  <2>2. /\ rows' \in Seq([Variables -> Int]) /\ Len(rows') = Len(paths) + 1
        /\ rows'[Len(paths) + 1] = value
        /\ \A i \in 1 .. Len(paths) : rows'[i] = rows[i]
    BY <1>1, <1>4, <2>1
  <2>3. \A i \in 1 .. Len(paths') : rows'[i] = ValuesOf(paths'[i])
    <3>1. \A i \in 1 .. Len(paths') : i \in 1 .. Len(paths) \/ i = Len(paths) + 1
      BY <1>4, <1>5
    <3>2. ASSUME NEW i \in 1 .. Len(paths) PROVE rows'[i] = ValuesOf(paths'[i])
      BY <1>5, <2>1, <2>2
    <3>3. rows'[Len(paths) + 1] = ValuesOf(paths'[Len(paths) + 1])
      BY <1>2, <1>5, <2>2
    <3> QED
      BY <3>1, <3>2, <3>3
  <2> QED
    BY <1>5, <2>2, <2>3
<1>15. {paths'[i] : i \in 1 .. Len(paths')} = {s \in Vectors : Solution(s) /\ Done(s)}'
  BY <1>12, Zenon
<1>16. \A s, r : Before(s, r)' <=> Before(s, r)
  BY <1>6 DEF Before
<1> QED
  BY <1>8, <1>13, <1>14, <1>15, <1>16 DEF FindsExactly

LEMMA SolveFinds == ASSUME StackInv, Solve PROVE FindsExactly'
<1>1. /\ at' = <<0>> /\ rows' = <<>> /\ paths' = <<>> /\ doms' = doms /\ pc' = "try"
      /\ doms # <<>>
  BY DEF Solve, problem
<1>2. doms \in Seq(Seq(Int)) /\ BoundedDomains
  BY DEF StackInv, TypeOK
<1>3. Variables' = Variables /\ 1 \in Variables /\ Level' = 1 /\ Len(paths') = 0
  BY <1>1, <1>2 DEF Variables, Level
<1>4. ASSUME NEW s \in Vectors PROVE ~Done(s)'
  <2>1. s[1] \in Nat \ {0}
    BY <1>3, VectorFacts
  <2> QED
    BY <1>1, <1>3, <2>1 DEF Done
<1>5. Vectors' = Vectors
  BY <1>1, <1>3 DEF Vectors
<1>6. {paths'[i] : i \in 1 .. Len(paths')} = {} /\ {s \in Vectors : Solution(s) /\ Done(s)}' = {}
  BY <1>3, <1>4, <1>5
<1>7. rows' = [i \in 1 .. Len(paths) |-> ValuesOf(paths[i])]'
  BY <1>1, <1>3
<1> QED
  BY <1>3, <1>6, <1>7 DEF FindsExactly

FindsInv == StackInv /\ FindsExactly

LEMMA FindsStep == ASSUME FindsInv, [Next]_vars PROVE FindsExactly'
<1> USE DEF FindsInv
<1>1. CASE UNCHANGED vars
  <2>1. /\ doms' = doms /\ cons' = cons /\ pc' = pc /\ at' = at /\ rows' = rows
        /\ paths' = paths
    BY <1>1 DEF vars, problem, search
  <2>2. Vectors' = Vectors /\ \A s, r : Before(s, r)' <=> Before(s, r)
    BY <2>1 DEF Vectors, Before, Variables
  <2>3. \A s : (Solution(s) /\ Done(s))' <=> Solution(s) /\ Done(s)
    <3>0. \A s : ValuesOf(s)' = ValuesOf(s)
      BY <2>1 DEF ValuesOf, Variables
    <3>1. \A s : Solution(s)' <=> Solution(s)
      BY <2>1, <3>0 DEF Solution, Constraints, Satisfied
    <3>2. \A s : Done(s)' <=> Done(s)
      BY <2>1 DEF Done, Variables, Level
    <3> QED
      BY <3>1, <3>2
  <2>4. \A s : ValuesOf(s)' = ValuesOf(s)
    BY <2>1 DEF ValuesOf, Variables
  <2> QED
    BY <2>1, <2>2, <2>3, <2>4 DEF FindsExactly
<1>2. CASE AddVariable \/ AddConstraint \/ Reset \/ SolveNothing \/ Return
  <2>1. pc' = "idle"
    BY <1>2 DEF AddVariable, AddConstraint, Reset, SolveNothing, Return, search
  <2> QED
    BY <2>1 DEF FindsExactly
<1> QED
  BY <1>1, <1>2, SolveFinds, TryFinds, RecordFinds, BacktrackFinds DEF Next, Search

LEMMA FindsInvariant == Spec => []FindsInv
<1>1. Init => FindsInv
  BY StackInit DEF FindsInv, FindsExactly, Init
<1>2. FindsInv /\ [Next]_vars => FindsInv'
  BY StackStep, FindsStep DEF FindsInv
<1> QED
  BY <1>1, <1>2, PTL DEF Spec

\* At every step of the search the rows are exactly the solutions in the part of
\* the search space behind it, in its order: pruning partial assignments loses
\* none, and going back in arrays changed in place finds none twice and none
\* that is not one (backtrack, consistent, constraint_solver.c).
THEOREM SolverFindsExactly == Spec => []FindsExactly
<1>1. FindsInv => FindsExactly
  BY DEF FindsInv
<1> QED
  BY <1>1, FindsInvariant, PTL

\* A call that returns with room in the caller's buffer has found every
\* solution, and none writes more rows than the buffer holds (solve).
THEOREM SolverReturnsAll == Spec => []ReturnsAll
<1>1. ASSUME FindsInv PROVE ReturnsAll
  <2> SUFFICES ASSUME pc = "return"
               PROVE  /\ Len(rows) <= limit
                      /\ Len(rows) < limit =>
                           \A s \in Vectors : Solution(s) => \E n \in 1 .. Len(paths) : paths[n] = s
    BY DEF ReturnsAll
  <2>1. /\ limit \in Nat /\ Len(rows) \in Nat
        /\ Len(rows) = limit \/ (Len(rows) < limit /\ Level = 1 /\ at[1] = Len(doms[1]))
    BY <1>1 DEF FindsInv, StackInv, Buffered, TypeOK, Exhausted
  <2>2. ASSUME Len(rows) < limit, NEW s \in Vectors PROVE Done(s)
    <3>1. Level = 1 /\ at[1] = Len(doms[1])
      BY <2>1, <2>2
    <3>2. 1 \in Variables /\ at[1] \in Nat
      BY <1>1, <3>1, SearchFacts DEF FindsInv
    <3>3. s[1] \in Nat /\ s[1] <= at[1]
      BY <3>1, <3>2, VectorFacts
    <3> QED
      BY <3>1, <3>2, <3>3 DEF Done
  <2>3. {paths[i] : i \in 1 .. Len(paths)} = {s \in Vectors : Solution(s) /\ Done(s)}
    BY <1>1 DEF FindsInv, FindsExactly
  <2>4. ASSUME Len(rows) < limit, NEW s \in Vectors, Solution(s)
        PROVE  \E n \in 1 .. Len(paths) : paths[n] = s
    <3>1. s \in {paths[i] : i \in 1 .. Len(paths)}
      BY <2>2, <2>3, <2>4
    <3> QED
      BY <3>1
  <2> QED
    BY <2>1, <2>4
<1> QED
  BY <1>1, FindsInvariant, PTL

=============================================================================
