-------------------------- MODULE ConstraintSolver --------------------------
(***************************************************************************)
(* The finite-domain constraint solver (native/constraint_solver.c): a     *)
(* problem is built by calls that add variables and binary constraints,    *)
(* and solve() enumerates solutions by chronological backtracking into a   *)
(* buffer of the caller.  The recursion of backtrack() is the stack `at`:  *)
(* at[v] is the position, in the domain of variable v, that level v of the *)
(* recursion has tried last (0: none yet).  Indices count from 1.          *)
(***************************************************************************)
EXTENDS Integers, Sequences

CONSTANTS
  MaxVariables,    \* capacities given to create()
  MaxConstraints,
  MaxDomain,       \* NIYAH_CSP_MAX_DOMAIN_SIZE
  Domains,         \* domains callers pass to add_variable
  Kinds,           \* constraint types callers pass to add_constraint
  Limits           \* buffer capacities callers pass to solve

ASSUME SolverAssumption ==
  /\ MaxVariables \in Nat \ {0} /\ MaxConstraints \in Nat /\ MaxDomain \in Nat
  /\ Domains \subseteq Seq(Int)
  /\ Kinds \subseteq 0 .. 5
  /\ Limits \subseteq Nat \ {0}

VARIABLES
  doms,      \* variables[i].domain_values
  cons,      \* constraints[i]: var_a_index, var_b_index, constraint_type
  flags,     \* constraints[i].is_satisfied
  value,     \* variables[i].assigned_value
  assigned,  \* variables[i].is_assigned
  found,     \* solutions_found
  status,    \* what the last call returned
  pc,        \* "idle", or where the call of solve is
  at,        \* the recursion of backtrack
  limit,     \* max_solutions of this call
  rows,      \* the caller's buffer, while solve fills it
  paths      \* history: the positions in the domains behind each row

problem == <<doms, cons>>
search  == <<pc, at, limit, rows, paths>>
vars    == <<problem, flags, value, assigned, found, status, search>>

-----------------------------------------------------------------------------

OK          == 0
ERROR       == 1
INVALID     == 3
NO_SOLUTION == 4

\* NOT_EQUAL, EQUAL, LESS_THAN, ... in the enum's order
Holds(kind, a, b) ==
  \/ kind = 0 /\ a # b
  \/ kind = 1 /\ a = b
  \/ kind = 2 /\ a < b
  \/ kind = 3 /\ a <= b
  \/ kind = 4 /\ a > b
  \/ kind = 5 /\ a >= b

Variables   == 1 .. Len(doms)
Constraints == 1 .. Len(cons)

DecidableEither(i, on) ==  \* mutant: one assigned variable is enough
  on[cons[i].a] \/ on[cons[i].b]

\* Constraint i under assignment val, as far as its variables are in `on`.
Decidable(i, on) == on[cons[i].a] /\ on[cons[i].b]
Satisfied(i, val) == Holds(cons[i].kind, val[cons[i].a], val[cons[i].b])

\* consistent(): no decidable constraint on variable v fails
Consistent(v, on, val) ==
  \A i \in Constraints :
    v \in {cons[i].a, cons[i].b} /\ Decidable(i, on) => Satisfied(i, val)

Nothing == [v \in Variables |-> FALSE]
Zeroes  == [v \in Variables |-> 0]

-----------------------------------------------------------------------------
(* Building the problem.                                                   *)

AddVariable ==
  /\ pc = "idle"
  /\ \E d \in Domains :
       \/ /\ Len(d) \in 1 .. MaxDomain /\ Len(doms) < MaxVariables
          /\ doms' = Append(doms, d)
          /\ value' = Append(value, 0)
          /\ assigned' = Append(assigned, FALSE)
          /\ status' = OK
       \/ /\ ~(Len(d) \in 1 .. MaxDomain /\ Len(doms) < MaxVariables)
          /\ status' = IF Len(d) \in 1 .. MaxDomain THEN ERROR ELSE INVALID
          /\ UNCHANGED <<doms, value, assigned>>
  /\ UNCHANGED <<cons, flags, found, search>>

AddConstraintUnchecked ==  \* mutant: the second index is not checked
  /\ pc = "idle"
  /\ Len(cons) < MaxConstraints
  /\ \E a, b \in 1 .. MaxVariables, kind \in Kinds :
       /\ a <= Len(doms) /\ a # b
       /\ cons' = Append(cons, [a |-> a, b |-> b, kind |-> kind])
  /\ flags' = Append(flags, FALSE)
  /\ status' = OK
  /\ UNCHANGED <<doms, value, assigned, found, search>>

AddConstraint ==
  /\ pc = "idle"
  /\ \E a, b \in 1 .. MaxVariables, kind \in Kinds :
       LET valid == MaxConstraints > 0 /\ a <= Len(doms) /\ b <= Len(doms) /\ a # b
           room  == Len(cons) < MaxConstraints
       IN \/ /\ valid /\ room
             /\ cons' = Append(cons, [a |-> a, b |-> b, kind |-> kind])
             /\ flags' = Append(flags, FALSE)
             /\ status' = OK
          \/ /\ ~(valid /\ room)
             /\ status' = IF valid THEN ERROR ELSE INVALID
             /\ UNCHANGED <<cons, flags>>
  /\ UNCHANGED <<doms, value, assigned, found, search>>

Reset ==
  /\ pc = "idle"
  /\ assigned' = Nothing /\ value' = Zeroes
  /\ flags' = [i \in Constraints |-> FALSE]
  /\ found' = 0
  /\ status' = OK
  /\ UNCHANGED <<problem, search>>

-----------------------------------------------------------------------------
(* Solving.                                                                *)

Solve ==
  /\ pc = "idle"
  /\ doms # <<>>
  /\ limit' \in Limits
  /\ assigned' = Nothing /\ value' = Zeroes
  /\ rows' = <<>> /\ paths' = <<>>
  /\ at' = <<0>>
  /\ pc' = "try"
  /\ UNCHANGED <<problem, flags, found, status>>

SolveNothing ==
  /\ pc = "idle"
  /\ doms = <<>>
  /\ status' = INVALID
  /\ UNCHANGED <<problem, flags, value, assigned, found, search>>

Level == Len(at)
Exhausted == at[Level] = Len(doms[Level])

\* The next value of the variable at the top of the recursion.
Try ==
  LET d   == at[Level] + 1
      on  == [assigned EXCEPT ![Level] = TRUE]
      val == [value EXCEPT ![Level] = doms[Level][d]]
      next == [at EXCEPT ![Level] = d]
  IN
  /\ pc = "try"
  /\ ~Exhausted
  /\ value' = val
  /\ IF ~Consistent(Level, on, val)
     THEN at' = next /\ UNCHANGED <<pc, assigned>>
     ELSE /\ assigned' = on
          /\ IF Level = Len(doms) THEN at' = next /\ pc' = "record"
                                  ELSE at' = Append(next, 0) /\ UNCHANGED pc
  /\ UNCHANGED <<problem, flags, found, status, limit, rows, paths>>

RecordOneMore ==  \* mutant: the capacity is tested before the row is counted
  /\ pc = "record"
  /\ rows' = Append(rows, value)
  /\ paths' = Append(paths, at)
  /\ flags' = [i \in Constraints |-> Decidable(i, assigned) /\ Satisfied(i, value)]
  /\ IF Len(rows) >= limit
     THEN assigned' = Nothing /\ pc' = "return"
     ELSE assigned' = [assigned EXCEPT ![Level] = FALSE] /\ pc' = "try"
  /\ UNCHANGED <<problem, value, found, status, at, limit>>

\* A complete assignment: copy it to the buffer; a full buffer unwinds the
\* recursion, which leaves every variable unassigned.
Record ==
  /\ pc = "record"
  /\ rows' = Append(rows, value)
  /\ paths' = Append(paths, at)
  /\ flags' = [i \in Constraints |-> Decidable(i, assigned) /\ Satisfied(i, value)]
  /\ IF Len(rows) + 1 >= limit
     THEN assigned' = Nothing /\ pc' = "return"
     ELSE assigned' = [assigned EXCEPT ![Level] = FALSE] /\ pc' = "try"
  /\ UNCHANGED <<problem, value, found, status, at, limit>>

BacktrackRestarting ==  \* mutant: the caller's loop index is lost
  /\ pc = "try"
  /\ Exhausted
  /\ IF Level = 1
     THEN pc' = "return" /\ UNCHANGED <<assigned, at>>
     ELSE /\ assigned' = [assigned EXCEPT ![Level - 1] = FALSE]
          /\ at' = [SubSeq(at, 1, Level - 1) EXCEPT ![Level - 1] = 0]
          /\ UNCHANGED pc
  /\ UNCHANGED <<problem, flags, value, found, status, limit, rows, paths>>

\* No value is left at this level: back to the one below, or return.
Backtrack ==
  /\ pc = "try"
  /\ Exhausted
  /\ IF Level = 1
     THEN pc' = "return" /\ UNCHANGED <<assigned, at>>
     ELSE /\ assigned' = [assigned EXCEPT ![Level - 1] = FALSE]
          /\ at' = SubSeq(at, 1, Level - 1)
          /\ UNCHANGED pc
  /\ UNCHANGED <<problem, flags, value, found, status, limit, rows, paths>>

Return ==
  /\ pc = "return"
  /\ found' = Len(rows)
  /\ status' = IF rows = <<>> THEN NO_SOLUTION ELSE OK
  /\ pc' = "idle"
  /\ at' = <<>> /\ limit' = 0 /\ rows' = <<>> /\ paths' = <<>>
  /\ UNCHANGED <<problem, flags, value, assigned>>

Init ==
  /\ doms = <<>> /\ cons = <<>> /\ flags = <<>>
  /\ value = <<>> /\ assigned = <<>>
  /\ found = 0 /\ status = OK
  /\ pc = "idle" /\ at = <<>> /\ limit = 0 /\ rows = <<>> /\ paths = <<>>

Search == Try \/ Record \/ Backtrack \/ Return

Next == AddVariable \/ AddConstraint \/ Reset \/ Solve \/ SolveNothing \/ Search

Spec == Init /\ [][Next]_vars

\* solve() runs to its end once called
LiveSpec == Spec /\ WF_vars(Search)

-----------------------------------------------------------------------------
(* Properties                                                              *)

\* Every variable has its type; the arrays stay in step with one another.
TypeOK ==
  /\ doms \in Seq(Seq(Int)) /\ \A v \in Variables : Len(doms[v]) > 0
  /\ cons \in Seq([a : Variables, b : Variables, kind : Kinds])
  /\ flags \in [Constraints -> BOOLEAN]
  /\ value \in [Variables -> Int]
  /\ assigned \in [Variables -> BOOLEAN]
  /\ found \in Nat /\ status \in {OK, ERROR, INVALID, NO_SOLUTION}
  /\ pc \in {"idle", "try", "record", "return"}
  /\ at \in Seq(Nat) /\ limit \in Nat
  /\ rows \in Seq([Variables -> Int])
  /\ paths \in Seq(Seq(Nat))

\* A solution, as a position in the domain of each variable.
Vectors ==
  {s \in [Variables -> 1 .. MaxDomain] : \A v \in Variables : s[v] <= Len(doms[v])}
ValuesOf(s) == [v \in Variables |-> doms[v][s[v]]]
Solution(s) == \A i \in Constraints : Satisfied(i, ValuesOf(s))

\* s comes before t in the order of the search
Before(s, t) ==
  \E v \in Variables : s[v] < t[v] /\ \A u \in 1 .. v - 1 : s[u] = t[u]

\* s lies in the part of the search already done: before the stack, or at
\* the position last tried, which is done unless it is about to be recorded
Done(s) ==
  \E v \in 1 .. Level :
    /\ \A u \in 1 .. v - 1 : s[u] = at[u]
    /\ \/ s[v] < at[v]
       \/ s[v] = at[v] /\ v = Level /\ pc # "record"

\* Whenever the search pauses, the rows are exactly the solutions in the
\* part of the search space behind it, in order: pruning a partial
\* assignment loses nothing, nothing is found twice or out of order, and the
\* solver never returns a bogus assignment.
FindsExactly ==
  pc # "idle" =>
    /\ {paths[i] : i \in 1 .. Len(paths)} = {s \in Vectors : Solution(s) /\ Done(s)}
    /\ \A i, j \in 1 .. Len(paths) : i < j => Before(paths[i], paths[j])
    /\ rows = [i \in 1 .. Len(paths) |-> ValuesOf(paths[i])]

\* When solve returns with room left in the buffer it has found everything;
\* otherwise it stops exactly at the buffer's capacity.
ReturnsAll ==
  pc = "return" =>
    /\ Len(rows) <= limit
    /\ Len(rows) < limit =>
         \A s \in Vectors : Solution(s) => \E n \in 1 .. Len(paths) : paths[n] = s

\* The recursion always ends.
Terminates == pc # "idle" ~> pc = "idle"

\* constraint_solver.h: after solve the "internal variable state reflects
\* the FIRST solution found".
KeepsFirstSolution ==
  [][Return /\ rows # <<>> =>
       /\ \A v \in Variables : assigned'[v]
       /\ value' = rows[1]]_vars

=============================================================================
