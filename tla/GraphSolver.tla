---------------------------- MODULE GraphSolver ----------------------------
(***************************************************************************)
(* The graph solver of pkg/graphsolver: the interface of GlobalConfig      *)
(* (InitProblem, SetL2Config, Run) and the backtracking search             *)
(* PermutationsWithConstraints that Run performs, one action per entry,    *)
(* loop iteration and return of the recursive function.                    *)
(*                                                                         *)
(* The recursion is kept as data: s is the depth of the active call and    *)
(* i[d] the loop variable of the call at depth d.  l is the slice every    *)
(* depth permutes in place; Go's len(l) is n and the number of variables   *)
(* of the problem is e, as in the code.                                    *)
(***************************************************************************)
EXTENDS SolverSteps, FiniteSets, Functions

CONSTANTS
    Names,       \* names of the problems
    Configs,     \* L2 configurations SetL2Config may be given
    Problems,    \* problem statements InitProblem may be given
    NoConfig,    \* the l2Config of a solver that was given none
    MaxRuns      \* bound: runs of all problems, each since its last InitProblem

ASSUME ConfigsAssumption ==
    NoConfig \notin Configs /\ \A config \in Configs : Len(config.ifs) \in Nat

(***************************************************************************)
(* A problem statement is a sequence of steps; step s of the code is       *)
(* algo[s+1].  Its tests read variables 0 .. s only: the callers build     *)
(* their problems this way, and applyStep would otherwise read entries of  *)
(* l that are not chosen yet.                                              *)
(***************************************************************************)
ASSUME ProblemsAssumption ==
    \A statement \in Problems :
        /\ Len(statement) \in Nat
        /\ \A d \in 0 .. Len(statement) - 1 : \A test \in statement[d + 1] :
              IfParams(test) \subseteq 0 .. d

VARIABLES
    l2Config,    \* the configuration last set
    problems,    \* the initialised problems, by name
    solutions,   \* for each of them the slice of solutions found so far
    pc,          \* "idle", or where PermutationsWithConstraints is: "call"
                 \* (just entered), "loop", "return"; "panic" when Run has
    running,     \* the problem of the last Run
    l, s, i,     \* the permuted slice, the depth, the loop variables
    result,      \* the argument of the call just entered
    runs,        \* history: configurations of the runs since InitProblem, by name
    base         \* history: number of solutions when the last run began

solverVars == <<l2Config, problems, solutions, running>>
searchVars == <<l, s, i, result>>
historyVars == <<runs, base>>
vars == <<l2Config, problems, solutions, pc, running, l, s, i, result, runs, base>>

n == Len(l2Config.ifs)
algo == problems[running]
e == Len(algo)

GetAllGraphVertices(count) == [v \in 0 .. count - 1 |-> v]

Prefix(p, len) == [v \in 0 .. len - 1 |-> p[v]]

Swap(p, a, b) == [p EXCEPT ![a] = p[b], ![b] = p[a]]

Init ==
    /\ l2Config = NoConfig
    /\ problems = <<>>
    /\ solutions = <<>>
    /\ pc = "idle"
    /\ running \in Names
    /\ l = <<>> /\ s = 0 /\ i = <<>> /\ result = TRUE
    /\ runs = <<>> /\ base = 0

Set(f, x, value) == [y \in DOMAIN f \cup {x} |-> IF y = x THEN value ELSE f[y]]

----------------------------------------------------------------------------
(***************************************************************************)
(* The interface.  MaxRuns bounds the repetitions of Run.                  *)
(***************************************************************************)
\* A mutant: initialising a problem empties the solutions of all of them.
InitProblemEmptyingAll(name, statement) ==
    /\ pc = "idle"
    /\ problems' = Set(problems, name, statement)
    /\ solutions' = [m \in DOMAIN solutions \cup {name} |-> <<>>]
    /\ runs' = Set(runs, name, <<>>)
    /\ UNCHANGED <<l2Config, pc, running, searchVars, base>>

\* A mutant: the solutions of the problem that had the name before are kept.
InitProblemKeeping(name, statement) ==
    /\ pc = "idle"
    /\ problems' = Set(problems, name, statement)
    /\ solutions' = Set(solutions, name, IF name \in DOMAIN solutions THEN solutions[name] ELSE <<>>)
    /\ runs' = Set(runs, name, <<>>)
    /\ UNCHANGED <<l2Config, pc, running, searchVars, base>>

InitProblem(name, statement) ==
    /\ pc = "idle"
    /\ problems' = Set(problems, name, statement)
    /\ solutions' = Set(solutions, name, <<>>)
    /\ runs' = Set(runs, name, <<>>)
    /\ UNCHANGED <<l2Config, pc, running, searchVars, base>>

SetL2Config(config) ==
    /\ pc = "idle"
    /\ l2Config' = config
    /\ UNCHANGED <<problems, solutions, pc, running, searchVars, historyVars>>

Run(name) ==
    /\ pc = "idle"
    /\ l2Config # NoConfig
    /\ name \in DOMAIN problems
    /\ Cardinality(UNION {{x} \X DOMAIN runs[x] : x \in DOMAIN runs}) < MaxRuns
    /\ running' = name
    /\ l' = GetAllGraphVertices(n)
    /\ s' = 0
    /\ i' = [d \in 0 .. Len(problems[name]) - 1 |-> 0]
    /\ result' = TRUE
    /\ pc' = "call"
    /\ runs' = [runs EXCEPT ![name] = Append(@, l2Config)]
    /\ base' = Len(solutions[name])
    /\ UNCHANGED <<l2Config, problems, solutions>>

(***************************************************************************)
(* Run dereferences a nil interface without a configuration, and a nil     *)
(* pointer to the solutions of a problem that was not initialised.         *)
(***************************************************************************)
RunPanics(name) ==
    /\ pc = "idle"
    /\ l2Config = NoConfig \/ name \notin DOMAIN problems
    /\ running' = name
    /\ pc' = "panic"
    /\ UNCHANGED <<l2Config, problems, solutions, searchVars, historyVars>>

(***************************************************************************)
(* Printing reads the interfaces of all solutions (PrintAllSolutions) or   *)
(* of each problem's first one (PrintFirstSolution, PrintSolutions) in the *)
(* configuration there is now.  It panics when there are too few of them   *)
(* and changes nothing otherwise.                                          *)
(***************************************************************************)
Printed(name, all) ==
    {solutions[name][k] : k \in IF all THEN DOMAIN solutions[name] ELSE DOMAIN solutions[name] \cap {1}}

Misprints(all) ==
    \E name \in DOMAIN solutions : \E solution \in Printed(name, all) :
        \E v \in DOMAIN solution : solution[v] >= n

PrintSolutions(all) ==
    /\ pc = "idle"
    /\ Misprints(all)
    /\ pc' = "panic"
    /\ UNCHANGED <<solverVars, searchVars, historyVars>>

----------------------------------------------------------------------------
(***************************************************************************)
(* PermutationsWithConstraints.                                            *)
(***************************************************************************)
Prune ==
    /\ pc = "call"
    /\ ~ result \/ n < e
    /\ pc' = "return"
    /\ UNCHANGED <<solverVars, searchVars, historyVars>>

\* A mutant: the copy of the slice is not cut to the variables of the problem.
RecordWholeSlice ==
    /\ pc = "call" /\ result /\ n >= e
    /\ s = e
    /\ solutions' = [solutions EXCEPT ![running] = Append(@, l)]
    /\ pc' = "return"
    /\ UNCHANGED <<l2Config, problems, running, searchVars, historyVars>>

Record ==
    /\ pc = "call" /\ result /\ n >= e
    /\ s = e
    /\ solutions' = [solutions EXCEPT ![running] = Append(@, Prefix(l, e))]
    /\ pc' = "return"
    /\ UNCHANGED <<l2Config, problems, running, searchVars, historyVars>>

\* Mutants: the loop begins at the first vertex, or after the current one.
StartLoopAt(first) ==
    /\ pc = "call" /\ result /\ n >= e
    /\ s # e
    /\ i' = [i EXCEPT ![s] = first]
    /\ pc' = "loop"
    /\ UNCHANGED <<solverVars, l, s, result, historyVars>>
StartLoopFromZero == StartLoopAt(0)
StartLoopPastCurrent == StartLoopAt(s + 1)

StartLoop ==
    /\ pc = "call" /\ result /\ n >= e
    /\ s # e
    /\ i' = [i EXCEPT ![s] = s]
    /\ pc' = "loop"
    /\ UNCHANGED <<solverVars, l, s, result, historyVars>>

\* A mutant: the step is applied before the swap.
TryBeforeSwap ==
    /\ pc = "loop"
    /\ i[s] < n
    /\ l' = Swap(l, i[s], s)
    /\ result' = applyStep(l2Config, algo[s + 1], Prefix(l, e))
    /\ s' = s + 1
    /\ pc' = "call"
    /\ UNCHANGED <<solverVars, i, historyVars>>

Try ==
    /\ pc = "loop"
    /\ i[s] < n
    /\ l' = Swap(l, i[s], s)
    /\ result' = applyStep(l2Config, algo[s + 1], Prefix(l', e))
    /\ s' = s + 1
    /\ pc' = "call"
    /\ UNCHANGED <<solverVars, i, historyVars>>

EndLoop ==
    /\ pc = "loop"
    /\ i[s] >= n
    /\ pc' = "return"
    /\ UNCHANGED <<solverVars, searchVars, historyVars>>

\* Mutants: the swap is not undone, or a pruned candidate is tried again.
BacktrackInPlace ==
    /\ pc = "return"
    /\ s > 0
    /\ s' = s - 1
    /\ i' = [i EXCEPT ![s - 1] = @ + 1]
    /\ pc' = "loop"
    /\ UNCHANGED <<solverVars, l, result, historyVars>>
BacktrackRetrying ==
    /\ pc = "return"
    /\ s > 0
    /\ s' = s - 1
    /\ l' = Swap(l, i[s - 1], s - 1)
    /\ i' = IF result THEN [i EXCEPT ![s - 1] = @ + 1] ELSE i
    /\ pc' = "loop"
    /\ UNCHANGED <<solverVars, result, historyVars>>

\* Back in the loop of the caller: swap back, next iteration.
Backtrack ==
    /\ pc = "return"
    /\ s > 0
    /\ s' = s - 1
    /\ l' = Swap(l, i[s - 1], s - 1)
    /\ i' = [i EXCEPT ![s - 1] = @ + 1]
    /\ pc' = "loop"
    /\ UNCHANGED <<solverVars, result, historyVars>>

Finish ==
    /\ pc = "return"
    /\ s = 0
    /\ pc' = "idle"
    /\ UNCHANGED <<solverVars, searchVars, historyVars>>

SearchStep ==
    Prune \/ Record \/ StartLoop \/ Try \/ EndLoop \/ Backtrack \/ Finish

Next ==
    \/ \E name \in Names, statement \in Problems : InitProblem(name, statement)
    \/ \E config \in Configs : SetL2Config(config)
    \/ \E name \in Names : Run(name) \/ RunPanics(name)
    \/ \E all \in BOOLEAN : PrintSolutions(all)
    \/ SearchStep

Spec == Init /\ [][Next]_vars

(***************************************************************************)
(* Run is an ordinary synchronous call: once begun, nothing but the search *)
(* itself can stop it.                                                     *)
(***************************************************************************)
FairSpec == Spec /\ WF_vars(SearchStep)

----------------------------------------------------------------------------
(***************************************************************************)
(* Properties.                                                             *)
(***************************************************************************)

(* The assignments that satisfy a problem: distinct interfaces for the     *)
(* variables, and every step holds of the whole assignment.                *)
Satisfying(config, statement) ==
    {a \in Injection(0 .. Len(statement) - 1, 0 .. Len(config.ifs) - 1) :
        \A d \in 0 .. Len(statement) - 1 : applyStep(config, statement[d + 1], a)}

Searching == pc \in {"call", "loop", "return"}

(* Types of the variables; during a search l is a function on the vertices *)
(* and the loop variables stay within the slice.                           *)
TypeOK ==
    /\ l2Config \in Configs \cup {NoConfig}
    /\ pc \in {"idle", "call", "loop", "return", "panic"}
    /\ running \in Names
    /\ DOMAIN problems \subseteq Names
    /\ \A name \in DOMAIN problems : problems[name] \in Problems
    /\ DOMAIN solutions = DOMAIN problems
    /\ DOMAIN runs = DOMAIN problems
    /\ \A name \in DOMAIN runs : runs[name] \in Seq(Configs)
    /\ \A name \in DOMAIN problems :
          solutions[name] \in Seq([0 .. Len(problems[name]) - 1 -> Nat])
    /\ result \in BOOLEAN
    /\ base \in Nat
    /\ Searching =>
         /\ l2Config \in Configs
         /\ running \in DOMAIN problems
         /\ l \in [0 .. n - 1 -> 0 .. n - 1]
         /\ s \in 0 .. e
         /\ i \in [0 .. e - 1 -> 0 .. n]

(* Between runs, a problem's slice of solutions holds every satisfying     *)
(* assignment once per run since InitProblem, under the configuration that *)
(* run used, and nothing else: the in-place swapping neither loses,        *)
(* repeats nor invents a candidate, and a re-run appends a second copy.    *)
SolutionsExact ==
    pc = "idle" =>
        \A name \in DOMAIN problems :
            LET sat(k) == Satisfying(runs[name][k], problems[name])
                candidates == Range(solutions[name])
                                \cup UNION {sat(k) : k \in DOMAIN runs[name]}
            IN  \A a \in candidates :
                    Cardinality({k \in DOMAIN solutions[name] : solutions[name][k] = a})
                      = Cardinality({k \in DOMAIN runs[name] : a \in sat(k)})

(* Why the pruned search is right though it permutes one slice in place:   *)
(* the slice stays a permutation, every loop variable points into the part *)
(* of it its depth may still choose from, and the steps accepted so far    *)
(* hold of the slice as it is now, whatever was swapped since they were    *)
(* evaluated.                                                              *)
LoopsInRange ==
    /\ s > 0 \/ pc = "loop" => e <= n
    /\ pc = "loop" => s < e /\ i[s] >= s
    /\ \A d \in 0 .. s - 1 : i[d] \in d .. n - 1

Accepted == IF pc = "return" \/ (pc = "call" /\ ~ result) THEN s - 1 ELSE s

AcceptedHold ==
    \A d \in 0 .. Accepted - 1 : applyStep(l2Config, algo[d + 1], Prefix(l, e))

SearchInv ==
    Searching =>
        /\ IsInjective(l)
        /\ LoopsInRange
        /\ AcceptedHold
        /\ base <= Len(solutions[running])

(* Every solution a run has appended satisfies the whole problem in the    *)
(* configuration of that run, though each step was evaluated when only the *)
(* variables up to it were chosen.                                         *)
SolutionsSound ==
    Searching =>
        \A k \in base + 1 .. Len(solutions[running]) :
            solutions[running][k] \in Satisfying(l2Config, algo)

(* Printing cannot panic while no problem has been run, since it was       *)
(* initialised, in a configuration with more interfaces than there are     *)
(* now: no solution survives the problem it solves.                        *)
PrintsFit ==
    (\A name \in DOMAIN runs : \A k \in DOMAIN runs[name] : Len(runs[name][k].ifs) <= n)
        => ~ Misprints(TRUE)

Search == INSTANCE SolutionSearch WITH
    status <- IF Searching THEN "searching" ELSE pc,
    found <- IF Searching
               THEN SubSeq(solutions[running], base + 1, Len(solutions[running]))
               ELSE <<>>

(* The backtracking search implements SolutionSearch.                      *)
ImplementsSearch == Search!FairSpec
============================================================================
