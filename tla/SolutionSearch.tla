-------------------------- MODULE SolutionSearch --------------------------
(***************************************************************************)
(* What the graph solver promises, with no algorithm: a run of a problem   *)
(* appends to the problem's solutions every assignment that satisfies it,  *)
(* each exactly once and in no particular order, touches nothing else, and *)
(* ends when no satisfying assignment is left.                             *)
(***************************************************************************)
EXTENDS Sequences, Functions

CONSTANTS
    Names,                  \* names of the problems
    Configs, Problems,      \* configurations and problem statements
    NoConfig,               \* no configuration was given yet
    Satisfying(_, _)        \* the satisfying assignments of a problem in a configuration

VARIABLES
    l2Config,    \* the configuration in use
    problems,    \* the initialised problems
    solutions,   \* the solutions of each initialised problem, in order of discovery
    status,      \* "idle", "searching" or "panic"
    running,     \* the problem of the last run
    found        \* the solutions the active run has appended

vars == <<l2Config, problems, solutions, status, running, found>>

Init ==
    /\ l2Config = NoConfig
    /\ problems = <<>>
    /\ solutions = <<>>
    /\ status = "idle"
    /\ running \in Names
    /\ found = <<>>

InitProblem(n, algo) ==
    /\ status = "idle"
    /\ problems' = [m \in DOMAIN problems \cup {n} |->
                        IF m = n THEN algo ELSE problems[m]]
    /\ solutions' = [m \in DOMAIN solutions \cup {n} |->
                        IF m = n THEN <<>> ELSE solutions[m]]
    /\ UNCHANGED <<l2Config, status, running, found>>

SetL2Config(config) ==
    /\ status = "idle"
    /\ l2Config' = config
    /\ UNCHANGED <<problems, solutions, status, running, found>>

Run(n) ==
    /\ status = "idle"
    /\ running' = n
    /\ IF l2Config # NoConfig /\ n \in DOMAIN problems
         THEN status' = "searching"
         ELSE status' = "panic"
    /\ UNCHANGED <<l2Config, problems, solutions, found>>

\* Solutions found in a larger configuration than the present one cannot be printed.
Misprint ==
    /\ status = "idle"
    /\ \E n \in DOMAIN solutions : \E sol \in Range(solutions[n]) :
          \E v \in DOMAIN sol : sol[v] >= Len(l2Config.ifs)
    /\ status' = "panic"
    /\ UNCHANGED <<l2Config, problems, solutions, running, found>>

Find ==
    /\ status = "searching"
    /\ \E sol \in Satisfying(l2Config, problems[running]) \ Range(found) :
          /\ found' = Append(found, sol)
          /\ solutions' = [solutions EXCEPT ![running] = Append(@, sol)]
    /\ UNCHANGED <<l2Config, problems, status, running>>

Finish ==
    /\ status = "searching"
    /\ Satisfying(l2Config, problems[running]) \subseteq Range(found)
    /\ status' = "idle"
    /\ found' = <<>>
    /\ UNCHANGED <<l2Config, problems, solutions, running>>

Next ==
    \/ \E n \in Names, algo \in Problems : InitProblem(n, algo)
    \/ \E config \in Configs : SetL2Config(config)
    \/ \E n \in Names : Run(n)
    \/ Misprint
    \/ Find
    \/ Finish

Spec == Init /\ [][Next]_vars

FairSpec == Spec /\ WF_vars(Find \/ Finish)
============================================================================
