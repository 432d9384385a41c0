------------------------- MODULE GraphSolver_proofs -------------------------
(***************************************************************************)
(* Proofs about GraphSolver, for every configuration and every problem     *)
(* whose steps read only the variables chosen so far: its types, the       *)
(* soundness of the solutions of a run, that a run finds each solution     *)
(* once and loses none, and that the solver implements SolutionSearch.     *)
(***************************************************************************)
EXTENDS GraphSolver, FiniteSetTheorems, SequenceTheorems, TLAPS

(***************************************************************************)
(* A test, and so a step, depends on the candidate only through the        *)
(* variables named in its parameters.                                      *)
(***************************************************************************)
LEMMA TestLocal ==
    ASSUME NEW config, NEW test, NEW a, NEW b,
           \A v \in IfParams(test) : a[v] = b[v]
    PROVE  TestHolds(config, test, a) <=> TestHolds(config, test, b)
<1>1. StepResult(config, test, a) = StepResult(config, test, b)
  BY DEF StepResult, IfParams, OneIfaceOneValue, OneIfaceTwoValues
<1>2. QED
  BY <1>1 DEF TestHolds

LEMMA StepLocal ==
    ASSUME NEW config, NEW step, NEW a, NEW b,
           \A test \in step : \A v \in IfParams(test) : a[v] = b[v]
    PROVE  applyStep(config, step, a) <=> applyStep(config, step, b)
BY TestLocal DEF applyStep

----------------------------------------------------------------------------
(***************************************************************************)
(* Types.                                                                  *)
(***************************************************************************)
LEMMA TypeInit == Init => TypeOK
BY DEF Init, TypeOK, Searching

LEMMA TypeInitProblem ==
    ASSUME TypeOK, NEW name \in Names, NEW statement \in Problems,
           InitProblem(name, statement)
    PROVE  TypeOK'
<1>1. /\ pc' = "idle" /\ ~ Searching'
      /\ UNCHANGED <<l2Config, running, l, s, i, result, base>>
  BY DEF InitProblem, Searching, searchVars
<1>2. /\ DOMAIN problems' = DOMAIN problems \cup {name}
      /\ DOMAIN solutions' = DOMAIN problems \cup {name}
      /\ DOMAIN runs' = DOMAIN problems \cup {name}
  BY DEF InitProblem, Set, TypeOK
<1>3. ASSUME NEW m \in DOMAIN problems'
      PROVE  /\ problems'[m] \in Problems
             /\ runs'[m] \in Seq(Configs)
             /\ solutions'[m] \in Seq([0 .. Len(problems'[m]) - 1 -> Nat])
  <2>1. CASE m = name
    BY <2>1, <1>2 DEF InitProblem, Set
  <2>2. CASE m # name
    BY <2>2, <1>2, <1>3 DEF InitProblem, Set, TypeOK
  <2>3. QED
    BY <2>1, <2>2
<1>4. QED
  BY <1>1, <1>2, <1>3 DEF TypeOK

LEMMA TypeRun ==
    ASSUME TypeOK, NEW name \in Names, Run(name)
    PROVE  TypeOK'
<1>1. /\ l2Config \in Configs /\ Len(l2Config.ifs) \in Nat
      /\ problems[name] \in Problems /\ Len(problems[name]) \in Nat
      /\ Len(solutions[name]) \in Nat
  BY ConfigsAssumption, ProblemsAssumption DEF TypeOK, Run
<1>2. /\ l' \in [0 .. n' - 1 -> 0 .. n' - 1]
      /\ s' \in 0 .. e'
      /\ i' \in [0 .. e' - 1 -> 0 .. n']
  BY <1>1 DEF Run, GetAllGraphVertices, n, e, algo
<1>3. /\ DOMAIN runs' = DOMAIN problems'
      /\ \A m \in DOMAIN runs' : runs'[m] \in Seq(Configs)
  BY <1>1 DEF Run, TypeOK
<1>4. QED
  BY <1>1, <1>2, <1>3 DEF Run, TypeOK, Searching

LEMMA SizesInNat ==
    ASSUME TypeOK, Searching
    PROVE  n \in Nat /\ e \in Nat
BY ConfigsAssumption, ProblemsAssumption DEF TypeOK, n, e, algo

(***************************************************************************)
(* Swapping two entries of an injective slice keeps it an injection on the *)
(* same vertices and leaves the other entries alone.                       *)
(***************************************************************************)
LEMMA SwapProperties ==
    ASSUME NEW N \in Nat, NEW p \in [0 .. N - 1 -> 0 .. N - 1],
           NEW a \in 0 .. N - 1, NEW b \in 0 .. N - 1
    PROVE  /\ Swap(p, a, b) \in [0 .. N - 1 -> 0 .. N - 1]
           /\ \A v \in 0 .. N - 1 : v # a /\ v # b => Swap(p, a, b)[v] = p[v]
           /\ IsInjective(p) => IsInjective(Swap(p, a, b))
<1>1. Swap(p, a, b) \in [0 .. N - 1 -> 0 .. N - 1]
  BY DEF Swap
<1>2. \A v \in 0 .. N - 1 :
          Swap(p, a, b)[v] = IF v = b THEN p[a] ELSE IF v = a THEN p[b] ELSE p[v]
  BY DEF Swap
<1>3. ASSUME IsInjective(p)
      PROVE  IsInjective(Swap(p, a, b))
  BY <1>1, <1>2, <1>3 DEF IsInjective
<1>4. QED
  BY <1>1, <1>2, <1>3

(***************************************************************************)
(* What a step of the search leaves alone.                                 *)
(***************************************************************************)
LEMMA SearchFrame ==
    ASSUME TypeOK, SearchStep
    PROVE  /\ Searching
           /\ n' = n /\ e' = e /\ algo' = algo
           /\ n \in Nat /\ e \in Nat
           /\ UNCHANGED <<l2Config, problems, running, runs, base>>
<1>1. Searching
  BY DEF SearchStep, Prune, Record, StartLoop, Try, EndLoop, Backtrack, Finish,
         Searching
<1>2. UNCHANGED <<l2Config, problems, running, runs, base>>
  BY DEF SearchStep, Prune, Record, StartLoop, Try, EndLoop, Backtrack, Finish,
         solverVars, historyVars
<1>3. QED
  BY <1>1, <1>2, SizesInNat DEF n, e, algo

(***************************************************************************)
(* Where the active call may still choose: the positions the search swaps. *)
(***************************************************************************)
LEMMA ChoiceInRange ==
    ASSUME TypeOK, SearchInv, Searching
    PROVE  /\ Try => s \in 0 .. e - 1 /\ s \in 0 .. n - 1 /\ i[s] \in s .. n - 1
           /\ Backtrack => /\ s - 1 \in 0 .. e - 1 /\ s - 1 \in 0 .. n - 1
                           /\ i[s - 1] \in s - 1 .. n - 1
<1>1. n \in Nat /\ e \in Nat /\ s \in 0 .. e /\ i \in [0 .. e - 1 -> 0 .. n]
  BY SizesInNat DEF TypeOK
<1>2. (s > 0 \/ pc = "loop" => e <= n) /\ (pc = "loop" => s < e /\ i[s] >= s)
      /\ \A d \in 0 .. s - 1 : i[d] \in d .. n - 1
  BY DEF SearchInv, LoopsInRange
<1>3. ASSUME Try
      PROVE  s \in 0 .. e - 1 /\ s \in 0 .. n - 1 /\ i[s] \in s .. n - 1
  <2>1. pc = "loop" /\ i[s] < n
    BY <1>3 DEF Try
  <2>2. s \in 0 .. e - 1 /\ s \in 0 .. n - 1
    BY <2>1, <1>1, <1>2
  <2>3. i[s] \in 0 .. n
    BY <2>2, <1>1
  <2>4. QED
    BY <2>1, <2>2, <2>3, <1>1, <1>2
<1>4. ASSUME Backtrack
      PROVE  /\ s - 1 \in 0 .. e - 1 /\ s - 1 \in 0 .. n - 1
             /\ i[s - 1] \in s - 1 .. n - 1
  <2>1. s > 0
    BY <1>4 DEF Backtrack
  <2>2. s - 1 \in 0 .. e - 1 /\ s - 1 \in 0 .. n - 1 /\ s - 1 \in 0 .. s - 1
    BY <2>1, <1>1, <1>2
  <2>3. QED
    BY <2>2, <1>2
<1>5. QED
  BY <1>3, <1>4

LEMMA TypeSearchStep ==
    ASSUME TypeOK, SearchInv, SearchStep
    PROVE  TypeOK'
<1>0. /\ Searching
      /\ n' = n /\ e' = e /\ algo' = algo
      /\ n \in Nat /\ e \in Nat
      /\ UNCHANGED <<l2Config, problems, running, runs, base>>
  BY SearchFrame
<1>1. /\ l \in [0 .. n - 1 -> 0 .. n - 1]
      /\ s \in 0 .. e
      /\ i \in [0 .. e - 1 -> 0 .. n]
      /\ result \in BOOLEAN
  BY <1>0 DEF TypeOK
<1>2. CASE Prune \/ EndLoop \/ Finish
  BY <1>0, <1>2
     DEF TypeOK, Prune, EndLoop, Finish, Searching, solverVars, searchVars
<1>3. CASE Record
  <2>1. Prefix(l, e) \in [0 .. e - 1 -> Nat]
    BY <1>0, <1>1, <1>3 DEF Record, Prefix
  <2>2. /\ DOMAIN solutions' = DOMAIN problems'
        /\ \A m \in DOMAIN problems' :
              solutions'[m] \in Seq([0 .. Len(problems'[m]) - 1 -> Nat])
    <3>1. /\ running \in DOMAIN problems /\ DOMAIN solutions = DOMAIN problems
          /\ solutions' = [solutions EXCEPT ![running] = Append(@, Prefix(l, e))]
          /\ problems' = problems
      BY <1>0, <1>3 DEF TypeOK, Record
    <3>2. solutions[running] \in Seq([0 .. e - 1 -> Nat])
      BY <3>1 DEF TypeOK, e, algo
    <3>3. Append(solutions[running], Prefix(l, e)) \in Seq([0 .. e - 1 -> Nat])
      BY <2>1, <3>2
    <3>4. solutions'[running] \in Seq([0 .. Len(problems[running]) - 1 -> Nat])
      BY <3>1, <3>3 DEF e, algo
    <3>5. \A m \in DOMAIN problems : m # running => solutions'[m] = solutions[m]
      BY <3>1
    <3>6. QED
      BY <3>1, <3>4, <3>5 DEF TypeOK
  <2>3. QED
    BY <1>0, <1>3, <2>2 DEF TypeOK, Record, Searching, searchVars
<1>4. SUFFICES
        ASSUME StartLoop \/ Try \/ Backtrack
        PROVE  /\ l' \in [0 .. n - 1 -> 0 .. n - 1]
               /\ s' \in 0 .. e
               /\ i' \in [0 .. e - 1 -> 0 .. n]
               /\ result' \in BOOLEAN
  <2>1. ASSUME StartLoop \/ Try \/ Backtrack
        PROVE  pc' \in {"call", "loop"} /\ solutions' = solutions
    BY <2>1 DEF StartLoop, Try, Backtrack, solverVars
  <2>2. QED
    BY <1>0, <1>2, <1>3, <2>1 DEF TypeOK, SearchStep, Searching
<1>5. CASE StartLoop
  <2>1. s \in 0 .. e - 1 /\ s \in 0 .. n
    BY <1>0, <1>1, <1>5 DEF StartLoop
  <2>2. QED
    BY <1>1, <1>5, <2>1 DEF StartLoop
<1>6. CASE Try
  <2>1. s \in 0 .. e - 1 /\ s \in 0 .. n - 1 /\ i[s] \in 0 .. n - 1
    BY <1>0, <1>6, ChoiceInRange
  <2>2. l' \in [0 .. n - 1 -> 0 .. n - 1]
    BY <1>0, <1>1, <1>6, <2>1, SwapProperties DEF Try
  <2>3. s' \in 0 .. e /\ i' = i
    BY <1>0, <1>6, <2>1 DEF Try
  <2>4. result' \in BOOLEAN
    BY <1>6 DEF Try, applyStep
  <2>5. QED
    BY <1>1, <2>2, <2>3, <2>4
<1>7. CASE Backtrack
  <2>1. s - 1 \in 0 .. e - 1 /\ s - 1 \in 0 .. n - 1 /\ i[s - 1] \in 0 .. n - 1
    BY <1>0, <1>7, ChoiceInRange
  <2>2. l' \in [0 .. n - 1 -> 0 .. n - 1]
    BY <1>0, <1>1, <1>7, <2>1, SwapProperties DEF Backtrack
  <2>3. s' \in 0 .. e /\ result' = result
    BY <1>0, <1>7, <2>1 DEF Backtrack
  <2>4. i' \in [0 .. e - 1 -> 0 .. n]
    <3>1. i[s - 1] + 1 \in 0 .. n
      BY <1>0, <2>1
    <3>2. i' = [i EXCEPT ![s - 1] = i[s - 1] + 1]
      BY <1>7 DEF Backtrack
    <3>3. QED
      BY <1>1, <3>1, <3>2
  <2>5. QED
    BY <1>1, <2>2, <2>3, <2>4
<1>8. QED
  BY <1>4, <1>5, <1>6, <1>7

----------------------------------------------------------------------------
(***************************************************************************)
(* The invariant of the search.                                            *)
(***************************************************************************)
LEMMA StepUntouched ==
    ASSUME TypeOK, Searching, NEW d \in 0 .. e - 1, NEW p,
           \A v \in 0 .. d : p[v] = l[v],
           applyStep(l2Config, algo[d + 1], Prefix(l, e))
    PROVE  applyStep(l2Config, algo[d + 1], Prefix(p, e))
<1>1. e \in Nat /\ algo \in Problems
  BY SizesInNat DEF TypeOK, algo
<1>2. \A test \in algo[d + 1] : IfParams(test) \subseteq 0 .. d
  BY <1>1, ProblemsAssumption DEF e
<1>3. \A v \in 0 .. d : Prefix(p, e)[v] = Prefix(l, e)[v]
  BY <1>1 DEF Prefix
<1>4. QED
  BY <1>2, <1>3, StepLocal

LEMMA SearchInvTry ==
    ASSUME TypeOK, SearchInv, Try
    PROVE  SearchInv'
<1>0. /\ SearchStep /\ Searching
      /\ n' = n /\ e' = e /\ algo' = algo
      /\ n \in Nat /\ e \in Nat
      /\ UNCHANGED <<l2Config, running, base>>
  BY SearchFrame DEF SearchStep
<1>1. /\ l \in [0 .. n - 1 -> 0 .. n - 1]
      /\ IsInjective(l) /\ LoopsInRange /\ AcceptedHold
      /\ base <= Len(solutions[running])
  BY <1>0 DEF TypeOK, SearchInv
<1>2. /\ s \in 0 .. e - 1 /\ s \in 0 .. n - 1 /\ i[s] \in s .. n - 1
      /\ pc = "loop" /\ pc' = "call" /\ s' = s + 1 /\ i' = i
      /\ l' = Swap(l, i[s], s) /\ solutions' = solutions
      /\ result' = applyStep(l2Config, algo[s + 1], Prefix(l', e))
  BY <1>0, ChoiceInRange DEF Try, solverVars
<1>3. IsInjective(l') /\ \A v \in 0 .. s - 1 : l'[v] = l[v]
  <2>1. i[s] \in 0 .. n - 1 /\ 0 .. s - 1 \subseteq 0 .. n - 1
    BY <1>0, <1>2
  <2>2. /\ IsInjective(Swap(l, i[s], s))
        /\ \A v \in 0 .. n - 1 :
              v # i[s] /\ v # s => Swap(l, i[s], s)[v] = l[v]
    BY <1>0, <1>1, <1>2, <2>1, SwapProperties
  <2>3. QED
    BY <1>0, <1>2, <2>1, <2>2
<1>4. LoopsInRange'
  <2>1. e <= n /\ \A d \in 0 .. s - 1 : i[d] \in d .. n - 1
    BY <1>1, <1>2 DEF LoopsInRange
  <2>2. \A d \in 0 .. s : i[d] \in d .. n - 1
    BY <1>0, <1>2, <2>1
  <2>3. QED
    BY <1>0, <1>2, <2>1, <2>2 DEF LoopsInRange
<1>5. AcceptedHold'
  <2>1. ASSUME NEW d \in 0 .. s - 1
        PROVE  applyStep(l2Config, algo[d + 1], Prefix(l', e))
    <3>1. \A v \in 0 .. d : l'[v] = l[v]
      BY <1>0, <1>2, <1>3
    <3>2. d \in 0 .. e - 1 /\ applyStep(l2Config, algo[d + 1], Prefix(l, e))
      BY <1>0, <1>1, <1>2 DEF AcceptedHold, Accepted
    <3>3. QED
      BY <1>0, <3>1, <3>2, StepUntouched
  <2>2. Accepted' = IF result' THEN s + 1 ELSE s
    BY <1>2 DEF Accepted
  <2>3. ASSUME NEW d \in 0 .. Accepted' - 1
        PROVE  applyStep(l2Config, algo[d + 1], Prefix(l', e))
    <3>1. CASE d \in 0 .. s - 1
      BY <2>1, <3>1
    <3>2. CASE d = s /\ result'
      BY <1>2, <3>2
    <3>3. QED
      BY <1>2, <2>2, <3>1, <3>2
  <2>4. QED
    BY <1>0, <2>3 DEF AcceptedHold
<1>6. QED
  BY <1>0, <1>1, <1>2, <1>3, <1>4, <1>5 DEF SearchInv

LEMMA SearchInvBacktrack ==
    ASSUME TypeOK, SearchInv, Backtrack
    PROVE  SearchInv'
<1>0. /\ SearchStep /\ Searching
      /\ n' = n /\ e' = e /\ algo' = algo
      /\ n \in Nat /\ e \in Nat
      /\ UNCHANGED <<l2Config, running, base>>
  BY SearchFrame DEF SearchStep
<1>1. /\ l \in [0 .. n - 1 -> 0 .. n - 1] /\ i \in [0 .. e - 1 -> 0 .. n]
      /\ s \in 0 .. e
      /\ IsInjective(l) /\ LoopsInRange /\ AcceptedHold
      /\ base <= Len(solutions[running])
  BY <1>0 DEF TypeOK, SearchInv
<1>2. /\ s - 1 \in 0 .. e - 1 /\ s - 1 \in 0 .. n - 1
      /\ i[s - 1] \in s - 1 .. n - 1
      /\ s > 0 /\ pc = "return" /\ pc' = "loop" /\ s' = s - 1
      /\ i' = [i EXCEPT ![s - 1] = i[s - 1] + 1]
      /\ l' = Swap(l, i[s - 1], s - 1) /\ solutions' = solutions
  BY <1>0, ChoiceInRange DEF Backtrack, solverVars
<1>3. IsInjective(l') /\ \A v \in 0 .. s - 1 - 1 : l'[v] = l[v]
  <2>1. i[s - 1] \in 0 .. n - 1 /\ 0 .. s - 1 - 1 \subseteq 0 .. n - 1
    BY <1>0, <1>2
  <2>2. /\ IsInjective(Swap(l, i[s - 1], s - 1))
        /\ \A v \in 0 .. n - 1 :
              v # i[s - 1] /\ v # s - 1 => Swap(l, i[s - 1], s - 1)[v] = l[v]
    BY <1>0, <1>1, <1>2, <2>1, SwapProperties
  <2>3. QED
    BY <1>0, <1>2, <2>1, <2>2
<1>4. LoopsInRange'
  <2>1. i'[s - 1] = i[s - 1] + 1 /\ \A d \in 0 .. s - 2 : i'[d] = i[d]
    BY <1>0, <1>1, <1>2
  <2>2. e <= n /\ \A d \in 0 .. s - 1 : i[d] \in d .. n - 1
    BY <1>1, <1>2 DEF LoopsInRange
  <2>3. i'[s - 1] >= s - 1 /\ \A d \in 0 .. s - 2 : i'[d] \in d .. n - 1
    <3>1. i'[s - 1] >= s - 1
      BY <1>0, <1>1, <1>2, <2>1
    <3>2. \A d \in 0 .. s - 2 : d \in 0 .. s - 1 /\ i'[d] = i[d]
      BY <1>1, <2>1
    <3>3. QED
      BY <3>1, <3>2, <2>2
  <2>4. QED
    BY <1>0, <1>2, <2>2, <2>3 DEF LoopsInRange
<1>5. AcceptedHold'
  <2>1. Accepted = s - 1 /\ Accepted' = s - 1
    BY <1>2 DEF Accepted
  <2>2. ASSUME NEW d \in 0 .. s - 2
        PROVE  applyStep(l2Config, algo[d + 1], Prefix(l', e))
    <3>0. 0 .. d \subseteq 0 .. s - 1 - 1
      BY <1>0, <1>1
    <3>1. \A v \in 0 .. d : l'[v] = l[v]
      BY <3>0, <1>3
    <3>2. d \in 0 .. e - 1 /\ applyStep(l2Config, algo[d + 1], Prefix(l, e))
      BY <1>0, <1>1, <1>2, <2>1 DEF AcceptedHold
    <3>3. QED
      BY <1>0, <3>1, <3>2, StepUntouched
  <2>3. QED
    BY <1>0, <1>1, <2>1, <2>2 DEF AcceptedHold
<1>6. QED
  BY <1>0, <1>1, <1>2, <1>3, <1>4, <1>5 DEF SearchInv

LEMMA SearchInvStep ==
    ASSUME TypeOK, SearchInv, SearchStep
    PROVE  SearchInv'
<1>0. /\ Searching
      /\ n' = n /\ e' = e /\ algo' = algo
      /\ n \in Nat /\ e \in Nat
      /\ UNCHANGED <<l2Config, running, base>>
  BY SearchFrame
<1>1. /\ l \in [0 .. n - 1 -> 0 .. n - 1] /\ i \in [0 .. e - 1 -> 0 .. n]
      /\ s \in 0 .. e
      /\ running \in DOMAIN solutions /\ Len(solutions[running]) \in Nat
      /\ base \in Nat
      /\ IsInjective(l) /\ LoopsInRange /\ AcceptedHold
      /\ base <= Len(solutions[running])
  BY <1>0 DEF TypeOK, SearchInv
<1>2. CASE Try
  BY <1>2, SearchInvTry
<1>3. CASE Backtrack
  BY <1>3, SearchInvBacktrack
<1>4. CASE Finish
  BY <1>4 DEF Finish, SearchInv, Searching
<1>5. CASE Prune \/ Record \/ EndLoop
  <2>1. /\ pc' = "return" /\ l' = l /\ s' = s /\ i' = i
        /\ pc = "call" \/ pc = "loop"
    BY <1>5 DEF Prune, Record, EndLoop, searchVars
  <2>2. 0 .. Accepted' - 1 \subseteq 0 .. Accepted - 1
    BY <1>1, <2>1 DEF Accepted
  <2>3. AcceptedHold'
    <3>1. \A d \in 0 .. Accepted' - 1 : applyStep(l2Config, algo[d + 1], Prefix(l, e))
      BY <1>1, <2>2 DEF AcceptedHold
    <3>2. QED
      BY <1>0, <2>1, <3>1 DEF AcceptedHold
  <2>4. LoopsInRange'
    BY <1>0, <1>1, <2>1 DEF LoopsInRange
  <2>5. base <= Len(solutions'[running])
    BY <1>1, <1>5 DEF Prune, Record, EndLoop, solverVars
  <2>6. QED
    BY <1>0, <1>1, <2>1, <2>3, <2>4, <2>5 DEF SearchInv
<1>6. CASE StartLoop
  <2>1. /\ pc = "call" /\ result /\ pc' = "loop" /\ l' = l /\ s' = s
        /\ result' = result /\ solutions' = solutions
        /\ i' = [i EXCEPT ![s] = s] /\ s \in 0 .. e - 1 /\ e <= n
    BY <1>0, <1>1, <1>6 DEF StartLoop, solverVars
  <2>2. Accepted' = Accepted
    BY <2>1 DEF Accepted
  <2>3. AcceptedHold'
    BY <1>0, <1>1, <2>1, <2>2 DEF AcceptedHold
  <2>4. i'[s] = s /\ \A d \in 0 .. s - 1 : i'[d] = i[d]
    BY <1>1, <2>1
  <2>5. LoopsInRange'
    <3>1. \A d \in 0 .. s - 1 : i'[d] \in d .. n - 1
      BY <1>1, <2>4 DEF LoopsInRange
    <3>2. QED
      BY <1>0, <2>1, <2>4, <3>1 DEF LoopsInRange
  <2>6. QED
    BY <1>0, <1>1, <2>1, <2>3, <2>5 DEF SearchInv
<1>7. QED
  BY <1>2, <1>3, <1>4, <1>5, <1>6 DEF SearchStep

----------------------------------------------------------------------------
(***************************************************************************)
(* The inductive invariant.  TypeOK alone is not inductive: that the       *)
(* indexes of a swap stay within the slice rests on LoopsInRange.          *)
(***************************************************************************)
IInv == TypeOK /\ SearchInv /\ SolutionsSound

LEMMA RecordedSatisfies ==
    ASSUME TypeOK, SearchInv, Record
    PROVE  Prefix(l, e) \in Satisfying(l2Config, algo)
<1>1. /\ Searching /\ pc = "call" /\ result /\ n >= e /\ s = e
  BY DEF Record, Searching
<1>2. /\ n \in Nat /\ e \in Nat
      /\ l \in [0 .. n - 1 -> 0 .. n - 1]
      /\ IsInjective(l) /\ AcceptedHold
  BY <1>1, SizesInNat DEF TypeOK, SearchInv
<1>3. Prefix(l, e) \in [0 .. e - 1 -> 0 .. n - 1]
  BY <1>1, <1>2 DEF Prefix
<1>4. IsInjective(Prefix(l, e))
  BY <1>1, <1>2 DEF Prefix, IsInjective
<1>5. \A d \in 0 .. e - 1 : applyStep(l2Config, algo[d + 1], Prefix(l, e))
  BY <1>1, <1>2 DEF AcceptedHold, Accepted
<1>6. QED
  BY <1>3, <1>4, <1>5 DEF Satisfying, Injection, n, e

LEMMA SoundSearchStep ==
    ASSUME IInv, SearchStep
    PROVE  SolutionsSound'
<1>0. /\ Searching /\ algo' = algo
      /\ UNCHANGED <<l2Config, problems, running, base>>
  BY SearchFrame DEF IInv
<1>1. /\ running \in DOMAIN solutions /\ base \in Nat
      /\ solutions[running] \in Seq([0 .. Len(problems[running]) - 1 -> Nat])
      /\ \A k \in base + 1 .. Len(solutions[running]) :
            solutions[running][k] \in Satisfying(l2Config, algo)
  BY <1>0 DEF IInv, TypeOK, SolutionsSound
<1>2. CASE Record
  <2>1. solutions'[running] = Append(solutions[running], Prefix(l, e))
    BY <1>1, <1>2 DEF Record
  <2>2. Prefix(l, e) \in Satisfying(l2Config, algo)
    BY <1>2, RecordedSatisfies DEF IInv
  <2>3. \A k \in base + 1 .. Len(solutions'[running]) :
            solutions'[running][k] \in Satisfying(l2Config, algo)
    BY <1>1, <2>1, <2>2
  <2>4. QED
    BY <1>0, <2>3 DEF SolutionsSound
<1>3. CASE ~ Record
  <2>1. solutions' = solutions
    BY <1>3 DEF SearchStep, Prune, StartLoop, Try, EndLoop, Backtrack, Finish, solverVars
  <2>2. QED
    BY <1>0, <1>1, <2>1 DEF SolutionsSound
<1>4. QED
  BY <1>2, <1>3

LEMMA IInvInit == Init => IInv
BY TypeInit DEF Init, IInv, SearchInv, SolutionsSound, Searching

LEMMA IInvNext == IInv /\ [Next]_vars => IInv'
<1>1. SUFFICES ASSUME IInv, [Next]_vars
               PROVE  IInv'
  OBVIOUS
<1>2. CASE UNCHANGED vars
  BY <1>1, <1>2 DEF vars, IInv, TypeOK, SearchInv, SolutionsSound, Searching,
     LoopsInRange, AcceptedHold, Accepted, n, e, algo
<1>3. ASSUME NEW name \in Names, NEW statement \in Problems,
             InitProblem(name, statement)
      PROVE  IInv'
  <2>1. TypeOK'
    BY <1>1, <1>3, TypeInitProblem DEF IInv
  <2>2. ~ Searching'
    BY <1>3 DEF InitProblem, Searching
  <2>3. QED
    BY <2>1, <2>2 DEF IInv, SearchInv, SolutionsSound
<1>4. ASSUME NEW config \in Configs, SetL2Config(config)
      PROVE  IInv'
  <2>1. ~ Searching'
    BY <1>4 DEF SetL2Config, Searching
  <2>2. TypeOK'
    BY <1>1, <1>4, <2>1 DEF IInv, TypeOK, SetL2Config, searchVars, historyVars
  <2>3. QED
    BY <2>1, <2>2 DEF IInv, SearchInv, SolutionsSound
<1>5. ASSUME NEW name \in Names, RunPanics(name)
      PROVE  IInv'
  <2>1. ~ Searching'
    BY <1>5 DEF RunPanics, Searching
  <2>2. TypeOK'
    BY <1>1, <1>5, <2>1 DEF IInv, TypeOK, RunPanics, searchVars, historyVars
  <2>3. QED
    BY <2>1, <2>2 DEF IInv, SearchInv, SolutionsSound
<1>6. ASSUME NEW name \in Names, Run(name)
      PROVE  IInv'
  <2>1. TypeOK'
    BY <1>1, <1>6, TypeRun DEF IInv
  <2>2. /\ pc' = "call" /\ s' = 0 /\ result'
        /\ l' = GetAllGraphVertices(n)
        /\ running' = name /\ solutions' = solutions
        /\ base' = Len(solutions[name]) /\ name \in DOMAIN solutions
        /\ Len(solutions[name]) \in Nat
    BY <1>1, <1>6 DEF IInv, TypeOK, Run
  <2>3. IsInjective(l')
    BY <2>2 DEF GetAllGraphVertices, IsInjective
  <2>4. LoopsInRange' /\ AcceptedHold'
    BY <2>2 DEF LoopsInRange, AcceptedHold, Accepted
  <2>5. SearchInv' /\ SolutionsSound'
    BY <2>2, <2>3, <2>4 DEF SearchInv, SolutionsSound
  <2>6. QED
    BY <2>1, <2>5 DEF IInv
<1>7. ASSUME NEW all \in BOOLEAN, PrintSolutions(all)
      PROVE  IInv'
  <2>1. ~ Searching'
    BY <1>7 DEF PrintSolutions, Searching
  <2>2. TypeOK'
    BY <1>1, <1>7, <2>1 DEF IInv, TypeOK, PrintSolutions, solverVars, searchVars, historyVars
  <2>3. QED
    BY <2>1, <2>2 DEF IInv, SearchInv, SolutionsSound
<1>8. CASE SearchStep
  BY <1>1, <1>8, TypeSearchStep, SearchInvStep, SoundSearchStep DEF IInv
<1>9. QED
  BY <1>1, <1>2, <1>3, <1>4, <1>5, <1>6, <1>7, <1>8 DEF Next

LEMMA IInvInvariant == Spec => []IInv
BY IInvInit, IInvNext, PTL DEF Spec

(***************************************************************************)
(* The variables keep their types: in particular no swap, loop variable or *)
(* recorded solution ever leaves the slice of interfaces.                  *)
(***************************************************************************)
THEOREM TypeCorrect == Spec => []TypeOK
BY IInvInvariant, PTL DEF IInv

(***************************************************************************)
(* Pruning on prefixes of a slice permuted in place is right: the slice is *)
(* always a permutation on which every accepted step still holds.          *)
(***************************************************************************)
THEOREM SearchCorrect == Spec => []SearchInv
BY IInvInvariant, PTL DEF IInv

(***************************************************************************)
(* Every solution Run appends assigns distinct interfaces and satisfies    *)
(* every step of its problem, for any configuration and any problem whose  *)
(* steps read only the variables chosen so far.                            *)
(***************************************************************************)
THEOREM RunSound == Spec => []SolutionsSound
BY IInvInvariant, PTL DEF IInv

----------------------------------------------------------------------------
(***************************************************************************)
(* Every solution is within the interfaces of a run since InitProblem.     *)
(***************************************************************************)
Within(solution, config) == \A v \in DOMAIN solution : solution[v] < Len(config.ifs)

FoundInv ==
    \A name \in DOMAIN problems : \A k \in DOMAIN solutions[name] :
        \E r \in DOMAIN runs[name] : Within(solutions[name][k], runs[name][r])

RunsInv ==
    /\ \A name \in DOMAIN problems : DOMAIN runs[name] # {} => l2Config \in Configs
    /\ Searching => \E r \in DOMAIN runs[running] : runs[running][r] = l2Config

LEMMA FoundInitProblem ==
    ASSUME TypeOK, FoundInv, RunsInv, NEW name \in Names, NEW statement \in Problems,
           InitProblem(name, statement)
    PROVE  FoundInv' /\ RunsInv'
<1>1. /\ DOMAIN problems' = DOMAIN problems \cup {name}
      /\ solutions'[name] = <<>> /\ runs'[name] = <<>>
      /\ \A m \in DOMAIN problems : m # name => solutions'[m] = solutions[m] /\ runs'[m] = runs[m]
  BY DEF InitProblem, Set, TypeOK
<1>2. DOMAIN <<>> = {}
  OBVIOUS
<1>3. FoundInv'
  <2> SUFFICES ASSUME NEW m \in DOMAIN problems', NEW k \in DOMAIN solutions'[m]
               PROVE  \E r \in DOMAIN runs'[m] : Within(solutions'[m][k], runs'[m][r])
    BY DEF FoundInv, Within
  <2>1. m # name /\ m \in DOMAIN problems
    BY <1>1, <1>2
  <2> QED BY <1>1, <2>1 DEF FoundInv
<1>4. RunsInv'
  <2>1. UNCHANGED l2Config /\ ~ Searching'
    BY DEF InitProblem, Searching
  <2>2. ASSUME NEW m \in DOMAIN problems', DOMAIN runs'[m] # {}
        PROVE  l2Config \in Configs
    BY <1>1, <1>2, <2>2 DEF RunsInv
  <2> QED BY <2>1, <2>2 DEF RunsInv
<1> QED BY <1>3, <1>4

LEMMA FoundRun ==
    ASSUME TypeOK, FoundInv, RunsInv, NEW name \in Names, Run(name)
    PROVE  FoundInv' /\ RunsInv'
<1>1. /\ UNCHANGED <<problems, solutions, l2Config>> /\ running' = name
      /\ name \in DOMAIN problems /\ l2Config \in Configs
      /\ runs' = [runs EXCEPT ![name] = Append(@, l2Config)]
  BY DEF Run, TypeOK
<1>2. DOMAIN runs = DOMAIN problems /\ runs[name] \in Seq(Configs)
  BY <1>1 DEF TypeOK
<1>3. /\ runs'[name] = Append(runs[name], l2Config)
      /\ \A m \in DOMAIN problems : m # name => runs'[m] = runs[m]
  BY <1>1, <1>2
<1>4. /\ DOMAIN runs[name] \subseteq DOMAIN runs'[name]
      /\ \A r \in DOMAIN runs[name] : runs'[name][r] = runs[name][r]
      /\ Len(runs[name]) + 1 \in DOMAIN runs'[name]
      /\ runs'[name][Len(runs[name]) + 1] = l2Config
  BY <1>1, <1>2, <1>3
<1>5. FoundInv'
  <2> SUFFICES ASSUME NEW m \in DOMAIN problems, NEW k \in DOMAIN solutions[m]
               PROVE  \E r \in DOMAIN runs'[m] : Within(solutions[m][k], runs'[m][r])
    BY <1>1 DEF FoundInv, Within
  <2>1. PICK r \in DOMAIN runs[m] : Within(solutions[m][k], runs[m][r])
    BY DEF FoundInv
  <2> QED BY <1>3, <1>4, <2>1
<1>6. RunsInv'
  BY <1>1, <1>4 DEF RunsInv
<1> QED BY <1>5, <1>6

LEMMA FoundSearchStep ==
    ASSUME IInv, FoundInv, RunsInv, SearchStep
    PROVE  FoundInv' /\ RunsInv'
<1>1. Searching /\ UNCHANGED <<l2Config, problems, running, runs>> /\ n \in Nat /\ e \in Nat
  BY SearchFrame DEF IInv
<1>2. RunsInv'
  BY <1>1 DEF RunsInv
<1>3. CASE Record
  <2>1. /\ solutions' = [solutions EXCEPT ![running] = Append(@, Prefix(l, e))]
        /\ result /\ n >= e
    BY <1>3 DEF Record
  <2>2. /\ running \in DOMAIN problems /\ DOMAIN solutions = DOMAIN problems
        /\ solutions[running] \in Seq([0 .. Len(problems[running]) - 1 -> Nat])
        /\ l \in [0 .. n - 1 -> 0 .. n - 1]
    BY <1>1 DEF IInv, TypeOK
  <2>3. /\ solutions'[running] = Append(solutions[running], Prefix(l, e))
        /\ \A m \in DOMAIN problems : m # running => solutions'[m] = solutions[m]
    BY <2>1, <2>2
  <2>4. Within(Prefix(l, e), l2Config)
    <3>1. DOMAIN Prefix(l, e) = 0 .. e - 1 /\ \A v \in 0 .. e - 1 : Prefix(l, e)[v] = l[v]
      BY DEF Prefix
    <3>2. \A v \in 0 .. e - 1 : l[v] \in 0 .. n - 1
      BY <1>1, <2>1, <2>2
    <3>3. \A v \in 0 .. e - 1 : l[v] < n
      BY <1>1, <3>2
    <3> QED BY <3>1, <3>3 DEF Within, n
  <2>5. ASSUME NEW k \in DOMAIN solutions'[running]
        PROVE  \E r \in DOMAIN runs[running] : Within(solutions'[running][k], runs[running][r])
    <3>1. CASE k \in DOMAIN solutions[running]
      <4>1. solutions'[running][k] = solutions[running][k]
        BY <2>2, <2>3, <3>1
      <4> QED BY <2>2, <3>1, <4>1 DEF FoundInv
    <3>2. CASE k \notin DOMAIN solutions[running]
      <4>1. solutions'[running][k] = Prefix(l, e)
        BY <2>2, <2>3, <2>5, <3>2
      <4> QED BY <1>1, <2>4, <4>1 DEF RunsInv
    <3> QED BY <3>1, <3>2
  <2>6. FoundInv'
    <3> SUFFICES ASSUME NEW m \in DOMAIN problems, NEW k \in DOMAIN solutions'[m]
                 PROVE  \E r \in DOMAIN runs[m] : Within(solutions'[m][k], runs[m][r])
      BY <1>1 DEF FoundInv, Within
    <3>1. CASE m = running
      BY <2>5, <3>1
    <3>2. CASE m # running
      BY <2>3, <3>2 DEF FoundInv
    <3> QED BY <3>1, <3>2
  <2> QED BY <1>2, <2>6
<1>4. CASE ~ Record
  <2>1. solutions' = solutions
    BY <1>4 DEF SearchStep, Prune, StartLoop, Try, EndLoop, Backtrack, Finish, solverVars
  <2> QED BY <1>1, <1>2, <2>1 DEF FoundInv, Within
<1> QED BY <1>3, <1>4

LEMMA FoundNext == IInv /\ FoundInv /\ RunsInv /\ [Next]_vars => FoundInv' /\ RunsInv'
<1> SUFFICES ASSUME IInv, FoundInv, RunsInv, [Next]_vars
             PROVE  FoundInv' /\ RunsInv'
  OBVIOUS
<1>1. CASE \E name \in Names, statement \in Problems : InitProblem(name, statement)
  BY <1>1, FoundInitProblem DEF IInv
<1>2. CASE \E name \in Names : Run(name)
  BY <1>2, FoundRun DEF IInv
<1>3. CASE SearchStep
  BY <1>3, FoundSearchStep
<1>4. CASE \/ \E config \in Configs : SetL2Config(config)
           \/ \E name \in Names : RunPanics(name)
           \/ \E all \in BOOLEAN : PrintSolutions(all)
  <2>1. /\ UNCHANGED <<problems, solutions, runs>> /\ ~ Searching'
        /\ l2Config' = l2Config \/ l2Config' \in Configs
    BY <1>4 DEF SetL2Config, RunPanics, PrintSolutions, solverVars, searchVars, historyVars,
                Searching
  <2> QED BY <2>1 DEF FoundInv, RunsInv, Within
<1>5. CASE UNCHANGED vars
  BY <1>5 DEF vars, FoundInv, RunsInv, Within, Searching
<1> QED BY <1>1, <1>2, <1>3, <1>4, <1>5 DEF Next

(***************************************************************************)
(* Printing solutions cannot panic unless a smaller configuration was set  *)
(* after a problem was run: InitProblem leaves no solution of the problem  *)
(* that had the name before (initProblem, PrintSolutions).                 *)
(***************************************************************************)
THEOREM PrintsFitCorrect == Spec => []PrintsFit
<1>1. Init => FoundInv /\ RunsInv
  BY DEF Init, FoundInv, RunsInv, Searching
<1>2. IInv /\ FoundInv /\ RunsInv => PrintsFit
  <2> SUFFICES ASSUME IInv, FoundInv, RunsInv,
                      \A name \in DOMAIN runs : \A k \in DOMAIN runs[name] :
                          Len(runs[name][k].ifs) <= n,
                      NEW name \in DOMAIN solutions, NEW solution \in Printed(name, TRUE),
                      NEW v \in DOMAIN solution
               PROVE  ~ (solution[v] >= n)
    BY DEF PrintsFit, Misprints
  <2>1. PICK k \in DOMAIN solutions[name] : solution = solutions[name][k]
    BY DEF Printed
  <2>2. name \in DOMAIN problems /\ DOMAIN runs = DOMAIN problems
        /\ runs[name] \in Seq(Configs)
        /\ solutions[name] \in Seq([0 .. Len(problems[name]) - 1 -> Nat])
    BY DEF IInv, TypeOK
  <2>3. PICK r \in DOMAIN runs[name] : Within(solution, runs[name][r])
    BY <2>1, <2>2 DEF FoundInv
  <2>4. solution \in [0 .. Len(problems[name]) - 1 -> Nat]
    BY <2>1, <2>2
  <2>5. solution[v] \in Nat /\ solution[v] < Len(runs[name][r].ifs)
    BY <2>3, <2>4 DEF Within
  <2>6. runs[name][r] \in Configs /\ l2Config \in Configs
    BY <2>2 DEF RunsInv
  <2>7. Len(runs[name][r].ifs) \in Nat /\ n \in Nat /\ Len(runs[name][r].ifs) <= n
    BY <2>2, <2>6, ConfigsAssumption DEF n
  <2> QED BY <2>5, <2>7
<1> QED BY <1>1, <1>2, IInvInvariant, FoundNext, PTL DEF Spec

----------------------------------------------------------------------------
(***************************************************************************)
(* Nothing is lost or repeated.  The slices the calls of the active run    *)
(* loop over, one per depth: the slice of depth d is that of depth d + 1   *)
(* with the choice of depth d swapped back.  No variable holds them, for   *)
(* the code keeps the deepest one only; that the others can be had from it *)
(* is what the swap after the recursive call is for.                       *)
(***************************************************************************)
IsStack(slices) ==
    /\ slices[s] = l
    /\ \A d \in 0 .. s :
          /\ slices[d] \in [0 .. n - 1 -> 0 .. n - 1]
          /\ IsInjective(slices[d])
          /\ \A v \in 0 .. d - 1 : slices[d][v] = l[v]
    /\ \A d \in 0 .. s - 1 : slices[d] = Swap(slices[d + 1], i[d], d)

(***************************************************************************)
(* The candidates the search has already left behind: at some depth the    *)
(* candidate makes an earlier choice than the present one, or it agrees    *)
(* with all choices made and lies in the part the active call is done with.*)
(***************************************************************************)
LeftAt(a, slices, d) ==
    /\ \A v \in 0 .. d - 1 : a[v] = l[v]
    /\ \E j \in d .. i[d] - 1 : a[d] = slices[d][j]

Here(a) ==
    /\ \A v \in 0 .. s - 1 : a[v] = l[v]
    /\ \/ pc = "return"
       \/ pc = "loop" /\ \E j \in s .. i[s] - 1 : a[s] = l[j]

Behind(a, slices) == Here(a) \/ \E d \in 0 .. s - 1 : LeftAt(a, slices, d)

FoundNow == base + 1 .. Len(solutions[running])

FoundBehind(slices) ==
    \A a : (\E k \in FoundNow : solutions[running][k] = a)
             <=> (a \in Satisfying(l2Config, algo) /\ Behind(a, slices))

FoundOnce ==
    \A j, k \in FoundNow : solutions[running][j] = solutions[running][k] => j = k

Failed == 
    pc = "call" /\ ~ result =>
        s > 0 /\ ~ applyStep(l2Config, algo[s], Prefix(l, e))

ExactInv ==
    Searching =>
        /\ Failed
        /\ FoundOnce
        /\ \E slices : IsStack(slices) /\ FoundBehind(slices)

LEMMA SwapBack ==
    ASSUME NEW N \in Nat, NEW p \in [0 .. N - 1 -> 0 .. N - 1],
           NEW a \in 0 .. N - 1, NEW b \in 0 .. N - 1
    PROVE  /\ Swap(Swap(p, a, b), a, b) = p
           /\ Swap(p, a, b)[b] = p[a]
           /\ Swap(p, a, b)[a] = p[b]
BY DEF Swap

LEMMA SatisfyingFacts ==
    ASSUME TypeOK, Searching, NEW a \in Satisfying(l2Config, algo)
    PROVE  /\ a \in [0 .. e - 1 -> 0 .. n - 1]
           /\ IsInjective(a)
           /\ \A d \in 0 .. e - 1 : applyStep(l2Config, algo[d + 1], a)
BY DEF Satisfying, Injection, e, n

(***************************************************************************)
(* A step of the search that records nothing keeps FoundBehind when it     *)
(* leaves the same satisfying candidates behind.                           *)
(***************************************************************************)
LEMMA SameBehind ==
    ASSUME TypeOK, SearchStep, UNCHANGED solutions,
           NEW old, NEW new, FoundBehind(old),
           \A a \in Satisfying(l2Config, algo) : Behind(a, new)' <=> Behind(a, old)
    PROVE  FoundBehind(new)'
<1>1. UNCHANGED <<l2Config, running, base>> /\ algo' = algo
  BY SearchFrame
<1> QED BY <1>1 DEF FoundBehind, FoundNow

LEMMA ExactPrune ==
    ASSUME TypeOK, SearchInv, ExactInv, Prune
    PROVE  ExactInv'
<1>0. /\ SearchStep /\ Searching /\ algo' = algo /\ e' = e /\ n' = n
      /\ n \in Nat /\ e \in Nat /\ s \in 0 .. e
      /\ UNCHANGED <<l2Config, problems, running, base, solutions, l, s, i>>
      /\ pc = "call" /\ pc' = "return" /\ (~ result \/ n < e)
  BY SearchFrame DEF SearchStep, Prune, solverVars, searchVars, TypeOK
<1>1. PICK slices : IsStack(slices) /\ FoundBehind(slices)
  BY <1>0 DEF ExactInv
<1>2. ASSUME NEW a \in Satisfying(l2Config, algo)
      PROVE  ~ \A v \in 0 .. s - 1 : a[v] = l[v]
  <2>1. /\ a \in [0 .. e - 1 -> 0 .. n - 1] /\ IsInjective(a)
        /\ \A d \in 0 .. e - 1 : applyStep(l2Config, algo[d + 1], a)
    BY <1>0, SatisfyingFacts
  <2>2. CASE n < e
    <3>1. /\ IsFiniteSet(0 .. e - 1) /\ Cardinality(0 .. e - 1) = e
          /\ IsFiniteSet(0 .. n - 1) /\ Cardinality(0 .. n - 1) = n
      BY <1>0, FS_Interval
    <3>2. \E x, y \in 0 .. e - 1 : x # y /\ a[x] = a[y]
      BY <1>0, <2>1, <2>2, <3>1, FS_PigeonHole
    <3> QED BY <2>1, <3>2 DEF IsInjective
  <2>3. CASE ~ result
    <3>1. s > 0 /\ ~ applyStep(l2Config, algo[s], Prefix(l, e))
      BY <1>0, <2>3 DEF ExactInv, Failed
    <3> SUFFICES ASSUME \A v \in 0 .. s - 1 : a[v] = l[v]
                 PROVE  FALSE
      OBVIOUS
    <3>2. s - 1 \in 0 .. e - 1 /\ (s - 1) + 1 = s
      BY <1>0, <3>1
    <3>3. \A test \in algo[s] : IfParams(test) \subseteq 0 .. s - 1
      BY <1>0, <3>2, ProblemsAssumption DEF e, TypeOK, algo
    <3>4. \A v \in 0 .. s - 1 : a[v] = Prefix(l, e)[v]
      BY <1>0 DEF Prefix
    <3>5. applyStep(l2Config, algo[s], a)
      BY <2>1, <3>2
    <3> QED BY <3>1, <3>3, <3>4, <3>5, StepLocal
  <2> QED BY <1>0, <2>2, <2>3
<1>3. \A a \in Satisfying(l2Config, algo) : Behind(a, slices)' <=> Behind(a, slices)
  BY <1>0, <1>2 DEF Behind, Here, LeftAt
<1>4. FoundBehind(slices)'
  BY <1>0, <1>1, <1>3, SameBehind
<1>5. IsStack(slices)' /\ Failed' /\ FoundOnce'
  BY <1>0, <1>1 DEF IsStack, ExactInv, Failed, FoundOnce, FoundNow
<1> QED BY <1>4, <1>5 DEF ExactInv

LEMMA ExactStartLoop ==
    ASSUME TypeOK, SearchInv, ExactInv, StartLoop
    PROVE  ExactInv'
<1>0. /\ SearchStep /\ Searching /\ algo' = algo /\ e' = e /\ n' = n
      /\ n \in Nat /\ e \in Nat /\ s \in 0 .. e - 1
      /\ UNCHANGED <<l2Config, problems, running, base, solutions, l, s>>
      /\ i \in [0 .. e - 1 -> 0 .. n] /\ i' = [i EXCEPT ![s] = s]
      /\ pc = "call" /\ pc' = "loop"
  BY SearchFrame DEF SearchStep, StartLoop, solverVars, TypeOK
<1>1. PICK slices : IsStack(slices) /\ FoundBehind(slices)
  BY <1>0 DEF ExactInv
<1>2. i'[s] = s /\ \A d \in 0 .. s - 1 : i'[d] = i[d]
  BY <1>0
<1>3. ASSUME NEW a \in Satisfying(l2Config, algo)
      PROVE  Behind(a, slices)' <=> Behind(a, slices)
  <2>1. ~ Here(a) /\ ~ Here(a)'
    BY <1>0, <1>2 DEF Here
  <2>2. \A d \in 0 .. s - 1 : LeftAt(a, slices, d)' <=> LeftAt(a, slices, d)
    BY <1>0, <1>2 DEF LeftAt
  <2> QED BY <1>0, <2>1, <2>2 DEF Behind
<1>4. FoundBehind(slices)'
  BY <1>0, <1>1, <1>3, SameBehind
<1>5. IsStack(slices)'
  BY <1>0, <1>1, <1>2 DEF IsStack
<1>6. Failed' /\ FoundOnce'
  BY <1>0 DEF ExactInv, Failed, FoundOnce, FoundNow
<1> QED BY <1>4, <1>5, <1>6 DEF ExactInv

LEMMA ExactTry ==
    ASSUME TypeOK, SearchInv, ExactInv, Try
    PROVE  ExactInv'
<1>0. /\ SearchStep /\ Searching /\ algo' = algo /\ e' = e /\ n' = n
      /\ n \in Nat /\ e \in Nat
      /\ UNCHANGED <<l2Config, problems, running, base, solutions, i>>
      /\ i \in [0 .. e - 1 -> 0 .. n] /\ s' = s + 1 /\ l' = Swap(l, i[s], s)
      /\ l \in [0 .. n - 1 -> 0 .. n - 1]
      /\ pc = "loop" /\ pc' = "call"
  BY SearchFrame DEF SearchStep, Try, solverVars, TypeOK
<1>1. PICK slices : IsStack(slices) /\ FoundBehind(slices)
  BY <1>0 DEF ExactInv
<1>2. s \in 0 .. e - 1 /\ s \in 0 .. n - 1 /\ i[s] \in s .. n - 1 /\ i[s] \in 0 .. n - 1
  BY <1>0, ChoiceInRange
<1>3. /\ l' \in [0 .. n - 1 -> 0 .. n - 1] /\ IsInjective(l')
      /\ \A v \in 0 .. s - 1 : l'[v] = l[v]
      /\ Swap(l', i[s], s) = l /\ l'[s] = l[i[s]]
  <2>1. IsInjective(l)
    BY <1>0 DEF SearchInv
  <2>2. /\ l' \in [0 .. n - 1 -> 0 .. n - 1] /\ IsInjective(l')
        /\ \A v \in 0 .. n - 1 : v # i[s] /\ v # s => l'[v] = l[v]
    BY <1>0, <1>2, <2>1, SwapProperties
  <2>3. Swap(l', i[s], s) = l /\ l'[s] = l[i[s]]
    BY <1>0, <1>2, SwapBack
  <2>4. ASSUME NEW v \in 0 .. s - 1
        PROVE  v \in 0 .. n - 1 /\ v # i[s] /\ v # s
    <3>1. PICK choice : choice = i[s]
      OBVIOUS
    <3>2. n \in Nat /\ e \in Nat /\ s \in 0 .. n - 1 /\ choice \in s .. n - 1
      BY <1>0, <1>2, <3>1
    <3>3. v \in 0 .. n - 1 /\ v # choice /\ v # s
      BY <3>2
    <3> QED BY <3>1, <3>3
  <2> QED BY <2>2, <2>3, <2>4
<1> DEFINE deeper == [d \in 0 .. s + 1 |-> IF d = s + 1 THEN l' ELSE slices[d]]
<1>4. /\ deeper[s + 1] = l' /\ deeper[s] = l
      /\ \A d \in 0 .. s : deeper[d] = slices[d]
  BY <1>1, <1>2 DEF IsStack
<1> HIDE DEF deeper
<1>5. PICK new : new = deeper
  OBVIOUS
<1>6. IsStack(new)'
  <2>1. new[s'] = l'
    BY <1>0, <1>4, <1>5
  <2>2. ASSUME NEW d \in 0 .. s + 1
        PROVE  /\ new[d] \in [0 .. n - 1 -> 0 .. n - 1]
               /\ IsInjective(new[d])
               /\ \A v \in 0 .. d - 1 : new[d][v] = l'[v]
    <3>1. CASE d = s + 1
      BY <1>3, <1>4, <1>5, <3>1
    <3>2. CASE d \in 0 .. s
      <4>1. new[d] = slices[d]
        BY <1>4, <1>5, <3>2
      <4>2. \A v \in 0 .. d - 1 : v \in 0 .. s - 1
        BY <1>2, <3>2
      <4> QED BY <1>1, <1>3, <3>2, <4>1, <4>2 DEF IsStack
    <3> QED BY <1>2, <3>1, <3>2
  <2>3. ASSUME NEW d \in 0 .. s
        PROVE  new[d] = Swap(new[d + 1], i[d], d)
    <3>1. CASE d = s
      BY <1>3, <1>4, <1>5, <3>1
    <3>2. CASE d \in 0 .. s - 1
      BY <1>1, <1>2, <1>4, <1>5, <3>2 DEF IsStack
    <3> QED BY <1>2, <3>1, <3>2
  <2>4. s' - 1 = s /\ s' = s + 1
    BY <1>0, <1>2
  <2> QED BY <1>0, <2>1, <2>2, <2>3, <2>4 DEF IsStack
<1>7. ASSUME NEW a \in Satisfying(l2Config, algo)
      PROVE  Behind(a, new)' <=> Behind(a, slices)
  <2>0. PICK here \in 0 .. n - 1 : here = s
    BY <1>2
  <2>1. Here(a) <=> LeftAt(a, new, here)'
    <3>1. LeftAt(a, new, here)' <=>
              (\A v \in 0 .. s - 1 : a[v] = l'[v]) /\ \E j \in s .. i[s] - 1 : a[s] = new[s][j]
      BY <1>0, <2>0 DEF LeftAt
    <3> QED BY <1>0, <1>3, <1>4, <1>5, <3>1 DEF Here
  <2>2. ASSUME NEW d \in 0 .. s - 1
        PROVE  LeftAt(a, new, d)' <=> LeftAt(a, slices, d)
    <3>1. \A v \in 0 .. d - 1 : l'[v] = l[v]
      BY <1>2, <1>3
    <3>2. new[d] = slices[d]
      BY <1>2, <1>4, <1>5
    <3> QED BY <1>0, <3>1, <3>2 DEF LeftAt
  <2>3. ~ Here(a)'
    BY <1>0 DEF Here
  <2>4. 0 .. s' - 1 = 0 .. s - 1 \cup {s}
    BY <1>0, <1>2
  <2>5. Behind(a, new)' <=> \E d \in 0 .. s' - 1 : LeftAt(a, new, d)'
    BY <2>3 DEF Behind
  <2> QED BY <2>0, <2>1, <2>2, <2>4, <2>5 DEF Behind
<1>8. FoundBehind(new)'
  BY <1>0, <1>1, <1>7, SameBehind
<1>9. Failed' /\ FoundOnce'
  <2>1. result' = applyStep(l2Config, algo[s + 1], Prefix(l', e))
    BY DEF Try
  <2> QED BY <1>0, <1>2, <2>1 DEF ExactInv, Failed, FoundOnce, FoundNow
<1> QED BY <1>6, <1>8, <1>9 DEF ExactInv

LEMMA Onto ==
    ASSUME NEW N \in Nat, NEW p \in [0 .. N - 1 -> 0 .. N - 1], IsInjective(p),
           NEW x \in 0 .. N - 1
    PROVE  \E j \in 0 .. N - 1 : p[j] = x
<1>1. IsFiniteSet(0 .. N - 1)
  BY FS_Interval
<1>2. p \in Injection(0 .. N - 1, 0 .. N - 1)
  BY DEF Injection
<1>3. p \in Surjection(0 .. N - 1, 0 .. N - 1)
  BY <1>1, <1>2, FS_Injection
<1> QED BY <1>3 DEF Surjection

LEMMA ExactEndLoop ==
    ASSUME TypeOK, SearchInv, ExactInv, EndLoop
    PROVE  ExactInv'
<1>0. /\ SearchStep /\ Searching /\ algo' = algo /\ e' = e /\ n' = n
      /\ n \in Nat /\ e \in Nat /\ s \in 0 .. e
      /\ UNCHANGED <<l2Config, problems, running, base, solutions, l, s, i>>
      /\ i \in [0 .. e - 1 -> 0 .. n] /\ l \in [0 .. n - 1 -> 0 .. n - 1]
      /\ pc = "loop" /\ pc' = "return" /\ i[s] >= n
  BY SearchFrame DEF SearchStep, EndLoop, solverVars, searchVars, TypeOK
<1>1. PICK slices : IsStack(slices) /\ FoundBehind(slices)
  BY <1>0 DEF ExactInv
<1>2. s \in 0 .. e - 1 /\ s \in 0 .. n - 1 /\ i[s] = n /\ IsInjective(l)
  BY <1>0 DEF SearchInv, LoopsInRange
<1>3. ASSUME NEW a \in Satisfying(l2Config, algo), \A v \in 0 .. s - 1 : a[v] = l[v]
      PROVE  \E j \in s .. i[s] - 1 : a[s] = l[j]
  <2>1. a \in [0 .. e - 1 -> 0 .. n - 1] /\ IsInjective(a)
    BY <1>0, SatisfyingFacts
  <2>2. PICK j \in 0 .. n - 1 : l[j] = a[s]
    <3>1. a[s] \in 0 .. n - 1
      BY <1>2, <2>1
    <3> QED BY <1>0, <1>2, <3>1, Onto
  <2>3. j \notin 0 .. s - 1
    <3> SUFFICES ASSUME j \in 0 .. s - 1
                 PROVE  FALSE
      OBVIOUS
    <3>1. a[j] = a[s] /\ j # s /\ j \in 0 .. e - 1
      BY <1>0, <1>2, <1>3, <2>2
    <3> QED BY <1>2, <2>1, <3>1 DEF IsInjective
  <2> QED BY <1>0, <1>2, <2>2, <2>3
<1>4. \A a \in Satisfying(l2Config, algo) : Behind(a, slices)' <=> Behind(a, slices)
  BY <1>0, <1>3 DEF Behind, Here, LeftAt
<1>5. FoundBehind(slices)'
  BY <1>0, <1>1, <1>4, SameBehind
<1>6. IsStack(slices)'
  BY <1>0, <1>1 DEF IsStack
<1>7. Failed' /\ FoundOnce'
  BY <1>0 DEF ExactInv, Failed, FoundOnce, FoundNow
<1> QED BY <1>5, <1>6, <1>7 DEF ExactInv

LEMMA ExactBacktrack ==
    ASSUME TypeOK, SearchInv, ExactInv, Backtrack
    PROVE  ExactInv'
<1>0. /\ SearchStep /\ Searching /\ algo' = algo /\ e' = e /\ n' = n
      /\ n \in Nat /\ e \in Nat
      /\ UNCHANGED <<l2Config, problems, running, base, solutions>>
      /\ i \in [0 .. e - 1 -> 0 .. n] /\ l \in [0 .. n - 1 -> 0 .. n - 1]
      /\ s \in 0 .. e /\ s > 0 /\ s' = s - 1
      /\ l' = Swap(l, i[s - 1], s - 1)
      /\ i' = [i EXCEPT ![s - 1] = i[s - 1] + 1]
      /\ pc = "return" /\ pc' = "loop"
  BY SearchFrame DEF SearchStep, Backtrack, solverVars, TypeOK
<1>1. PICK slices : IsStack(slices) /\ FoundBehind(slices)
  BY <1>0 DEF ExactInv
<1>2. /\ s - 1 \in 0 .. e - 1 /\ s - 1 \in 0 .. n - 1
      /\ i[s - 1] \in s - 1 .. n - 1 /\ i[s - 1] \in 0 .. n - 1
  BY <1>0, ChoiceInRange
<1>3. i'[s - 1] = i[s - 1] + 1 /\ \A d \in 0 .. s - 2 : i'[d] = i[d]
  BY <1>0, <1>2
<1>4. l' = slices[s - 1] /\ slices[s] = l /\ slices[s - 1][i[s - 1]] = l[s - 1]
  <2>0. s - 1 \in 0 .. s - 1 /\ (s - 1) + 1 = s
    BY <1>0
  <2>1. slices[s - 1] = Swap(slices[s], i[s - 1], s - 1)
    BY <1>1, <2>0 DEF IsStack
  <2>2. slices[s] = l
    BY <1>1 DEF IsStack
  <2>3. slices[s - 1][i[s - 1]] = l[s - 1]
    <3>1. Swap(l, i[s - 1], s - 1)[i[s - 1]] = l[s - 1]
      BY <1>0, <1>2, SwapBack
    <3> QED BY <2>1, <2>2, <3>1
  <2> QED BY <1>0, <2>1, <2>2, <2>3
<1>5. \A v \in 0 .. s - 2 : l'[v] = l[v]
  <2>1. s - 1 \in 0 .. s /\ (s - 1) - 1 = s - 2
    BY <1>0
  <2> QED BY <1>1, <1>4, <2>1 DEF IsStack
<1>6. IsStack(slices)'
  <2>1. ASSUME NEW d \in 0 .. s - 1
        PROVE  /\ slices[d] \in [0 .. n - 1 -> 0 .. n - 1]
               /\ IsInjective(slices[d])
               /\ \A v \in 0 .. d - 1 : slices[d][v] = l'[v]
    <3>1. d \in 0 .. s /\ \A v \in 0 .. d - 1 : v \in 0 .. s - 2
      BY <1>0
    <3> QED BY <1>1, <1>5, <3>1 DEF IsStack
  <2>2. ASSUME NEW d \in 0 .. s - 2
        PROVE  slices[d] = Swap(slices[d + 1], i'[d], d)
    <3>1. d \in 0 .. s - 1
      BY <1>0
    <3> QED BY <1>1, <1>3, <3>1 DEF IsStack
  <2>3. s' = s - 1 /\ s' - 1 = s - 2 /\ slices[s'] = l'
    BY <1>0, <1>4
  <2> QED BY <1>0, <2>1, <2>2, <2>3 DEF IsStack
<1>7. ASSUME NEW a \in Satisfying(l2Config, algo)
      PROVE  Behind(a, slices)' <=> Behind(a, slices)
  <2>1. Here(a)' <=> Here(a) \/ LeftAt(a, slices, s - 1)
    <3>0. 0 .. s - 1 = 0 .. s - 2 \cup {s - 1} /\ s' - 1 = s - 2 /\ i'[s'] - 1 = i[s - 1]
      BY <1>0, <1>2, <1>3
    <3>1. Here(a) <=> (\A v \in 0 .. s - 2 : a[v] = l[v]) /\ a[s - 1] = slices[s - 1][i[s - 1]]
      BY <1>0, <1>4, <3>0 DEF Here
    <3>2. Here(a)' <=> /\ \A v \in 0 .. s - 2 : a[v] = l[v]
                       /\ \E j \in s - 1 .. i[s - 1] : a[s - 1] = slices[s - 1][j]
      <4>1. Here(a)' <=> /\ \A v \in 0 .. s - 2 : a[v] = l'[v]
                         /\ \E j \in s - 1 .. i[s - 1] : a[s - 1] = l'[j]
        BY <1>0, <3>0 DEF Here
      <4> QED BY <1>4, <1>5, <4>1
    <3>3. s - 1 .. i[s - 1] = s - 1 .. i[s - 1] - 1 \cup {i[s - 1]}
      BY <1>0, <1>2
    <3>4. LeftAt(a, slices, s - 1) <=>
              /\ \A v \in 0 .. s - 2 : a[v] = l[v]
              /\ \E j \in s - 1 .. i[s - 1] - 1 : a[s - 1] = slices[s - 1][j]
      BY <1>0 DEF LeftAt
    <3> QED BY <3>1, <3>2, <3>3, <3>4
  <2>2. ASSUME NEW d \in 0 .. s - 2
        PROVE  LeftAt(a, slices, d)' <=> LeftAt(a, slices, d)
    <3>1. \A v \in 0 .. d - 1 : l'[v] = l[v]
      BY <1>0, <1>5
    <3> QED BY <1>0, <1>3, <3>1 DEF LeftAt
  <2>3. 0 .. s' - 1 = 0 .. s - 2 /\ 0 .. s - 1 = 0 .. s - 2 \cup {s - 1}
    BY <1>0
  <2> QED BY <2>1, <2>2, <2>3 DEF Behind
<1>8. FoundBehind(slices)'
  BY <1>0, <1>1, <1>7, SameBehind
<1>9. Failed' /\ FoundOnce'
  BY <1>0 DEF ExactInv, Failed, FoundOnce, FoundNow
<1> QED BY <1>6, <1>8, <1>9 DEF ExactInv

LEMMA ExactRecord ==
    ASSUME TypeOK, SearchInv, ExactInv, Record
    PROVE  ExactInv'
<1>0. /\ SearchStep /\ Searching /\ algo' = algo /\ e' = e /\ n' = n
      /\ n \in Nat /\ e \in Nat /\ s = e /\ n >= e
      /\ UNCHANGED <<l2Config, problems, running, base, l, s, i>>
      /\ i \in [0 .. e - 1 -> 0 .. n] /\ l \in [0 .. n - 1 -> 0 .. n - 1]
      /\ pc = "call" /\ pc' = "return"
      /\ base \in Nat /\ base <= Len(solutions[running])
      /\ Len(solutions[running]) \in Nat
  BY SearchFrame DEF SearchStep, Record, searchVars, TypeOK, SearchInv
<1>1. PICK slices : IsStack(slices) /\ FoundBehind(slices)
  BY <1>0 DEF ExactInv
<1> DEFINE leaf == Prefix(l, e)
           count == Len(solutions[running])
<1>2. /\ \A k \in 1 .. count : solutions'[running][k] = solutions[running][k]
      /\ solutions'[running][count + 1] = leaf
      /\ Len(solutions'[running]) = count + 1
  <2>1. running \in DOMAIN solutions /\ solutions[running] \in Seq([0 .. e - 1 -> Nat])
    BY <1>0 DEF TypeOK, e, algo
  <2>2. solutions'[running] = Append(solutions[running], leaf)
    BY <2>1 DEF Record
  <2> QED BY <2>1, <2>2
<1>3. leaf \in Satisfying(l2Config, algo)
  BY RecordedSatisfies
<1>4. \A v \in 0 .. e - 1 : leaf[v] = l[v]
  BY DEF Prefix
<1>5. ~ Behind(leaf, slices)
  <2>1. ~ Here(leaf)
    BY <1>0 DEF Here
  <2>2. ASSUME NEW d \in 0 .. s - 1
        PROVE  ~ LeftAt(leaf, slices, d)
    <3>1. i[d] \in d .. n - 1 /\ d \in 0 .. n - 1 /\ i[d] \in 0 .. n - 1
      BY <1>0 DEF SearchInv, LoopsInRange
    <3>2. slices[d] \in [0 .. n - 1 -> 0 .. n - 1] /\ IsInjective(slices[d])
      <4>1. d \in 0 .. s
        BY <1>0
      <4> QED BY <1>1, <4>1 DEF IsStack
    <3>3. slices[d][i[d]] = l[d]
      <4>1. d + 1 \in 0 .. s /\ d \in 0 .. (d + 1) - 1
        BY <1>0
      <4>2. /\ slices[d] = Swap(slices[d + 1], i[d], d)
            /\ slices[d + 1] \in [0 .. n - 1 -> 0 .. n - 1]
            /\ slices[d + 1][d] = l[d]
        BY <1>1, <4>1 DEF IsStack
      <4>3. Swap(slices[d + 1], i[d], d)[i[d]] = slices[d + 1][d]
        BY <1>0, <3>1, <4>2, SwapBack
      <4> QED BY <4>2, <4>3
    <3>4. ASSUME NEW j \in d .. i[d] - 1
          PROVE  leaf[d] # slices[d][j]
      <4>1. j # i[d] /\ j \in 0 .. n - 1
        BY <1>0, <3>1
      <4>2. slices[d][j] # slices[d][i[d]]
        BY <3>1, <3>2, <4>1 DEF IsInjective
      <4> QED BY <1>0, <1>4, <3>3, <4>2
    <3> QED BY <3>4 DEF LeftAt
  <2> QED BY <2>1, <2>2 DEF Behind
<1>6. ASSUME NEW a \in Satisfying(l2Config, algo)
      PROVE  Behind(a, slices)' <=> Behind(a, slices) \/ a = leaf
  <2>1. a \in [0 .. e - 1 -> 0 .. n - 1] /\ leaf \in [0 .. e - 1 -> 0 .. n - 1]
    BY <1>0, <1>3, SatisfyingFacts
  <2>2. Here(a)' <=> a = leaf
    BY <1>0, <1>4, <2>1 DEF Here
  <2>3. ~ Here(a)
    BY <1>0 DEF Here
  <2>4. \A d \in 0 .. s - 1 : LeftAt(a, slices, d)' <=> LeftAt(a, slices, d)
    BY <1>0 DEF LeftAt
  <2> QED BY <1>0, <2>2, <2>3, <2>4 DEF Behind
<1> HIDE DEF leaf
<1>7. ~ \E k \in base + 1 .. count : solutions[running][k] = leaf
  BY <1>1, <1>5 DEF FoundBehind, FoundNow
<1>8. /\ FoundNow' = FoundNow \cup {count + 1}
      /\ FoundNow \subseteq 1 .. count /\ count + 1 \notin FoundNow
  <2>1. FoundNow' = base + 1 .. count + 1 /\ FoundNow = base + 1 .. count
    BY <1>0, <1>2 DEF FoundNow
  <2>2. count \in Nat /\ base \in Nat /\ base <= count
    BY <1>0
  <2> HIDE DEF count
  <2> QED BY <2>1, <2>2
<1>9. FoundBehind(slices)'
  <2>1. ASSUME NEW a
        PROVE  (\E k \in FoundNow' : solutions'[running][k] = a)
                 <=> (\E k \in FoundNow : solutions[running][k] = a) \/ a = leaf
    BY <1>2, <1>8
  <2> QED BY <1>0, <1>1, <1>3, <1>6, <2>1 DEF FoundBehind
<1>10. FoundOnce'
  <2>1. FoundOnce /\ ~ \E k \in FoundNow : solutions[running][k] = leaf
    BY <1>0, <1>7 DEF ExactInv, FoundNow
  <2>2. count \in Nat
    BY <1>0
  <2>3. SUFFICES ASSUME NEW j \in FoundNow', NEW k \in FoundNow',
                        solutions'[running][j] = solutions'[running][k]
                 PROVE  j = k
    BY <1>0 DEF FoundOnce
  <2> HIDE DEF count
  <2> QED BY <1>2, <1>8, <2>1, <2>2, <2>3 DEF FoundOnce
<1>11. IsStack(slices)' /\ Failed'
  BY <1>0, <1>1 DEF IsStack, Failed
<1> QED BY <1>9, <1>10, <1>11 DEF ExactInv
LEMMA ExactSearchStep ==
    ASSUME TypeOK, SearchInv, ExactInv, SearchStep
    PROVE  ExactInv'
<1>1. CASE Finish
  BY <1>1 DEF Finish, ExactInv, Searching
<1> QED BY <1>1, ExactPrune, ExactRecord, ExactStartLoop, ExactTry, ExactEndLoop,
           ExactBacktrack DEF SearchStep

LEMMA ExactRun ==
    ASSUME TypeOK, NEW name \in Names, Run(name)
    PROVE  ExactInv'
<1>1. /\ pc' = "call" /\ s' = 0 /\ result' = TRUE
      /\ l' = GetAllGraphVertices(n) /\ n' = n
      /\ running' = name /\ solutions' = solutions
      /\ base' = Len(solutions[name]) /\ Len(solutions[name]) \in Nat /\ n \in Nat
  BY ConfigsAssumption DEF Run, TypeOK, n
<1> DEFINE slices == [d \in {0} |-> GetAllGraphVertices(n)]
<1>2. PICK first : first = slices
  OBVIOUS
<1>3. IsStack(first)'
  <2>1. first[0] = l' /\ l' \in [0 .. n - 1 -> 0 .. n - 1] /\ IsInjective(l')
    BY <1>1, <1>2 DEF GetAllGraphVertices, IsInjective
  <2> HIDE DEF slices
  <2> QED BY <1>1, <2>1 DEF IsStack
<1>4. FoundNow' = {}
  BY <1>1 DEF FoundNow
<1>5. FoundBehind(first)' /\ FoundOnce' /\ Failed'
  BY <1>1, <1>4 DEF FoundBehind, FoundOnce, Failed, Behind, Here, LeftAt
<1> QED BY <1>3, <1>5 DEF ExactInv

LEMMA ExactNext == IInv /\ ExactInv /\ [Next]_vars => ExactInv'
<1> SUFFICES ASSUME IInv, ExactInv, [Next]_vars
             PROVE  ExactInv'
  OBVIOUS
<1>1. CASE SearchStep
  BY <1>1, ExactSearchStep DEF IInv
<1>2. CASE \E name \in Names : Run(name)
  BY <1>2, ExactRun DEF IInv
<1>3. CASE \/ \E name \in Names, statement \in Problems : InitProblem(name, statement)
           \/ \E config \in Configs : SetL2Config(config)
           \/ \E name \in Names : RunPanics(name)
           \/ \E all \in BOOLEAN : PrintSolutions(all)
  <2>1. ~ Searching'
    BY <1>3 DEF InitProblem, SetL2Config, RunPanics, PrintSolutions, Searching
  <2> QED BY <2>1 DEF ExactInv
<1>4. CASE UNCHANGED vars
  <2>1. /\ UNCHANGED vars /\ (Searching' <=> Searching)
        /\ n' = n /\ e' = e /\ algo' = algo /\ FoundNow' = FoundNow
    BY <1>4 DEF vars, Searching, n, e, algo, FoundNow
  <2>2. \A slices : IsStack(slices)' <=> IsStack(slices)
    BY <2>1 DEF vars, IsStack
  <2>3. \A slices, a : Behind(a, slices)' <=> Behind(a, slices)
    BY <2>1 DEF vars, Behind, Here, LeftAt
  <2>4. \A slices : FoundBehind(slices)' <=> FoundBehind(slices)
    BY <2>1, <2>3 DEF vars, FoundBehind
  <2> QED BY <2>1, <2>2, <2>4 DEF vars, ExactInv, Failed, FoundOnce
<1> QED BY <1>1, <1>2, <1>3, <1>4 DEF Next

LEMMA ExactInvariant == Spec => []ExactInv
<1>1. Init => ExactInv
  BY DEF Init, ExactInv, Searching
<1> QED BY <1>1, IInvInvariant, ExactNext, PTL DEF Spec

----------------------------------------------------------------------------
(***************************************************************************)
(* The counts.  A problem that is not being searched has every assignment  *)
(* as often as one of its runs is satisfied by it; for the problem that is *)
(* this holds of what the earlier runs appended.                           *)
(***************************************************************************)
Finds(name, a) == {k \in DOMAIN solutions[name] : solutions[name][k] = a}

SatisfiedRuns(name, a) ==
    {k \in DOMAIN runs[name] : a \in Satisfying(runs[name][k], problems[name])}

Settled(name) == \A a : Cardinality(Finds(name, a)) = Cardinality(SatisfiedRuns(name, a))

FoundBefore(a) == {k \in 1 .. base : solutions[running][k] = a}

SatisfiedBefore(a) ==
    {k \in 1 .. Len(runs[running]) - 1 : a \in Satisfying(runs[running][k], algo)}

CountInv ==
    /\ \A name \in DOMAIN problems : (Searching /\ name = running) \/ Settled(name)
    /\ Searching =>
         /\ runs[running] # <<>>
         /\ runs[running][Len(runs[running])] = l2Config
         /\ \A a : Cardinality(FoundBefore(a)) = Cardinality(SatisfiedBefore(a))

LEMMA SettledStays ==
    ASSUME NEW m, solutions'[m] = solutions[m], runs'[m] = runs[m], problems'[m] = problems[m]
    PROVE  Settled(m)' <=> Settled(m)
<1>1. \A a : Finds(m, a)' = Finds(m, a) /\ SatisfiedRuns(m, a)' = SatisfiedRuns(m, a)
  BY DEF Finds, SatisfiedRuns
<1> QED BY <1>1 DEF Settled

LEMMA CountInitProblem ==
    ASSUME TypeOK, CountInv, NEW name \in Names, NEW statement \in Problems,
           InitProblem(name, statement)
    PROVE  CountInv'
<1>1. /\ DOMAIN problems' = DOMAIN problems \cup {name}
      /\ solutions'[name] = <<>> /\ runs'[name] = <<>>
      /\ \A m \in DOMAIN problems : m # name =>
            solutions'[m] = solutions[m] /\ runs'[m] = runs[m] /\ problems'[m] = problems[m]
      /\ ~ Searching /\ ~ Searching'
  BY DEF InitProblem, Set, TypeOK, Searching
<1>2. DOMAIN <<>> = {}
  OBVIOUS
<1>3. Settled(name)'
  <2>1. ASSUME NEW a
        PROVE  Finds(name, a)' = SatisfiedRuns(name, a)'
    BY <1>1, <1>2 DEF Finds, SatisfiedRuns
  <2> QED BY <2>1 DEF Settled
<1>4. ASSUME NEW m \in DOMAIN problems, m # name
      PROVE  Settled(m)'
  <2>1. Settled(m)
    BY <1>1 DEF CountInv
  <2> QED BY <1>1, <1>4, <2>1, SettledStays
<1> QED BY <1>1, <1>3, <1>4 DEF CountInv

LEMMA CountRun ==
    ASSUME TypeOK, CountInv, NEW name \in Names, Run(name)
    PROVE  CountInv'
<1>1. /\ UNCHANGED <<l2Config, problems, solutions>> /\ running' = name /\ algo' = problems[name]
      /\ name \in DOMAIN problems /\ base' = Len(solutions[name])
      /\ runs' = [runs EXCEPT ![name] = Append(@, l2Config)]
      /\ l2Config \in Configs /\ ~ Searching /\ Searching'
  BY DEF Run, TypeOK, Searching, algo
<1>2. /\ DOMAIN runs = DOMAIN problems /\ runs[name] \in Seq(Configs)
      /\ solutions[name] \in Seq([0 .. Len(problems[name]) - 1 -> Nat])
  BY <1>1 DEF TypeOK
<1>3. /\ runs'[name] = Append(runs[name], l2Config)
      /\ \A m \in DOMAIN problems : m # name => runs'[m] = runs[m]
  BY <1>1, <1>2
<1>4. /\ runs'[name] # <<>> /\ runs'[name][Len(runs'[name])] = l2Config
      /\ 1 .. Len(runs'[name]) - 1 = DOMAIN runs[name]
      /\ \A k \in DOMAIN runs[name] : runs'[name][k] = runs[name][k]
  BY <1>1, <1>2, <1>3
<1>5. ASSUME NEW m \in DOMAIN problems, m # name
      PROVE  Settled(m)'
  <2>1. Settled(m)
    BY <1>1 DEF CountInv
  <2> QED BY <1>1, <1>3, <1>5, <2>1, SettledStays
<1>6. ASSUME NEW a
      PROVE  Cardinality(FoundBefore(a)') = Cardinality(SatisfiedBefore(a)')
  <2>1. FoundBefore(a)' = Finds(name, a)
    BY <1>1, <1>2 DEF FoundBefore, Finds
  <2>2. SatisfiedBefore(a)' = SatisfiedRuns(name, a)
    BY <1>1, <1>4 DEF SatisfiedBefore, SatisfiedRuns
  <2> QED BY <1>1, <2>1, <2>2 DEF CountInv, Settled
<1> QED BY <1>1, <1>4, <1>5, <1>6 DEF CountInv

LEMMA CountSearching ==
    ASSUME IInv, CountInv, SearchStep, ~ Finish
    PROVE  CountInv'
<1>1. Searching /\ Searching' /\ algo' = algo /\ UNCHANGED <<l2Config, problems, running, runs, base>>
  BY SearchFrame DEF IInv, SearchStep, Prune, Record, StartLoop, Try, EndLoop, Backtrack, Searching
<1>2. /\ base \in Nat /\ base <= Len(solutions[running])
      /\ running \in DOMAIN problems /\ DOMAIN solutions = DOMAIN problems
      /\ solutions[running] \in Seq([0 .. Len(problems[running]) - 1 -> Nat])
  BY <1>1 DEF IInv, TypeOK, SearchInv
<1>3. /\ \A k \in 1 .. base : solutions'[running][k] = solutions[running][k]
      /\ \A m \in DOMAIN problems : m # running => solutions'[m] = solutions[m]
  <2>1. CASE Record
    BY <1>2, <2>1 DEF Record
  <2>2. CASE ~ Record
    BY <2>2 DEF SearchStep, Prune, StartLoop, Try, EndLoop, Backtrack, Finish, solverVars
  <2> QED BY <2>1, <2>2
<1>4. ASSUME NEW m \in DOMAIN problems, m # running
      PROVE  Settled(m)'
  <2>1. Settled(m)
    BY <1>4 DEF CountInv
  <2> QED BY <1>1, <1>3, <1>4, <2>1, SettledStays
<1>5. ASSUME NEW a
      PROVE  Cardinality(FoundBefore(a)') = Cardinality(SatisfiedBefore(a)')
  <2>1. FoundBefore(a)' = FoundBefore(a) /\ SatisfiedBefore(a)' = SatisfiedBefore(a)
    BY <1>1, <1>3 DEF FoundBefore, SatisfiedBefore
  <2> QED BY <1>1, <2>1 DEF CountInv
<1> QED BY <1>1, <1>4, <1>5 DEF CountInv

(***************************************************************************)
(* When the outermost call returns every candidate is behind it.           *)
(***************************************************************************)
LEMMA AllFound ==
    ASSUME TypeOK, ExactInv, Finish, NEW a
    PROVE  (\E k \in FoundNow : solutions[running][k] = a) <=> a \in Satisfying(l2Config, algo)
<1>1. Searching /\ pc = "return" /\ s = 0
  BY DEF Finish, Searching
<1>2. PICK slices : FoundBehind(slices)
  BY <1>1 DEF ExactInv
<1>3. Behind(a, slices)
  BY <1>1 DEF Behind, Here
<1> QED BY <1>2, <1>3 DEF FoundBehind

LEMMA CountFinish ==
    ASSUME IInv, ExactInv, CountInv, Finish
    PROVE  CountInv'
<1>1. Searching /\ ~ Searching' /\ UNCHANGED <<l2Config, problems, running, runs, base, solutions>>
  BY DEF Finish, Searching, solverVars, historyVars
<1>2. /\ base \in Nat /\ base <= Len(solutions[running])
      /\ running \in DOMAIN problems
      /\ DOMAIN solutions[running] = 1 .. Len(solutions[running])
      /\ Len(solutions[running]) \in Nat
      /\ DOMAIN runs[running] = 1 .. Len(runs[running])
      /\ Len(runs[running]) \in Nat \ {0}
      /\ runs[running][Len(runs[running])] = l2Config
  <2>1. running \in DOMAIN problems /\ DOMAIN runs = DOMAIN problems
        /\ runs[running] \in Seq(Configs) /\ runs[running] # <<>>
        /\ solutions[running] \in Seq([0 .. Len(problems[running]) - 1 -> Nat])
    BY <1>1 DEF IInv, TypeOK, CountInv
  <2> QED BY <1>1, <2>1 DEF IInv, TypeOK, SearchInv, CountInv
<1>3. ASSUME NEW a
      PROVE  Cardinality(Finds(running, a)) = Cardinality(SatisfiedRuns(running, a))
  <2> DEFINE now == {k \in FoundNow : solutions[running][k] = a}
             last == {k \in {Len(runs[running])} : a \in Satisfying(l2Config, algo)}
  <2>1. Finds(running, a) = FoundBefore(a) \cup now /\ FoundBefore(a) \cap now = {}
    BY <1>2 DEF Finds, FoundBefore, FoundNow
  <2>2. /\ SatisfiedRuns(running, a) = SatisfiedBefore(a) \cup last
        /\ SatisfiedBefore(a) \cap last = {}
    <3>1. DOMAIN runs[running] = 1 .. Len(runs[running]) - 1 \cup {Len(runs[running])}
          /\ Len(runs[running]) \notin 1 .. Len(runs[running]) - 1
      BY <1>2
    <3> QED BY <1>2, <3>1 DEF SatisfiedRuns, SatisfiedBefore, algo
  <2>3. Cardinality(FoundBefore(a)) = Cardinality(SatisfiedBefore(a))
    BY <1>1 DEF CountInv
  <2>4. IsFiniteSet(FoundBefore(a)) /\ IsFiniteSet(SatisfiedBefore(a))
    <3>1. 1 \in Int /\ base \in Int /\ Len(runs[running]) - 1 \in Int
      BY <1>2
    <3>2. IsFiniteSet(1 .. base) /\ IsFiniteSet(1 .. Len(runs[running]) - 1)
      BY <3>1, FS_Interval
    <3>3. FoundBefore(a) \in SUBSET (1 .. base)
      BY DEF FoundBefore
    <3>4. SatisfiedBefore(a) \in SUBSET (1 .. Len(runs[running]) - 1)
      BY DEF SatisfiedBefore
    <3> QED BY <3>2, <3>3, <3>4, FS_Subset
  <2>5. CASE a \in Satisfying(l2Config, algo)
    <3>1. PICK k \in FoundNow : solutions[running][k] = a
      BY <2>5, AllFound DEF IInv
    <3>2. now = {k}
      BY <1>1, <3>1 DEF ExactInv, FoundOnce
    <3>3. last = {Len(runs[running])}
      BY <2>5
    <3> HIDE DEF now, last
    <3>4. Cardinality(Finds(running, a)) = Cardinality(FoundBefore(a)) + 1
      BY <2>1, <2>4, <3>2, FS_AddElement
    <3>5. Cardinality(SatisfiedRuns(running, a)) = Cardinality(SatisfiedBefore(a)) + 1
      BY <2>2, <2>4, <3>3, FS_AddElement
    <3> QED BY <2>3, <3>4, <3>5
  <2>6. CASE a \notin Satisfying(l2Config, algo)
    <3>1. now = {}
      BY <2>6, AllFound DEF IInv
    <3>2. last = {}
      BY <2>6
    <3> QED BY <2>1, <2>2, <2>3, <3>1, <3>2
  <2> QED BY <2>5, <2>6
<1>4. \A m \in DOMAIN problems : Settled(m)
  BY <1>3 DEF CountInv, Settled
<1> QED BY <1>1, <1>4, SettledStays DEF CountInv

LEMMA CountNext == IInv /\ ExactInv /\ CountInv /\ [Next]_vars => CountInv'
<1> SUFFICES ASSUME IInv, ExactInv, CountInv, [Next]_vars
             PROVE  CountInv'
  OBVIOUS
<1>1. CASE SearchStep
  BY <1>1, CountSearching, CountFinish
<1>2. CASE \E name \in Names : Run(name)
  BY <1>2, CountRun DEF IInv
<1>3. CASE \E name \in Names, statement \in Problems : InitProblem(name, statement)
  BY <1>3, CountInitProblem DEF IInv
<1>4. CASE \/ \E config \in Configs : SetL2Config(config)
           \/ \E name \in Names : RunPanics(name)
           \/ \E all \in BOOLEAN : PrintSolutions(all)
  <2>1. UNCHANGED <<problems, solutions, runs>> /\ ~ Searching /\ ~ Searching'
    BY <1>4 DEF SetL2Config, RunPanics, PrintSolutions, solverVars, historyVars, Searching
  <2> QED BY <2>1, SettledStays DEF CountInv
<1>5. CASE UNCHANGED vars
  <2>1. UNCHANGED vars /\ (Searching' <=> Searching)
    BY <1>5 DEF vars, Searching
  <2>2. \A a : FoundBefore(a)' = FoundBefore(a) /\ SatisfiedBefore(a)' = SatisfiedBefore(a)
    BY <2>1 DEF vars, FoundBefore, SatisfiedBefore, algo
  <2> QED BY <2>1, <2>2, SettledStays DEF vars, CountInv
<1> QED BY <1>1, <1>2, <1>3, <1>4, <1>5 DEF Next

LEMMA CountInvariant == Spec => []CountInv
<1>1. Init => CountInv
  BY DEF Init, CountInv, Searching
<1> QED BY <1>1, IInvInvariant, ExactInvariant, CountNext, PTL DEF Spec

(***************************************************************************)
(* Between runs a problem has every satisfying assignment exactly once per *)
(* run, and nothing else: for every configuration and problem the pruned,  *)
(* in-place search is exhaustive and repeats nothing.                      *)
(***************************************************************************)
THEOREM SolutionsExactCorrect == Spec => []SolutionsExact
<1>1. CountInv => SolutionsExact
  <2> SUFFICES ASSUME CountInv, pc = "idle", NEW name \in DOMAIN problems, NEW a
               PROVE  Cardinality({k \in DOMAIN solutions[name] : solutions[name][k] = a})
                        = Cardinality({k \in DOMAIN runs[name] :
                                          a \in Satisfying(runs[name][k], problems[name])})
    BY DEF SolutionsExact
  <2>1. Settled(name)
    BY DEF CountInv, Searching
  <2> QED BY <2>1 DEF Settled, Finds, SatisfiedRuns
<1> QED BY <1>1, CountInvariant, PTL

----------------------------------------------------------------------------
(***************************************************************************)
(* The refinement of SolutionSearch, without its fairness.                 *)
(***************************************************************************)
LEMMA TailRange ==
    ASSUME NEW T, NEW seq \in Seq(T), NEW m \in 0 .. Len(seq), NEW y
    PROVE  y \in Range(SubSeq(seq, m + 1, Len(seq))) <=> \E k \in m + 1 .. Len(seq) : seq[k] = y
<1> DEFINE tail == SubSeq(seq, m + 1, Len(seq))
<1>1. Len(seq) \in Nat /\ m \in Nat /\ m <= Len(seq)
  OBVIOUS
<1>2. /\ tail \in Seq(T) /\ Len(tail) = Len(seq) - m
      /\ \A j \in 1 .. Len(seq) - m : tail[j] = seq[m + j]
  <2>1. \A k \in m + 1 .. Len(seq) : seq[k] \in T
    BY <1>1
  <2> QED BY <1>1, <2>1, SubSeqProperties
<1> HIDE DEF tail
<1>3. DOMAIN tail = 1 .. Len(seq) - m
  BY <1>2
<1>4. ASSUME NEW k \in m + 1 .. Len(seq)
      PROVE  k - m \in 1 .. Len(seq) - m /\ tail[k - m] = seq[k]
  BY <1>1, <1>2
<1>5. ASSUME NEW j \in 1 .. Len(seq) - m
      PROVE  m + j \in m + 1 .. Len(seq) /\ tail[j] = seq[m + j]
  BY <1>1, <1>2
<1>6. y \in Range(tail) <=> \E j \in 1 .. Len(seq) - m : tail[j] = y
  BY <1>3 DEF Range
<1>7. y \in Range(tail) <=> \E k \in m + 1 .. Len(seq) : seq[k] = y
  BY <1>4, <1>5, <1>6
<1> QED BY <1>7 DEF tail

LEMMA TailAppend ==
    ASSUME NEW T, NEW seq \in Seq(T), NEW m \in 0 .. Len(seq), NEW x \in T
    PROVE  SubSeq(Append(seq, x), m + 1, Len(seq) + 1)
             = Append(SubSeq(seq, m + 1, Len(seq)), x)
<1> DEFINE tail == SubSeq(seq, m + 1, Len(seq))
           longer == SubSeq(Append(seq, x), m + 1, Len(seq) + 1)
<1>0. Len(seq) \in Nat /\ m \in Nat /\ m <= Len(seq)
  OBVIOUS
<1>1. /\ Append(seq, x)[Len(seq) + 1] = x
      /\ \A k \in 1 .. Len(seq) : Append(seq, x)[k] = seq[k] /\ seq[k] \in T
  OBVIOUS
<1>2. /\ tail \in Seq(T) /\ Len(tail) = Len(seq) - m
      /\ \A j \in 1 .. Len(seq) - m : tail[j] = seq[m + j]
  <2>1. \A k \in m + 1 .. Len(seq) : seq[k] \in T
    BY <1>0, <1>1
  <2> QED BY <1>0, <2>1, SubSeqProperties
<1>3. /\ longer \in Seq(T) /\ Len(longer) = Len(seq) + 1 - m
      /\ \A j \in 1 .. Len(seq) + 1 - m : longer[j] = Append(seq, x)[m + j]
  <2>1. \A k \in m + 1 .. Len(seq) + 1 : Append(seq, x)[k] \in T
    BY <1>0
  <2> QED BY <1>0, <2>1, SubSeqProperties
<1> HIDE DEF tail, longer
<1>4. /\ Append(tail, x) \in Seq(T) /\ Len(Append(tail, x)) = Len(longer)
      /\ \A j \in 1 .. Len(seq) - m : Append(tail, x)[j] = tail[j]
      /\ Append(tail, x)[Len(tail) + 1] = x
  BY <1>0, <1>2, <1>3
<1>5. ASSUME NEW j \in 1 .. Len(longer)
      PROVE  longer[j] = Append(tail, x)[j]
  <2>0. longer[j] = Append(seq, x)[m + j]
    BY <1>3
  <2>1. CASE j \in 1 .. Len(seq) - m
    <3>1. m + j \in 1 .. Len(seq)
      BY <1>0, <2>1
    <3> QED BY <1>1, <1>2, <1>4, <2>0, <2>1, <3>1
  <2>2. CASE j = Len(seq) + 1 - m
    <3>1. m + j = Len(seq) + 1 /\ j = Len(tail) + 1
      BY <1>0, <1>2, <2>2
    <3>2. longer[j] = x
      BY <1>1, <2>0, <3>1
    <3>3. Append(tail, x)[j] = x
      BY <1>4, <3>1
    <3> QED BY <3>2, <3>3
  <2>3. j \in 1 .. Len(seq) + 1 - m
    BY <1>3
  <2>4. j \in 1 .. Len(seq) - m \/ j = Len(seq) + 1 - m
    BY <1>0, <2>3
  <2> QED BY <2>1, <2>2, <2>4
<1>6. longer = Append(tail, x)
  BY <1>3, <1>4, <1>5, SeqEqual
<1> QED BY <1>6 DEF tail, longer

LEMMA TailsOfSolutions ==
    ASSUME TypeOK, Searching, SearchInv
    PROVE  /\ solutions[running] \in Seq([0 .. e - 1 -> Nat])
           /\ base \in 0 .. Len(solutions[running])
           /\ running \in DOMAIN solutions
BY DEF TypeOK, SearchInv, e, algo

LEMMA RecordFinds ==
    ASSUME IInv, ExactInv, Record
    PROVE  Search!Find
<1>0. /\ SearchStep /\ Searching /\ Searching' /\ algo' = algo
      /\ UNCHANGED <<l2Config, problems, running, base>>
  BY SearchFrame DEF IInv, SearchStep, Record, Searching
<1> DEFINE leaf == Prefix(l, e)
           seq == solutions[running]
           found == SubSeq(seq, base + 1, Len(seq))
<1>1. /\ seq \in Seq([0 .. e - 1 -> Nat]) /\ base \in 0 .. Len(seq)
      /\ running \in DOMAIN solutions
  BY <1>0, TailsOfSolutions DEF IInv
<1>2. solutions' = [solutions EXCEPT ![running] = Append(@, leaf)]
  BY DEF Record
<1>3. solutions'[running] = Append(seq, leaf)
  BY <1>1, <1>2
<1>4. leaf \in Satisfying(l2Config, problems[running])
  BY RecordedSatisfies DEF IInv, algo
<1>5. leaf \in [0 .. e - 1 -> Nat]
  <2>1. n \in Nat /\ leaf \in [0 .. e - 1 -> 0 .. n - 1]
    BY <1>0, <1>4, SatisfyingFacts, SizesInNat DEF IInv, algo
  <2> QED BY <2>1
<1>6. SubSeq(solutions'[running], base' + 1, Len(solutions'[running])) = Append(found, leaf)
  <2>1. Len(solutions'[running]) = Len(seq) + 1
    BY <1>1, <1>3, <1>5
  <2>2. SubSeq(Append(seq, leaf), base + 1, Len(seq) + 1) = Append(found, leaf)
    BY <1>1, <1>5, TailAppend
  <2> QED BY <1>0, <1>3, <2>1, <2>2
<1>7. leaf \notin Range(found)
  <2> SUFFICES ASSUME NEW k \in base + 1 .. Len(seq), seq[k] = leaf
               PROVE  FALSE
    BY <1>1, TailRange
  <2>2. FoundOnce'
    BY <1>0, ExactSearchStep DEF IInv, ExactInv
  <2>3. /\ Len(seq) \in Nat /\ base \in Nat /\ k \in 1 .. Len(seq)
        /\ Len(solutions'[running]) = Len(seq) + 1
        /\ solutions'[running][k] = seq[k] /\ solutions'[running][Len(seq) + 1] = leaf
    BY <1>1, <1>3, <1>5
  <2> HIDE DEF seq, leaf
  <2>4. k \in FoundNow' /\ Len(seq) + 1 \in FoundNow'
    BY <1>0, <2>3 DEF FoundNow
  <2> QED BY <1>0, <2>2, <2>3, <2>4 DEF FoundOnce
<1> HIDE DEF leaf, found
<1>8. /\ (IF Searching THEN SubSeq(solutions[running], base + 1, Len(solutions[running])) ELSE <<>>)
            = found
      /\ (IF Searching THEN SubSeq(solutions[running], base + 1, Len(solutions[running])) ELSE <<>>)'
            = Append(found, leaf)
  BY <1>0, <1>6 DEF found
<1> QED BY <1>0, <1>2, <1>4, <1>7, <1>8 DEF Search!Find, Search!Range, Range

LEMMA FinishFinishes ==
    ASSUME IInv, ExactInv, Finish
    PROVE  Search!Finish
<1>1. /\ Searching /\ ~ Searching' /\ pc' = "idle"
      /\ UNCHANGED <<l2Config, problems, running, base, solutions>>
  BY DEF Finish, Searching, solverVars, historyVars
<1> DEFINE seq == solutions[running]
           found == SubSeq(seq, base + 1, Len(seq))
<1>2. \A a : a \in Range(found) <=> \E k \in FoundNow : seq[k] = a
  <2>1. seq \in Seq([0 .. e - 1 -> Nat]) /\ base \in 0 .. Len(seq)
    BY <1>1, TailsOfSolutions DEF IInv
  <2> QED BY <2>1, TailRange DEF FoundNow
<1>3. Satisfying(l2Config, problems[running]) \subseteq Range(found)
  <2>1. \A a \in Satisfying(l2Config, algo) : \E k \in FoundNow : seq[k] = a
    BY AllFound DEF IInv
  <2> QED BY <1>2, <2>1 DEF algo
<1>4. (IF Searching THEN SubSeq(solutions[running], base + 1, Len(solutions[running])) ELSE <<>>)
         = found
  BY <1>1
<1> HIDE DEF found
<1> QED BY <1>1, <1>3, <1>4 DEF Search!Finish, Search!Range, Range

LEMMA SearchStutters ==
    ASSUME IInv, SearchStep, ~ Record, ~ Finish
    PROVE  UNCHANGED Search!vars
<1>1. /\ Searching /\ Searching'
      /\ UNCHANGED <<l2Config, problems, running, base, solutions>>
  BY SearchFrame DEF IInv, SearchStep, Prune, StartLoop, Try, EndLoop, Backtrack, solverVars,
                    Searching
<1> QED BY <1>1 DEF Search!vars

LEMMA RunRuns ==
    ASSUME IInv, NEW name \in Names, Run(name) \/ RunPanics(name)
    PROVE  Search!Run(name)
<1>1. CASE RunPanics(name)
  BY <1>1 DEF RunPanics, Search!Run, Searching
<1>2. CASE Run(name)
  <2>1. /\ UNCHANGED <<l2Config, problems, solutions>> /\ running' = name
        /\ l2Config # NoConfig /\ name \in DOMAIN problems
        /\ ~ Searching /\ Searching' /\ pc = "idle" /\ base' = Len(solutions[name])
    BY <1>2 DEF Run, Searching
  <2>2. solutions[name] \in Seq([0 .. Len(problems[name]) - 1 -> Nat])
    BY <2>1 DEF IInv, TypeOK
  <2>3. SubSeq(solutions[name], base' + 1, Len(solutions[name])) = <<>>
    <3>1. Len(solutions[name]) + 1 \in Int /\ Len(solutions[name]) \in Int
          /\ Len(solutions[name]) < Len(solutions[name]) + 1
      BY <2>2
    <3> QED BY <2>1, <3>1, SubSeqEmpty
  <2> QED BY <2>1, <2>3 DEF Search!Run
<1> QED BY <1>1, <1>2

LEMMA InterfaceStep ==
    ASSUME IInv, \/ \E name \in Names, statement \in Problems : InitProblem(name, statement)
                 \/ \E config \in Configs : SetL2Config(config)
                 \/ \E all \in BOOLEAN : PrintSolutions(all)
    PROVE  Search!Next
<1>1. ASSUME NEW name \in Names, NEW statement \in Problems, InitProblem(name, statement)
      PROVE  Search!InitProblem(name, statement)
  BY <1>1 DEF InitProblem, Search!InitProblem, Set, Searching
<1>2. ASSUME NEW config \in Configs, SetL2Config(config)
      PROVE  Search!SetL2Config(config)
  BY <1>2 DEF SetL2Config, Search!SetL2Config, Searching
<1>3. ASSUME NEW all \in BOOLEAN, PrintSolutions(all)
      PROVE  Search!Misprint
  <2>0. PICK name \in DOMAIN solutions : \E solution \in Printed(name, all) :
            \E v \in DOMAIN solution : solution[v] >= n
    BY <1>3 DEF PrintSolutions, Misprints
  <2>1. PICK solution \in Printed(name, all) : \E v \in DOMAIN solution : solution[v] >= n
    BY <2>0
  <2>2. solution \in Range(solutions[name])
    BY DEF Printed, Range
  <2>3. /\ ~ Searching /\ ~ Searching' /\ pc = "idle" /\ pc' = "panic"
        /\ UNCHANGED <<l2Config, problems, solutions, running>>
    BY <1>3 DEF PrintSolutions, Searching, solverVars
  <2>4. \E sol \in Range(solutions[name]) : \E v \in DOMAIN sol : sol[v] >= Len(l2Config.ifs)
    BY <2>1, <2>2 DEF n
  <2> QED BY <2>3, <2>4 DEF Search!Misprint, Search!Range, Range
<1> QED BY <1>1, <1>2, <1>3 DEF Search!Next

(***************************************************************************)
(* The backtracking search does what SolutionSearch promises: each step    *)
(* either leaves the solutions alone, or appends a satisfying assignment   *)
(* the run has not found yet, and the run ends only when none is left.     *)
(* That it ends (the fairness of ImplementsSearch) is for TLC.             *)
(***************************************************************************)
THEOREM SearchImplements == Spec => Search!Spec
<1>1. Init => Search!Init
  BY DEF Init, Search!Init, Searching
<1>2. IInv /\ ExactInv /\ [Next]_vars => [Search!Next]_(Search!vars)
  <2> SUFFICES ASSUME IInv, ExactInv, [Next]_vars
               PROVE  Search!Next \/ UNCHANGED Search!vars
    OBVIOUS
  <2>1. CASE SearchStep
    BY <2>1, RecordFinds, FinishFinishes, SearchStutters DEF Search!Next
  <2>2. CASE \E name \in Names : Run(name) \/ RunPanics(name)
    BY <2>2, RunRuns DEF Search!Next
  <2>3. CASE \/ \E name \in Names, statement \in Problems : InitProblem(name, statement)
             \/ \E config \in Configs : SetL2Config(config)
             \/ \E all \in BOOLEAN : PrintSolutions(all)
    BY <2>3, InterfaceStep
  <2>4. CASE UNCHANGED vars
    BY <2>4 DEF vars, Search!vars, Searching
  <2> QED BY <2>1, <2>2, <2>3, <2>4 DEF Next
<1> QED BY <1>1, <1>2, IInvInvariant, ExactInvariant, PTL DEF Spec, Search!Spec
=============================================================================
