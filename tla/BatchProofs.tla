----------------------------- MODULE BatchProofs ----------------------------
(***************************************************************************)
(* The batch script, for any list of seeds.                                *)
(***************************************************************************)
EXTENDS Batch, TLAPS

Ran == Len(Seeds) - Len(todo)

(* The seeds that have run are the first ones, each to the end and with exit
   code 0; none after the first of the rest has been started. *)
SeedsInOrder ==
  /\ Len(todo) <= Len(Seeds)
  /\ \A k \in 1..Len(todo) : todo[k] = Seeds[Ran + k]
  /\ \A k \in 1..Len(Seeds) :
       /\ k <= Ran => stage[Seeds[k]] = "exited" /\ exit_code[Seeds[k]] = 0
       /\ k > Ran + 1 => stage[Seeds[k]] = "none"
       /\ k = Ran + 1 /\ batch \notin {"seed", "aborted"} =>
            stage[Seeds[k]] = "none"
  /\ batch \in {"wait", "pgrep"} => Ran = 0 /\ run_dirs = <<>>
  /\ batch = "completed" => todo = <<>>
  /\ batch = "seed" => todo # <<>>

(* An exit code says what the status says, once it is written; a run that
   never got that far does not exit with 0. *)
StatusIsExitCode ==
  \A r \in Runs :
    /\ stage[r] \in {"recorded", "restored"} =>
         status[r] = IF exit_code[r] = 0 THEN "completed" ELSE "failed"
    /\ stage[r] = "exited" /\ exit_code[r] = 0 => status[r] = "completed"
    /\ stage[r] \in {"failed", "killed"} => exit_code[r] # 0

(* run_dirs.txt: the seeds that ran, perhaps behind the run waited for. *)
Listed(offset) ==
  /\ Len(run_dirs) = offset + Ran
  /\ \A k \in 1..Ran : run_dirs[offset + k] = Seeds[k]

DirsInOrder ==
  \/ Listed(0)
  \/ Listed(1) /\ run_dirs[1] = Waited /\ status[Waited] # None

(* No run is killed and no other run is about. *)
Undisturbed ==
  stage[Waited] = "none" /\ \A r \in Runs : stage[r] # "killed"

SourceIsOriginal ==
  Undisturbed =>
    /\ \A r \in Runs : before[r] = Original
    /\ (\A r \in Runs : stage[r] \in {"none", "preflight", "restored", "exited"})
         => program = Original

Inv ==
  /\ TypeOK
  /\ SeedsInOrder /\ StatusIsExitCode /\ DirsInOrder /\ SourceIsOriginal

-----------------------------------------------------------------------------
(* Every seed is a run, none is the one waited for, no two are the same. *)
LEMMA SeedFacts ==
  /\ Seeds \in Seq(Range(Seeds)) /\ Len(Seeds) \in Nat
  /\ DOMAIN Seeds = 1..Len(Seeds)
  /\ Range(Seeds) = {Seeds[k] : k \in 1..Len(Seeds)}
  /\ \A k \in 1..Len(Seeds) : Seeds[k] \in Runs /\ Seeds[k] # Waited
  /\ \A j, k \in 1..Len(Seeds) : Seeds[j] = Seeds[k] => j = k
  /\ Waited \in Runs /\ Waited \notin Range(Seeds)
  /\ Original \notin Runs /\ None \notin Runs \cup {Original} \cup Statuses
<1>1. DOMAIN Seeds = 1..Len(Seeds) /\ Len(Seeds) \in Nat
  BY BatchAssumption
<1> QED
  BY <1>1, BatchAssumption DEF Range, IsInjective, Runs

(* Nothing has been started, and no list has a line. *)
LEMMA InitInv == Init => Inv
<1> SUFFICES ASSUME Init PROVE Inv
  OBVIOUS
<1> USE SeedFacts DEF Init
<1>1. TypeOK
  BY DEF TypeOK, Stages, Statuses
<1>2. Ran = 0
  BY DEF Ran
<1>3. SeedsInOrder
  BY <1>2 DEF SeedsInOrder
<1>4. StatusIsExitCode
  BY DEF StatusIsExitCode
<1>5. DirsInOrder
  BY <1>2 DEF DirsInOrder, Listed
<1>6. SourceIsOriginal
  BY DEF SourceIsOriginal
<1> QED
  BY <1>1, <1>3, <1>4, <1>5, <1>6 DEF Inv

(* A step of one script that has been started and is not over: to the batch
   it matters only when that script exits. *)
LEMMA ScriptKeepsSeedsInOrder ==
  ASSUME TypeOK, SeedsInOrder, NEW r \in Runs,
         stage[r] \notin {"none", "exited", "failed", "killed"},
         NEW to \in Stages, stage' = [stage EXCEPT ![r] = to],
         NEW code \in Nat,
         exit_code' = exit_code \/ exit_code' = [exit_code EXCEPT ![r] = code],
         UNCHANGED batchVars
  PROVE  SeedsInOrder'
<1> USE SeedFacts DEF batchVars
<1>1. Ran' = Ran
  BY DEF Ran
<1>2. ASSUME NEW k \in 1..Len(Seeds), Seeds[k] # r
      PROVE  /\ stage'[Seeds[k]] = stage[Seeds[k]]
             /\ exit_code'[Seeds[k]] = exit_code[Seeds[k]]
  BY <1>2 DEF TypeOK
<1>3. ASSUME NEW k \in 1..Len(Seeds), Seeds[k] = r
      PROVE  k = Ran + 1 /\ batch \in {"seed", "aborted"}
  <2>1. Ran \in Int
    BY DEF Ran, TypeOK
  <2>2. ~(k <= Ran) /\ ~(k > Ran + 1)
    BY <1>3 DEF SeedsInOrder
  <2>3. k = Ran + 1
    BY <2>1, <2>2
  <2> QED
    BY <1>3, <2>3 DEF SeedsInOrder
<1> QED
  BY <1>1, <1>2, <1>3 DEF SeedsInOrder, TypeOK, Ran

(* What run_dirs.txt lists stays listed. *)
LEMMA ScriptKeepsDirs ==
  ASSUME DirsInOrder, UNCHANGED batchVars,
         status'[Waited] = status[Waited] \/ status'[Waited] # None
  PROVE  DirsInOrder'
BY DEF DirsInOrder, Listed, Ran, batchVars

(* A step of a script. *)
LEMMA ScriptKeepsInv ==
  ASSUME Inv, NEW r \in Runs, ScriptStep(r) \/ Candidate(r) \/ Kill(r)
  PROVE  Inv'
<1> USE SeedFacts DEF Inv
<1>1. ASSUME PreflightFails(r)
      PROVE  Inv'
  <2> USE <1>1 DEF PreflightFails, Advance, ExitsWith
  <2>0. PICK code \in {20, 1} : exit_code' = [exit_code EXCEPT ![r] = code]
    OBVIOUS
  <2>a. code \in {0, 1, 20, 137} /\ code \in Nat
    BY DEF TypeOK
  <2>1. TypeOK'
    BY DEF TypeOK, Stages, Statuses, batchVars
  <2>2. SeedsInOrder'
    BY <2>0, <2>a, ScriptKeepsSeedsInOrder DEF Stages
  <2>3. StatusIsExitCode'
    BY DEF StatusIsExitCode, TypeOK
  <2>4. DirsInOrder'
    BY ScriptKeepsDirs DEF TypeOK, Statuses
  <2>5. SourceIsOriginal'
    BY DEF SourceIsOriginal, Undisturbed, TypeOK
  <2> QED
    BY <2>1, <2>2, <2>3, <2>4, <2>5
<1>2. ASSUME Evolve(r)
      PROVE  Inv'
  <2> USE <1>2 DEF Evolve, Advance
  <2>1. TypeOK'
    BY DEF TypeOK, Stages, Statuses, batchVars
  <2>2. SeedsInOrder'
    BY ScriptKeepsSeedsInOrder DEF Stages
  <2>3. StatusIsExitCode'
    BY DEF StatusIsExitCode, TypeOK
  <2>4. DirsInOrder'
    BY ScriptKeepsDirs DEF TypeOK, Statuses
  <2>5. SourceIsOriginal'
    BY DEF SourceIsOriginal, Undisturbed, TypeOK
  <2> QED
    BY <2>1, <2>2, <2>3, <2>4, <2>5
<1>3. ASSUME NEW code \in {0, 1}, EvolveEnds(r, code)
      PROVE  Inv'
  <2> USE <1>3 DEF EvolveEnds, Advance
  <2>1. TypeOK'
    BY DEF TypeOK, Stages, Statuses, batchVars
  <2>2. SeedsInOrder'
    BY ScriptKeepsSeedsInOrder DEF Stages
  <2>3. StatusIsExitCode'
    BY DEF StatusIsExitCode, TypeOK
  <2>4. DirsInOrder'
    BY ScriptKeepsDirs DEF TypeOK, Statuses
  <2>5. SourceIsOriginal'
    BY DEF SourceIsOriginal, Undisturbed, TypeOK
  <2> QED
    BY <2>1, <2>2, <2>3, <2>4, <2>5
<1>4. ASSUME WriteStatus(r)
      PROVE  Inv'
  <2> USE <1>4 DEF WriteStatus, Advance
  <2>1. TypeOK'
    BY DEF TypeOK, Stages, Statuses, batchVars
  <2>2. SeedsInOrder'
    BY ScriptKeepsSeedsInOrder DEF Stages
  <2>3. StatusIsExitCode'
    BY DEF StatusIsExitCode, TypeOK
  <2>4. DirsInOrder'
    BY ScriptKeepsDirs DEF TypeOK, Statuses
  <2>5. SourceIsOriginal'
    BY DEF SourceIsOriginal, Undisturbed, TypeOK
  <2> QED
    BY <2>1, <2>2, <2>3, <2>4, <2>5
<1>5. ASSUME Restore(r)
      PROVE  Inv'
  <2> USE <1>5 DEF Restore, Advance
  <2>1. TypeOK'
    BY DEF TypeOK, Stages, Statuses, batchVars
  <2>2. SeedsInOrder'
    BY ScriptKeepsSeedsInOrder DEF Stages
  <2>3. StatusIsExitCode'
    BY DEF StatusIsExitCode, TypeOK
  <2>4. DirsInOrder'
    BY ScriptKeepsDirs DEF TypeOK, Statuses
  <2>5. SourceIsOriginal'
    BY DEF SourceIsOriginal, Undisturbed, TypeOK
  <2> QED
    BY <2>1, <2>2, <2>3, <2>4, <2>5
<1>6. ASSUME Exit(r)
      PROVE  Inv'
  <2> USE <1>6 DEF Exit, Advance, ExitsWith
  <2>0. PICK code \in {exit_code[r], 1} : exit_code' = [exit_code EXCEPT ![r] = code]
    OBVIOUS
  <2>a. code \in {0, 1, 20, 137} /\ code \in Nat
    BY DEF TypeOK
  <2>1. TypeOK'
    BY <2>0, <2>a DEF TypeOK, Stages, Statuses, batchVars
  <2>2. SeedsInOrder'
    BY <2>0, <2>a, ScriptKeepsSeedsInOrder DEF Stages
  <2>3. StatusIsExitCode'
    BY DEF StatusIsExitCode, TypeOK
  <2>4. DirsInOrder'
    BY ScriptKeepsDirs DEF TypeOK, Statuses
  <2>5. SourceIsOriginal'
    BY DEF SourceIsOriginal, Undisturbed, TypeOK
  <2> QED
    BY <2>1, <2>2, <2>3, <2>4, <2>5
<1>7. ASSUME Kill(r)
      PROVE  Inv'
  <2> USE <1>7 DEF Kill
  <2>1. TypeOK'
    BY DEF TypeOK, Stages, Statuses, batchVars
  <2>2. SeedsInOrder'
    BY ScriptKeepsSeedsInOrder DEF Stages
  <2>3. StatusIsExitCode'
    BY DEF StatusIsExitCode, TypeOK
  <2>4. DirsInOrder'
    BY ScriptKeepsDirs DEF TypeOK, Statuses
  <2>5. SourceIsOriginal'
    BY DEF SourceIsOriginal, Undisturbed, TypeOK
  <2> QED
    BY <2>1, <2>2, <2>3, <2>4, <2>5
<1>8. ASSUME Candidate(r)
      PROVE  Inv'
  BY <1>8 DEF Candidate, batchVars, runVars, TypeOK, SeedsInOrder, Ran,
     StatusIsExitCode, DirsInOrder, Listed, SourceIsOriginal, Undisturbed
<1>9. ASSUME ScriptFails(r)
      PROVE  Inv'
  <2> USE <1>9 DEF ScriptFails, Advance
  <2>0. status' \in [Runs -> Statuses \cup {None}]
    <3>1. status \in [Runs -> Statuses \cup {None}] /\ "torn" \in Statuses
      BY DEF TypeOK, Statuses
    <3>2. status' = status \/ status' = [status EXCEPT ![r] = "torn"]
      BY <1>9 DEF ScriptFails
    <3> QED
      BY ONLY <3>1, <3>2
  <2>1. TypeOK'
    BY <2>0 DEF TypeOK, Stages, batchVars
  <2>2. SeedsInOrder'
    BY ScriptKeepsSeedsInOrder DEF Stages
  <2>3. StatusIsExitCode'
    BY DEF StatusIsExitCode, TypeOK
  <2>4. DirsInOrder'
    BY ScriptKeepsDirs DEF TypeOK, Statuses
  <2>5. SourceIsOriginal'
    BY DEF SourceIsOriginal, Undisturbed, TypeOK
  <2> QED
    BY <2>1, <2>2, <2>3, <2>4, <2>5
<1> QED
  BY <1>1, <1>2, <1>3, <1>4, <1>5, <1>6, <1>7, <1>8, <1>9 DEF ScriptStep

(* The steps of the batch script while it waits. *)
LEMMA WaitKeepsInv ==
  ASSUME Inv, StatusFound \/ NoStatusYet \/ Pgrep \/ Complete
  PROVE  Inv'
<1> USE SeedFacts DEF Inv, GoTo, runVars
<1>0. Len(todo) \in Nat /\ Ran \in Int /\ Len(run_dirs) \in Nat
  BY DEF Ran, TypeOK
<1>1. Ran' = Ran
  BY DEF Ran, StatusFound, NoStatusYet, Pgrep, Complete
<1>2. TypeOK'
  <2>1. run_dirs' \in Seq(Runs)
    <3>1. run_dirs' = run_dirs \/ run_dirs' = Append(run_dirs, Waited)
      BY DEF StatusFound, NoStatusYet, Pgrep, Complete
    <3>2. run_dirs \in Seq(Runs) /\ Waited \in Runs
      BY DEF TypeOK
    <3>3. Append(run_dirs, Waited) \in Seq(Runs)
      BY ONLY <3>2
    <3> QED
      BY ONLY <3>1, <3>2, <3>3
  <2>2. batch' \in {"wait", "pgrep", "seeds", "completed"}
    BY DEF StatusFound, NoStatusYet, Pgrep, AfterPgrep, Complete
  <2> QED
    BY <2>1, <2>2 DEF TypeOK, StatusFound, NoStatusYet, Pgrep, Complete
<1>3. SeedsInOrder'
  <2>1. CASE StatusFound \/ Complete
    BY <2>1, <1>0, <1>1 DEF SeedsInOrder, StatusFound, Complete
  <2>2. CASE NoStatusYet \/ Pgrep
    BY <2>2, <1>0, <1>1 DEF SeedsInOrder, NoStatusYet, Pgrep, AfterPgrep
  <2> QED
    BY <2>1, <2>2
<1>4. StatusIsExitCode' /\ SourceIsOriginal'
  BY DEF StatusIsExitCode, SourceIsOriginal, Undisturbed, StatusFound,
     NoStatusYet, Pgrep, Complete
<1>5. DirsInOrder'
  <2>1. CASE StatusFound
    <3>1. run_dirs = <<>> /\ Ran = 0
      BY <2>1 DEF StatusFound, SeedsInOrder
    <3>2. run_dirs' = <<Waited>> /\ status' = status /\ status[Waited] # None
      BY <2>1, <3>1 DEF StatusFound
    <3> QED
      BY <1>1, <3>1, <3>2 DEF DirsInOrder, Listed
  <2>2. CASE NoStatusYet \/ Pgrep \/ Complete
    BY <2>2, <1>1 DEF DirsInOrder, Listed, NoStatusYet, Pgrep, Complete
  <2> QED
    BY <2>1, <2>2
<1> QED
  BY <1>2, <1>3, <1>4, <1>5

(* The first of the seeds to run, and the rest. *)
LEMMA NextSeed ==
  ASSUME TypeOK, SeedsInOrder, todo # <<>>
  PROVE  /\ Len(todo) \in Nat /\ Len(todo) > 0
         /\ Ran \in Nat /\ Ran + 1 \in 1..Len(Seeds)
         /\ Head(todo) = Seeds[Ran + 1]
         /\ Tail(todo) \in Seq(Range(Seeds))
         /\ Len(Tail(todo)) = Len(todo) - 1
         /\ \A k \in 1..Len(todo) - 1 : Tail(todo)[k] = todo[k + 1]
<1> USE SeedFacts
<1>1. Len(todo) \in Nat /\ Len(todo) > 0 /\ Len(todo) <= Len(Seeds)
  BY DEF TypeOK, SeedsInOrder
<1>2. Head(todo) = todo[1]
  BY <1>1 DEF TypeOK
<1>3. /\ Tail(todo) \in Seq(Range(Seeds)) /\ Len(Tail(todo)) = Len(todo) - 1
      /\ \A k \in 1..Len(todo) - 1 : Tail(todo)[k] = todo[k + 1]
  BY <1>1 DEF TypeOK
<1>4. Ran \in Nat /\ Ran + 1 \in 1..Len(Seeds)
  BY <1>1 DEF Ran
<1> QED
  BY <1>1, <1>2, <1>3, <1>4 DEF SeedsInOrder

(* The batch starts its next seed, or finds that there is none. *)
LEMMA StartKeepsInv ==
  ASSUME Inv, StartSeed
  PROVE  Inv'
<1> USE SeedFacts DEF Inv, StartSeed
<1> DEFINE r == Head(todo)
<1>1. /\ r = Seeds[Ran + 1] /\ Ran \in Nat /\ Ran + 1 \in 1..Len(Seeds)
      /\ r \in Runs /\ r # Waited
  BY NextSeed
<1>2. Ran' = Ran
  BY DEF Ran
<1>3. stage[r] = "none"
  BY <1>1 DEF SeedsInOrder
<1>4. /\ stage'[r] = "preflight"
      /\ \A q \in Runs : q # r => stage'[q] = stage[q] /\ before'[q] = before[q]
      /\ before'[r] = program
  BY <1>1 DEF TypeOK
<1> HIDE DEF r
<1>5. TypeOK'
  BY <1>1 DEF TypeOK, Stages, r
<1>6. SeedsInOrder'
  <2>1. ASSUME NEW k \in 1..Len(Seeds), k # Ran + 1
        PROVE  stage'[Seeds[k]] = stage[Seeds[k]]
    BY <1>1, <1>4, <2>1
  <2> QED
    BY <1>1, <1>2, <2>1 DEF SeedsInOrder
<1>7. StatusIsExitCode'
  BY <1>3, <1>4 DEF StatusIsExitCode
<1>8. DirsInOrder'
  BY <1>2 DEF DirsInOrder, Listed
<1>9. SourceIsOriginal'
  <2> SUFFICES ASSUME Undisturbed'
               PROVE  program = Original /\ \A q \in Runs : before'[q] = Original
    BY DEF SourceIsOriginal
  <2>1. Undisturbed
    BY <1>1, <1>3, <1>4 DEF Undisturbed
  <2>2. ASSUME NEW q \in Runs
        PROVE  stage[q] \in {"none", "exited"}
    <3>1. CASE q = Waited
      BY <2>1, <3>1 DEF Undisturbed
    <3>2. CASE q # Waited
      <4>1. PICK k \in 1..Len(Seeds) : q = Seeds[k]
        BY <3>2 DEF Runs
      <4> QED
        BY <1>1, <4>1 DEF SeedsInOrder
    <3> QED
      BY <3>1, <3>2
  <2> QED
    BY <1>4, <2>1, <2>2 DEF SourceIsOriginal
<1> QED
  BY <1>5, <1>6, <1>7, <1>8, <1>9

(* A seed returns: its directory is listed and the next one may start, or its
   failure ends the batch. *)
LEMMA ReturnKeepsInv ==
  ASSUME Inv, SeedReturns
  PROVE  Inv'
<1> USE SeedFacts DEF Inv, SeedReturns, SeedSucceeds, GoTo, runVars
<1> DEFINE r == Head(todo)
<1>1. /\ todo # <<>>
      /\ r = Seeds[Ran + 1] /\ Ran \in Nat /\ Ran + 1 \in 1..Len(Seeds)
      /\ r \in Runs
      /\ Len(todo) \in Nat /\ Len(todo) > 0 /\ Len(todo) <= Len(Seeds)
  BY NextSeed DEF SeedsInOrder
<1>2. StatusIsExitCode' /\ SourceIsOriginal'
  BY DEF StatusIsExitCode, SourceIsOriginal, Undisturbed
<1>3. CASE exit_code[r] = 0
  <2>1. /\ todo' = Tail(todo) /\ run_dirs' = Append(run_dirs, r)
        /\ batch' = "seeds" /\ UNCHANGED <<stage, before, exit_code, status, program>>
    BY <1>3
  <2>2. Len(todo') = Len(todo) - 1 /\ Ran' = Ran + 1
    BY <1>1, <2>1, NextSeed DEF Ran
  <2>3. TypeOK'
    BY <1>1, <2>1, NextSeed DEF TypeOK
  <2>4. SeedsInOrder'
    <3>1. ASSUME NEW k \in 1..Len(todo')
          PROVE  todo'[k] = Seeds[Ran' + k]
      <4>1. k \in 1..Len(todo) - 1 /\ k + 1 \in 1..Len(todo)
        BY <1>1, <2>2
      <4>2. todo'[k] = todo[k + 1]
        BY <1>1, <2>1, <4>1, NextSeed
      <4>3. Ran + (k + 1) = Ran' + k
        BY <1>1, <2>2, <4>1
      <4> QED
        BY <4>1, <4>2, <4>3 DEF SeedsInOrder
    <3>2. stage[r] = "exited"
      BY <1>1, <1>3 DEF StatusIsExitCode
    <3>3. ASSUME NEW k \in 1..Len(Seeds)
          PROVE  /\ k <= Ran' => stage'[Seeds[k]] = "exited" /\ exit_code'[Seeds[k]] = 0
                 /\ k >= Ran' + 1 => stage'[Seeds[k]] = "none"
      <4>1. CASE k = Ran + 1
        BY <1>1, <1>3, <2>1, <2>2, <3>2, <4>1
      <4>2. CASE k <= Ran
        BY <1>1, <2>1, <2>2, <4>2 DEF SeedsInOrder
      <4>3. CASE k > Ran + 1
        BY <1>1, <2>1, <2>2, <4>3 DEF SeedsInOrder
      <4> QED
        BY <1>1, <4>1, <4>2, <4>3
    <3> QED
      BY <1>1, <2>1, <2>2, <3>1, <3>3 DEF SeedsInOrder
  <2>5. DirsInOrder'
    <3>0. Len(run_dirs) \in Nat
      BY DEF TypeOK
    <3>1. ASSUME NEW offset \in {0, 1}, Listed(offset)
          PROVE  /\ Listed(offset)'
                 /\ offset = 1 => run_dirs'[1] = run_dirs[1]
      <4>1. /\ Len(run_dirs') = Len(run_dirs) + 1
            /\ run_dirs'[Len(run_dirs) + 1] = r
            /\ \A k \in 1..Len(run_dirs) : run_dirs'[k] = run_dirs[k]
        BY <2>1, <3>0 DEF TypeOK
      <4>2. Len(run_dirs) = offset + Ran
        BY <3>1 DEF Listed
      <4>3. ASSUME NEW k \in 1..Ran + 1
            PROVE  run_dirs'[offset + k] = Seeds[k]
        <5>1. CASE k = Ran + 1
          BY <1>1, <4>1, <4>2, <5>1
        <5>2. CASE k <= Ran
          BY <1>1, <3>1, <4>1, <4>2, <5>2 DEF Listed
        <5> QED
          BY <1>1, <5>1, <5>2
      <4>4. Len(run_dirs') = offset + Ran'
        BY <1>1, <2>2, <4>1, <4>2
      <4>5. Listed(offset)'
        BY <2>2, <4>3, <4>4 DEF Listed
      <4>6. offset = 1 => run_dirs'[1] = run_dirs[1]
        BY <1>1, <4>1, <4>2
      <4> QED
        BY <4>5, <4>6
    <3> QED
      BY <2>1, <3>1 DEF DirsInOrder
  <2> QED
    BY <1>2, <2>3, <2>4, <2>5
<1>4. CASE exit_code[r] # 0
  <2>1. batch' = "aborted" /\ UNCHANGED <<todo, run_dirs, stage, exit_code, status>>
    BY <1>4
  <2>2. Ran' = Ran
    BY <2>1 DEF Ran
  <2>3. TypeOK'
    BY <2>1 DEF TypeOK
  <2>4. SeedsInOrder'
    BY <1>1, <2>1, <2>2 DEF SeedsInOrder
  <2>5. DirsInOrder'
    BY <2>1, <2>2 DEF DirsInOrder, Listed
  <2> QED
    BY <1>2, <2>3, <2>4, <2>5
<1> QED
  BY <1>3, <1>4

(* No step of the scripts, of the batch or of a kill breaks the invariant. *)
LEMMA InvStep == Inv /\ [Next]_vars => Inv'
<1> SUFFICES ASSUME Inv, [Next]_vars
             PROVE  Inv'
  OBVIOUS
<1>1. CASE UNCHANGED vars
  BY <1>1 DEF Inv, vars, batchVars, runVars, TypeOK, SeedsInOrder, Ran,
     StatusIsExitCode, DirsInOrder, Listed, SourceIsOriginal, Undisturbed
<1>2. CASE Next
  BY <1>2, ScriptKeepsInv, WaitKeepsInv, StartKeepsInv, ReturnKeepsInv
     DEF Next, BatchStep
<1> QED
  BY <1>1, <1>2

LEMMA InvHolds == Spec => []Inv
BY InitInv, InvStep, PTL DEF Spec

(* Every variable of the batch and of its runs keeps its type. *)
THEOREM BatchTypeCorrect == Spec => []TypeOK
<1>1. Inv => TypeOK
  BY DEF Inv
<1> QED
  BY <1>1, InvHolds, PTL

(* run_diverse_glm_repeats.sh completes only once every seed's run has, and
   run_dirs.txt lists them all in order, behind the run it waited for. *)
THEOREM CompletionCorrect == Spec => []CompletedMeansAllRan
<1>1. Inv => CompletedMeansAllRan
  <2> SUFFICES ASSUME Inv, batch = "completed"
               PROVE  CompletedMeansAllRan
    BY DEF CompletedMeansAllRan
  <2> USE SeedFacts DEF Inv
  <2>1. Ran = Len(Seeds)
    BY DEF SeedsInOrder, Ran
  <2>2. ASSUME NEW s \in Range(Seeds)
        PROVE  status[s] = "completed"
    <3>1. PICK k \in 1..Len(Seeds) : s = Seeds[k]
      OBVIOUS
    <3> QED
      BY <2>1, <3>1 DEF SeedsInOrder, StatusIsExitCode
  <2>3. CASE Listed(0)
    <3>1. run_dirs = Seeds
      BY <2>1, <2>3 DEF Listed, TypeOK
    <3>2. Waited \notin Range(run_dirs)
      BY <3>1
    <3> QED
      BY <2>2, <3>1, <3>2 DEF CompletedMeansAllRan
  <2>4. CASE Listed(1) /\ run_dirs[1] = Waited /\ status[Waited] # None
    <3>1. Len(run_dirs) = Len(Seeds) + 1 /\ DOMAIN run_dirs = 1..Len(Seeds) + 1
      BY <2>1, <2>4 DEF Listed, TypeOK
    <3>2. Waited \in Range(run_dirs)
      BY <2>4, <3>1 DEF Range
    <3>3. run_dirs = <<Waited>> \o Seeds
      <4> DEFINE t == <<Waited>> \o Seeds
      <4>1. t \in Seq(Runs) /\ Len(t) = Len(Seeds) + 1 /\ t[1] = Waited
        BY DEF Runs
      <4>2. \A k \in 1..Len(Seeds) : t[1 + k] = Seeds[k]
        OBVIOUS
      <4>3. ASSUME NEW k \in 1..Len(Seeds) + 1
            PROVE  run_dirs[k] = t[k]
        <5>1. CASE k = 1
          BY <2>4, <4>1, <5>1
        <5>2. CASE k # 1
          <6>1. k - 1 \in 1..Len(Seeds) /\ k = 1 + (k - 1)
            BY <5>2
          <6> QED
            BY <2>1, <2>4, <4>2, <6>1 DEF Listed
        <5> QED
          BY <5>1, <5>2
      <4> HIDE DEF t
      <4>4. run_dirs = t
        BY <3>1, <4>1, <4>3 DEF TypeOK
      <4> QED
        BY <4>4 DEF t
    <3> QED
      BY <2>2, <2>4, <3>2, <3>3 DEF CompletedMeansAllRan
  <2> QED
    BY <2>3, <2>4 DEF DirsInOrder
<1> QED
  BY <1>1, InvHolds, PTL

(* Every seed is scored in the tree that the batch was started in: the runs
   put initial_program.cpp back, whatever they exit with. *)
THEOREM SeedsRestore == Spec => []SeedsRestoreTheProgram
<1>1. Inv => SeedsRestoreTheProgram
  <2> SUFFICES ASSUME Inv, stage[Waited] = "none",
                      \A r \in Runs :
                        stage[r] \in {"none", "preflight", "restored", "exited"}
               PROVE  program = Original
    BY DEF SeedsRestoreTheProgram
  <2> QED
    BY DEF Inv, SourceIsOriginal, Undisturbed
<1> QED
  BY <1>1, InvHolds, PTL
=============================================================================
