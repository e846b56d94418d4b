------------------------------- MODULE Batch --------------------------------
(***************************************************************************)
(* scripts/run_diverse_glm_repeats.sh and the runs of                      *)
(* scripts/evolve_recorded.sh that it waits for and starts: shell scripts  *)
(* that know of each other by status.json, by the process list and by exit *)
(* codes, and that all work on one initial_program.cpp.                    *)
(***************************************************************************)
EXTENDS Naturals, Sequences, SequencesExt

CONSTANTS Seeds,    \* SEEDS: one run for each, one after the other
          Waited,   \* the run in WAIT_RUN_DIR, if that is set
          Original, \* initial_program.cpp before any run
          None

Runs == Range(Seeds) \cup {Waited}

\* A file that was opened and not written to the end is "torn".
Statuses == {"failed_preflight", "completed", "failed", "torn"}

ASSUME BatchAssumption ==
  /\ Seeds \in Seq(Range(Seeds)) /\ IsInjective(Seeds)
  /\ Waited \notin Range(Seeds)
  /\ Original \notin Runs /\ None \notin Runs \cup {Original} \cup Statuses

VARIABLES batch,     \* where run_diverse_glm_repeats.sh is
          todo,      \* the seeds it has still to run
          run_dirs,  \* run_dirs.txt
          stage,     \* where evolve_recorded.sh is, for each run
          before,    \* each run's initial_program.before.cpp
          exit_code, \* of each run
          status,    \* each run's status.json
          program    \* initial_program.cpp: Original or the run it is from

batchVars == <<batch, todo, run_dirs>>
runVars == <<stage, before, exit_code, status>>
vars == <<batchVars, runVars, program>>

Init ==
  /\ batch \in {"wait", "seeds"}
  /\ todo = Seeds
  /\ run_dirs = <<>>
  /\ stage = [r \in Runs |->
                IF r = Waited /\ batch = "wait" THEN "preflight" ELSE "none"]
  /\ before = [r \in Runs |-> Original]
  /\ exit_code = [r \in Runs |-> 0]
  /\ status = [r \in Runs |-> None]
  /\ program = Original

-----------------------------------------------------------------------------
(* evolve_recorded.sh *)
Advance(r, from, to) ==
  /\ stage[r] = from
  /\ stage' = [stage EXCEPT ![r] = to]
  /\ UNCHANGED batchVars

(* set -e: a command that fails (its exit code is 1 here) ends the script:
   while it sets the run up, writes status.json or copies the program back. *)
ScriptFails(r) ==
  /\ stage[r] \in {"preflight", "evolved", "recorded"}
  /\ Advance(r, stage[r], "failed")
  /\ exit_code' = [exit_code EXCEPT ![r] = 1]
  /\ \/ UNCHANGED status
     \/ stage[r] # "recorded" /\ status' = [status EXCEPT ![r] = "torn"]
  /\ UNCHANGED <<before, program>>

\* The script's own exit code, or that of a summary that fails before it.
ExitsWith(r, code) ==
  \E actual \in {code, 1} : exit_code' = [exit_code EXCEPT ![r] = actual]

\* The endpoint of the language model does not answer.
PreflightFails(r) ==
  /\ Advance(r, "preflight", "exited")
  /\ ExitsWith(r, 20)
  /\ status' = [status EXCEPT ![r] = "failed_preflight"]
  /\ UNCHANGED <<before, program>>

Evolve(r) ==
  Advance(r, "preflight", "evolving")
    /\ UNCHANGED <<before, exit_code, status, program>>

\* The evaluator copies a candidate over initial_program.cpp.
Candidate(r) ==
  /\ stage[r] = "evolving"
  /\ program' = r
  /\ UNCHANGED <<batchVars, runVars>>

\* Fault: without set +e, a failure ends the script there.
EvolveEndsAborts(r, code) ==
  /\ Advance(r, "evolving", IF code = 0 THEN "evolved" ELSE "exited")
  /\ exit_code' = [exit_code EXCEPT ![r] = code]
  /\ UNCHANGED <<before, status, program>>

EvolveEnds(r, code) ==
  /\ Advance(r, "evolving", "evolved")
  /\ exit_code' = [exit_code EXCEPT ![r] = code]
  /\ UNCHANGED <<before, status, program>>

WriteStatus(r) ==
  /\ Advance(r, "evolved", "recorded")
  /\ status' = [status EXCEPT ![r] =
                  IF exit_code[r] = 0 THEN "completed" ELSE "failed"]
  /\ UNCHANGED <<before, exit_code, program>>

Restore(r) ==
  /\ Advance(r, "recorded", "restored")
  /\ program' = before[r]
  /\ UNCHANGED <<before, exit_code, status>>

Exit(r) ==
  /\ Advance(r, "restored", "exited")
  /\ ExitsWith(r, exit_code[r])
  /\ UNCHANGED <<before, status, program>>

ScriptStep(r) ==
  \/ PreflightFails(r) \/ Evolve(r)
  \/ \E code \in {0, 1} : EvolveEnds(r, code)
  \/ WriteStatus(r) \/ Restore(r) \/ Exit(r) \/ ScriptFails(r)

\* A run can be killed with its openevolve-run, at any step.
Kill(r) ==
  /\ stage[r] \notin {"none", "exited", "failed", "killed"}
  /\ stage' = [stage EXCEPT ![r] = "killed"]
  /\ exit_code' = [exit_code EXCEPT ![r] = 137]
  /\ UNCHANGED <<batchVars, before, status, program>>

-----------------------------------------------------------------------------
(* run_diverse_glm_repeats.sh.  wait_for_run looks for the status file, and
   then for a process. *)
GoTo(next) == batch' = next /\ UNCHANGED <<runVars, program>>

StatusFound ==
  /\ batch = "wait"
  /\ status[Waited] # None
  /\ run_dirs' = Append(run_dirs, Waited)
  /\ GoTo("seeds")
  /\ UNCHANGED todo

NoStatusYet ==
  /\ batch = "wait"
  /\ status[Waited] = None
  /\ GoTo("pgrep")
  /\ UNCHANGED <<todo, run_dirs>>

\* Fault: whatever pgrep says, the loop goes on.
AfterPgrepWait == "wait"

\* "return 1", which is ignored.
AfterPgrep == IF stage[Waited] = "evolving" THEN "wait" ELSE "seeds"

Pgrep ==
  /\ batch = "pgrep"
  /\ GoTo(AfterPgrep)
  /\ UNCHANGED <<todo, run_dirs>>

StartSeed ==
  /\ batch = "seeds"
  /\ todo # <<>>
  /\ batch' = "seed"
  /\ stage' = [stage EXCEPT ![Head(todo)] = "preflight"]
  /\ before' = [before EXCEPT ![Head(todo)] = program]
  /\ UNCHANGED <<todo, run_dirs, exit_code, status, program>>

\* Fault: without pipefail, the exit code is that of tee.
TeeSucceeds(seed) == TRUE

SeedSucceeds(seed) == exit_code[seed] = 0

(* set -e and pipefail: the batch ends with the first seed that fails, and
   its status stays "running". *)
SeedReturns ==
  /\ batch = "seed"
  /\ stage[Head(todo)] \in {"exited", "failed", "killed"}
  /\ IF SeedSucceeds(Head(todo))
     THEN /\ GoTo("seeds")
          /\ todo' = Tail(todo)
          /\ run_dirs' = Append(run_dirs, Head(todo))
     ELSE GoTo("aborted") /\ UNCHANGED <<todo, run_dirs>>

Complete ==
  /\ batch = "seeds"
  /\ todo = <<>>
  /\ GoTo("completed")
  /\ UNCHANGED <<todo, run_dirs>>

BatchStep ==
  StatusFound \/ NoStatusYet \/ Pgrep \/ StartSeed \/ SeedReturns \/ Complete

Next ==
  \/ BatchStep
  \/ \E r \in Runs : ScriptStep(r) \/ Candidate(r) \/ Kill(r)

(* The scripts go on by themselves, and openevolve-run stops after its
   iterations. *)
Spec ==
  /\ Init /\ [][Next]_vars
  /\ WF_vars(BatchStep)
  /\ \A r \in Runs : WF_vars(ScriptStep(r))

-----------------------------------------------------------------------------
Stages == {"none", "preflight", "evolving", "evolved", "recorded", "restored",
           "exited", "failed", "killed"}

TypeOK ==
  /\ batch \in {"wait", "pgrep", "seeds", "seed", "aborted", "completed"}
  /\ todo \in Seq(Range(Seeds))
  /\ run_dirs \in Seq(Runs)
  /\ stage \in [Runs -> Stages]
  /\ before \in [Runs -> Runs \cup {Original}]
  /\ exit_code \in [Runs -> {0, 1, 20, 137}]
  /\ status \in [Runs -> Statuses \cup {None}]
  /\ program \in Runs \cup {Original}

(* A batch that says it has completed has run every seed to the end of its
   evolution, and lists them in their order, after the run it waited for if
   that has a status. *)
CompletedMeansAllRan ==
  batch = "completed" =>
    /\ \A r \in Range(Seeds) : status[r] = "completed"
    /\ run_dirs = IF Waited \in Range(run_dirs) THEN <<Waited>> \o Seeds ELSE Seeds
    /\ Waited \in Range(run_dirs) => status[Waited] # None

(* Whatever the runs of a batch exit with, initial_program.cpp is the one
   the batch was started with whenever none of them is under way: the seeds
   are scored in the same tree.  Not so when a run was killed, when set -e
   ended one before its copy back was made, or beside a run that was waited
   for. *)
SeedsRestoreTheProgram ==
  /\ stage[Waited] = "none"
  /\ \A r \in Runs : stage[r] \in {"none", "preflight", "restored", "exited"}
  => program = Original

(* The batch ends, completed or not: it does not wait for a run that was
   killed, nor for a seed that failed. *)
BatchEnds == <>(batch \in {"completed", "aborted"})

(* "waiting for ${run_dir}" (run_diverse_glm_repeats.sh:70): when a seed is
   started the run that the batch has waited for is over, or has failed or was
   killed, and is done with initial_program.cpp. *)
WaitsForTheRun ==
  batch = "seed" =>
    stage[Waited] \in {"none", "restored", "exited", "failed", "killed"}
=============================================================================
