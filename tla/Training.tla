------------------------------ MODULE Training ------------------------------
(***************************************************************************)
(* The training loops of pretrain.py, sft_train.py and dpo_train.py over   *)
(* the checkpoints of train_utils.py: micro-batches, optimizer steps,      *)
(* evaluation, saving, removal of old files, crashes at any point, and     *)
(* runs started over or resumed in the directory an earlier run left.      *)
(*                                                                         *)
(* As the code stands two of the three scripts raise before their loop:    *)
(* pretrain.py:325 reads config.model_name, which MominoMoEConfig has not, *)
(* and dpo_train.py:586 calls DPODataset with a keyword it does not take.  *)
(* Repaired names the scripts whose start-up is taken as mended, and with  *)
(* it what then raises in their first batch (pretrain.py:168 calls get of  *)
(* a list, dpo_train.py:138 gathers at index -100, dpo_collate stacks      *)
(* sequences of different lengths), so that their loops can be checked.    *)
(*                                                                         *)
(* Weights and losses are abstract: a run is its counters, a checkpoint is *)
(* the counters it stores, a validation loss is a number of Losses.        *)
(* A run is resumed from the files of its own directory, sft_best.pt among *)
(* them.  A path that does not exist is a fresh run (the warning of        *)
(* load_checkpoint); from a file a crash cut short torch.load raises and   *)
(* nothing happens.  Other files a command names are taken as readable.    *)
(* One process trains: DistributedDataParallel lets only rank 0 save and   *)
(* is not modelled.  An sft job has validation data.                       *)
(***************************************************************************)
EXTENDS Integers, FiniteSets

CONSTANTS Jobs,     \* the command lines considered
          MaxRuns,  \* bound: processes started in one output directory
          Losses,   \* bound: the validation losses an evaluation can return
          None,     \* no file
          Repaired  \* scripts whose main is taken to reach its loop

Job == [script : {"pretrain", "sft", "dpo"}, batches : Nat \ {0}, accum : Nat \ {0},
        maxSteps : Nat \ {0}, warmup : Nat, saveEvery : Nat \ {0},
        evalEvery : Nat \ {0}, keep : Nat \ {0}, iterations : Nat \ {0}]

ASSUME JobsAssumption == /\ Jobs \subseteq Job
                         \* --iterative is an option of dpo_train.py only
                         /\ \A j \in Jobs : j.script # "dpo" => j.iterations = 1
                         /\ MaxRuns \in Nat /\ Losses \subseteq Nat
                         /\ Repaired \subseteq {"pretrain", "dpo"}

VARIABLES job, disk, sftBest, runs, strayed, bare,   \* what outlives a process
          phase, iteration, epoch, start, batch, grad, gstep, sched, best, target

vars == <<job, disk, sftBest, runs, strayed, bare,
          phase, iteration, epoch, start, batch, grad, gstep, sched, best, target>>

Inf == 1 + CHOOSE m \in Losses : \A l \in Losses : l <= m   \* float("inf")
Bases == {"checkpoint", "checkpoint_best", "checkpoint_final"}

-----------------------------------------------------------------------------
(* File names {base}_step{n}.pt and their order as strings: the digits compare
   like the decimal fractions 0.m and 0.n, and '.' sorts before the digits, so
   of two equal fractions, as 1 and 10, the shorter name comes first. *)

Pow10[k \in Nat] == IF k = 0 THEN 1 ELSE 10 * Pow10[k - 1]

Width(n) == CHOOSE w \in 1..(n + 1) : n < Pow10[w] /\ (w = 1 \/ n >= Pow10[w - 1])

Precedes(m, n) ==
  LET v == Width(m)
      w == Width(n)
  IN \/ m * Pow10[w] < n * Pow10[v]
     \/ m * Pow10[w] = n * Pow10[v] /\ v < w

Files(base) == {f \in DOMAIN disk : f.base = base}

SortedAfter(f, files) == {g \in files : Precedes(f.step, g.step)}

SurplusFromTheEnd(files, keep) ==
  {f \in files : Cardinality(files) - Cardinality(SortedAfter(f, files)) > keep}

\* The files popped from the front of the sorted list while it is too long.
Surplus(files, keep) ==
  {f \in files : Cardinality(SortedAfter(f, files)) >= keep}

\* files[-1] of the sorted list
FirstByName(files) ==
  CHOOSE f \in files : \A g \in files \ {f} : Precedes(f.step, g.step)
LastByName(files) == CHOOSE f \in files : SortedAfter(f, files) = {}

\* sft_train.py passes no keep_last_n: the default 5 holds, whatever --keep-checkpoints.
KeepLastN == IF job.script # "sft" /\ target.base = "checkpoint" THEN job.keep ELSE 5

-----------------------------------------------------------------------------
(* The learning rate.  Height is an increasing image of it: peak is
   Warm * Span, and past the horizon cos(pi * progress) comes up again. *)

Horizon == LET perEpoch == job.batches \div job.accum
           IN IF job.script = "sft" \/ job.maxSteps < perEpoch THEN job.maxSteps ELSE perEpoch

Warm == IF job.warmup = 0 THEN 1 ELSE job.warmup
Span == IF Horizon > job.warmup THEN Horizon - job.warmup ELSE 1

HeightRestarting(n) == IF n < job.warmup THEN n * Span ELSE Warm * (n % Span)
Height(n) ==
  IF n < job.warmup THEN n * Span
  ELSE LET p == (n - job.warmup) % (2 * Span)      \* progress, of period 2
           q == IF p <= Span THEN p ELSE 2 * Span - p
       IN Warm * (Span - q)


-----------------------------------------------------------------------------
Idle == /\ iteration' = 0 /\ epoch' = 0 /\ start' = 0 /\ batch' = 0 /\ grad' = 0 /\ gstep' = 0
        /\ sched' = 0 /\ best' = Inf /\ target' = None

Init == /\ job \in Jobs
        /\ disk = << >> /\ sftBest = None /\ runs = 0 /\ strayed = FALSE /\ bare = FALSE
        /\ phase = "down" /\ iteration = 0 /\ epoch = 0 /\ start = 0 /\ batch = 0 /\ grad = 0
        /\ gstep = 0 /\ sched = 0 /\ best = Inf /\ target = None

\* range(start_epoch, EpochLimit)
EpochLimit == IF job.script = "sft" THEN 100
              ELSE job.maxSteps \div job.batches + 1

Enter(e) == IF e < EpochLimit THEN "batch" ELSE "ended"
Ended == {"down", "raised", "done", "checked"}

StartUpRaises == job.script \in {"pretrain", "dpo"} \ Repaired

\* main up to its loop, with the counters of the state it starts from.
Launch(e, n, l) ==
  /\ phase \in Ended /\ runs < MaxRuns
  /\ runs' = runs + 1
  /\ phase' = IF StartUpRaises THEN "raised" ELSE Enter(e)
  /\ iteration' = 0
  /\ epoch' = e /\ start' = e /\ gstep' = n /\ sched' = l
  /\ batch' = 0 /\ grad' = 0 /\ best' = Inf /\ target' = None
  /\ UNCHANGED <<job, disk, sftBest>>

\* The complete checkpoint of the greatest step: where an interrupted run goes on.
Newest(f) == /\ f.base = "checkpoint"
             /\ \A g \in Files("checkpoint") : disk[g].whole => g.step <= f.step

Begin == /\ Launch(0, 0, 0)
         /\ strayed' = (strayed \/ DOMAIN disk # {}) /\ bare' = bare

\* load_checkpoint: what the file has not is skipped, or 0.
Entry(c, field) == IF field \in DOMAIN c THEN c[field] ELSE 0

RestoredWithoutScheduler(c) == <<Entry(c, "epoch"), c.gstep, 0>>
Restored(c) == <<Entry(c, "epoch"), c.gstep, Entry(c, "sched")>>

GoOnFrom(c) == /\ c.whole
               /\ LET r == Restored(c) IN Launch(r[1], r[2], r[3])
               /\ bare' = (bare \/ "sched" \notin DOMAIN c)

Resume(f) == GoOnFrom(disk[f]) /\ strayed' = (strayed \/ ~Newest(f))

ResumeExported == sftBest # None /\ GoOnFrom(sftBest) /\ strayed' = TRUE

\* --dry-run: start-up and the loss of one batch, without a step or a file.
DryRun == /\ phase \in Ended
          /\ phase' = IF StartUpRaises THEN "raised" ELSE "checked"
          /\ UNCHANGED <<job, disk, sftBest, runs, strayed, bare,
                         iteration, epoch, start, batch, grad, gstep, sched, best, target>>

\* What follows the evaluation of an optimizer step.
EvaluatesAgain(n) == IF n % job.saveEvery = 0 THEN "save"
  ELSE IF job.script = "sft" /\ n % job.evalEvery = 0 THEN "evaluate" ELSE "next"
AfterEvaluation(n) == IF n % job.saveEvery = 0 THEN "save" ELSE "next"

AfterStep(n) == IF job.script = "sft" /\ n % job.evalEvery = 0
                THEN "evaluate" ELSE AfterEvaluation(n)

Boundary(b) == b % job.accum = 0
HasBatch == batch < job.batches

\* forward and backward of one batch, no step yet
Accumulate == /\ phase = "batch" /\ HasBatch
              /\ ~Boundary(batch + 1)
              /\ batch' = batch + 1 /\ grad' = grad + 1
              /\ UNCHANGED <<job, disk, sftBest, runs, strayed, bare,
                             phase, iteration, epoch, start, gstep, sched, best, target>>

\* The batch that completes a window: clip, optimizer, scheduler, zero_grad.
OptimizerStep == /\ phase = "batch" /\ HasBatch
                 /\ Boundary(batch + 1)
                 /\ batch' = batch + 1 /\ grad' = 0
                 /\ gstep' = gstep + 1 /\ sched' = sched + 1
                 /\ phase' = AfterStep(gstep + 1)
                 /\ UNCHANGED <<job, disk, sftBest, runs, strayed, bare,
                                iteration, epoch, start, best, target>>

\* torch.save opens the final path at once: until it ends the file is cut short.
StartWriting(base, e) ==
  LET f == [base |-> base, step |-> gstep]
      c == [epoch |-> e, gstep |-> gstep, sched |-> sched,
            loss |-> best', whole |-> FALSE]
  IN /\ disk' = [g \in DOMAIN disk \cup {f} |-> IF g = f THEN c ELSE disk[g]]
     /\ target' = f /\ phase' = "write"
     /\ UNCHANGED <<job, sftBest, runs, strayed, bare, iteration, epoch, start, batch, grad, gstep, sched>>

Improves(loss) == loss < best

Evaluate(loss) ==
  /\ phase = "evaluate"
  /\ \/ /\ Improves(loss) /\ best' = loss
        /\ StartWriting("checkpoint_best", epoch)
     \/ /\ ~Improves(loss) /\ phase' = AfterEvaluation(gstep)
        /\ UNCHANGED <<job, disk, sftBest, runs, strayed, bare,
                       iteration, epoch, start, batch, grad, gstep, sched, best, target>>

Save == /\ phase = "save" /\ best' = best
        /\ StartWriting("checkpoint", epoch)

\* After the loop: the final file carries the epoch the run started in.
SaveFinal == /\ phase = "final" /\ best' = best
             /\ StartWriting("checkpoint_final", start)

\* The file is complete; _cleanup_old_checkpoints follows in the same call.
Written == /\ phase = "write"
           /\ LET full == [disk EXCEPT ![target].whole = TRUE]
                  kept == DOMAIN full \ Surplus(Files(target.base), KeepLastN)
              IN disk' = [f \in kept |-> full[f]]
           /\ phase' = CASE target.base = "checkpoint_best" -> AfterEvaluation(gstep)
                         [] target.base = "checkpoint" -> "next"
                         [] target.base = "checkpoint_final" ->
                              IF job.script = "sft" THEN "export" ELSE "done"
           /\ target' = None
           /\ UNCHANGED <<job, sftBest, runs, strayed, bare,
                          iteration, epoch, start, batch, grad, gstep, sched, best>>

\* sft_best.pt without a best file: the final weights and their step, nothing else.
Weights(whole) == [gstep |-> gstep, loss |-> Inf, whole |-> whole]

\* sft_best.pt: a copy of the best file that sorts last, or the final weights.
Export == /\ phase = "export" /\ phase' = "done"
          /\ LET bests == Files("checkpoint_best")
             IN sftBest' = IF bests = {} THEN Weights(TRUE) ELSE disk[LastByName(bests)]
          /\ UNCHANGED <<job, disk, runs, strayed, bare,
                         iteration, epoch, start, batch, grad, gstep, sched, best, target>>

ReachedLate == gstep > job.maxSteps
Reached == gstep >= job.maxSteps

NextBatch == /\ phase = "next" /\ ~Reached /\ phase' = "batch"
             /\ UNCHANGED <<job, disk, sftBest, runs, strayed, bare,
                            iteration, epoch, start, batch, grad, gstep, sched, best, target>>

\* The epochs of pretrain and dpo_train clear the gradient; sft_train's carry it over.
GradientCarried == grad
GradientOfNewEpoch == IF job.script = "sft" THEN grad ELSE 0

EndEpoch ==
  /\ \/ phase = "batch" /\ ~HasBatch
     \/ phase = "next" /\ Reached
  /\ IF Reached \/ epoch + 1 >= EpochLimit
     THEN phase' = "ended" /\ UNCHANGED <<epoch, batch, grad>>
     ELSE /\ phase' = "batch" /\ epoch' = epoch + 1 /\ batch' = 0
          /\ grad' = GradientOfNewEpoch
  /\ UNCHANGED <<job, disk, sftBest, runs, strayed, bare,
                 iteration, start, gstep, sched, best, target>>

\* The loop over epochs has ended.  Iterative DPO goes through it again, counting
\* steps from 0 if it had reached max_steps; no new pairs are generated.
EndIteration ==
  /\ phase = "ended"
  /\ IF iteration + 1 < job.iterations
     THEN /\ iteration' = iteration + 1 /\ epoch' = start /\ phase' = Enter(start)
          /\ batch' = 0 /\ grad' = 0
          /\ gstep' = IF Reached THEN 0 ELSE gstep
     ELSE phase' = "final" /\ UNCHANGED <<iteration, epoch, batch, grad, gstep>>
  /\ UNCHANGED <<job, disk, sftBest, runs, strayed, bare, start, sched, best, target>>

\* Killed, out of memory, power: the process is gone, its directory stays, and
\* in it sft_best.pt may be cut short.
Crash == /\ phase \notin Ended
         /\ phase' = "down" /\ Idle
         /\ \/ sftBest' = sftBest
            \/ phase = "export" /\ sftBest' = Weights(FALSE)
         /\ UNCHANGED <<job, disk, runs, strayed, bare>>

Train == \/ Accumulate \/ OptimizerStep \/ NextBatch \/ EndEpoch \/ EndIteration
         \/ \E loss \in Losses : Evaluate(loss)
         \/ Save \/ SaveFinal \/ Written \/ Export

Next == \/ Begin \/ DryRun \/ Train \/ Crash
        \/ ResumeExported \/ \E f \in DOMAIN disk : Resume(f)

\* A running process keeps running; it need not be started again.
Spec == Init /\ [][Next]_vars /\ WF_vars(Train)

-----------------------------------------------------------------------------
\* A file is named after the step it holds, and in the process and in every file
\* the scheduler is never ahead of the step counter; it stands where the counter
\* stands as long as no process went on from weights alone (save_checkpoint,
\* load_checkpoint), over crashes, runs started over and resumptions.
InStep(l, n) == l <= n /\ (~bare => l = n)

CountersAgree ==
  /\ job.iterations = 1 => InStep(sched, gstep)
  /\ \A f \in DOMAIN disk : /\ disk[f].gstep = f.step
                            /\ job.iterations = 1 => InStep(disk[f].sched, f.step)

\* An optimizer step takes the gradient of exactly one window, after a resumption
\* in the middle of an epoch too; only sft_train, which does not clear the
\* gradient between epochs, adds the rest of the last one.
WholeWindows ==
  [][phase = "batch" /\ gstep' = gstep + 1 =>
       \/ grad + 1 = job.accum
       \/ job.script = "sft" /\ grad + 1 = job.accum + (job.batches % job.accum)]_vars

\* Cleanup never removes a file while an older one of the same base and number
\* of digits stays (the docstring's "Remove oldest checkpoints", as far as it holds).
RemovesOldest ==
  [][\A f \in DOMAIN disk \ DOMAIN disk', g \in DOMAIN disk' :
       f.base = g.base /\ Width(f.step) = Width(g.step) => f.step < g.step]_vars

\* max_steps is passed by at most one step for each resumption of a finished run
\* (the ends of the loops).
StepsBounded == gstep <= job.maxSteps + runs - 1

\* Over crashes and resumptions the steps are bounded and the directory does not
\* fill up, every process leaving at most one file beyond those that are kept,
\* the one it was writing (_cleanup_old_checkpoints).
GrowthBounded ==
  /\ StepsBounded
  /\ \A b \in Bases : Cardinality(Files(b)) <=
       runs + (IF job.script # "sft" /\ b = "checkpoint" THEN job.keep ELSE 5)

\* While step numbers have one digit, a run whose processes all went on from the
\* newest checkpoint has a complete checkpoint at most save_every steps back, even
\* when it is killed inside torch.save.  (A process that goes on from an older file
\* writes over the newer ones: killed again and again it can leave none complete.)
ProgressKept ==
  /\ phase \notin Ended /\ ~strayed /\ job.iterations = 1
  /\ gstep > job.saveEvery /\ Width(gstep) = 1
  => \E f \in Files("checkpoint") : disk[f].whole /\ f.step >= gstep - job.saveEvery

\* Up to its horizon the schedule rises to its peak and then only falls.
WarmsUpThenDecays ==
  [][/\ phase = "batch" /\ sched' = sched + 1 /\ sched' <= Horizon
     /\ job.warmup < Horizon
     => IF sched' <= job.warmup THEN Height(sched') > Height(sched)
        ELSE Height(sched') <= Height(sched)]_vars

\* When a first run ends, sft_best.pt is the model of the lowest validation loss
\* it saw, as long as the steps it was evaluated at have one width: however many
\* best files there were, cleanup removed none that is missed.
EvaluatedSteps == {n \in 1..gstep : n % job.evalEvery = 0}

BestIsExported ==
  /\ phase = "done" /\ runs = 1 /\ job.script = "sft"
  /\ \A m, n \in EvaluatedSteps : Width(m) = Width(n)
  => sftBest.loss = best /\ sftBest.whole

\* A process that is not killed ends.
RunEnds == (phase \notin Ended) ~> (phase \in Ended)

\* "Remove oldest checkpoints, keeping only the most recent N."
\* (train_utils.py:304): the file just saved is there after the cleanup.
SavedIsKept == [][phase = "write" /\ phase' # "down" => target \in DOMAIN disk']_vars

\* "Load training checkpoint and restore state." (train_utils.py:249): a process
\* that goes on at step n has its schedule at step n.  It does not hold for the
\* sft_best.pt written without a best file (TrainingResumed.cfg).
ScheduleIsRestored == [][runs' = runs + 1 => sched' = gstep']_vars

=============================================================================
