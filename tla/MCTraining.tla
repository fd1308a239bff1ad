----------------------------- MODULE MCTraining -----------------------------
(* Command lines for the model checker: epochs that do and do not divide into
   windows, step numbers that stay below ten and that pass it, few and many
   files kept, more than five best files and none, one and several iterations
   of DPO. *)
EXTENDS Training

Line(s, b, a, m, w, n, v, k, i) ==
  [script |-> s, batches |-> b, accum |-> a, maxSteps |-> m, warmup |-> w,
   saveEvery |-> n, evalEvery |-> v, keep |-> k, iterations |-> i]

ManyJobs == {Line("pretrain", 3, 1, 11, 1, 3, 1, 2, 1), Line("pretrain", 5, 2, 5, 1, 1, 1, 2, 1),
             Line("pretrain", 4, 2, 3, 0, 2, 1, 1, 1),
             Line("sft", 3, 2, 8, 2, 2, 2, 3, 1), Line("sft", 2, 1, 11, 1, 4, 3, 3, 1),
             Line("sft", 1, 2, 3, 0, 1, 1, 3, 1), Line("sft", 3, 1, 6, 1, 3, 1, 3, 1),
             Line("sft", 2, 1, 3, 1, 2, 20, 3, 1),
             Line("dpo", 3, 2, 4, 1, 1, 1, 2, 1), Line("dpo", 2, 1, 3, 1, 2, 1, 2, 2)}
UnevaluatedSft == {Line("sft", 2, 1, 3, 1, 2, 20, 3, 1)}
LongSft == {Line("sft", 2, 1, 11, 1, 1, 20, 3, 1)}
=============================================================================
