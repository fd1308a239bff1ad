----------------------------- MODULE MCInference ----------------------------
\* Instances for TLC: two rows, a vocabulary of three tokens, prompts that fit
\* the context, that reach its end while generating, and that do not fit.
EXTENDS Inference

Ask(n, max, greedy, k, p) ==
  [caches |-> TRUE, promptLen |-> n, maxNew |-> max, greedy |-> greedy, topK |-> k, topP |-> p]

MCRequests == {Ask(2, 1, FALSE, 2, 0), Ask(1, 2, TRUE, 0, 0), Ask(1, 3, FALSE, 0, 60),
               Ask(2, 2, FALSE, 2, 90), Ask(2, 1, FALSE, 4, 0), Ask(4, 1, TRUE, 0, 0), Ask(0, 1, TRUE, 0, 0)}

D(a, b, e) == [t \in {"a", "b", "eos"} |-> CASE t = "a" -> a [] t = "b" -> b [] OTHER -> e]
MCDistributions == {D(60, 30, 10), D(20, 20, 60), D(0, 100, 0)}
=============================================================================
