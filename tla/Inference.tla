----------------------------- MODULE Inference ------------------------------
(***************************************************************************)
(* MominoMoE.forward and generate of model.py: a pass through the layers   *)
(* in turn, with the attention of attention.py and the expert dispatch of  *)
(* moe_layer.py; generate is a pass over the prompt and one per sampled    *)
(* token, over key-value caches that a plain forward does without.         *)
(*                                                                         *)
(* A hidden state is the set of sequence positions whose tokens it depends *)
(* on; a cache slot, the position whose key it holds and what that key     *)
(* depends on.  Rows of a batch go through the same steps, so they share   *)
(* the positions and differ in tokens and routing.                         *)
(***************************************************************************)
EXTENDS Integers, Sequences, SequencesExt, FiniteSets, FiniteSetsExt

CONSTANTS Requests,     \* calls of generate, or of forward alone, considered
          Rows,         \* of the batch
          Layers, ContextLen, Experts, TopK,   \* MominoMoEConfig
          Distributions,\* bound: what a softmax over the vocabulary can be
          Eos,          \* eos_token_id
          Unwritten     \* a cache slot still zero

\* caches: generate allocates them, a plain forward has none.
Request == [caches : BOOLEAN, promptLen : Nat, maxNew : Nat, greedy : BOOLEAN,
            topK : Nat, topP : Nat]

\* __post_init__ of the configuration; a distribution is in hundredths.
ASSUME ConfigAssumption ==
  /\ Requests \subseteq Request /\ \A r \in Requests : r.topP <= 100
  /\ Layers \in Nat \ {0} /\ ContextLen \in Nat /\ Experts \in Nat
  /\ TopK \in 1..Experts

VARIABLES request, at, produced,
          start, width, layer,   \* the forward pass: positions start..start+width-1
          hidden,                \* position -> positions it depends on
          cache,                 \* layer -> position -> [of, sees] or Unwritten
          routed,                \* token -> its topk_indices
          expert, combined,      \* of the dispatch loop
          new                    \* row -> the tokens sampled

vars == <<request, at, produced, start, width, layer, hidden, cache,
          routed, expert, combined, new>>

Slots == 0..(ContextLen - 1)
Queries == start..(start + width - 1)
Tokens == Rows \X Queries      \* x.view(num_tokens, d_model)

\* The embedding of a token depends on it alone.
Forward(from, n) == /\ at' = "attention" /\ start' = from /\ width' = n /\ layer' = 1
                    /\ hidden' = [p \in from..(from + n - 1) |-> {p}]

Init == /\ request \in Requests
        /\ at = "attention" /\ produced = 0 /\ start = 0 /\ width = request.promptLen
        /\ layer = 1 /\ hidden = [p \in 0..(request.promptLen - 1) |-> {p}]
        /\ cache = [l \in 1..Layers |-> [p \in Slots |-> Unwritten]]
        /\ routed = << >> /\ expert = 0 /\ combined = << >>
        /\ new = [r \in Rows |-> << >>]

-----------------------------------------------------------------------------
(* Attention.forward and the residual around it *)

\* causal_mask[:, :, :seq_len, :kv_len]: the row is the query's place in this
\* pass, whatever start_pos is.
SeesAll(query) == 0..(start + width - 1)
Visible(query) == {k \in 0..(start + width - 1) : k <= query - start}

Filled == [p \in Slots |-> IF p \in Queries THEN [of |-> p, sees |-> hidden[p]]
                           ELSE cache[layer][p]]

\* The RoPE table ends at context_len; view() of a shorter slice raises.  So
\* does [:, -1] of the logits of an empty prompt.
Attend ==
  /\ at = "attention"
  /\ IF start + width > ContextLen \/ width = 0
     THEN at' = "raised" /\ UNCHANGED <<hidden, cache>>
     ELSE /\ cache' = IF request.caches THEN [cache EXCEPT ![layer] = Filled] ELSE cache
          /\ hidden' = [p \in Queries |->
                          hidden[p] \cup UNION {Filled[k].sees : k \in Visible(p)}]
          /\ at' = "route"
  /\ UNCHANGED <<request, produced, start, width, layer, routed, expert, combined, new>>

-----------------------------------------------------------------------------
(* MoELayer.forward and the residual around it; the shared expert sees every
   token.  topk gives distinct experts. *)

TopIndices == {c \in [1..TopK -> 1..Experts] : \A i, j \in 1..TopK : c[i] = c[j] => i = j}

Route == /\ at = "route"
         /\ routed' \in [Tokens -> TopIndices]
         /\ combined' = [t \in Tokens |-> {}]
         /\ expert' = 1 /\ at' = "dispatch"
         /\ UNCHANGED <<request, produced, start, width, layer, hidden, cache, new>>

\* token_expert_probs: the slot of the expert among the token's own.
FirstSlot(t, e) == {1}
SlotOf(t, e) == {k \in 1..TopK : routed[t][k] = e}

\* expert_outputs[token_mask] += expert_out * token_expert_probs
Dispatch ==
  /\ at = "dispatch" /\ expert <= Experts
  /\ combined' = [t \in Tokens |->
       IF expert \in Range(routed[t])
       THEN combined[t] \cup {<<expert, k>> : k \in SlotOf(t, expert)}
       ELSE combined[t]]
  /\ expert' = expert + 1
  /\ UNCHANGED <<request, at, produced, start, width, layer, hidden, cache, routed, new>>

LayerDone ==
  /\ at = "dispatch" /\ expert > Experts
  /\ routed' = << >> /\ combined' = << >> /\ expert' = 0
  /\ IF layer < Layers THEN layer' = layer + 1 /\ at' = "attention"
     ELSE at' = "logits" /\ UNCHANGED layer
  /\ UNCHANGED <<request, produced, start, width, hidden, cache, new>>

-----------------------------------------------------------------------------
(* Sampling from the probabilities d of the last position *)

Rank(d, t) == Cardinality({u \in DOMAIN d : d[u] > d[t]})
Total(d, S) == FoldSet(LAMBDA t, n : n + d[t], 0, S)

\* probs below the k-th largest become 0; equal ones stay.
AfterTopK(d) == IF request.topK = 0 THEN DOMAIN d
                ELSE {t \in DOMAIN d : Rank(d, t) < request.topK}

\* The tokens sorted, down to the one that takes the sum past top_p.  The
\* order of equal ones is the sort's.
AfterTopP(d) ==
  LET S == AfterTopK(d)
  IN IF request.topP = 0 THEN S
     ELSE {t \in S : 100 * Total(d, {u \in S : d[u] > d[t]}) <= request.topP * Total(d, S)}

Sampled(d) == IF request.greedy THEN {t \in DOMAIN d : Rank(d, t) = 0}
              ELSE {t \in AfterTopP(d) : d[t] > 0}

EndedEverywhere(tokens) == \A r \in Rows : tokens[r] = Eos
EndedAnywhere(tokens) == \E r \in Rows : tokens[r] = Eos

\* torch.topk of more than there is
TopKTooMany == ~request.greedy /\ \E d \in Distributions : request.topK > Cardinality(DOMAIN d)

\* One more token for every row; it is then run through the model, the last
\* one too, unless some row has ended.
Sample ==
  /\ at = "logits" /\ request.caches /\ produced < request.maxNew /\ ~TopKTooMany
  /\ \E tokens \in [Rows -> UNION {Sampled(d) : d \in Distributions}] :
       /\ new' = [r \in Rows |-> Append(new[r], tokens[r])]
       /\ IF EndedAnywhere(tokens)
          THEN at' = "done" /\ UNCHANGED <<start, width, layer, hidden>>
          ELSE Forward(request.promptLen + produced, 1)
  /\ produced' = produced + 1
  /\ UNCHANGED <<request, cache, routed, expert, combined>>

TopKRaises ==
  /\ at = "logits" /\ request.caches /\ produced < request.maxNew /\ TopKTooMany
  /\ at' = "unsampled"
  /\ UNCHANGED <<request, produced, start, width, layer, hidden, cache,
                 routed, expert, combined, new>>

\* The range of positions is through, or forward was all that was called.
Return == /\ at = "logits" /\ (~request.caches \/ produced = request.maxNew)
          /\ at' = "done"
          /\ UNCHANGED <<request, produced, start, width, layer, hidden, cache,
                         routed, expert, combined, new>>

Next == \/ Attend \/ Route \/ Dispatch \/ LayerDone \/ Sample \/ TopKRaises \/ Return

Spec == Init /\ [][Next]_vars

-----------------------------------------------------------------------------
\* forward: every layer the pass has gone through holds the key of each
\* position of the sequence in that position's slot and nothing beyond, a key
\* depends on its own token and on none that comes later, and from the second
\* layer on a prompt's key depends on the whole prompt up to it.
CacheHoldsTheSequence ==
  LET attended == at \notin {"attention", "raised"}
  IN request.caches => \A l \in 1..Layers :
       LET known == IF l < layer \/ (l = layer /\ attended) THEN start + width ELSE start
       IN \A p \in Slots :
            LET slot == cache[l][p]
            IN IF p >= known THEN slot = Unwritten
               ELSE /\ slot.of = p
                    /\ p \in slot.sees /\ slot.sees \subseteq 0..p
                    /\ (l > 1 /\ p < request.promptLen) => slot.sees = 0..p

\* MoELayer.forward: when the loop over the experts is over, each token has
\* the output of exactly its top_k experts, each weighted with the
\* probability the router gave that expert.
EveryExpertHeard ==
  at = "dispatch" /\ expert > Experts =>
    \A t \in Tokens : combined[t] = {<<routed[t][k], k>> : k \in 1..TopK}

\* generate: rows grow together, to at most max_new_tokens, and no row goes
\* on after its end token.
NothingAfterEos ==
  \A r \in Rows :
    /\ Len(new[r]) = produced /\ produced <= request.maxNew
    /\ \A i \in DOMAIN new[r] : new[r][i] = Eos => i = produced /\ at = "done"

\* Attention.forward, "Use the full cached sequence for attention": the
\* logits of a position depend on every token of the sequence before it.
SeesItsPast == at = "logits" => \A p \in Queries : hidden[p] = 0..p
=============================================================================
