---------------------------- MODULE DeployProofs ----------------------------
(***************************************************************************)
(* Proofs about module Deploy: the model's passes (Inference), for any     *)
(* batch, number of layers, of experts and of experts per token, any       *)
(* routing and any distributions; the golden run and its comparison        *)
(* (Golden); the conversion (Convert); the benchmarks (Benchmark).         *)
(***************************************************************************)
EXTENDS Deploy, CommonLemmas, FiniteSetTheorems

(* The strengthening for the dispatch: when the loop stands at an expert,   *)
(* the outputs of the experts below it have been added, and no others.      *)
Below(t) == {k \in 1..TopK : routed[t][k] < expert}

DispatchInv ==
  at = "dispatch" =>
    /\ expert \in Nat
    /\ routed \in [Tokens -> TopIndices]
    /\ DOMAIN combined = Tokens
    /\ \A t \in Tokens : combined[t] = {<<routed[t][k], k>> : k \in Below(t)}

LEMMA DispatchStart == ASSUME Route PROVE DispatchInv'
PROOF
<1>1. /\ start' = start /\ width' = width /\ expert' = 1 /\ at' = "dispatch"
      /\ routed' \in [Tokens -> TopIndices]
      /\ combined' = [t \in Tokens |-> {}]
  BY DEF Route
<1>2. Tokens' = Tokens
  BY <1>1 DEF Tokens, Queries
<1>3. ASSUME NEW t \in Tokens PROVE Below(t)' = {}
  <2>1. \A k \in 1..TopK : routed'[t][k] \in 1..Experts
    BY <1>1 DEF TopIndices
  <2>2. \A k \in 1..TopK : ~(routed'[t][k] < 1)
    BY <2>1, ConfigAssumption
  <2> QED BY <1>1, <2>2 DEF Below
<1> QED BY <1>1, <1>2, <1>3 DEF DispatchInv

(* One round of the loop adds the outputs of one expert.                    *)
LEMMA DispatchKept == ASSUME DispatchInv, Dispatch PROVE DispatchInv'
PROOF
<1>1. /\ at' = "dispatch" /\ start' = start /\ width' = width /\ routed' = routed
      /\ expert \in Nat /\ expert' = expert + 1
      /\ routed \in [Tokens -> TopIndices]
      /\ DOMAIN combined' = Tokens
  BY DEF Dispatch, DispatchInv
<1>2. Tokens' = Tokens
  BY <1>1 DEF Tokens, Queries
<1>3. ASSUME NEW t \in Tokens
      PROVE combined'[t] = {<<routed[t][k], k>> : k \in Below(t)'}
  <2>1. combined[t] = {<<routed[t][k], k>> : k \in Below(t)}
    BY DEF Dispatch, DispatchInv
  <2>2. routed[t] \in TopIndices /\ DOMAIN routed[t] = 1..TopK
    BY <1>1 DEF TopIndices
  <2>3. \A k \in 1..TopK : routed[t][k] \in Int
    BY <2>2, ConfigAssumption DEF TopIndices
  <2>4. Below(t)' = Below(t) \cup SlotOf(t, expert)
    BY <1>1, <2>3 DEF Below, SlotOf
  <2>5. \A k \in SlotOf(t, expert) : <<expert, k>> = <<routed[t][k], k>>
    BY DEF SlotOf
  <2>6. CASE expert \in Range(routed[t])
    <3>1. combined'[t] = combined[t] \cup {<<expert, k>> : k \in SlotOf(t, expert)}
      BY <2>6 DEF Dispatch
    <3>2. {<<expert, k>> : k \in SlotOf(t, expert)}
            = {<<routed[t][k], k>> : k \in SlotOf(t, expert)}
      BY <2>5
    <3> QED BY <2>1, <2>4, <3>1, <3>2
  <2>7. CASE expert \notin Range(routed[t])
    <3>1. combined'[t] = combined[t]
      BY <2>7 DEF Dispatch
    <3>2. SlotOf(t, expert) = {}
      BY <2>2, <2>7 DEF SlotOf, Range
    <3> QED BY <2>1, <2>4, <3>1, <3>2
  <2> QED BY <2>6, <2>7
<1> QED BY <1>1, <1>2, <1>3 DEF DispatchInv

LEMMA DispatchInvariant == Spec => []DispatchInv
PROOF
<1>1. Init => DispatchInv
  BY DEF Init, DispatchInv
<1>2. DispatchInv /\ [Next]_vars => DispatchInv'
  <2> SUFFICES ASSUME DispatchInv, [Next]_vars PROVE DispatchInv'
    OBVIOUS
  <2>1. CASE Attend
    BY <2>1 DEF Attend, DispatchInv
  <2>2. CASE Route
    BY <2>2, DispatchStart
  <2>3. CASE Dispatch
    BY <2>3, DispatchKept
  <2>4. CASE LayerDone
    BY <2>4 DEF LayerDone, DispatchInv
  <2>5. CASE Sample
    BY <2>5 DEF Sample, Forward, DispatchInv
  <2>8. CASE TopKRaises
    BY <2>8 DEF TopKRaises, DispatchInv
  <2>6. CASE Return
    BY <2>6 DEF Return, DispatchInv
  <2>7. CASE UNCHANGED vars
    BY <2>7 DEF vars, DispatchInv, Tokens, Queries, Below
  <2> QED BY <2>1, <2>2, <2>3, <2>4, <2>5, <2>6, <2>7, <2>8 DEF Next
<1> QED BY <1>1, <1>2, PTL DEF Spec

(* When the loop over the experts is over, each token has the output of     *)
(* exactly its top_k experts, each with the probability the router gave     *)
(* that expert (MoELayer.forward).                                          *)
THEOREM InferenceExperts == Spec => []EveryExpertHeard
PROOF
<1>1. DispatchInv => EveryExpertHeard
  <2> SUFFICES ASSUME DispatchInv, at = "dispatch", expert > Experts, NEW t \in Tokens
               PROVE combined[t] = {<<routed[t][k], k>> : k \in 1..TopK}
    BY DEF EveryExpertHeard
  <2>1. \A k \in 1..TopK : routed[t][k] \in 1..Experts
    BY DEF DispatchInv, TopIndices
  <2>2. Below(t) = 1..TopK
    BY <2>1, ConfigAssumption DEF Below, DispatchInv
  <2> QED BY <2>2 DEF DispatchInv
<1> QED BY <1>1, DispatchInvariant, PTL

-----------------------------------------------------------------------------
(* The strengthening for the end token: what the rows hold is tokens of the *)
(* vocabulary, and once a row ends the whole batch has returned.            *)
Vocabulary == UNION {DOMAIN d : d \in Distributions}

RowsInv ==
  /\ request \in Requests /\ produced \in Nat
  /\ new \in [Rows -> Seq(Vocabulary)]
  /\ NothingAfterEos

LEMMA SampledKnown == \A d \in Distributions : Sampled(d) \subseteq Vocabulary
BY DEF Sampled, AfterTopP, AfterTopK, Vocabulary

(* A step that samples nothing starts where no row has ended.               *)
LEMMA RowsLeft ==
  ASSUME RowsInv, request' = request, produced' = produced, new' = new, at # "done"
  PROVE  RowsInv'
BY DEF RowsInv, NothingAfterEos

LEMMA RowsGrow == ASSUME RowsInv, Sample PROVE RowsInv'
PROOF
<1> DEFINE Vocab == UNION {Sampled(d) : d \in Distributions}
<1>1. PICK tokens \in [Rows -> Vocab] :
        /\ new' = [r \in Rows |-> Append(new[r], tokens[r])]
        /\ IF EndedAnywhere(tokens)
           THEN at' = "done" /\ UNCHANGED <<start, width, layer, hidden>>
           ELSE Forward(request.promptLen + produced, 1)
  BY DEF Sample
<1>2. Vocab \subseteq Vocabulary
  BY SampledKnown
<1>3. /\ request' = request /\ produced' = produced + 1 /\ produced < request.maxNew
      /\ at = "logits" /\ produced \in Nat /\ request \in Requests
      /\ request.maxNew \in Nat
  BY ConfigAssumption DEF Sample, RowsInv, Request
<1>4. ASSUME NEW r \in Rows
      PROVE  /\ new'[r] \in Seq(Vocabulary) /\ Len(new'[r]) = produced + 1
             /\ \A i \in 1..produced : new'[r][i] # Eos
             /\ new'[r][produced + 1] = tokens[r]
  <2>1. new[r] \in Seq(Vocabulary) /\ Len(new[r]) = produced
        /\ \A i \in DOMAIN new[r] : new[r][i] # Eos
    BY <1>3 DEF RowsInv, NothingAfterEos
  <2>2. tokens[r] \in Vocabulary
    BY <1>1, <1>2
  <2>3. new'[r] = Append(new[r], tokens[r])
    BY <1>1
  <2> QED BY <1>3, <2>1, <2>2, <2>3
<1>5. ASSUME NEW r \in Rows, tokens[r] = Eos PROVE at' = "done"
  BY <1>1, <1>5 DEF EndedAnywhere
<1>6. new' \in [Rows -> Seq(Vocabulary)]
  <2>1. new' = [r \in Rows |-> new'[r]]
    BY <1>1
  <2> QED BY <1>4, <2>1
<1>7. NothingAfterEos'
  <2> SUFFICES ASSUME NEW r \in Rows
               PROVE  /\ Len(new'[r]) = produced' /\ produced' <= request'.maxNew
                      /\ \A i \in DOMAIN new'[r] :
                           new'[r][i] = Eos => i = produced' /\ at' = "done"
    BY DEF NothingAfterEos
  <2>1. DOMAIN new'[r] = 1..(produced + 1)
    BY <1>4
  <2>2. ASSUME NEW i \in DOMAIN new'[r], new'[r][i] = Eos
        PROVE  i = produced + 1 /\ at' = "done"
    <3>1. i = produced + 1
      BY <1>3, <1>4, <2>1, <2>2
    <3> QED BY <1>4, <1>5, <2>2, <3>1
  <2> QED BY <1>3, <1>4, <2>2
<1> QED BY <1>3, <1>6, <1>7 DEF RowsInv

(* Rows grow together, to at most max_new_tokens, and no row goes on after  *)
(* its end token: one row that ends stops them all (MominoMoE.generate).    *)
THEOREM InferenceEnds == Spec => []NothingAfterEos
PROOF
<1>1. Init => RowsInv
  <2> SUFFICES ASSUME Init PROVE RowsInv
    OBVIOUS
  <2>1. request.maxNew \in Nat /\ request \in Requests /\ produced = 0
    BY ConfigAssumption DEF Init, Request
  <2>2. << >> \in Seq(Vocabulary) /\ Len(<< >>) = 0 /\ DOMAIN << >> = {}
    OBVIOUS
  <2> QED BY <2>1, <2>2 DEF Init, RowsInv, NothingAfterEos
<1>2. RowsInv /\ [Next]_vars => RowsInv'
  <2> SUFFICES ASSUME RowsInv, [Next]_vars PROVE RowsInv'
    OBVIOUS
  <2>1. CASE Attend
    BY <2>1, RowsLeft DEF Attend
  <2>2. CASE Route
    BY <2>2, RowsLeft DEF Route
  <2>3. CASE Dispatch
    BY <2>3, RowsLeft DEF Dispatch
  <2>4. CASE LayerDone
    BY <2>4, RowsLeft DEF LayerDone
  <2>5. CASE Sample
    BY <2>5, RowsGrow
  <2>8. CASE TopKRaises
    BY <2>8, RowsLeft DEF TopKRaises
  <2>6. CASE Return
    BY <2>6, RowsLeft DEF Return
  <2>7. CASE UNCHANGED vars
    BY <2>7 DEF vars, RowsInv, NothingAfterEos
  <2> QED BY <2>1, <2>2, <2>3, <2>4, <2>5, <2>6, <2>7, <2>8 DEF Next
<1>3. RowsInv => NothingAfterEos
  BY DEF RowsInv
<1> QED BY <1>1, <1>2, <1>3, PTL DEF Spec

-----------------------------------------------------------------------------
(* The strengthening for the caches.  A pass starts where the last one      *)
(* ended; it is the prompt's, from 0, or one token's behind the prompt.  A  *)
(* hidden state depends on its own token and on earlier ones, and once a    *)
(* layer has attended, a prompt's on all the earlier ones.                  *)
Attended == at \notin {"attention", "raised"}

PassInv ==
  /\ request \in Requests /\ produced \in Nat /\ start \in Nat /\ width \in Nat
  /\ layer \in 1..Layers
  /\ start = 0 \/ start >= request.promptLen
  /\ at # "done" => start + width = request.promptLen + produced
  /\ at \in {"logits", "done"} => layer = Layers

HiddenInv ==
  \A p \in Queries :
    /\ p \in hidden[p] /\ hidden[p] \subseteq 0..p
    /\ (layer > 1 \/ Attended) /\ p < request.promptLen => hidden[p] = 0..p

Known(l) == IF l < layer \/ (l = layer /\ Attended) THEN start + width ELSE start

SlotHolds(l, p) ==
  IF p >= Known(l) THEN cache[l][p] = Unwritten
  ELSE /\ cache[l][p].of = p
       /\ p \in cache[l][p].sees /\ cache[l][p].sees \subseteq 0..p
       /\ l > 1 /\ p < request.promptLen => cache[l][p].sees = 0..p

CacheInv ==
  /\ PassInv
  /\ DOMAIN cache = 1..Layers
  /\ request.caches => HiddenInv /\ \A l \in 1..Layers : \A p \in Slots : SlotHolds(l, p)

LEMMA RequestFacts ==
  ASSUME request \in Requests
  PROVE  request.promptLen \in Nat /\ request.maxNew \in Nat
BY ConfigAssumption DEF Request

LEMMA CacheInit == Init => CacheInv
PROOF
<1> SUFFICES ASSUME Init PROVE CacheInv
  OBVIOUS
<1>1. /\ request \in Requests /\ request.promptLen \in Nat
      /\ Layers \in Nat \ {0} /\ ContextLen \in Nat
  BY ConfigAssumption, RequestFacts DEF Init
<1>2. PassInv /\ DOMAIN cache = 1..Layers
  BY <1>1 DEF Init, PassInv
<1>3. HiddenInv
  BY <1>1 DEF Init, HiddenInv, Queries, Attended
<1>4. ASSUME NEW l \in 1..Layers, NEW p \in Slots PROVE SlotHolds(l, p)
  <2>1. cache[l][p] = Unwritten
    BY DEF Init
  <2>2. p >= 0
    BY <1>1 DEF Slots
  <2>3. Known(l) = 0
    BY <1>1 DEF Init, Known, Attended
  <2> QED BY <2>1, <2>2, <2>3 DEF SlotHolds
<1> QED BY <1>2, <1>3, <1>4 DEF CacheInv

(* After its attention, what a slot of the layer holds and what it sees.    *)
LEMMA FilledHolds ==
  ASSUME CacheInv, request.caches, at = "attention", NEW p \in Slots, p < start + width
  PROVE  /\ Filled[p].of = p /\ p \in Filled[p].sees /\ Filled[p].sees \subseteq 0..p
         /\ layer > 1 /\ p < request.promptLen => Filled[p].sees = 0..p
PROOF
<1>1. /\ start \in Nat /\ width \in Nat /\ layer \in 1..Layers /\ p \in Nat
      /\ Layers \in Nat
  BY ConfigAssumption DEF CacheInv, PassInv, Slots
<1>2. CASE p \in Queries
  <2>1. Filled[p] = [of |-> p, sees |-> hidden[p]]
    BY <1>2 DEF Filled
  <2>2. /\ p \in hidden[p] /\ hidden[p] \subseteq 0..p
        /\ layer > 1 /\ p < request.promptLen => hidden[p] = 0..p
    BY <1>2 DEF CacheInv, HiddenInv
  <2> QED BY <2>1, <2>2
<1>3. CASE p \notin Queries
  <2>1. Filled[p] = cache[layer][p]
    BY <1>3 DEF Filled
  <2>2. p < start
    BY <1>1, <1>3 DEF Queries
  <2>3. Known(layer) = start
    BY <1>1 DEF Known, Attended
  <2>4. SlotHolds(layer, p)
    BY <1>1 DEF CacheInv
  <2>5. ~(p >= Known(layer))
    BY <1>1, <2>2, <2>3
  <2> QED BY <2>1, <2>4, <2>5 DEF SlotHolds
<1> QED BY <1>2, <1>3

(* What a position sees in the visible slots of a layer.                    *)
LEMMA AttentionSees ==
  ASSUME CacheInv, request.caches, at = "attention", start + width <= ContextLen,
         NEW p \in Queries,
         NEW sees, sees = hidden[p] \cup UNION {Filled[k].sees : k \in Visible(p)}
  PROVE  /\ p \in sees /\ sees \subseteq 0..p
         /\ p < request.promptLen => sees = 0..p
PROOF
<1>1. /\ start \in Nat /\ width \in Nat /\ ContextLen \in Nat
      /\ p \in Nat /\ start <= p /\ p < start + width
      /\ request.promptLen \in Nat
      /\ start = 0 \/ start >= request.promptLen
  BY ConfigAssumption, RequestFacts DEF CacheInv, PassInv, Queries
<1>2. p \in hidden[p] /\ hidden[p] \subseteq 0..p
  BY DEF CacheInv, HiddenInv
<1>3. ASSUME NEW k \in Visible(p)
      PROVE  /\ k \in Slots /\ k <= p /\ k \in Nat
             /\ k \in Filled[k].sees /\ Filled[k].sees \subseteq 0..p
  <2>1. k \in 0..(start + width - 1) /\ k <= p - start
    BY DEF Visible
  <2>2. k \in Nat /\ k < start + width /\ k <= p /\ k \in Slots
    BY <1>1, <2>1 DEF Slots
  <2>3. k \in Filled[k].sees /\ Filled[k].sees \subseteq 0..k
    BY <2>2, FilledHolds
  <2>4. 0..k \subseteq 0..p
    BY <1>1, <2>2
  <2> QED BY <2>2, <2>3, <2>4
<1>4. p \in sees /\ sees \subseteq 0..p
  BY <1>2, <1>3
<1>5. ASSUME p < request.promptLen PROVE 0..p \subseteq sees
  <2>1. start = 0
    BY <1>1, <1>5
  <2>2. ASSUME NEW k \in 0..p PROVE k \in sees
    <3>1. k \in Visible(p)
      BY <1>1, <2>1 DEF Visible
    <3> QED BY <1>3, <3>1
  <2> QED BY <2>2
<1> QED BY <1>4, <1>5

LEMMA AttendKeepsCache == ASSUME CacheInv, Attend PROVE CacheInv'
PROOF
<1>1. /\ request' = request /\ produced' = produced /\ start' = start /\ width' = width
      /\ layer' = layer /\ at = "attention"
  BY DEF Attend
<1>2. /\ start \in Nat /\ width \in Nat /\ layer \in 1..Layers /\ Layers \in Nat
      /\ ContextLen \in Nat
  BY ConfigAssumption DEF CacheInv, PassInv
<1>3. at' \in {"raised", "route"}
  BY DEF Attend
<1>4. PassInv'
  BY <1>1, <1>3 DEF CacheInv, PassInv
<1>5. Queries' = Queries
  BY <1>1 DEF Queries
<1>6. CASE at' = "raised"
  <2>1. hidden' = hidden /\ cache' = cache
    BY <1>6 DEF Attend
  <2>2. ~Attended /\ ~Attended'
    BY <1>1, <1>6 DEF Attended
  <2>3. \A l \in 1..Layers : Known(l)' = Known(l)
    BY <1>1, <2>2 DEF Known
  <2>4. \A l \in 1..Layers, p \in Slots : SlotHolds(l, p)' <=> SlotHolds(l, p)
    BY <1>1, <2>1, <2>3 DEF SlotHolds
  <2>5. HiddenInv' <=> HiddenInv
    BY <1>1, <1>5, <2>1, <2>2 DEF HiddenInv
  <2> QED BY <1>1, <1>4, <2>1, <2>4, <2>5 DEF CacheInv
<1>7. CASE at' = "route"
  <2>1. /\ start + width <= ContextLen
        /\ cache' = IF request.caches THEN [cache EXCEPT ![layer] = Filled] ELSE cache
        /\ hidden' = [p \in Queries |->
                        hidden[p] \cup UNION {Filled[k].sees : k \in Visible(p)}]
    BY <1>2, <1>7 DEF Attend
  <2>2. DOMAIN cache' = 1..Layers
    BY <2>1 DEF CacheInv
  <2>3. ASSUME request.caches PROVE HiddenInv'
    <3>1. ASSUME NEW p \in Queries
          PROVE  /\ p \in hidden'[p] /\ hidden'[p] \subseteq 0..p
                 /\ p < request.promptLen => hidden'[p] = 0..p
      <4>1. hidden'[p] = hidden[p] \cup UNION {Filled[k].sees : k \in Visible(p)}
        BY <2>1
      <4> QED BY <1>1, <2>1, <2>3, <4>1, AttentionSees
    <3> QED BY <1>1, <1>5, <3>1 DEF HiddenInv
  <2>4. ASSUME request.caches, NEW l \in 1..Layers, NEW p \in Slots PROVE SlotHolds(l, p)'
    <3>1. SlotHolds(l, p) /\ p \in Nat
      BY <1>2, <2>4 DEF CacheInv, Slots
    <3>2. CASE l = layer
      <4>1. cache'[l] = Filled
        BY <2>1, <2>4, <3>2 DEF CacheInv
      <4>2. Known(l)' = start + width /\ Known(l) = start
        BY <1>1, <1>2, <1>7, <3>2 DEF Known, Attended
      <4>3. CASE p >= start + width
        <5>1. p \notin Queries /\ p >= start
          BY <1>2, <3>1, <4>3 DEF Queries
        <5>2. cache'[l][p] = cache[l][p]
          BY <3>2, <4>1, <5>1 DEF Filled
        <5> QED BY <3>1, <4>2, <4>3, <5>1, <5>2 DEF SlotHolds
      <4>4. CASE ~(p >= start + width)
        <5>1. p < start + width
          BY <1>2, <3>1, <4>4
        <5>2. /\ Filled[p].of = p /\ p \in Filled[p].sees /\ Filled[p].sees \subseteq 0..p
              /\ layer > 1 /\ p < request.promptLen => Filled[p].sees = 0..p
          BY <1>1, <2>4, <5>1, FilledHolds
        <5> QED BY <1>1, <3>2, <4>1, <4>2, <4>4, <5>2 DEF SlotHolds
      <4> QED BY <4>3, <4>4
    <3>3. CASE l # layer
      <4>1. cache'[l] = cache[l]
        BY <2>1, <3>3 DEF CacheInv
      <4>2. Known(l)' = Known(l)
        BY <1>1, <3>3 DEF Known
      <4> QED BY <1>1, <3>1, <4>1, <4>2 DEF SlotHolds
    <3> QED BY <3>2, <3>3
  <2> QED BY <1>1, <1>4, <2>2, <2>3, <2>4 DEF CacheInv
<1> QED BY <1>3, <1>6, <1>7

(* A step that leaves the pass where it is and has attended keeps it all.   *)
LEMMA SamePass ==
  ASSUME CacheInv, Attended, Attended', layer' = layer, start' = start, width' = width,
         request' = request, hidden' = hidden, cache' = cache, PassInv'
  PROVE  CacheInv'
PROOF
<1>1. HiddenInv' <=> HiddenInv
  BY DEF HiddenInv, Queries
<1>2. \A l \in 1..Layers : Known(l)' = Known(l)
  BY DEF Known
<1>3. \A l \in 1..Layers, p \in Slots : SlotHolds(l, p)' <=> SlotHolds(l, p)
  BY <1>2 DEF SlotHolds
<1> QED BY <1>1, <1>3 DEF CacheInv

LEMMA LayerKeepsCache == ASSUME CacheInv, LayerDone PROVE CacheInv'
PROOF
<1>1. /\ request' = request /\ produced' = produced /\ start' = start /\ width' = width
      /\ hidden' = hidden /\ cache' = cache /\ at = "dispatch" /\ Attended
  BY DEF LayerDone, Attended
<1>2. /\ start \in Nat /\ width \in Nat /\ layer \in 1..Layers /\ Layers \in Nat
  BY ConfigAssumption DEF CacheInv, PassInv
<1>3. CASE layer < Layers
  <2>1. layer' = layer + 1 /\ at' = "attention" /\ ~Attended'
    BY <1>3 DEF LayerDone, Attended
  <2>2. PassInv'
    BY <1>1, <1>2, <1>3, <2>1 DEF CacheInv, PassInv
  <2>3. HiddenInv => HiddenInv'
    BY <1>1 DEF HiddenInv, Queries
  <2>4. \A l \in 1..Layers : Known(l)' = Known(l)
    BY <1>1, <1>2, <2>1 DEF Known
  <2>5. \A l \in 1..Layers, p \in Slots : SlotHolds(l, p)' <=> SlotHolds(l, p)
    BY <1>1, <2>4 DEF SlotHolds
  <2> QED BY <1>1, <2>2, <2>3, <2>5 DEF CacheInv
<1>4. CASE ~(layer < Layers)
  <2>1. layer' = layer /\ at' = "logits" /\ Attended' /\ layer = Layers
    BY <1>2, <1>4 DEF LayerDone, Attended
  <2>2. PassInv'
    BY <1>1, <2>1 DEF CacheInv, PassInv
  <2> QED BY <1>1, <2>1, <2>2, SamePass
<1> QED BY <1>3, <1>4

(* The next pass starts with what every layer already holds.                *)
LEMMA SampleKeepsCache == ASSUME CacheInv, Sample PROVE CacheInv'
PROOF
<1>1. /\ request' = request /\ produced' = produced + 1 /\ cache' = cache
      /\ at = "logits" /\ Attended
  BY DEF Sample, Attended
<1>2. /\ start \in Nat /\ width \in Nat /\ Layers \in Nat \ {0} /\ produced \in Nat
      /\ layer = Layers /\ start + width = request.promptLen + produced
      /\ request \in Requests /\ request.promptLen \in Nat
  BY <1>1, ConfigAssumption, RequestFacts DEF CacheInv, PassInv
<1>3. \/ at' = "done" /\ UNCHANGED <<start, width, layer, hidden>>
      \/ Forward(request.promptLen + produced, 1)
  BY DEF Sample
<1>4. CASE at' = "done" /\ UNCHANGED <<start, width, layer, hidden>>
  <2>1. PassInv' /\ Attended'
    BY <1>1, <1>2, <1>4 DEF CacheInv, PassInv, Attended
  <2> QED BY <1>1, <1>4, <2>1, SamePass
<1>5. CASE Forward(request.promptLen + produced, 1)
  <2> DEFINE from == request.promptLen + produced
  <2>1. /\ at' = "attention" /\ start' = from /\ width' = 1 /\ layer' = 1
        /\ hidden' = [p \in from..(from + 1 - 1) |-> {p}]
        /\ from \in Nat /\ from = start + width /\ from >= request.promptLen
    BY <1>2, <1>5 DEF Forward
  <2>2. PassInv'
    BY <1>1, <1>2, <2>1 DEF CacheInv, PassInv
  <2>3. HiddenInv'
    BY <1>1, <1>2, <2>1 DEF HiddenInv, Queries, Attended
  <2>4. \A l \in 1..Layers : Known(l)' = Known(l)
    <3>1. \A l \in 1..Layers : Known(l) = start + width
      BY <1>1, <1>2 DEF Known
    <3>2. \A l \in 1..Layers : Known(l)' = from
      BY <1>2, <2>1 DEF Known, Attended
    <3> QED BY <2>1, <3>1, <3>2
  <2>5. \A l \in 1..Layers, p \in Slots : SlotHolds(l, p)' <=> SlotHolds(l, p)
    BY <1>1, <2>4 DEF SlotHolds
  <2> QED BY <1>1, <2>2, <2>3, <2>5 DEF CacheInv
<1> QED BY <1>3, <1>4, <1>5

(* Every layer a pass has gone through holds the key of each position of    *)
(* the sequence in that position's slot and nothing beyond, and from the    *)
(* second layer on a prompt's key depends on the whole prompt up to it      *)
(* (MominoMoE.forward over the caches of Attention.forward).                *)
THEOREM InferenceCaches == Spec => []CacheHoldsTheSequence
PROOF
<1>1. Init => CacheInv
  BY CacheInit
<1>2. CacheInv /\ [Next]_vars => CacheInv'
  <2> SUFFICES ASSUME CacheInv, [Next]_vars PROVE CacheInv'
    OBVIOUS
  <2>1. CASE Attend
    BY <2>1, AttendKeepsCache
  <2>2. CASE Route
    <3>1. PassInv' /\ Attended /\ Attended'
      BY <2>2 DEF Route, CacheInv, PassInv, Attended
    <3> QED BY <2>2, <3>1, SamePass DEF Route
  <2>3. CASE Dispatch
    <3>1. PassInv' /\ Attended /\ Attended'
      BY <2>3 DEF Dispatch, CacheInv, PassInv, Attended
    <3> QED BY <2>3, <3>1, SamePass DEF Dispatch
  <2>4. CASE LayerDone
    BY <2>4, LayerKeepsCache
  <2>5. CASE Sample
    BY <2>5, SampleKeepsCache
  <2>8. CASE TopKRaises
    <3>1. PassInv' /\ Attended /\ Attended'
      BY <2>8 DEF TopKRaises, CacheInv, PassInv, Attended
    <3> QED BY <2>8, <3>1, SamePass DEF TopKRaises
  <2>6. CASE Return
    <3>1. PassInv' /\ Attended /\ Attended'
      BY <2>6 DEF Return, CacheInv, PassInv, Attended
    <3> QED BY <2>6, <3>1, SamePass DEF Return
  <2>7. CASE UNCHANGED vars
    BY <2>7 DEF vars, CacheInv, PassInv, HiddenInv, SlotHolds, Known, Attended, Queries
  <2> QED BY <2>1, <2>2, <2>3, <2>4, <2>5, <2>6, <2>7, <2>8 DEF Next
<1>3. CacheInv => CacheHoldsTheSequence
  BY DEF CacheInv, CacheHoldsTheSequence, SlotHolds, Known, Attended
<1> QED BY <1>1, <1>2, <1>3, PTL DEF Spec

-----------------------------------------------------------------------------
(* What the followed programs do to the model: nothing but its own steps.   *)
LEMMA DeployStepIsNext == [DeployNext]_allVars => [Next]_vars
PROOF
<1> SUFFICES ASSUME [DeployNext]_allVars PROVE [Next]_vars
  OBVIOUS
<1>1. CASE RunModel
  <2>1. CASE HookAttend BY <2>1 DEF HookAttend, Next
  <2>2. CASE HookRoute BY <2>2 DEF HookRoute, Next
  <2>3. CASE HookDispatch BY <2>3 DEF HookDispatch, Next
  <2>4. CASE HookLayerDone BY <2>4 DEF HookLayerDone, Next
  <2>5. CASE HookSample BY <2>5 DEF HookSample, Next
  <2>6. CASE HookReturn BY <2>6 DEF HookReturn, Next
  <2>7. CASE Compare BY <2>7 DEF Compare
  <2> QED BY <1>1, <2>1, <2>2, <2>3, <2>4, <2>5, <2>6, <2>7 DEF RunModel, GoldenNext
<1>2. CASE RunConverter BY <1>2 DEF RunConverter
<1>3. CASE RunBenchmark BY <1>3 DEF RunBenchmark
<1>4. CASE UNCHANGED allVars BY <1>4 DEF allVars
<1> QED BY <1>1, <1>2, <1>3, <1>4 DEF DeployNext

LEMMA DeployRunsInference == DeploySpec => Spec
PROOF
<1>1. DeployInit => Init
  BY DEF DeployInit, GoldenInit
<1> QED BY <1>1, DeployStepIsNext, PTL DEF DeploySpec, Spec

(* What is proved of the model holds whichever program is followed, under   *)
(* the hooks of the harness too.                                            *)
THEOREM DeployKeepsInference ==
  DeploySpec => [](CacheHoldsTheSequence /\ EveryExpertHeard /\ NothingAfterEos)
BY DeployRunsInference, InferenceCaches, InferenceExperts, InferenceEnds, PTL

-----------------------------------------------------------------------------
(* Convert: while the tensors are encoded, each descriptor is of its tensor *)
(* and gives where the tensor's chunk starts among the chunks so far.       *)

Tensors == [name : Seq(STRING) \ {<< >>}, shape : Seq(Nat)]
Pieces == [of : {"pad"} \cup Seq(STRING), bytes : Nat]
WrittenName(name) == C!Cut(C!Dotted(C!MapTensorName(name)))
Descriptors == [name : {WrittenName(t.name) : t \in Tensors}, dtype : {"q8_0", "fp32"},
                rank : Nat, shape : Seq(Nat), offset : Nat]

StartsAt(pieces, k) == SumUpTo(C!Sizes(pieces))[k - 1]

Describes(d, t, pieces) ==
  /\ d.name = WrittenName(t.name)
  /\ d.rank = Len(t.shape) /\ d.shape = C!FirstFour(t.shape)
  /\ d.dtype = C!DtypeOf(t, call.quantize)
  /\ d.offset \in Nat /\ d.offset % C!Alignment = 0
  /\ \E k \in 1..Len(pieces) : /\ StartsAt(pieces, k) = d.offset
                               /\ pieces[k].of = t.name
                               /\ pieces[k].bytes = C!Bytes(d.dtype, t.shape)

File == [config |-> Config, tensors |-> Len(descriptors), descriptors |-> descriptors,
         dataOffset |-> C!HeaderSize + Len(descriptors) * C!DescSize, chunks |-> chunks]

ConvertInv ==
  /\ call \in C!Conversions
  /\ chunks \in Seq(Pieces) /\ descriptors \in Seq(Descriptors)
  /\ current = StartsAt(chunks, Len(chunks) + 1)
  /\ Len(descriptors) <= Len(call.state)
  /\ \A i \in 1..Len(descriptors) : Describes(descriptors[i], call.state[i], chunks)
  /\ mom # Nothing => /\ step = "done" /\ mom = File /\ Len(descriptors) = Len(call.state)

LEMMA StatesTyped ==
  ASSUME call \in C!Conversions
  PROVE  /\ call.state \in Seq(Tensors) /\ call.state \in StateDicts
         /\ call.quantize \in BOOLEAN /\ BlockSize \in Nat \ {0}
PROOF
<1>1. call.state \in StateDicts /\ call.quantize \in BOOLEAN
  BY DEF C!Conversions
<1>2. call.state \in Seq(Tensors)
  BY <1>1, DeployAssumption DEF C!BlockAssumption, Tensors
<1> QED BY <1>1, <1>2, DeployAssumption DEF C!BlockAssumption

LEMMA SizesAreNumbers ==
  ASSUME NEW pieces \in Seq(Pieces)
  PROVE  /\ C!Sizes(pieces) \in Seq(Nat) /\ Len(C!Sizes(pieces)) = Len(pieces)
         /\ \A k \in 1..Len(pieces) : C!Sizes(pieces)[k] = pieces[k].bytes
PROOF
<1>0. \A x \in Pieces : x.bytes \in Nat
  BY DEF Pieces
<1>1. \A k \in 1..Len(pieces) : pieces[k].bytes \in Nat
  BY <1>0
<1>2. DOMAIN pieces = 1..Len(pieces) /\ Len(pieces) \in Nat
  OBVIOUS
<1> QED BY <1>1, <1>2 DEF C!Sizes

LEMMA ProductIsNumber == ASSUME NEW s \in Seq(Nat) PROVE C!Product(s) \in Nat
PROOF
<1>1. C!Product(s) = ProductUpTo(s)[Len(s)]
  BY DEF C!Product, C!ProductUpTo, ProductUpTo
<1>2. Len(s) \in 0..Len(s)
  OBVIOUS
<1> QED BY <1>1, <1>2, ProductSteps

(* What a tensor's shape gives.                                            *)
LEMMA ShapeNumbers ==
  ASSUME NEW shape \in Seq(Nat), BlockSize \in Nat \ {0}
  PROVE  /\ Len(shape) >= 1 => /\ C!RowsOf(shape) \in Nat /\ C!BlocksPerRow(shape) \in Nat
                               /\ C!Last(shape) \in Nat /\ C!Last(shape) = shape[Len(shape)]
         /\ Len(shape) >= 1 => C!Q8Bytes(shape) \in Nat
         /\ C!Fp32Bytes(shape) \in Nat
PROOF
<1>1. C!Fp32Bytes(shape) \in Nat
  BY ProductIsNumber DEF C!Fp32Bytes
<1>2. ASSUME Len(shape) >= 1
      PROVE /\ C!RowsOf(shape) \in Nat /\ C!BlocksPerRow(shape) \in Nat
            /\ C!Last(shape) \in Nat /\ C!Last(shape) = shape[Len(shape)]
  <2>1. C!Last(shape) \in Nat /\ C!Last(shape) = shape[Len(shape)]
    BY <1>2 DEF C!Last
  <2>2. C!Front(shape) \in Seq(Nat)
    BY <1>2 DEF C!Front
  <2>3. C!RowsOf(shape) \in Nat
    BY <2>2, ProductIsNumber DEF C!RowsOf
  <2>4. C!BlocksPerRow(shape) \in Nat
    <3>1. C!Last(shape) + BlockSize - 1 \in Nat
      BY <2>1
    <3> QED BY <3>1, QuotientSmall DEF C!BlocksPerRow, C!CeilDiv
  <2> QED BY <2>1, <2>3, <2>4
<1>3. ASSUME Len(shape) >= 1 PROVE C!Q8Bytes(shape) \in Nat
  <2> DEFINE r == C!RowsOf(shape)
             b == C!BlocksPerRow(shape)
  <2>1. r \in Nat /\ b \in Nat
    BY <1>2, <1>3
  <2> HIDE DEF r, b
  <2>2. r * b \in Nat
    BY <2>1
  <2>3. (r * b) * (BlockSize + 2) \in Nat
    BY <2>2
  <2> QED BY <2>3 DEF C!Q8Bytes, r, b
<1> QED BY <1>1, <1>2, <1>3

LEMMA BytesAreNumbers ==
  ASSUME call \in C!Conversions, NEW t \in Tensors
  PROVE  /\ C!DtypeOf(t, call.quantize) \in {"q8_0", "fp32"}
         /\ C!DtypeOf(t, call.quantize) = "q8_0" => Len(t.shape) >= 2
         /\ C!Bytes(C!DtypeOf(t, call.quantize), t.shape) \in Nat
PROOF
<1>1. t.shape \in Seq(Nat) /\ Len(t.shape) \in Nat
  BY DEF Tensors
<1>2. /\ C!DtypeOf(t, call.quantize) \in {"q8_0", "fp32"}
      /\ C!DtypeOf(t, call.quantize) = "q8_0" => Len(t.shape) >= 2
  BY DEF C!DtypeOf
<1>3. BlockSize \in Nat \ {0}
  BY StatesTyped
<1>4. C!DtypeOf(t, call.quantize) = "q8_0" => C!Q8Bytes(t.shape) \in Nat
  BY <1>1, <1>2, <1>3, ShapeNumbers
<1>5. C!Fp32Bytes(t.shape) \in Nat
  BY <1>1, <1>3, ShapeNumbers
<1> QED BY <1>2, <1>4, <1>5 DEF C!Bytes
LEMMA LanesFindElements ==
  ASSUME NEW shape \in Seq(Nat), Len(shape) >= 1, BlockSize \in Nat \ {0},
         NEW row \in 0..(C!RowsOf(shape) - 1), NEW column \in 0..(C!Last(shape) - 1)
  PROVE  C!Dequantized(C!QuantizeQ80(shape), shape, row, column) = <<row, column>>
PROOF
<1> DEFINE rows == C!RowsOf(shape)
           wide == C!Last(shape)
           perRow == C!BlocksPerRow(shape)
           place == row * perRow * BlockSize + column
           b == place \div BlockSize
           lane == place % BlockSize
<1>1. rows \in Nat /\ wide \in Nat /\ perRow \in Nat
  BY ShapeNumbers
<1>2. perRow = (wide + BlockSize - 1) \div BlockSize
  BY DEF C!BlocksPerRow, C!CeilDiv
<1>3. C!Dequantized(C!QuantizeQ80(shape), shape, row, column) = C!QuantizeQ80(shape)[b][lane]
  BY DEF C!Dequantized
<1>4. C!QuantizeQ80(shape) =
        [x \in 0..(rows * perRow - 1) |-> [l \in 0..(BlockSize - 1) |->
           LET c == (x % perRow) * BlockSize + l
           IN IF c < wide THEN <<x \div perRow, c>> ELSE << >>]]
  BY DEF C!QuantizeQ80
<1> HIDE DEF rows, wide, perRow
<1>5. /\ b \in 0..(rows * perRow - 1) /\ lane \in 0..(BlockSize - 1)
      /\ (b % perRow) * BlockSize + lane = column /\ b \div perRow = row
  <2>1. row \in 0..(rows - 1) /\ column \in 0..(wide - 1)
    BY DEF rows, wide
  <2>2. BlockSize \in Nat \ {0}
    OBVIOUS
  <2>3. ASSUME NEW p, p = row * perRow * BlockSize + column
        PROVE  Placed(p, BlockSize, rows, wide, perRow, row, column)
    BY ONLY <1>1, <1>2, <2>1, <2>2, <2>3, PlaceOf
  <2>4. Placed(place, BlockSize, rows, wide, perRow, row, column)
    BY <2>3
  <2> QED BY <2>4 DEF Placed
<1> HIDE DEF b, lane
<1>6. C!QuantizeQ80(shape)[b][lane] = <<b \div perRow, column>>
  <2>1. column < wide
    BY <1>1 DEF wide
  <2> QED BY <1>4, <1>5, <2>1
<1> QED BY <1>3, <1>5, <1>6
LEMMA AlignedIs ==
  ASSUME NEW n \in Nat
  PROVE  /\ C!Aligned(n) \in Nat /\ C!Aligned(n) >= n
         /\ C!Aligned(n) % C!Alignment = 0
BY DEF C!Aligned, C!CeilDiv, C!Alignment

(* A beginning of the chunks gives the same starts.                        *)
LEMMA StartsKept ==
  ASSUME NEW s \in Seq(Pieces), NEW t \in Seq(Pieces), Len(s) <= Len(t),
         \A k \in 1..Len(s) : t[k] = s[k]
  PROVE  \A k \in 1..(Len(s) + 1) : StartsAt(t, k) = StartsAt(s, k)
PROOF
<1> DEFINE n == Len(s)
<1>1. n \in Nat /\ n <= Len(C!Sizes(s)) /\ n <= Len(C!Sizes(t))
  BY SizesAreNumbers
<1>2. \A k \in 1..n : C!Sizes(s)[k] = C!Sizes(t)[k]
  <2> TAKE k \in 1..n
  <2>1. k \in 1..Len(s) /\ k \in 1..Len(t)
    OBVIOUS
  <2> QED BY <2>1, SizesAreNumbers
<1>3. C!Sizes(s) \in Seq(Nat) /\ C!Sizes(t) \in Seq(Nat)
  BY SizesAreNumbers
<1>4. \A k \in 0..n : SumUpTo(C!Sizes(s))[k] = SumUpTo(C!Sizes(t))[k]
  <2> HIDE DEF n
  <2> QED BY ONLY <1>1, <1>2, <1>3, SumOfBeginning
<1>5. \A k \in 1..(n + 1) : k - 1 \in 0..n
  BY <1>1
<1> QED BY <1>4, <1>5 DEF StartsAt

LEMMA StartsNext ==
  ASSUME NEW s \in Seq(Pieces), NEW k \in 1..Len(s)
  PROVE  StartsAt(s, k + 1) = StartsAt(s, k) + s[k].bytes /\ StartsAt(s, k) \in Nat
PROOF
<1>1. /\ C!Sizes(s) \in Seq(Nat) /\ Len(C!Sizes(s)) = Len(s) /\ C!Sizes(s)[k] = s[k].bytes
  BY SizesAreNumbers
<1>2. /\ SumUpTo(C!Sizes(s)) \in [0..Len(s) -> Nat]
      /\ SumUpTo(C!Sizes(s))[k] = SumUpTo(C!Sizes(s))[k - 1] + C!Sizes(s)[k]
  BY <1>1, SumSteps
<1>3. k - 1 \in 0..Len(s) /\ (k + 1) - 1 = k
  OBVIOUS
<1> QED BY <1>1, <1>2, <1>3 DEF StartsAt

LEMMA EncodeKeeps == ASSUME ConvertInv, C!EncodeTensor PROVE ConvertInv'
PROOF
<1> DEFINE n == Len(descriptors)
           tensor == call.state[n + 1]
           dtype == C!DtypeOf(tensor, call.quantize)
           bytes == C!Bytes(dtype, tensor.shape)
           offset == C!Aligned(current)
           padding == IF offset > current THEN <<[of |-> "pad", bytes |-> offset - current]>>
                      ELSE << >>
           piece == [of |-> tensor.name, bytes |-> bytes]
           d == [name |-> WrittenName(tensor.name), dtype |-> dtype,
                 rank |-> Len(tensor.shape), shape |-> C!FirstFour(tensor.shape),
                 offset |-> offset]
           padded == chunks \o padding
<1>1. /\ call \in C!Conversions /\ chunks \in Seq(Pieces) /\ descriptors \in Seq(Descriptors)
      /\ n \in Nat /\ n < Len(call.state) /\ step = "encode" /\ mom = Nothing
      /\ current = StartsAt(chunks, Len(chunks) + 1)
      /\ call.state \in Seq(Tensors)
      /\ \A i \in 1..n : Describes(descriptors[i], call.state[i], chunks)
  BY StatesTyped DEF ConvertInv, C!EncodeTensor
<1>2. /\ chunks' = padded \o <<piece>> /\ descriptors' = Append(descriptors, d)
      /\ current' = offset + bytes /\ call' = call /\ mom' = mom
  BY DEF C!EncodeTensor, WrittenName
<1>3. tensor \in Tensors /\ tensor.name \in Seq(STRING) /\ tensor.shape \in Seq(Nat)
  <2>1. n + 1 \in 1..Len(call.state)
    BY <1>1
  <2>2. tensor \in Tensors
    BY <1>1, <2>1
  <2> QED BY <2>2 DEF Tensors
<1>4. /\ dtype \in {"q8_0", "fp32"} /\ bytes \in Nat
  <2> HIDE DEF tensor
  <2> QED BY <1>1, <1>3, BytesAreNumbers
<1>5. current \in Nat
  <2>1. SumUpTo(C!Sizes(chunks)) \in [0..Len(chunks) -> Nat]
    BY <1>1, SumSteps, SizesAreNumbers
  <2>2. Len(chunks) \in 0..Len(chunks) /\ (Len(chunks) + 1) - 1 = Len(chunks)
    BY <1>1
  <2> QED BY <1>1, <2>1, <2>2 DEF StartsAt
<1>6. offset \in Nat /\ offset >= current /\ offset % C!Alignment = 0
  BY <1>5, AlignedIs
<1>7. d \in Descriptors
  <2> HIDE DEF dtype, offset, tensor
  <2>1. C!FirstFour(tensor.shape) \in Seq(Nat)
    BY <1>3 DEF C!FirstFour
  <2> QED BY <1>3, <1>4, <1>6, <2>1 DEF Descriptors, WrittenName
<1>8. piece \in Pieces
  <2> HIDE DEF bytes, tensor
  <2> QED BY <1>3, <1>4 DEF Pieces
<1> HIDE DEF n, d, piece, bytes, dtype, offset, tensor
<1>9. /\ padded \in Seq(Pieces) /\ Len(padded) \in Nat /\ Len(chunks) <= Len(padded)
      /\ \A k \in 1..Len(chunks) : padded[k] = chunks[k]
      /\ StartsAt(padded, Len(padded) + 1) = offset
  <2>1. CASE offset > current
    <3> DEFINE pad == [of |-> "pad", bytes |-> offset - current]
    <3>1. padded = chunks \o <<pad>>
      BY <2>1
    <3>2. pad \in Pieces /\ pad.bytes = offset - current
      BY <1>5, <1>6, <2>1 DEF Pieces
    <3> HIDE DEF pad, padded
    <3>3. /\ padded \in Seq(Pieces) /\ Len(padded) = Len(chunks) + 1 /\ Len(chunks) \in Nat
          /\ \A k \in 1..Len(chunks) : padded[k] = chunks[k]
          /\ padded[Len(padded)] = pad
      BY <1>1, <3>1, <3>2
    <3>4. Len(padded) \in 1..Len(padded) /\ Len(padded) \in 1..(Len(chunks) + 1)
          /\ Len(chunks) <= Len(padded)
      BY <3>3
    <3>5. StartsAt(padded, Len(padded) + 1) = StartsAt(padded, Len(padded)) + pad.bytes
      BY <3>3, <3>4, StartsNext
    <3>6. StartsAt(padded, Len(padded)) = StartsAt(chunks, Len(padded))
      BY <1>1, <3>3, <3>4, StartsKept
    <3>7. StartsAt(padded, Len(padded) + 1) = current + (offset - current)
      BY <1>1, <3>2, <3>3, <3>5, <3>6
    <3> QED BY <1>5, <1>6, <3>3, <3>4, <3>7
  <2>2. CASE ~(offset > current)
    <3>1. offset = current
      BY <1>5, <1>6, <2>2
    <3>2. padded = chunks
      BY <1>1, <2>2
    <3> HIDE DEF padded
    <3> QED BY <1>1, <3>1, <3>2
  <2> QED BY <2>1, <2>2
<1> HIDE DEF padded
<1> DEFINE m == Len(padded)
<1>10. /\ chunks' \in Seq(Pieces) /\ Len(chunks') = m + 1 /\ m \in Nat
       /\ \A k \in 1..m : chunks'[k] = padded[k]
       /\ chunks'[m + 1] = piece
  BY <1>2, <1>8, <1>9
<1>11. StartsAt(chunks', m + 1) = offset /\ current' = StartsAt(chunks', (m + 1) + 1)
  <2>1. StartsAt(chunks', m + 1) = StartsAt(padded, m + 1)
    <3>1. m + 1 \in 1..(Len(padded) + 1) /\ Len(padded) <= Len(chunks')
      BY <1>10
    <3> QED BY <1>9, <1>10, <3>1, StartsKept
  <2>2. StartsAt(chunks', (m + 1) + 1) = StartsAt(chunks', m + 1) + piece.bytes
    <3>1. m + 1 \in 1..Len(chunks')
      BY <1>10
    <3> QED BY <1>10, <3>1, StartsNext
  <2>3. piece.bytes = bytes
    BY DEF piece
  <2> QED BY <1>2, <1>9, <2>1, <2>2, <2>3
<1>12. /\ \A k \in 1..Len(chunks) : k \in 1..Len(chunks') /\ chunks'[k] = chunks[k]
       /\ \A k \in 1..Len(chunks) : StartsAt(chunks', k) = StartsAt(chunks, k)
  <2>1. \A k \in 1..Len(chunks) : k \in 1..m /\ k \in 1..Len(chunks') /\ chunks'[k] = chunks[k]
    BY <1>9, <1>10, <1>1
  <2>2. Len(chunks) <= Len(chunks')
    BY <1>9, <1>10, <1>1
  <2>3. \A k \in 1..(Len(chunks) + 1) : StartsAt(chunks', k) = StartsAt(chunks, k)
    BY <1>1, <1>10, <2>1, <2>2, StartsKept
  <2> QED BY <1>1, <2>1, <2>3
<1>13. /\ descriptors' \in Seq(Descriptors) /\ Len(descriptors') = n + 1
       /\ descriptors'[n + 1] = d /\ \A i \in 1..n : descriptors'[i] = descriptors[i]
  BY <1>1, <1>2, <1>7 DEF n
<1>14. ASSUME NEW i \in 1..n PROVE Describes(descriptors[i], call.state[i], chunks)'
  <2>1. Describes(descriptors[i], call.state[i], chunks)
    BY <1>1
  <2>2. PICK k \in 1..Len(chunks) : /\ StartsAt(chunks, k) = descriptors[i].offset
                                    /\ chunks[k].of = call.state[i].name
                                    /\ chunks[k].bytes
                                         = C!Bytes(descriptors[i].dtype, call.state[i].shape)
    BY <2>1 DEF Describes
  <2>3. /\ k \in 1..Len(chunks') /\ chunks'[k] = chunks[k]
        /\ StartsAt(chunks', k) = StartsAt(chunks, k)
    BY <1>12
  <2> QED BY <1>2, <1>13, <2>1, <2>2, <2>3 DEF Describes
<1>15. ASSUME NEW i, i = n + 1 PROVE Describes(descriptors[i], call.state[i], chunks)'
  <2>1. /\ d.name = WrittenName(tensor.name)
        /\ d.rank = Len(tensor.shape) /\ d.shape = C!FirstFour(tensor.shape)
        /\ d.dtype = dtype /\ d.offset = offset
    BY DEF d
  <2>2. /\ m + 1 \in 1..Len(chunks') /\ chunks'[m + 1].of = tensor.name
        /\ chunks'[m + 1].bytes = bytes
    BY <1>10 DEF piece
  <2>3. /\ descriptors'[i].name = WrittenName(call'.state[i].name)
        /\ descriptors'[i].rank = Len(call'.state[i].shape)
        /\ descriptors'[i].shape = C!FirstFour(call'.state[i].shape)
        /\ descriptors'[i].dtype = C!DtypeOf(call'.state[i], call'.quantize)
        /\ descriptors'[i].offset = offset
    BY <1>2, <1>13, <1>15, <2>1 DEF tensor, dtype
  <2>4. /\ m + 1 \in 1..Len(chunks') /\ StartsAt(chunks', m + 1) = descriptors'[i].offset
        /\ chunks'[m + 1].of = call'.state[i].name
        /\ chunks'[m + 1].bytes = C!Bytes(descriptors'[i].dtype, call'.state[i].shape)
    BY <1>2, <1>11, <1>13, <1>15, <2>1, <2>2 DEF tensor, bytes
  <2> HIDE DEF m
  <2> QED BY <1>6, <2>3, <2>4 DEF Describes
<1>16. Len(descriptors') <= Len(call'.state)
  BY <1>1, <1>2, <1>13
<1>17. \A i \in 1..Len(descriptors') : i \in 1..n \/ i = n + 1
  BY <1>1, <1>13
<1>18. \A i \in 1..Len(descriptors') : Describes(descriptors[i], call.state[i], chunks)'
  BY <1>14, <1>15, <1>17
<1>19. current' = StartsAt(chunks', Len(chunks') + 1)
  BY <1>10, <1>11
<1> QED BY <1>1, <1>2, <1>10, <1>13, <1>16, <1>18, <1>19 DEF ConvertInv

LEMMA ConvertInvariance == DeploySpec => []ConvertInv
PROOF
<1>1. DeployInit => ConvertInv
  <2> SUFFICES ASSUME DeployInit PROVE ConvertInv
    OBVIOUS
  <2>1. /\ call \in C!Conversions /\ chunks = << >> /\ descriptors = << >> /\ current = 0
        /\ mom = Nothing
    BY DEF DeployInit, C!Init
  <2>2. << >> \in Seq(Pieces) /\ << >> \in Seq(Descriptors) /\ Len(<< >>) = 0
    OBVIOUS
  <2>3. \A none \in Seq(Pieces) : Len(none) = 0 => StartsAt(none, Len(none) + 1) = 0
    <3> SUFFICES ASSUME NEW none \in Seq(Pieces), Len(none) = 0
                 PROVE  StartsAt(none, Len(none) + 1) = 0
      OBVIOUS
    <3>1. C!Sizes(none) \in Seq(Nat)
      BY SizesAreNumbers
    <3>2. SumUpTo(C!Sizes(none))[0] = 0
      BY <3>1, SumSteps
    <3>3. (Len(none) + 1) - 1 = 0
      OBVIOUS
    <3> QED BY <3>2, <3>3 DEF StartsAt
  <2>4. Len(call.state) \in Nat
    BY <2>1, StatesTyped
  <2>5. chunks \in Seq(Pieces) /\ Len(chunks) = 0 /\ descriptors \in Seq(Descriptors)
        /\ Len(descriptors) = 0
    BY <2>1, <2>2
  <2>6. current = StartsAt(chunks, Len(chunks) + 1)
    BY <2>1, <2>3, <2>5
  <2> QED BY <2>1, <2>4, <2>5, <2>6 DEF ConvertInv
<1>2. ConvertInv /\ [DeployNext]_allVars => ConvertInv'
  <2> SUFFICES ASSUME ConvertInv, [DeployNext]_allVars PROVE ConvertInv'
    OBVIOUS
  <2>1. CASE UNCHANGED converting
    <3>1. \A d, t : Describes(d, t, chunks)' <=> Describes(d, t, chunks)
      BY <2>1 DEF converting, Describes
    <3> QED BY <2>1, <3>1 DEF converting, ConvertInv, Describes, File
  <2>2. CASE C!EncodeTensor
    BY <2>2, EncodeKeeps
  <2>5. CASE C!NameRaises
    <3>1. UNCHANGED <<call, current, descriptors, chunks, mom, header>> /\ step = "encode"
      BY <2>5 DEF C!NameRaises
    <3>2. mom = Nothing
      BY <3>1 DEF ConvertInv
    <3> QED BY <3>1, <3>2 DEF ConvertInv, Describes
  <2>3. CASE C!WriteFile
    <3>1. /\ UNCHANGED <<call, current, descriptors, chunks>> /\ step' = "done"
          /\ mom' = File' /\ Len(descriptors) = Len(call.state)
      BY <2>3 DEF C!WriteFile, File
    <3> QED BY <3>1 DEF ConvertInv, Describes
  <2>4. CASE C!ExportConfig
    BY <2>4 DEF C!ExportConfig, ConvertInv, Describes, File
  <2> QED BY <2>1, <2>2, <2>3, <2>4, <2>5
       DEF DeployNext, RunModel, RunConverter, RunBenchmark, C!Next, allVars
<1> QED BY <1>1, <1>2, PTL DEF DeploySpec

(* Read by its descriptors, a file gives every tensor of at most four       *)
(* dimensions: its own data, as many bytes as the type and the shape of the *)
(* descriptor say, each element from its lane, under the model's header; of *)
(* a tensor with more it gives the place (convert_checkpoint_to_mom1 and    *)
(* quant.py).                                                               *)
THEOREM DescriptorsFind == DeploySpec => []DescriptorsFindData
PROOF
<1>1. ConvertInv => DescriptorsFindData
  <2> SUFFICES ASSUME ConvertInv, mom # Nothing PROVE DescriptorsFindData
    BY DEF DescriptorsFindData
  <2> DEFINE n == Len(descriptors)
  <2>1. /\ mom = File /\ n = Len(call.state) /\ n \in Nat
        /\ chunks \in Seq(Pieces) /\ descriptors \in Seq(Descriptors)
        /\ call \in C!Conversions
        /\ \A i \in 1..n : Describes(descriptors[i], call.state[i], chunks)
    BY DEF ConvertInv
  <2>2. /\ mom.config = Config /\ mom.tensors = n /\ mom.descriptors = descriptors
        /\ mom.dataOffset = 128 + n * 64 /\ mom.chunks = chunks
    BY <2>1 DEF File, C!HeaderSize, C!DescSize
  <2>3. C!HeaderMatches(Config) /\ mom.tensors = Len(call.state)
        /\ DOMAIN mom.descriptors = 1..mom.tensors
    BY <2>1, <2>2 DEF C!HeaderMatches
  <2>4. ASSUME NEW i \in 1..n, NEW d, d = descriptors[i], NEW t, t = call.state[i]
        PROVE  /\ (mom.dataOffset + d.offset) % C!Alignment = 0
               /\ \E k \in DOMAIN mom.chunks :
                    /\ C!Start(k) = mom.dataOffset + d.offset /\ mom.chunks[k].of = t.name
                    /\ d.rank <= 4 => mom.chunks[k].bytes = C!Bytes(d.dtype, d.shape)
    <3>1. Describes(d, t, chunks)
      BY <2>1, <2>4
    <3>2. d.offset \in Nat /\ d.offset % 64 = 0
      BY <3>1 DEF Describes, C!Alignment
    <3>3. (mom.dataOffset + d.offset) % C!Alignment = 0
      BY <2>1, <2>2, <3>2 DEF C!Alignment
    <3>4. PICK k \in 1..Len(chunks) : /\ StartsAt(chunks, k) = d.offset
                                      /\ chunks[k].of = t.name
                                      /\ chunks[k].bytes = C!Bytes(d.dtype, t.shape)
      BY <3>1 DEF Describes
    <3>7. d.rank <= 4 => d.shape = t.shape
      BY <3>1 DEF Describes, C!FirstFour
    <3>5. C!Start(k) = mom.dataOffset + StartsAt(chunks, k)
      <4>1. C!SumUpTo(C!Sizes(chunks)) = SumUpTo(C!Sizes(chunks))
        BY DEF C!SumUpTo, SumUpTo
      <4> QED BY <2>2, <4>1 DEF C!Start, StartsAt
    <3>6. k \in DOMAIN mom.chunks
      BY <2>1, <2>2
    <3> QED BY <2>2, <3>3, <3>4, <3>5, <3>6, <3>7
  <2>5. ASSUME NEW i \in 1..n, NEW d, d = descriptors[i], NEW t, t = call.state[i],
               d.dtype = "q8_0", d.rank <= 4,
               NEW row \in 0..(C!RowsOf(t.shape) - 1), NEW column \in 0..(Last(t.shape) - 1)
        PROVE  C!Dequantized(C!QuantizeQ80(t.shape), d.shape, row, column) = <<row, column>>
    <3>1. t \in Tensors
      BY <2>1, <2>5, StatesTyped
    <3>2. d.shape = t.shape /\ d.dtype = C!DtypeOf(t, call.quantize)
      BY <2>1, <2>5 DEF Describes, C!FirstFour
    <3>3. t.shape \in Seq(Nat)
      BY <3>1 DEF Tensors
    <3>4. Len(t.shape) >= 2 /\ Len(t.shape) \in Nat
      BY <2>1, <2>5, <3>1, <3>2, <3>3, BytesAreNumbers
    <3>5. Last(t.shape) = C!Last(t.shape)
      BY DEF Last, C!Last
    <3>6. BlockSize \in Nat \ {0}
      BY <2>1, StatesTyped
    <3>7. C!Dequantized(C!QuantizeQ80(t.shape), t.shape, row, column) = <<row, column>>
      BY <3>3, <3>4, <3>5, <3>6, LanesFindElements
    <3> QED BY <3>2, <3>7
  <2> HIDE DEF n
  <2>7. DOMAIN mom.descriptors = 1..n
    BY <2>2, <2>3
  <2> QED BY <2>2, <2>3, <2>4, <2>5, <2>7 DEF DescriptorsFindData
<1> QED BY <1>1, ConvertInvariance, PTL

-----------------------------------------------------------------------------
(* Golden: while a plain pass goes through the layers, the keys captured of *)
(* a layer it is through with are evidence of its work, the experts of the  *)
(* layer it stands in are those below the loop's that a token is routed to, *)
(* and no expert of a later layer has been heard.                           *)

Works(l) == {e \in 1..Experts : ExpertKey(l, e) \in captured}
RoutedTo == {e \in 1..Experts : \E t \in Tokens : e \in Range(routed[t])}

Evidence(l) ==
  /\ {LayerKey(l, b) : b \in {"attn_out", "moe_out", "block_out"}} \subseteq captured
  /\ Cardinality(Works(l)) \in TopK..(TopK * Cardinality(Rows) * request.promptLen)

Through == IF at \in {"logits", "done"} THEN 1..Layers ELSE 1..(layer - 1)

Unheard(l) == l > layer \/ (l = layer /\ at \in {"attention", "route"})

PlainPassInv ==
  /\ request \in Requests /\ layer \in 1..Layers
  /\ start = 0 /\ width = request.promptLen
  /\ at \notin {"attention", "raised"} => width > 0
  /\ \A l \in Through : Evidence(l - 1)
  /\ at \in {"route", "dispatch"} => LayerKey(layer - 1, "attn_out") \in captured
  /\ at = "dispatch" => /\ expert \in 1..(Experts + 1) /\ routed \in [Tokens -> TopIndices]
                        /\ Works(layer - 1) = {e \in RoutedTo : e < expert}
  /\ \A l \in 1..Layers : Unheard(l) => Works(l - 1) = {}

VerdictInv ==
  /\ verdict # Undecided => at = "done" /\ Harness
  /\ verdict = "PASS" =>
       /\ \E k \in DOMAIN compared : compared[k].error # "inf"
       /\ \A k \in DOMAIN compared : compared[k].passed /\ compared[k].size = GoldenSize
       /\ DOMAIN compared \subseteq captured

GoldenInv == (Harness => PlainPassInv) /\ VerdictInv

LEMMA KeysApart ==
  /\ \A l, m, e, f : ExpertKey(l, e) = ExpertKey(m, f) => l = m /\ e = f
  /\ \A l, m, e, b : ExpertKey(l, e) = LayerKey(m, b) => b = "moe_expert_out"
  /\ \A l, e, b : ExpertKey(l, e) # Key(b)
PROOF
<1>1. \A l, e : ExpertKey(l, e) = [prefix |-> "l", layer |-> l, base |-> "moe_expert_out", expert |-> e]
  BY DEF ExpertKey, LayerKey
<1>2. \A l, b : LayerKey(l, b) = [prefix |-> "l", layer |-> l, base |-> b, expert |-> 0]
  BY DEF LayerKey
<1>3. \A b : Key(b) = [prefix |-> "", layer |-> 0, base |-> b, expert |-> 0]
  BY DEF Key
<1>4. ASSUME NEW l, NEW m, NEW e, NEW f, ExpertKey(l, e) = ExpertKey(m, f)
      PROVE  l = m /\ e = f
  <2>1. ExpertKey(l, e).layer = l /\ ExpertKey(l, e).expert = e
    BY <1>1
  <2>2. ExpertKey(m, f).layer = m /\ ExpertKey(m, f).expert = f
    BY <1>1
  <2> QED BY <1>4, <2>1, <2>2
<1>5. ASSUME NEW l, NEW m, NEW e, NEW b, ExpertKey(l, e) = LayerKey(m, b)
      PROVE  b = "moe_expert_out"
  <2>1. ExpertKey(l, e).base = "moe_expert_out" /\ LayerKey(m, b).base = b
    BY <1>1, <1>2
  <2> QED BY <1>5, <2>1
<1>6. ASSUME NEW l, NEW e, NEW b PROVE ExpertKey(l, e) # Key(b)
  <2>1. ExpertKey(l, e).prefix = "l" /\ Key(b).prefix = ""
    BY <1>1, <1>3
  <2> QED BY <2>1
<1> QED BY <1>4, <1>5, <1>6

(* Keys that are no expert's leave the experts' alone.                     *)
LEMMA OtherKeys ==
  ASSUME NEW K, captured' = captured \cup K, \A l, e : ExpertKey(l, e) \notin K
  PROVE  \A l : Works(l)' = Works(l)
BY DEF Works, ExpertKey, LayerKey

LEMMA KeptAreOther ==
  ASSUME NEW bases, "moe_expert_out" \notin bases
  PROVE  \A l, e : ExpertKey(l, e) \notin Kept(bases)
BY KeysApart DEF Kept

LEMMA EvidenceStays ==
  ASSUME captured \subseteq captured', request' = request, NEW l, Works(l)' = Works(l), Evidence(l)
  PROVE  Evidence(l)'
BY DEF Evidence, LayerKey

(* The experts that get tokens: those of one token at least, and not more   *)
(* than all the tokens have slots.                                          *)
LEMMA RoutedCount ==
  ASSUME routed \in [Tokens -> TopIndices], start = 0, width \in Nat \ {0}
  PROVE  Cardinality(RoutedTo) \in TopK..(TopK * Cardinality(Rows) * width)
PROOF
<1>1. Experts \in Nat /\ TopK \in 1..Experts /\ TopK \in Nat
  BY ConfigAssumption
<1>2. IsFiniteSet(RoutedTo) /\ IsFiniteSet(1..TopK) /\ Cardinality(1..TopK) = TopK
  <2>1. IsFiniteSet(1..Experts) /\ IsFiniteSet(1..TopK) /\ Cardinality(1..TopK) = TopK
    BY <1>1, FS_Interval
  <2>2. RoutedTo \in SUBSET (1..Experts)
    BY DEF RoutedTo
  <2> QED BY <2>1, <2>2, FS_Subset
<1>3. Cardinality(RoutedTo) >= TopK
  <2>1. PICK r \in Rows : TRUE
    BY GoldenAssumption
  <2> DEFINE t == <<r, 0>>
  <2>2. t \in Tokens
    BY DEF Tokens, Queries
  <2>3. /\ routed[t] \in [1..TopK -> 1..Experts]
        /\ \A i, j \in 1..TopK : routed[t][i] = routed[t][j] => i = j
    BY <2>2 DEF TopIndices
  <2> HIDE DEF t
  <2>4. \A k \in 1..TopK : routed[t][k] \in RoutedTo
    BY <2>2, <2>3 DEF RoutedTo, Range
  <2>5. routed[t] \in Injection(1..TopK, RoutedTo)
    BY <2>3, <2>4 DEF Injection, IsInjective
  <2> QED BY <1>2, <2>5, FS_Injection
<1>4. Cardinality(RoutedTo) <= TopK * Cardinality(Rows) * width
  <2> DEFINE slots == Tokens \X (1..TopK)
             f == [s \in slots |-> routed[s[1]][s[2]]]
  <2>1. IsFiniteSet(Queries) /\ Cardinality(Queries) = width
    <3>1. Queries = 0..(width - 1)
      BY DEF Queries
    <3>2. width - 1 \in Int /\ 0 \in Int /\ ~(0 > width - 1) /\ (width - 1) - 0 + 1 = width
      OBVIOUS
    <3>3. \A a, b \in Int : /\ IsFiniteSet(a..b)
                           /\ Cardinality(a..b) = IF a > b THEN 0 ELSE b - a + 1
      BY FS_Interval
    <3>4. IsFiniteSet(0..(width - 1)) /\ Cardinality(0..(width - 1)) = (width - 1) - 0 + 1
      BY ONLY <3>2, <3>3
    <3>5. IsFiniteSet(0..(width - 1)) /\ Cardinality(0..(width - 1)) = width
      BY ONLY <3>2, <3>4
    <3> QED BY ONLY <3>1, <3>5
  <2>2. IsFiniteSet(Rows) /\ Cardinality(Rows) \in Nat
    BY GoldenAssumption, FS_CardinalityType
  <2>3. IsFiniteSet(Tokens) /\ Cardinality(Tokens) = Cardinality(Rows) * width
    BY <2>1, <2>2, FS_Product DEF Tokens
  <2>4. IsFiniteSet(slots) /\ Cardinality(slots) = (Cardinality(Rows) * width) * TopK
    <3> DEFINE ks == 1..TopK
    <3>1. IsFiniteSet(ks) /\ Cardinality(ks) = TopK
      BY <1>2
    <3> HIDE DEF ks
    <3>2. /\ IsFiniteSet(Tokens \X ks)
          /\ Cardinality(Tokens \X ks) = Cardinality(Tokens) * Cardinality(ks)
      BY ONLY <2>3, <3>1, FS_Product
    <3>3. Cardinality(Tokens \X ks) = (Cardinality(Rows) * width) * TopK
      BY ONLY <2>3, <3>1, <3>2
    <3> QED BY ONLY <3>2, <3>3 DEF ks
  <2>5. f \in Surjection(slots, RoutedTo)
    <3>1. ASSUME NEW t \in Tokens, NEW k \in 1..TopK
          PROVE  <<t, k>> \in slots /\ f[<<t, k>>] = routed[t][k] /\ routed[t][k] \in RoutedTo
      <4>1. routed[t] \in [1..TopK -> 1..Experts]
        BY DEF TopIndices
      <4>2. routed[t][k] \in RoutedTo
        BY <4>1 DEF RoutedTo, Range
      <4> QED BY <4>2
    <3>2. f \in [slots -> RoutedTo]
      <4>1. \A s \in slots : s[1] \in Tokens /\ s[2] \in 1..TopK /\ s = <<s[1], s[2]>>
        OBVIOUS
      <4> QED BY <3>1, <4>1
    <3>3. ASSUME NEW e \in RoutedTo PROVE \E s \in slots : f[s] = e
      <4>1. PICK t \in Tokens : e \in Range(routed[t])
        BY DEF RoutedTo
      <4>2. DOMAIN routed[t] = 1..TopK
        BY DEF TopIndices
      <4>3. PICK k \in 1..TopK : routed[t][k] = e
        BY <4>1, <4>2 DEF Range
      <4> QED BY <3>1, <4>3
    <3> HIDE DEF f, slots
    <3> QED BY <3>2, <3>3 DEF Surjection
  <2> HIDE DEF f, slots
  <2>6. Cardinality(RoutedTo) <= Cardinality(slots)
    BY <2>4, <2>5, FS_Surjection
  <2>7. (Cardinality(Rows) * width) * TopK = TopK * Cardinality(Rows) * width
    <3> DEFINE c == Cardinality(Rows)
    <3>1. c \in Nat BY <2>2
    <3> HIDE DEF c
    <3>2. (c * width) * TopK = TopK * c * width
      BY <1>1, <3>1, SMT
    <3> QED BY <3>2 DEF c
  <2> QED BY <2>4, <2>6, <2>7
<1>5. Cardinality(RoutedTo) \in Nat
  BY <1>2, FS_CardinalityType
<1>6. TopK * Cardinality(Rows) * width \in Nat
  <2> DEFINE c == Cardinality(Rows)
  <2>1. c \in Nat
    BY GoldenAssumption, FS_CardinalityType
  <2> HIDE DEF c
  <2>2. TopK * c * width \in Nat
    BY <1>1, <2>1
  <2> QED BY <2>2 DEF c
<1> QED BY <1>1, <1>3, <1>4, <1>5, <1>6

LEMMA GoldenStart == DeployInit => GoldenInv
PROOF
<1> SUFFICES ASSUME DeployInit PROVE GoldenInv
  OBVIOUS
<1>1. Init /\ captured = {} /\ verdict = Undecided
  BY DEF DeployInit, GoldenInit
<1>2. /\ request \in Requests /\ layer = 1 /\ start = 0 /\ width = request.promptLen
      /\ at = "attention" /\ Layers \in Nat \ {0}
  BY <1>1, ConfigAssumption DEF Init
<1>3. Through = {} /\ \A l : Works(l) = {}
  BY <1>1, <1>2 DEF Through, Works
<1>4. PlainPassInv
  BY <1>2, <1>3 DEF PlainPassInv
<1> QED BY <1>1, <1>4, GoldenAssumption DEF GoldenInv, VerdictInv

(* Before the pass is over nothing has been compared.                      *)
LEMMA NothingCompared ==
  ASSUME GoldenInv, at # "done", UNCHANGED <<compared, verdict>>
  PROVE  VerdictInv'
BY GoldenAssumption DEF GoldenInv, VerdictInv

LEMMA PlainFacts ==
  ASSUME PlainPassInv
  PROVE  /\ request.promptLen \in Nat /\ width \in Nat /\ layer \in Nat /\ layer \in 1..Layers
         /\ Layers \in Nat \ {0} /\ Experts \in Nat \ {0} /\ TopK \in 1..Experts
BY ConfigAssumption, RequestFacts DEF PlainPassInv

LEMMA HookAttendKeeps == ASSUME Harness, PlainPassInv, HookAttend PROVE PlainPassInv'
PROOF
<1> DEFINE first == IF layer = 1 THEN {Key("embed")} ELSE {}
           projections == Kept({"block_input_input", "pre_attn_norm_out", "attn_q", "attn_k", "attn_v"})
           out == IF at' = "raised" THEN {} ELSE Kept({"attn_out"})
           K == first \cup projections \cup out
<1>1. /\ captured' = captured \cup K
      /\ UNCHANGED <<request, start, width, layer>> /\ at = "attention"
      /\ IF start + width > ContextLen \/ width = 0 THEN at' = "raised" ELSE at' = "route"
  BY DEF HookAttend, Attend
<1>2. \A l, e : ExpertKey(l, e) \notin K
  <2>1. \A l, e : ExpertKey(l, e) \notin projections
    BY KeptAreOther
  <2>2. \A l, e : ExpertKey(l, e) \notin out
    BY KeptAreOther
  <2>3. \A l, e : ExpertKey(l, e) \notin first
    BY KeysApart
  <2> HIDE DEF first, projections, out
  <2> QED BY <2>1, <2>2, <2>3
<1>3. at' = "route" => LayerKey(layer - 1, "attn_out") \in K
  BY DEF Kept
<1> HIDE DEF K
<1>4. \A l : Works(l)' = Works(l)
  BY <1>1, <1>2, OtherKeys
<1>5. captured \subseteq captured'
  BY <1>1
<1>6. /\ Through' = Through
      /\ \A l \in 1..Layers : Unheard(l)' => Unheard(l)
  BY <1>1 DEF Through, Unheard
<1>7. \A l \in Through' : Evidence(l - 1)'
  BY <1>1, <1>4, <1>5, <1>6, EvidenceStays DEF PlainPassInv
<1>8. \A l \in 1..Layers : Unheard(l)' => Works(l - 1)' = {}
  BY <1>4, <1>6 DEF PlainPassInv
<1>9. at' \in {"route", "dispatch"} => LayerKey(layer - 1, "attn_out") \in captured'
  BY <1>1, <1>3
<1>10. at' \notin {"attention", "raised"} => width' > 0
  BY <1>1, PlainFacts
<1>11. LayerKey(layer - 1, "attn_out")' = LayerKey(layer - 1, "attn_out")
  BY <1>1 DEF LayerKey
<1> QED BY <1>1, <1>7, <1>8, <1>9, <1>10, <1>11 DEF PlainPassInv

LEMMA HookRouteKeeps == ASSUME Harness, PlainPassInv, HookRoute PROVE PlainPassInv'
PROOF
<1> DEFINE K == Kept({"pre_moe_norm_out", "moe_shared_out", "moe_router_logits"})
<1>1. /\ captured' = captured \cup K
      /\ UNCHANGED <<request, start, width, layer>> /\ at = "route" /\ at' = "dispatch"
      /\ expert' = 1 /\ routed' \in [Tokens -> TopIndices]
  BY DEF HookRoute, Route
<1>2. \A l, e : ExpertKey(l, e) \notin K
  BY KeptAreOther
<1> HIDE DEF K
<1>3. (\A l : Works(l)' = Works(l)) /\ captured \subseteq captured'
  BY <1>1, <1>2, OtherKeys
<1>4. /\ Through' = Through /\ Tokens' = Tokens
      /\ \A l \in 1..Layers : Unheard(l)' => Unheard(l)
  BY <1>1 DEF Through, Unheard, Tokens, Queries
<1>5. \A l \in Through' : Evidence(l - 1)'
  BY <1>1, <1>3, <1>4, EvidenceStays DEF PlainPassInv
<1>6. \A l \in 1..Layers : Unheard(l)' => Works(l - 1)' = {}
  BY <1>3, <1>4 DEF PlainPassInv
<1>7. Works(layer - 1)' = {e \in RoutedTo : e < expert}'
  <2>1. Works(layer - 1) = {}
    <3>1. Unheard(layer) /\ layer \in 1..Layers
      BY <1>1 DEF Unheard, PlainPassInv
    <3> QED BY <3>1 DEF PlainPassInv
  <2>2. Works(layer - 1)' = {}
    BY <1>1, <1>3, <2>1 DEF Works, ExpertKey, LayerKey
  <2>3. \A e \in RoutedTo' : ~(e < 1)
    BY PlainFacts DEF RoutedTo
  <2> QED BY <1>1, <2>2, <2>3
<1>8. expert' \in 1..(Experts + 1)
  BY <1>1, PlainFacts
<1>9. LayerKey(layer - 1, "attn_out")' \in captured'
  BY <1>1, <1>3 DEF PlainPassInv, LayerKey
<1>10. width' > 0
  BY <1>1 DEF PlainPassInv
<1> QED BY <1>1, <1>4, <1>5, <1>6, <1>7, <1>8, <1>9, <1>10 DEF PlainPassInv

LEMMA HookDispatchKeeps == ASSUME Harness, PlainPassInv, HookDispatch PROVE PlainPassInv'
PROOF
<1> DEFINE K == IF \E t \in Tokens : expert \in Range(routed[t])
                THEN {ExpertKey(layer - 1, expert)} ELSE {}
<1>1. /\ captured' = captured \cup K
      /\ UNCHANGED <<request, start, width, layer, at, routed>> /\ at = "dispatch"
      /\ expert' = expert + 1 /\ expert <= Experts
  BY DEF HookDispatch, Dispatch
<1>2. /\ expert \in 1..(Experts + 1) /\ routed \in [Tokens -> TopIndices]
      /\ Works(layer - 1) = {e \in RoutedTo : e < expert}
      /\ layer \in 1..Layers /\ Layers \in Nat /\ Experts \in Nat /\ expert \in 1..Experts
  BY <1>1, PlainFacts DEF PlainPassInv
<1>3. /\ Through' = Through /\ Tokens' = Tokens /\ RoutedTo' = RoutedTo
      /\ \A l \in 1..Layers : Unheard(l)' <=> l > layer
  BY <1>1 DEF Through, Unheard, Tokens, Queries, RoutedTo
<1>4. ASSUME NEW l, l # layer - 1 PROVE Works(l)' = Works(l)
  <2>1. \A e : ExpertKey(l, e) \notin K
    BY <1>4, KeysApart
  <2> HIDE DEF K
  <2>2. \A e : ExpertKey(l, e)' = ExpertKey(l, e)
    BY DEF ExpertKey, LayerKey
  <2> QED BY <1>1, <2>1, <2>2 DEF Works
<1>5. Works(layer - 1)' = {e \in RoutedTo : e < expert}'
  <2>1. ASSUME NEW e \in 1..Experts
        PROVE  ExpertKey(layer - 1, e) \in captured'
                 <=> e \in Works(layer - 1) \/ (e = expert /\ expert \in RoutedTo)
    <3>1. ExpertKey(layer - 1, e) \in K <=> e = expert /\ expert \in RoutedTo
      <4>1. ExpertKey(layer - 1, e) = ExpertKey(layer - 1, expert) <=> e = expert
        BY KeysApart
      <4>2. expert \in RoutedTo <=> \E t \in Tokens : expert \in Range(routed[t])
        BY <1>2 DEF RoutedTo
      <4> QED BY <4>1, <4>2
    <3>2. ExpertKey(layer - 1, e) \in captured <=> e \in Works(layer - 1)
      BY DEF Works
    <3> HIDE DEF K
    <3> QED BY <1>1, <3>1, <3>2
  <2>2. Works(layer - 1)' = {e \in 1..Experts : ExpertKey(layer - 1, e) \in captured'}
    BY <1>1 DEF Works, ExpertKey, LayerKey
  <2>3. \A e \in RoutedTo : e \in 1..Experts
    BY DEF RoutedTo
  <2>4. {e \in RoutedTo : e < expert}' = {e \in RoutedTo : e < expert + 1}
    BY <1>1, <1>3
  <2>5. \A e \in 1..Experts : e \in Works(layer - 1)' <=> e \in {x \in RoutedTo : x < expert + 1}
    <3> TAKE e \in 1..Experts
    <3>1. e < expert + 1 <=> e < expert \/ e = expert
      BY <1>2
    <3> QED BY <1>2, <2>1, <2>2, <3>1
  <2>6. Works(layer - 1)' \subseteq 1..Experts
    BY <2>2
  <2> QED BY <2>3, <2>4, <2>5, <2>6
<1>6. \A l \in Through' : Evidence(l - 1)'
  <2> SUFFICES ASSUME NEW l \in Through PROVE Evidence(l - 1)'
    BY <1>3
  <2>1. l - 1 # layer - 1 /\ Evidence(l - 1)
    BY <1>1, <1>2 DEF Through, PlainPassInv
  <2>2. Works(l - 1)' = Works(l - 1) /\ captured \subseteq captured'
    BY <1>1, <1>4, <2>1
  <2> QED BY <1>1, <2>1, <2>2, EvidenceStays
<1>7. \A l \in 1..Layers : Unheard(l)' => Works(l - 1)' = {}
  <2> SUFFICES ASSUME NEW l \in 1..Layers, l > layer PROVE Works(l - 1)' = {}
    BY <1>3
  <2>1. l - 1 # layer - 1 /\ Works(l - 1) = {}
    BY <1>2 DEF PlainPassInv, Unheard
  <2> QED BY <1>4, <2>1
<1>8. expert' \in 1..(Experts + 1)
  BY <1>1, <1>2
<1>9. LayerKey(layer - 1, "attn_out")' \in captured'
  BY <1>1 DEF PlainPassInv, LayerKey
<1> QED BY <1>1, <1>2, <1>3, <1>5, <1>6, <1>7, <1>8, <1>9 DEF PlainPassInv

LEMMA HookLayerDoneKeeps == ASSUME Harness, PlainPassInv, HookLayerDone PROVE PlainPassInv'
PROOF
<1> DEFINE ends == IF layer = Layers THEN {Key("final_norm"), Key("logits")} ELSE {}
           outs == Kept({"moe_out", "block_out"})
           K == outs \cup ends
<1>1. /\ captured' = captured \cup K
      /\ UNCHANGED <<request, start, width>> /\ at = "dispatch" /\ expert > Experts
      /\ IF layer < Layers THEN layer' = layer + 1 /\ at' = "attention"
         ELSE at' = "logits" /\ UNCHANGED layer
  BY DEF HookLayerDone, LayerDone
<1>2. /\ routed \in [Tokens -> TopIndices] /\ width > 0 /\ width = request.promptLen
      /\ Works(layer - 1) = {e \in RoutedTo : e < expert} /\ expert \in 1..(Experts + 1)
      /\ layer \in 1..Layers /\ Layers \in Nat /\ Experts \in Nat /\ width \in Nat /\ start = 0
  BY <1>1, PlainFacts DEF PlainPassInv
<1>3. \A l, e : ExpertKey(l, e) \notin K
  <2>1. \A l, e : ExpertKey(l, e) \notin outs
    BY KeptAreOther
  <2>2. \A l, e : ExpertKey(l, e) \notin ends
    BY KeysApart
  <2> HIDE DEF outs, ends
  <2> QED BY <2>1, <2>2
<1>4. {LayerKey(layer - 1, b) : b \in {"moe_out", "block_out"}} \subseteq captured'
  BY <1>1 DEF Kept
<1> HIDE DEF K
<1>5. (\A l : Works(l)' = Works(l)) /\ captured \subseteq captured'
  BY <1>1, <1>3, OtherKeys
<1>6. Works(layer - 1) = RoutedTo
  <2>1. \A e \in RoutedTo : e < expert
    BY <1>1, <1>2 DEF RoutedTo
  <2> QED BY <1>2, <2>1
<1>8. ASSUME NEW l, l = layer - 1 PROVE Evidence(l)'
  <2>1. Cardinality(RoutedTo) \in TopK..(TopK * Cardinality(Rows) * width)
    BY <1>2, RoutedCount
  <2>2. LayerKey(l, "attn_out") \in captured'
    BY <1>1, <1>5, <1>8 DEF PlainPassInv
  <2>3. {LayerKey(l, b) : b \in {"attn_out", "moe_out", "block_out"}} \subseteq captured'
    BY <1>4, <1>8, <2>2
  <2>4. Works(l)' = RoutedTo
    BY <1>5, <1>6, <1>8
  <2> QED BY <1>1, <1>2, <2>1, <2>3, <2>4 DEF Evidence, LayerKey
<1>9. Through' = 1..layer
  BY <1>1, <1>2 DEF Through
<1>10. \A l \in Through' : Evidence(l - 1)'
  <2> SUFFICES ASSUME NEW l \in 1..layer PROVE Evidence(l - 1)'
    BY <1>9
  <2>1. CASE l = layer
    BY <1>8, <2>1
  <2>2. CASE l # layer
    <3>1. l \in Through
      BY <1>1, <1>2, <2>2 DEF Through
    <3> QED BY <1>1, <1>5, <3>1, EvidenceStays DEF PlainPassInv
  <2> QED BY <2>1, <2>2
<1>11. \A l \in 1..Layers : Unheard(l)' => Works(l - 1)' = {}
  <2>1. \A l \in 1..Layers : Unheard(l)' => Unheard(l)
    BY <1>1, <1>2 DEF Unheard
  <2> QED BY <1>5, <2>1 DEF PlainPassInv
<1>12. layer' \in 1..Layers /\ at' \in {"attention", "logits"}
  BY <1>1, <1>2
<1> QED BY <1>1, <1>2, <1>10, <1>11, <1>12 DEF PlainPassInv

LEMMA HookReturnKeeps == ASSUME Harness, PlainPassInv, HookReturn PROVE PlainPassInv'
PROOF
<1> DEFINE K == {Key("final_logits")}
<1>1. /\ captured' = captured \cup K
      /\ UNCHANGED <<request, start, width, layer>> /\ at = "logits" /\ at' = "done"
  BY DEF HookReturn, Return
<1>2. \A l, e : ExpertKey(l, e) \notin K
  BY KeysApart
<1> HIDE DEF K
<1>3. (\A l : Works(l)' = Works(l)) /\ captured \subseteq captured'
  BY <1>1, <1>2, OtherKeys
<1>4. Through' = Through /\ \A l \in 1..Layers : Unheard(l)' => Unheard(l)
  BY <1>1 DEF Through, Unheard
<1>5. \A l \in Through' : Evidence(l - 1)'
  BY <1>1, <1>3, <1>4, EvidenceStays DEF PlainPassInv
<1>6. \A l \in 1..Layers : Unheard(l)' => Works(l - 1)' = {}
  BY <1>3, <1>4 DEF PlainPassInv
<1> QED BY <1>1, <1>5, <1>6 DEF PlainPassInv

LEMMA CompareKeeps == ASSUME GoldenInv, Compare PROVE GoldenInv'
PROOF
<1>1. UNCHANGED vars /\ captured' = captured /\ at = "done" /\ Harness
  BY DEF Compare
<1>2. Harness' => PlainPassInv'
  BY <1>1 DEF GoldenInv, PlainPassInv, Harness, Through, Unheard, Evidence, Works, LayerKey,
              ExpertKey, Tokens, Queries, RoutedTo, vars
<1>3. PICK directory \in Directories :
       LET tensors == Loaded(directory)
           keys == {k \in captured : Matches(k, tensors) # << >>}
           results == [k \in keys |->
             LET match == Head(Matches(k, tensors)) IN Metrics(match, tensors[match])]
       IN /\ compared' = results
          /\ verdict' = IF DOMAIN tensors = {} \/ MaxRaises(results) THEN "raised"
                        ELSE IF \A k \in keys : results[k].passed THEN "PASS" ELSE "FAIL"
  BY DEF Compare
<1> DEFINE tensors == Loaded(directory)
           keys == {k \in captured : Matches(k, tensors) # << >>}
           found(k) == Head(Matches(k, tensors))
<1>4. /\ DOMAIN compared' = keys
      /\ \A k \in keys : compared'[k] = Metrics(found(k), tensors[found(k)])
      /\ verdict' = "PASS" => /\ ~MaxRaises(compared')
                              /\ \A k \in keys : compared'[k].passed
  BY <1>3
<1>5. \A k \in keys : compared'[k].passed => compared'[k].size = GoldenSize
  <2> TAKE k \in keys
  <2> DEFINE m == Metrics(found(k), tensors[found(k)])
  <2>1. m.passed => m.size = GoldenSize
    BY DEF Metrics
  <2> QED BY <1>4, <2>1
<1>6. keys \subseteq captured
  OBVIOUS
<1> HIDE DEF keys, found, tensors
<1>7. verdict' = "PASS" => \E k \in DOMAIN compared' : compared'[k].error # "inf"
  BY <1>4 DEF MaxRaises
<1>8. VerdictInv'
  BY <1>1, <1>4, <1>5, <1>6, <1>7 DEF VerdictInv, Harness, vars
<1> QED BY <1>2, <1>8 DEF GoldenInv

LEMMA GoldenInvariance == DeploySpec => []GoldenInv
PROOF
<1>1. GoldenInv /\ [DeployNext]_allVars => GoldenInv'
  <2> SUFFICES ASSUME GoldenInv, [DeployNext]_allVars PROVE GoldenInv'
    OBVIOUS
  <2>1. CASE UNCHANGED <<vars, goldenVars>>
    <3>1. PlainPassInv' <=> PlainPassInv
      BY <2>1 DEF vars, goldenVars, PlainPassInv, Through, Unheard, Evidence, Works, LayerKey,
                  ExpertKey, Tokens, Queries, RoutedTo
    <3> QED BY <2>1, <3>1 DEF vars, goldenVars, GoldenInv, VerdictInv, Harness
  <2>2. CASE HookAttend
    <3>1. /\ at # "done" /\ UNCHANGED <<compared, verdict, request>>
      BY <2>2 DEF HookAttend, Attend
    <3> QED BY <2>2, <3>1, NothingCompared, HookAttendKeeps DEF GoldenInv, Harness
  <2>3. CASE HookRoute
    <3>1. /\ at # "done" /\ UNCHANGED <<compared, verdict, request>>
      BY <2>3 DEF HookRoute, Route
    <3> QED BY <2>3, <3>1, NothingCompared, HookRouteKeeps DEF GoldenInv, Harness
  <2>4. CASE HookDispatch
    <3>1. /\ at # "done" /\ UNCHANGED <<compared, verdict, request>>
      BY <2>4 DEF HookDispatch, Dispatch
    <3> QED BY <2>4, <3>1, NothingCompared, HookDispatchKeeps DEF GoldenInv, Harness
  <2>5. CASE HookLayerDone
    <3>1. /\ at # "done" /\ UNCHANGED <<compared, verdict, request>>
      BY <2>5 DEF HookLayerDone, LayerDone
    <3> QED BY <2>5, <3>1, NothingCompared, HookLayerDoneKeeps DEF GoldenInv, Harness
  <2>6. CASE HookSample
    <3>1. /\ at # "done" /\ UNCHANGED <<compared, verdict, request>> /\ request.caches
      BY <2>6 DEF HookSample, Sample, TopKRaises, goldenVars
    <3> QED BY <3>1, NothingCompared DEF GoldenInv, Harness
  <2>7. CASE HookReturn
    <3>1. /\ at # "done" /\ UNCHANGED <<compared, verdict, request>>
      BY <2>7 DEF HookReturn, Return
    <3> QED BY <2>7, <3>1, NothingCompared, HookReturnKeeps DEF GoldenInv, Harness
  <2>8. CASE Compare
    BY <2>8, CompareKeeps
  <2> QED BY <2>1, <2>2, <2>3, <2>4, <2>5, <2>6, <2>7, <2>8
       DEF DeployNext, RunModel, RunConverter, RunBenchmark, GoldenNext, allVars
<1> QED BY <1>1, GoldenStart, PTL DEF DeploySpec

(* PASS is never said of nothing: something of the right size was compared, *)
(* nothing of a wrong one, and each layer's work was captured, of as many   *)
(* experts as a token has and of no more than all tokens have slots         *)
(* (golden_harness.py and compare_logits.py).                               *)
THEOREM PassHasEvidence == DeploySpec => []PassNeedsEvidence
PROOF
<1>1. GoldenInv => PassNeedsEvidence
  <2> SUFFICES ASSUME GoldenInv, verdict = "PASS" PROVE PassNeedsEvidence
    BY DEF PassNeedsEvidence
  <2>1. at = "done" /\ PlainPassInv /\ Layers \in Nat
    BY GoldenAssumption, ConfigAssumption DEF GoldenInv, VerdictInv
  <2>2. ASSUME NEW l \in 0..(Layers - 1) PROVE Evidence(l)
    <3>1. l + 1 \in 1..Layers /\ (l + 1) - 1 = l
      BY <2>1
    <3>2. l + 1 \in Through
      BY <2>1, <3>1 DEF Through
    <3>3. Evidence((l + 1) - 1)
      BY <2>1, <3>2 DEF PlainPassInv
    <3> QED BY <3>1, <3>3
  <2> QED BY <2>2 DEF GoldenInv, VerdictInv, PassNeedsEvidence, Evidence, Works
<1> QED BY <1>1, GoldenInvariance, PTL

-----------------------------------------------------------------------------
(* Benchmark: the instance's operators are the ones the lemmas are about.  *)

LEMMA Instances ==
  /\ \A S : E!Cardinality(S) = Cardinality(S)
  /\ \A S : E!IsFiniteSet(S) <=> IsFiniteSet(S)
  /\ \A s : E!Range(s) = Range(s)
  /\ \A s, places : E!Picked(s, places) = Picked(s, places)
PROOF
<1>1. \A S : E!Cardinality(S) = Cardinality(S)
  BY DEF E!Cardinality, Cardinality
<1>2. \A S : E!IsFiniteSet(S) <=> IsFiniteSet(S)
  BY DEF E!IsFiniteSet, IsFiniteSet
<1>3. \A s : E!Range(s) = Range(s)
  BY DEF E!Range, Range
<1>4. \A s, places : E!Picked(s, places) = Picked(s, places)
  BY DEF E!Picked, Picked, E!PickedUpTo, PickedUpTo
<1> QED BY <1>1, <1>2, <1>3, <1>4

LEMMA PrefixKeeps ==
  ASSUME NEW T, NEW s \in Seq(T), NEW n \in Nat
  PROVE  /\ E!Prefix(s, n) \in Seq(T) /\ Len(E!Prefix(s, n)) = Lesser(n, Len(s))
         /\ \A i \in 1..Lesser(n, Len(s)) : E!Prefix(s, n)[i] = s[i]
PROOF
<1> DEFINE m == Lesser(n, Len(s))
<1>1. Len(s) \in Nat OBVIOUS
<1>2. m \in Nat /\ m <= Len(s)
  BY <1>1 DEF Lesser
<1>3. E!Prefix(s, n) = SubSeq(s, 1, m)
  BY <1>1, LesserIs DEF E!Prefix, E!Min
<1> HIDE DEF m
<1>4. SubSeq(s, 1, m) \in Seq(T) /\ Len(SubSeq(s, 1, m)) = m
      /\ \A i \in 1..m : SubSeq(s, 1, m)[i] = s[i]
  BY <1>2
<1> QED BY <1>3, <1>4 DEF m

LEMMA Windows ==
  /\ Window \in Nat /\ Remembered \in Nat /\ MaxLines \in Nat \ {0} /\ Nothing \notin Words
BY DeployAssumption DEF E!WindowAssumption

Examples == [prompt : Seq(Words), response : Seq(Words), bash : BOOLEAN]
Talks == [turns : Seq(Seq(Words)) \ {<< >>}, keywords : SUBSET Words]
Faults == [log : Seq(Words), expected : Range(FaultTypes)]
Prompts == {ToolCallPrompts[i] : i \in DOMAIN ToolCallPrompts}

LEMMA Scenarios ==
  /\ ToolCallPrompts \in Seq(Prompts)
  /\ Dialogues \in Seq(Talks) /\ \A k \in DOMAIN Dialogues : IsFiniteSet(Dialogues[k].keywords)
  /\ FaultLogs \in Seq(Faults)
  /\ \A file \in TestFiles : file # Nothing => file \in Seq(Examples)
BY DeployAssumption, Instances
   DEF E!ScenarioAssumption, E!IsSequence, Prompts, Talks, Faults, Examples

(* The scenarios still to run are the last ones of all.                    *)
Remains(all) ==
  /\ Len(todo) \in Nat /\ Len(todo) <= Len(all)
  /\ \A i \in 1..Len(todo) : todo[i] = all[Len(all) - Len(todo) + i]

LEMMA RemainsAll == ASSUME NEW T, NEW all \in Seq(T), todo' = all
                    PROVE  Remains(all)' /\ todo' \in Seq(T) /\ Len(all) - Len(todo') = 0
BY DEF Remains

LEMMA RemainsTail ==
  ASSUME NEW T, NEW all \in Seq(T), todo \in Seq(T), Remains(all), todo # << >>,
         todo' = Tail(todo), NEW n, n = Len(all) - Len(todo)
  PROVE  /\ n \in Nat /\ n + 1 \in 1..Len(all) /\ Head(todo) = all[n + 1] /\ Head(todo) \in T
         /\ todo' \in Seq(T) /\ Len(all) - Len(todo') = n + 1 /\ Len(todo') = Len(todo) - 1
         /\ Remains(all)'
PROOF
<1>1. Len(all) \in Nat /\ Len(todo) \in Nat \ {0} /\ Len(todo) <= Len(all) /\ 1 \in 1..Len(todo)
  BY DEF Remains
<1>2. todo' \in Seq(T) /\ Len(todo') = Len(todo) - 1
      /\ \A i \in 1..(Len(todo) - 1) : todo'[i] = todo[i + 1]
  BY <1>1
<1>3. Head(todo) = todo[1] /\ todo[1] \in T
  BY <1>1
<1>4. todo[1] = all[n + 1]
  BY <1>1 DEF Remains
<1>5. ASSUME NEW i \in 1..Len(todo') PROVE todo'[i] = all[Len(all) - Len(todo') + i]
  <2>1. i + 1 \in 1..Len(todo) /\ Len(all) - Len(todo') + i = Len(all) - Len(todo) + (i + 1)
    BY <1>1, <1>2
  <2>2. todo'[i] = todo[i + 1]
    BY <1>1, <1>2
  <2>3. todo[i + 1] = all[Len(all) - Len(todo) + (i + 1)]
    BY <2>1 DEF Remains
  <2> QED BY <2>1, <2>2, <2>3
<1>6. Remains(all)'
  BY <1>1, <1>2, <1>5 DEF Remains
<1> QED BY <1>1, <1>2, <1>3, <1>4, <1>6

LEMMA ListShrinks ==
  ASSUME NEW T, NEW list \in Seq(T), list # << >>
  PROVE  Tail(list) \in Seq(T) /\ Len(list) \in Nat /\ Len(Tail(list)) = Len(list) - 1
OBVIOUS

(* Scores only grow, each by the points of its own field.                  *)
Fields == {"format", "lenient", "strict", "exact", "substring", "semantic", "samples",
           "found", "lines", "parseable", "correct"}

LEMMA AddedScores ==
  ASSUME scores \in [Fields -> Nat], NEW points, \A f \in DOMAIN points : points[f] \in Nat,
         NEW sum, sum = E!Add(points)
  PROVE  /\ sum \in [Fields -> Nat]
         /\ \A f \in Fields : sum[f] = scores[f] + (IF f \in DOMAIN points THEN points[f] ELSE 0)
         /\ \A f \in Fields \ DOMAIN points : sum[f] = scores[f]
BY DEF E!Add

LEMMA OneIs == \A c : E!One(c) \in {0, 1} /\ (E!One(c) = 1 <=> c) /\ (E!One(c) = 0 <=> ~c)
BY DEF E!One

-----------------------------------------------------------------------------
(* Benchmark: the invariant, part by part of what is scored: the points so *)
(* far and the scenarios still to run are no more than the part has.       *)

BenchTypes ==
  /\ part \in {"start", "raised", "tools", "bash", "dialogues", "format", "logs", "save", "done"}
  /\ test # Nothing => test \in Seq(Examples)
  /\ scores \in [Fields -> Nat]
  /\ part # "dialogues" => context = << >>
  /\ report # Nothing => part = "done" /\ report.scores = scores

Called ==
  /\ scores.strict <= scores.lenient /\ scores.lenient <= scores.format
  /\ scores.format <= Len(ToolCallPrompts)
  /\ part = "start" => scores.format = 0
  /\ part = "tools" => todo \in Seq(Prompts) /\ scores.format + Len(todo) <= Len(ToolCallPrompts)

BashPlaces == {k \in DOMAIN test : test[k].bash}

Averaged ==
  /\ scores.exact <= scores.substring
  /\ scores.substring <= scores.samples /\ scores.semantic <= scores.samples
  /\ part \in {"start", "tools"} \/ test = Nothing => scores.samples = 0
  /\ part = "bash" => /\ test # Nothing /\ todo \in Seq(Examples)
                      /\ scores.substring + Len(todo) <= scores.samples
                      /\ scores.semantic + Len(todo) <= scores.samples
  /\ part \in {"bash", "dialogues", "format", "logs", "save", "done"} /\ test # Nothing =>
       /\ 0 < scores.samples /\ scores.samples <= MaxLines
       /\ scores.samples <= Cardinality(BashPlaces)

Parsed ==
  /\ scores.parseable <= scores.lines
  /\ part \in {"start", "tools", "bash", "dialogues"} \/ test = Nothing => scores.lines = 0
  /\ part = "format" => /\ test # Nothing /\ todo \in Seq(Examples)
                        /\ scores.parseable + Len(todo) <= scores.lines
  /\ part \in {"format", "logs", "save", "done"} /\ test # Nothing =>
       scores.lines = Len(E!Prefix(test, MaxLines))

Most == [k \in DOMAIN Dialogues |-> Len(Dialogues[k].turns) * Cardinality(Dialogues[k].keywords)]

\* After n dialogues and some turns of the next
AtMost(n, turns) ==
  IF turns = 0 THEN scores.found <= SumUpTo(Most)[n]
  ELSE scores.found <= SumUpTo(Most)[n] + turns * Cardinality(Dialogues[n + 1].keywords)

Sought ==
  /\ part \in {"start", "tools", "bash"} => scores.found = 0
  /\ part = "dialogues" =>
       /\ todo \in Seq(Talks) /\ Remains(Dialogues)
       /\ AtMost(Len(Dialogues) - Len(todo), Len(context) \div 2)
  /\ part \in {"format", "logs", "save", "done"} => AtMost(Len(Dialogues), 0)

\* Two entries for each turn that is over, and another turn to come.
History ==
  context # << >> =>
    /\ part = "dialogues" /\ todo # << >> /\ IsSequence(context)
    /\ Len(context) = 2 * (Len(context) \div 2)
    /\ Len(context) \div 2 < Len(Head(todo).turns)

Diagnosed ==
  /\ scores.correct <= Len(FaultLogs)
  /\ part \in {"start", "tools", "bash", "dialogues", "format"} => scores.correct = 0
  /\ part = "logs" => todo \in Seq(Faults) /\ scores.correct + Len(todo) <= Len(FaultLogs)

BenchInv == BenchTypes /\ Called /\ Averaged /\ Parsed /\ Sought /\ History /\ Diagnosed

LEMMA BenchStarts == E!Init => BenchInv
PROOF
<1> SUFFICES ASSUME E!Init PROVE BenchInv
  OBVIOUS
<1>1. scores \in [Fields -> Nat] /\ \A f \in Fields : scores[f] = 0
  BY DEF E!Init, E!Zero, Fields
<1>2. scores.strict = 0 /\ scores.lenient = 0 /\ scores.format = 0 /\ scores.exact = 0
      /\ scores.substring = 0 /\ scores.samples = 0 /\ scores.semantic = 0 /\ scores.lines = 0
      /\ scores.parseable = 0 /\ scores.found = 0 /\ scores.correct = 0
  BY DEF E!Init, E!Zero
<1>3. part = "start" /\ test = Nothing /\ context = << >> /\ report = Nothing
  BY DEF E!Init
<1>4. BenchTypes
  BY <1>1, <1>3 DEF BenchTypes
<1>5. Len(ToolCallPrompts) \in Nat /\ Len(FaultLogs) \in Nat
  BY Scenarios
<1>6. Called /\ Averaged /\ Parsed /\ Sought /\ Diagnosed
  BY <1>2, <1>3, <1>5 DEF Called, Averaged, Parsed, Sought, Diagnosed
<1>7. History
  BY <1>3 DEF History
<1> QED BY <1>4, <1>6, <1>7 DEF BenchInv

(* What a step that is not of a part leaves of that part's scores.         *)
LEMMA PartsKept ==
  ASSUME BenchInv, test' = test, part' = part
  PROVE  /\ part # "tools" /\ (\A f \in {"format", "lenient", "strict"} : scores'[f] = scores[f])
              => Called'
         /\ part # "bash" /\ (\A f \in {"exact", "substring", "semantic", "samples"} :
              scores'[f] = scores[f]) => Averaged'
         /\ part # "format" /\ (\A f \in {"lines", "parseable"} : scores'[f] = scores[f]) => Parsed'
         /\ part # "dialogues" /\ scores'.found = scores.found => Sought'
         /\ part # "logs" /\ scores'.correct = scores.correct => Diagnosed'
PROOF
<1>1. BashPlaces' = BashPlaces /\ E!Prefix(test, MaxLines)' = E!Prefix(test, MaxLines)
  BY DEF BashPlaces, E!Prefix
<1>2. ASSUME part # "tools", \A f \in {"format", "lenient", "strict"} : scores'[f] = scores[f]
      PROVE  Called'
  BY <1>2 DEF BenchInv, Called
<1>3. ASSUME part # "bash", \A f \in {"exact", "substring", "semantic", "samples"} :
                              scores'[f] = scores[f]
      PROVE  Averaged'
  BY <1>1, <1>3 DEF BenchInv, Averaged
<1>4. ASSUME part # "format", \A f \in {"lines", "parseable"} : scores'[f] = scores[f] PROVE Parsed'
  BY <1>1, <1>4 DEF BenchInv, Parsed
<1>5. ASSUME part # "dialogues", scores'.found = scores.found PROVE Sought'
  BY <1>5 DEF BenchInv, Sought, AtMost
<1>6. ASSUME part # "logs", scores'.correct = scores.correct PROVE Diagnosed'
  BY <1>6 DEF BenchInv, Diagnosed
<1> QED BY <1>2, <1>3, <1>4, <1>5, <1>6

(* What scoring a scenario leaves: the points added, the rest as it was.   *)
LEMMA ScoredAdds ==
  ASSUME BenchInv, NEW now, now # "dialogues", now # "done",
         NEW points, \A f \in DOMAIN points : points[f] \in Nat, E!Scored(now, points)
  PROVE  /\ part = now /\ part' = now /\ todo # << >> /\ todo' = Tail(todo) /\ test' = test
         /\ \A f \in Fields : scores[f] \in Nat
         /\ \A f \in DOMAIN points \cap Fields : scores'[f] = scores[f] + points[f]
         /\ \A f \in Fields \ DOMAIN points : scores'[f] = scores[f]
         /\ BenchTypes' /\ History'
PROOF
<1>1. scores \in [Fields -> Nat] /\ (part = now => context = << >>)
  BY DEF BenchInv, BenchTypes
<1>2. part = now /\ part' = now /\ todo # << >> /\ todo' = Tail(todo)
      /\ test' = test /\ context' = context /\ report' = report /\ scores' = E!Add(points)
  BY DEF E!Scored
<1>3. PICK sum : sum = E!Add(points)
  OBVIOUS
<1>4. /\ sum \in [Fields -> Nat]
      /\ \A f \in Fields : sum[f] = scores[f] + (IF f \in DOMAIN points THEN points[f] ELSE 0)
      /\ \A f \in Fields \ DOMAIN points : sum[f] = scores[f]
  BY <1>1, <1>2, <1>3, AddedScores
<1>5. BenchTypes'
  BY <1>2, <1>3, <1>4 DEF BenchInv, BenchTypes
<1>6. History'
  BY <1>1, <1>2 DEF History
<1>7. \A f \in Fields : scores[f] \in Nat
  BY <1>1, <1>2
<1> QED BY <1>2, <1>3, <1>4, <1>5, <1>6, <1>7

LEMMA ToolCallKeeps == ASSUME BenchInv, NEW output, E!ToolCall(output) PROVE BenchInv'
PROOF
<1> DEFINE points == E!ScoreToolCall(E!Decoded(Head(todo).prompt, output), Head(todo))
<1>1. E!Scored("tools", points)
  BY DEF E!ToolCall
<1>2. /\ DOMAIN points = {"format", "lenient", "strict"}
      /\ points.format \in {0, 1} /\ points.lenient \in {0, 1} /\ points.strict \in {0, 1}
      /\ points.strict <= points.lenient /\ points.lenient <= points.format
  BY DEF E!ScoreToolCall, E!One
<1> HIDE DEF points
<1>3. \A f \in DOMAIN points : points[f] \in Nat
  BY <1>2
<1>4. /\ part = "tools" /\ part' = "tools" /\ todo # << >> /\ todo' = Tail(todo) /\ test' = test
      /\ \A f \in Fields : scores[f] \in Nat
      /\ \A f \in DOMAIN points \cap Fields : scores'[f] = scores[f] + points[f]
      /\ \A f \in Fields \ DOMAIN points : scores'[f] = scores[f]
      /\ BenchTypes' /\ History'
  BY <1>1, <1>3, ScoredAdds
<1>5. /\ scores'.format = scores.format + points.format
      /\ scores'.lenient = scores.lenient + points.lenient
      /\ scores'.strict = scores.strict + points.strict
      /\ scores.format \in Nat /\ scores.lenient \in Nat /\ scores.strict \in Nat
      /\ \A f \in {"exact", "substring", "semantic", "samples", "lines", "parseable", "found",
                   "correct"} : scores'[f] = scores[f]
  BY <1>2, <1>4 DEF Fields
<1>6. /\ todo \in Seq(Prompts) /\ scores.format + Len(todo) <= Len(ToolCallPrompts)
      /\ scores.strict <= scores.lenient /\ scores.lenient <= scores.format
      /\ Len(ToolCallPrompts) \in Nat
  BY <1>4, Scenarios DEF BenchInv, Called
<1>7. Called'
  <2>1. todo' \in Seq(Prompts) /\ Len(todo) \in Nat /\ Len(todo') = Len(todo) - 1 /\ Len(todo') \in Nat
    BY <1>4, <1>6, ListShrinks
  <2> QED BY <1>2, <1>4, <1>5, <1>6, <2>1 DEF Called
<1>8. Averaged' /\ Parsed' /\ Sought' /\ Diagnosed'
  BY <1>4, <1>5, PartsKept
<1> QED BY <1>4, <1>7, <1>8 DEF BenchInv

LEMMA BashKeeps == ASSUME BenchInv, NEW output, E!Bash(output) PROVE BenchInv'
PROOF
<1> DEFINE text == E!Decoded(Head(todo).prompt, output)
           expected == Head(todo).response
           points == E!ScoreBash(text, expected)
<1>1. E!Scored("bash", points) /\ part = "bash" /\ todo # << >>
  BY DEF E!Bash
<1>2. /\ test # Nothing /\ todo \in Seq(Examples) /\ scores.samples > 0
      /\ scores.substring + Len(todo) <= scores.samples
      /\ scores.semantic + Len(todo) <= scores.samples /\ scores.exact <= scores.substring
      /\ scores.samples <= MaxLines /\ scores.samples <= Cardinality(BashPlaces)
  BY <1>1 DEF BenchInv, Averaged
<1>3. expected \in Seq(Words)
  <2>1. Head(todo) \in Examples
    BY <1>1, <1>2
  <2> QED BY <2>1 DEF Examples
<1>4. text = expected => E!Within(expected, text)
  <2> HIDE DEF text, expected
  <2>1. SubSeq(expected, 0 + 1, 0 + Len(expected)) = expected /\ 0 \in 0..(Len(expected) - Len(expected))
    BY <1>3
  <2> QED BY <2>1 DEF E!Within
<1>5. /\ DOMAIN points = {"exact", "substring", "semantic"}
      /\ points.exact \in {0, 1} /\ points.substring \in {0, 1} /\ points.semantic \in {0, 1}
      /\ points.exact <= points.substring
  <2> HIDE DEF text, expected
  <2> QED BY <1>4 DEF E!ScoreBash, E!One
<1> HIDE DEF points
<1>6. \A f \in DOMAIN points : points[f] \in Nat
  BY <1>5
<1>7. /\ part' = "bash" /\ todo' = Tail(todo) /\ test' = test
      /\ \A f \in Fields : scores[f] \in Nat
      /\ \A f \in DOMAIN points \cap Fields : scores'[f] = scores[f] + points[f]
      /\ \A f \in Fields \ DOMAIN points : scores'[f] = scores[f]
      /\ BenchTypes' /\ History'
  BY <1>1, <1>6, ScoredAdds
<1>8. /\ scores'.exact = scores.exact + points.exact
      /\ scores'.substring = scores.substring + points.substring
      /\ scores'.semantic = scores.semantic + points.semantic
      /\ scores'.samples = scores.samples /\ scores.samples \in Nat
      /\ scores.exact \in Nat /\ scores.substring \in Nat /\ scores.semantic \in Nat
      /\ \A f \in {"format", "lenient", "strict", "lines", "parseable", "found", "correct"} :
           scores'[f] = scores[f]
  BY <1>5, <1>7 DEF Fields
<1>9. Averaged'
  <2>1. todo' \in Seq(Examples) /\ Len(todo') = Len(todo) - 1 /\ Len(todo) \in Nat /\ Len(todo') \in Nat
    BY <1>1, <1>2, <1>7, ListShrinks
  <2>2. /\ scores'.exact <= scores'.substring
        /\ scores'.substring + Len(todo') <= scores'.samples
        /\ scores'.semantic + Len(todo') <= scores'.samples
        /\ scores'.substring <= scores'.samples /\ scores'.semantic <= scores'.samples
    BY <1>2, <1>5, <1>8, <2>1
  <2>3. BashPlaces' = BashPlaces
    BY <1>7 DEF BashPlaces
  <2> QED BY <1>2, <1>7, <1>8, <2>1, <2>2, <2>3 DEF Averaged
<1>10. Called' /\ Parsed' /\ Sought' /\ Diagnosed'
  BY <1>1, <1>7, <1>8, PartsKept
<1> QED BY <1>7, <1>9, <1>10 DEF BenchInv

LEMMA FormatKeeps == ASSUME BenchInv, NEW output, E!Format(output) PROVE BenchInv'
PROOF
<1> DEFINE parses == E!One(E!Parseable(E!Decoded(Head(todo).prompt, output)))
           points == [parseable |-> parses]
<1>1. E!Scored("format", points)
  BY DEF E!Format
<1>2. parses \in {0, 1} /\ DOMAIN points = {"parseable"} /\ points.parseable = parses
  BY OneIs
<1> HIDE DEF points, parses
<1>0. \A f \in DOMAIN points : points[f] \in Nat
  BY <1>2
<1>3. /\ part = "format" /\ part' = "format" /\ todo # << >> /\ todo' = Tail(todo) /\ test' = test
      /\ \A f \in Fields : scores[f] \in Nat
      /\ \A f \in DOMAIN points \cap Fields : scores'[f] = scores[f] + points[f]
      /\ \A f \in Fields \ DOMAIN points : scores'[f] = scores[f]
      /\ BenchTypes' /\ History'
  BY <1>0, <1>1, ScoredAdds
<1>4. /\ scores'.parseable = scores.parseable + parses /\ scores'.lines = scores.lines
      /\ scores.parseable \in Nat /\ scores.lines \in Nat
      /\ \A f \in {"format", "lenient", "strict", "exact", "substring", "semantic", "samples",
                   "found", "correct"} : scores'[f] = scores[f]
  BY <1>2, <1>3 DEF Fields
<1>5. /\ test # Nothing /\ todo \in Seq(Examples) /\ scores.parseable + Len(todo) <= scores.lines
      /\ scores.lines = Len(E!Prefix(test, MaxLines))
  BY <1>3 DEF BenchInv, Parsed
<1>6. Parsed'
  <2>1. todo' \in Seq(Examples) /\ Len(todo') = Len(todo) - 1 /\ Len(todo) \in Nat /\ Len(todo') \in Nat
    BY <1>3, <1>5, ListShrinks
  <2>2. E!Prefix(test, MaxLines)' = E!Prefix(test, MaxLines)
    BY <1>3 DEF E!Prefix
  <2>3. scores'.parseable + Len(todo') <= scores'.lines /\ scores'.parseable <= scores'.lines
    BY <1>2, <1>4, <1>5, <2>1
  <2> QED BY <1>3, <1>4, <1>5, <2>1, <2>2, <2>3 DEF Parsed
<1>7. Called' /\ Averaged' /\ Sought' /\ Diagnosed'
  BY <1>3, <1>4, PartsKept
<1> QED BY <1>3, <1>6, <1>7 DEF BenchInv

LEMMA DiagnosisKeeps == ASSUME BenchInv, NEW output, E!Diagnosis(output) PROVE BenchInv'
PROOF
<1> DEFINE named == E!One(E!Correct(E!Decoded(E!Question(Head(todo)), output), Head(todo)))
           points == [correct |-> named]
<1>1. E!Scored("logs", points)
  BY DEF E!Diagnosis
<1>2. named \in {0, 1} /\ DOMAIN points = {"correct"} /\ points.correct = named
  BY OneIs
<1> HIDE DEF points, named
<1>0. \A f \in DOMAIN points : points[f] \in Nat
  BY <1>2
<1>3. /\ part = "logs" /\ part' = "logs" /\ todo # << >> /\ todo' = Tail(todo) /\ test' = test
      /\ \A f \in Fields : scores[f] \in Nat
      /\ \A f \in DOMAIN points \cap Fields : scores'[f] = scores[f] + points[f]
      /\ \A f \in Fields \ DOMAIN points : scores'[f] = scores[f]
      /\ BenchTypes' /\ History'
  BY <1>0, <1>1, ScoredAdds
<1>4. /\ scores'.correct = scores.correct + named /\ scores.correct \in Nat
      /\ \A f \in {"format", "lenient", "strict", "exact", "substring", "semantic", "samples",
                   "lines", "parseable", "found"} : scores'[f] = scores[f]
  BY <1>2, <1>3 DEF Fields
<1>5. todo \in Seq(Faults) /\ scores.correct + Len(todo) <= Len(FaultLogs) /\ Len(FaultLogs) \in Nat
  BY <1>3, Scenarios DEF BenchInv, Diagnosed
<1>6. Diagnosed'
  <2>1. todo' \in Seq(Faults) /\ Len(todo') = Len(todo) - 1 /\ Len(todo) \in Nat /\ Len(todo') \in Nat
    BY <1>3, <1>5, ListShrinks
  <2>2. scores'.correct + Len(todo') <= Len(FaultLogs) /\ scores'.correct <= Len(FaultLogs)
    BY <1>2, <1>4, <1>5, <2>1
  <2> QED BY <1>3, <2>1, <2>2 DEF Diagnosed
<1>7. Called' /\ Averaged' /\ Parsed' /\ Sought'
  BY <1>3, <1>4, PartsKept
<1> QED BY <1>3, <1>6, <1>7 DEF BenchInv

(* What the dialogues have at most, and the totals so far.                 *)
LEMMA Tallies ==
  /\ Len(Dialogues) \in Nat /\ Most \in Seq(Nat) /\ Len(Most) = Len(Dialogues)
  /\ \A k \in 1..Len(Dialogues) :
       /\ Len(Dialogues[k].turns) \in Nat \ {0} /\ IsFiniteSet(Dialogues[k].keywords)
       /\ Cardinality(Dialogues[k].keywords) \in Nat
       /\ Most[k] = Len(Dialogues[k].turns) * Cardinality(Dialogues[k].keywords)
PROOF
<1>1. Dialogues \in Seq(Talks) /\ Len(Dialogues) \in Nat /\ DOMAIN Dialogues = 1..Len(Dialogues)
  BY Scenarios
<1>2. ASSUME NEW k \in 1..Len(Dialogues)
      PROVE  /\ Len(Dialogues[k].turns) \in Nat \ {0} /\ IsFiniteSet(Dialogues[k].keywords)
             /\ Cardinality(Dialogues[k].keywords) \in Nat
  <2>1. Dialogues[k] \in Talks
    BY <1>1
  <2>2. Dialogues[k].turns \in Seq(Seq(Words)) /\ Dialogues[k].turns # << >>
    BY <2>1 DEF Talks
  <2>3. IsFiniteSet(Dialogues[k].keywords)
    BY <1>1, Scenarios
  <2> QED BY <2>2, <2>3, FS_CardinalityType
<1>3. Most = [k \in 1..Len(Dialogues) |->
                Len(Dialogues[k].turns) * Cardinality(Dialogues[k].keywords)]
  BY <1>1 DEF Most
<1>4. \A k \in 1..Len(Dialogues) :
        Len(Dialogues[k].turns) * Cardinality(Dialogues[k].keywords) \in Nat
  <2> TAKE k \in 1..Len(Dialogues)
  <2> DEFINE a == Len(Dialogues[k].turns)
             b == Cardinality(Dialogues[k].keywords)
  <2>1. a \in Nat /\ b \in Nat
    BY <1>2
  <2> HIDE DEF a, b
  <2>2. a * b \in Nat
    BY <2>1
  <2> QED BY <2>2 DEF a, b
<1>5. Most \in [1..Len(Dialogues) -> Nat]
  BY <1>3, <1>4
<1>6. Most \in Seq(Nat) /\ Len(Most) = Len(Dialogues)
  BY ONLY <1>1, <1>5
<1> QED BY <1>1, <1>2, <1>3, <1>6

LEMMA AtMostNext ==
  ASSUME NEW n \in Nat, n + 1 \in 1..Len(Dialogues), NEW d, d = Dialogues[n + 1], NEW h \in Nat,
         AtMost(n, h), NEW gain \in Nat, gain <= Cardinality(d.keywords),
         scores.found \in Nat, scores'.found = scores.found + gain
  PROVE  /\ AtMost(n, h + 1)'
         /\ h + 1 = Len(d.turns) => AtMost(n + 1, 0)'
PROOF
<1>1. PICK high : high = SumUpTo(Most)[n]
  OBVIOUS
<1>2. PICK m : m = Cardinality(d.keywords)
  OBVIOUS
<1>3. m \in Nat /\ high \in Nat /\ SumUpTo(Most)[n + 1] = high + Len(d.turns) * m
  <2>1. /\ Most \in Seq(Nat) /\ Len(Most) = Len(Dialogues) /\ Len(Dialogues) \in Nat
        /\ Most[n + 1] = Len(d.turns) * m /\ m \in Nat
    BY <1>2, Tallies
  <2>2. n \in 0..Len(Dialogues) /\ (n + 1) - 1 = n
    BY <2>1
  <2>3. SumUpTo(Most)[n] \in Nat /\ SumUpTo(Most)[n + 1] = SumUpTo(Most)[n] + Most[n + 1]
    BY <2>1, <2>2, SumSteps
  <2> QED BY <1>1, <2>1, <2>3
<1>4. scores.found <= high + h * m
  <2>1. CASE h = 0
    <3>1. scores.found <= high
      BY <1>1, <2>1 DEF AtMost
    <3>2. 0 * m = 0
      BY ONLY <1>3
    <3>3. scores.found <= high + 0 * m
      BY ONLY <1>3, <3>1, <3>2
    <3> QED BY ONLY <2>1, <3>3
  <2>2. CASE h # 0
    BY <1>1, <1>2, <2>2 DEF AtMost
  <2> QED BY <2>1, <2>2
<1>5. (h + 1) * m = h * m + m /\ h * m \in Nat
  BY <1>3
<1>6. PICK y : y = h * m
  OBVIOUS
<1>7. PICK y1 : y1 = (h + 1) * m
  OBVIOUS
<1>8. /\ y1 = y + m /\ y \in Nat /\ scores.found <= high + y
      /\ scores'.found = scores.found + gain /\ gain <= m
  BY <1>2, <1>4, <1>5, <1>6, <1>7
<1>9. scores'.found <= high + y1
  BY ONLY <1>3, <1>8, gain \in Nat, scores.found \in Nat
<1>10. AtMost(n, h + 1)'
  BY <1>1, <1>2, <1>7, <1>9 DEF AtMost
<1>11. ASSUME h + 1 = Len(d.turns) PROVE AtMost(n + 1, 0)'
  <2>1. SumUpTo(Most)[n + 1] = high + y1
    BY <1>3, <1>7, <1>11
  <2> QED BY <1>9, <2>1 DEF AtMost
<1> QED BY <1>10, <1>11

(* Two entries more of a dialogue that goes on.                            *)
LEMMA ToldIs ==
  ASSUME IsSequence(context), NEW asked, NEW answer, NEW told,
         told = Append(Append(context, asked), answer)
  PROVE  IsSequence(told) /\ Len(context) \in Nat /\ Len(told) = Len(context) + 2
PROOF
<1> DEFINE T == {context[i] : i \in DOMAIN context} \cup {asked, answer}
           U == {told[i] : i \in DOMAIN told}
<1>1. context \in Seq({context[i] : i \in DOMAIN context})
  BY DEF IsSequence
<1>2. context \in Seq(T)
  <2>1. {context[i] : i \in DOMAIN context} \subseteq T
    OBVIOUS
  <2> HIDE DEF T
  <2>2. Len(context) \in Nat /\ context = [i \in 1..Len(context) |-> context[i]]
        /\ \A i \in 1..Len(context) : context[i] \in T
    BY <1>1, <2>1
  <2> QED BY ONLY <2>2
<1>3. asked \in T /\ answer \in T
  OBVIOUS
<1> HIDE DEF T
<1>4. told \in Seq(T) /\ Len(told) = Len(context) + 2 /\ Len(context) \in Nat
  BY ONLY <1>2, <1>3, told = Append(Append(context, asked), answer)
<1>5. Len(told) \in Nat /\ told = [i \in 1..Len(told) |-> told[i]] /\ DOMAIN told = 1..Len(told)
  BY ONLY <1>4
<1>6. \A i \in 1..Len(told) : told[i] \in U
  BY <1>5
<1> HIDE DEF U
<1>7. told \in Seq(U)
  BY ONLY <1>5, <1>6
<1> QED BY <1>4, <1>7 DEF U, IsSequence

LEMMA TurnKeeps == ASSUME BenchInv, NEW output, E!Turn(output) PROVE BenchInv'
PROOF
<1>1. part = "dialogues" /\ todo # << >>
  BY DEF E!Turn
<1>2. /\ scores \in [Fields -> Nat] /\ todo \in Seq(Talks) /\ Remains(Dialogues)
      /\ Dialogues \in Seq(Talks) /\ AtMost(Len(Dialogues) - Len(todo), Len(context) \div 2)
  BY <1>1, Scenarios DEF BenchInv, BenchTypes, Sought
<1>3. PICK n : n = Len(Dialogues) - Len(todo)
  OBVIOUS
<1>4. PICK d : d = Dialogues[n + 1]
  OBVIOUS
<1>5. /\ n \in Nat /\ n + 1 \in 1..Len(Dialogues) /\ Head(todo) = d
      /\ Tail(todo) \in Seq(Talks)
  <2>1. Len(Dialogues) \in Nat /\ Len(todo) \in Nat \ {0} /\ Len(todo) <= Len(Dialogues)
        /\ 1 \in 1..Len(todo)
    BY <1>1, <1>2 DEF Remains
  <2>2. todo[1] = d
    BY <1>2, <1>3, <1>4, <2>1 DEF Remains
  <2> QED BY <1>1, <1>2, <1>3, <2>1, <2>2
<1>6. PICK h : h = Len(context) \div 2
  OBVIOUS
<1>7. /\ IsSequence(context) /\ Len(context) = 2 * h /\ h < Len(d.turns) /\ h \in Nat
      /\ Len(d.turns) \in Nat /\ Len(context) \in Nat
      /\ IsFiniteSet(d.keywords) /\ Cardinality(d.keywords) \in Nat
  <2>1. Len(d.turns) \in Nat \ {0} /\ IsFiniteSet(d.keywords) /\ Cardinality(d.keywords) \in Nat
    BY <1>4, <1>5, Tallies
  <2>2. CASE context = << >>
    <3>1. IsSequence(context)
      BY <2>2 DEF IsSequence
    <3>2. Len(context) = 0 /\ h = 0
      BY <1>6, <2>2
    <3> QED BY <2>1, <3>1, <3>2
  <2>3. CASE context # << >>
    <3>1. IsSequence(context) /\ Len(context) = 2 * h /\ h < Len(d.turns)
      BY <1>5, <1>6, <2>3 DEF BenchInv, History
    <3>2. Len(context) \in Nat
      <4>1. context \in Seq({context[i] : i \in DOMAIN context})
        BY <3>1 DEF IsSequence
      <4> QED BY ONLY <4>1
    <3>3. h \in Nat
      <4>1. Len(context) \div 2 \in Nat
        BY ONLY <3>2
      <4> QED BY <1>6, <4>1
    <3> QED BY <2>1, <3>1, <3>2, <3>3
  <2> QED BY <2>2, <2>3
<1> DEFINE asked == <<"user">> \o d.turns[h + 1]
           text == E!Decoded(E!FlattenSeq(context) \o asked, output)
           answer == <<"assistant">> \o E!Prefix(text, Remembered)
           told == Append(Append(context, asked), answer)
           gain == Cardinality(d.keywords \cap Range(text))
<1>8. /\ scores' = E!Add([found |-> gain])
      /\ context' = IF Len(told) = 2 * Len(d.turns) THEN << >> ELSE told
      /\ todo' = IF Len(told) = 2 * Len(d.turns) THEN Tail(todo) ELSE todo
      /\ part' = part /\ test' = test /\ report' = report
  BY <1>5, <1>6, Instances DEF E!Turn
<1>9. gain \in Nat /\ gain <= Cardinality(d.keywords)
  <2> DEFINE B == d.keywords \cap Range(text)
  <2>1. B \subseteq d.keywords /\ IsFiniteSet(d.keywords)
    BY <1>7
  <2> HIDE DEF B
  <2>2. IsFiniteSet(B) /\ Cardinality(B) <= Cardinality(d.keywords)
    BY <2>1, FS_Subset
  <2> QED BY <2>2, FS_CardinalityType DEF B
<1>10. IsSequence(told) /\ Len(told) = 2 * h + 2
  <2> HIDE DEF asked, answer
  <2> QED BY <1>7, ToldIs
<1> HIDE DEF told, gain
<1>11. /\ scores' \in [Fields -> Nat] /\ scores'.found = scores.found + gain
       /\ scores.found \in Nat /\ \A f \in Fields \ {"found"} : scores'[f] = scores[f]
  <2>1. PICK points : points = [found |-> gain]
    OBVIOUS
  <2>2. PICK sum : sum = E!Add(points)
    OBVIOUS
  <2>3. DOMAIN points = {"found"} /\ points.found = gain
    BY <2>1
  <2>4. \A f \in DOMAIN points : points[f] \in Nat
    BY <1>9, <2>3
  <2>5. /\ sum \in [Fields -> Nat]
        /\ \A f \in Fields : sum[f] = scores[f] + (IF f \in DOMAIN points THEN points[f] ELSE 0)
        /\ \A f \in Fields \ DOMAIN points : sum[f] = scores[f]
    BY <1>2, <2>2, <2>4, AddedScores
  <2>6. scores' = sum
    BY <1>8, <2>1, <2>2
  <2>7. sum.found = scores.found + gain /\ scores.found \in Nat
    BY <1>2, <2>3, <2>5 DEF Fields
  <2> QED BY <2>3, <2>5, <2>6, <2>7
<1>12. AtMost(n, h + 1)' /\ (h + 1 = Len(d.turns) => AtMost(n + 1, 0)')
  <2>1. AtMost(n, h)
    BY <1>2, <1>3, <1>6
  <2> QED BY <1>4, <1>5, <1>7, <1>9, <1>11, <2>1, AtMostNext
<1>13. BenchTypes'
  BY <1>1, <1>8, <1>11 DEF BenchInv, BenchTypes
<1>14. Called' /\ Averaged' /\ Parsed' /\ Diagnosed'
  <2>1. \A f \in {"format", "lenient", "strict", "exact", "substring", "semantic", "samples",
                  "lines", "parseable", "correct"} : scores'[f] = scores[f]
    BY <1>11 DEF Fields
  <2> QED BY <1>1, <1>8, <2>1, PartsKept
<1>15. CASE h + 1 = Len(d.turns)
  <2>1. Len(told) = 2 * Len(d.turns)
    BY ONLY <1>7, <1>10, <1>15
  <2>2. context' = << >> /\ todo' = Tail(todo)
    BY ONLY <1>8, <2>1
  <2>3. History'
    BY <2>2 DEF History
  <2>4. todo' \in Seq(Talks) /\ Len(Dialogues) - Len(todo') = n + 1 /\ Remains(Dialogues)'
    BY <1>1, <1>2, <1>3, <2>2, RemainsTail
  <2>5. Len(context') \div 2 = 0
    BY <2>2
  <2>6. Sought'
    BY <1>1, <1>8, <1>12, <1>15, <2>4, <2>5 DEF Sought, AtMost
  <2> QED BY <1>13, <1>14, <2>3, <2>6 DEF BenchInv
<1>16. CASE h + 1 # Len(d.turns)
  <2>1. Len(told) # 2 * Len(d.turns) /\ h + 1 < Len(d.turns) /\ Len(told) = 2 * (h + 1)
        /\ Len(told) \div 2 = h + 1
    BY ONLY <1>7, <1>10, <1>16
  <2>2. context' = told /\ todo' = todo
    BY ONLY <1>8, <2>1
  <2>3. Sought'
    <3>1. Remains(Dialogues)'
      BY <1>2, <2>2 DEF Remains
    <3>2. Len(Dialogues) - Len(todo') = n /\ Len(context') \div 2 = h + 1 /\ todo' \in Seq(Talks)
      BY <1>2, <1>3, <2>1, <2>2
    <3> QED BY <1>1, <1>8, <1>12, <3>1, <3>2 DEF Sought, AtMost
  <2>4. IsSequence(context)'
    BY <1>10, <2>2 DEF IsSequence
  <2>5. History'
    BY <1>1, <1>5, <1>8, <2>1, <2>2, <2>4 DEF History
  <2> QED BY <1>13, <1>14, <2>3, <2>5 DEF BenchInv
<1> QED BY <1>15, <1>16

LEMMA StartKeeps == ASSUME BenchInv, E!Start PROVE BenchInv'
PROOF
<1>1. /\ part = "start" /\ part' \in {"raised", "tools"} /\ test' \in TestFiles
      /\ part' = "tools" => todo' = ToolCallPrompts
      /\ context' = context /\ scores' = scores /\ report' = report
  BY DEF E!Start
<1>2. BenchTypes'
  <2>1. test' # Nothing => test' \in Seq(Examples)
    BY <1>1, Scenarios
  <2> QED BY <1>1, <2>1 DEF BenchInv, BenchTypes
<1>3. /\ scores.format = 0 /\ scores.samples = 0 /\ scores.lines = 0
      /\ scores.found = 0 /\ scores.correct = 0
  BY <1>1 DEF BenchInv, Called, Averaged, Parsed, Sought, Diagnosed
<1>4. Called'
  <2>1. Len(ToolCallPrompts) \in Nat /\ ToolCallPrompts \in Seq(Prompts)
    BY Scenarios
  <2> QED BY <1>1, <1>3, <2>1 DEF BenchInv, Called
<1>5. Averaged' /\ Parsed'
  BY <1>1, <1>3 DEF BenchInv, Averaged, Parsed
<1>6. Sought' /\ Diagnosed'
  BY <1>1, <1>3 DEF BenchInv, Sought, Diagnosed
<1>7. History'
  <2>1. context' = << >>
    BY <1>1 DEF BenchInv, BenchTypes
  <2> QED BY <2>1 DEF History
<1> QED BY <1>2, <1>4, <1>5, <1>6, <1>7 DEF BenchInv

LEMMA SaveKeeps == ASSUME BenchInv, E!Save PROVE BenchInv'
PROOF
<1>1. /\ part = "save" /\ part' \in {"raised", "done"} /\ test' = test
      /\ context' = context /\ scores' = scores
      /\ IF part' = "done" THEN report'.scores = scores ELSE report' = report
  BY DEF E!Save
<1>2. BenchTypes'
  BY <1>1 DEF BenchInv, BenchTypes
<1>3. Called' /\ Diagnosed'
  BY <1>1 DEF BenchInv, Called, Diagnosed
<1>4. Averaged' /\ Parsed'
  <2>1. BashPlaces' = BashPlaces /\ E!Prefix(test, MaxLines)' = E!Prefix(test, MaxLines)
    BY <1>1 DEF BashPlaces, E!Prefix
  <2> QED BY <1>1, <2>1 DEF BenchInv, Averaged, Parsed
<1>5. Sought'
  BY <1>1 DEF BenchInv, Sought, AtMost
<1>6. History'
  <2>1. context' = << >>
    BY <1>1 DEF BenchInv, BenchTypes
  <2> QED BY <2>1 DEF History
<1> QED BY <1>2, <1>3, <1>4, <1>5, <1>6 DEF BenchInv

LEMMA LineRaisesKeeps == ASSUME BenchInv, E!LineRaises PROVE BenchInv'
PROOF
<1>1. /\ part = "tools" /\ part' = "raised" /\ test' = test /\ context' = context
      /\ scores' = scores /\ report' = report
  BY DEF E!LineRaises
<1>2. BenchTypes' /\ Called' /\ Diagnosed'
  BY <1>1 DEF BenchInv, BenchTypes, Called, Diagnosed
<1>3. Averaged' /\ Parsed' /\ Sought'
  BY <1>1 DEF BenchInv, Averaged, Parsed, Sought
<1>4. History'
  <2>1. context' = << >>
    BY <1>1 DEF BenchInv, BenchTypes
  <2> QED BY <2>1 DEF History
<1> QED BY <1>2, <1>3, <1>4 DEF BenchInv

(* The lines averaged are different bash lines of the file.                *)
LEMMA SampledLines ==
  ASSUME test \in Seq(Examples), NEW lines \in E!Samples(E!BashLines)
  PROVE  /\ lines \in Seq(Examples) /\ Len(lines) \in Nat
         /\ Len(lines) <= Cardinality(BashPlaces) /\ Len(lines) <= MaxLines
PROOF
<1>1. PICK all : all = E!BashLines
  OBVIOUS
<1>2. all = Picked(test, BashPlaces)
  BY <1>1, Instances DEF E!BashLines, BashPlaces
<1>3. all \in Seq(Examples) /\ \E e : Embeds(e, all, test, BashPlaces)
  BY <1>2, PickedEmbeds
<1>4. PICK e : Embeds(e, all, test, BashPlaces)
  BY <1>3
<1>5. Len(all) \in Nat /\ Len(test) \in Nat
  BY <1>3
<1>6. IsFiniteSet(BashPlaces) /\ Cardinality(BashPlaces) \in Nat
  <2>1. BashPlaces \subseteq 1..Len(test)
    BY <1>5 DEF BashPlaces
  <2>2. IsFiniteSet(1..Len(test))
    BY <1>5, FS_Interval
  <2>3. IsFiniteSet(BashPlaces)
    BY <2>1, <2>2, FS_Subset
  <2> QED BY <2>3, FS_CardinalityType
<1>7. Len(all) <= Cardinality(BashPlaces)
  <2> DEFINE places == BashPlaces
             D == 1..Len(all)
  <2>1. e \in [D -> places]
    BY <1>4 DEF Embeds
  <2>2. \A j, k \in D : e[j] = e[k] => j = k
    <3> SUFFICES ASSUME NEW j \in D, NEW k \in D, e[j] = e[k], j # k PROVE FALSE
      OBVIOUS
    <3>1. j < k \/ k < j
      BY <1>5
    <3>2. e[j] < e[k] \/ e[k] < e[j]
      BY <1>4, <3>1 DEF Embeds
    <3>3. e[j] \in Nat /\ e[k] \in Nat
      BY <1>4, <1>5 DEF Embeds
    <3> QED BY <3>2, <3>3
  <2>3. Cardinality(D) = Len(all)
    <3>1. 1 \in Int /\ Len(all) \in Int
      BY <1>5
    <3>2. Cardinality(1..Len(all)) = IF 1 > Len(all) THEN 0 ELSE Len(all) - 1 + 1
      BY <3>1, FS_Interval
    <3> QED BY <1>5, <3>2
  <2> HIDE DEF D, places
  <2>4. e \in Injection(D, places)
    BY <2>1, <2>2 DEF Injection, IsInjective
  <2>5. IsFiniteSet(places)
    BY <1>6 DEF places
  <2>6. Cardinality(D) <= Cardinality(places)
    BY <2>4, <2>5, FS_Injection
  <2> QED BY <2>3, <2>6 DEF places
<1>8. CASE Len(all) <= MaxLines
  <2>1. lines = all
    BY <1>1, <1>8 DEF E!Samples
  <2> QED BY <1>3, <1>5, <1>7, <1>8, <2>1
<1>9. CASE ~(Len(all) <= MaxLines)
  <2>1. PICK pick \in [1..MaxLines -> DOMAIN all] : lines = [k \in 1..MaxLines |-> all[pick[k]]]
    BY <1>1, <1>9 DEF E!Samples
  <2>2. \A k \in 1..MaxLines : all[pick[k]] \in Examples
    BY <1>3, <2>1
  <2>3. MaxLines \in Nat
    BY Windows
  <2>4. lines \in [1..MaxLines -> Examples]
    BY <2>1, <2>2
  <2>5. lines \in Seq(Examples) /\ Len(lines) = MaxLines
    BY ONLY <2>3, <2>4
  <2> QED BY <1>5, <1>6, <1>7, <1>9, <2>3, <2>5
<1> QED BY <1>8, <1>9

(* The next part begins with nothing scored of it and all of it to run.    *)
LEMMA EndOfPartKeeps == ASSUME BenchInv, E!EndOfPart PROVE BenchInv'
PROOF
<1>1. /\ todo = << >> /\ Len(todo) = 0
      /\ test' = test /\ context' = context /\ report' = report /\ part # "done"
      /\ part \in {"tools", "bash", "dialogues", "format", "logs"}
  BY DEF E!EndOfPart
<1>2. context = << >> /\ context' = << >> /\ Len(context) \div 2 = 0 /\ Len(context') \div 2 = 0
  <2>1. context = << >>
    BY <1>1 DEF BenchInv, History
  <2> QED BY <1>1, <2>1
<1>3. /\ BenchTypes /\ Called /\ Averaged /\ Parsed /\ Sought /\ Diagnosed
      /\ report = Nothing /\ scores \in [Fields -> Nat] /\ \A f \in Fields : scores[f] \in Nat
  BY <1>1 DEF BenchInv, BenchTypes
<1>4. History'
  BY <1>2 DEF History
<1>5. BashPlaces' = BashPlaces /\ E!Prefix(test, MaxLines)' = E!Prefix(test, MaxLines)
  BY <1>1 DEF BashPlaces, E!Prefix
<1>6. ASSUME part' = "dialogues", todo' = Dialogues, scores' = scores, scores.found = 0
      PROVE  Sought'
  <2>1. Remains(Dialogues)' /\ todo' \in Seq(Talks) /\ Len(Dialogues) - Len(todo') = 0
    BY <1>6, Scenarios, RemainsAll
  <2>2. SumUpTo(Most)[0] = 0
    BY Tallies, SumSteps
  <2>3. AtMost(0, 0)'
    BY <1>6, <2>2 DEF AtMost
  <2> QED BY <1>2, <1>6, <2>1, <2>3 DEF Sought, AtMost
<1>7. ASSUME part' = "logs", todo' = FaultLogs, scores'.correct = 0 PROVE Diagnosed'
  <2>1. FaultLogs \in Seq(Faults) /\ Len(FaultLogs) \in Nat
    BY Scenarios
  <2> QED BY <1>7, <2>1 DEF Diagnosed
<1>8. CASE part = "tools" /\ test = Nothing
  <2>1. part' = "dialogues" /\ todo' = Dialogues /\ scores' = scores
    BY <1>8 DEF E!EndOfPart
  <2>2. Sought'
    BY <1>3, <1>6, <1>8, <2>1 DEF Sought
  <2>3. BenchTypes' /\ Called' /\ Diagnosed'
    BY <1>1, <1>2, <1>3, <1>8, <2>1 DEF BenchTypes, Called, Diagnosed
  <2>4. Averaged' /\ Parsed'
    BY <1>1, <1>3, <1>8, <2>1 DEF Averaged, Parsed
  <2> QED BY <1>4, <2>2, <2>3, <2>4 DEF BenchInv
<1>9. CASE part = "tools" /\ test # Nothing
  <2>1. PICK lines \in E!Samples(E!BashLines) :
               /\ part' = IF lines = << >> THEN "raised" ELSE "bash"
               /\ todo' = lines
               /\ scores' = [scores EXCEPT !.samples = Len(lines)]
    BY <1>9 DEF E!EndOfPart
  <2>2. /\ lines \in Seq(Examples) /\ Len(lines) \in Nat
        /\ Len(lines) <= Cardinality(BashPlaces) /\ Len(lines) <= MaxLines
    BY <1>3, <1>9, SampledLines DEF BenchTypes
  <2>3. /\ scores' \in [Fields -> Nat] /\ scores'.samples = Len(lines)
        /\ \A f \in Fields \ {"samples"} : scores'[f] = scores[f]
    BY <1>3, <2>1, <2>2 DEF Fields
  <2>4. part' \in {"raised", "bash"} /\ (part' = "bash" => Len(lines) > 0)
    <3>1. Len(lines) = 0 => lines = << >>
      BY <2>2
    <3> QED BY <2>1, <2>2, <3>1
  <2>5. BenchTypes'
    BY <1>1, <1>2, <1>3, <2>3, <2>4 DEF BenchTypes
  <2>6. Called' /\ Sought' /\ Diagnosed' /\ Parsed'
    <3>1. \A f \in {"format", "lenient", "strict", "found", "correct", "lines", "parseable"} :
            scores'[f] = scores[f]
      BY <2>3 DEF Fields
    <3>2. Called' /\ Sought' /\ Diagnosed'
      BY <1>3, <1>9, <2>4, <3>1 DEF Called, Sought, Diagnosed
    <3>3. Parsed'
      BY <1>1, <1>3, <1>9, <2>4, <3>1 DEF Parsed
    <3> QED BY <3>2, <3>3
  <2>7. Averaged'
    <3>1. scores.samples = 0 /\ scores.exact = 0 /\ scores.substring = 0 /\ scores.semantic = 0
      <4>1. scores.exact \in Nat /\ scores.substring \in Nat /\ scores.semantic \in Nat
        BY <1>3 DEF Fields
      <4> QED BY <1>3, <1>9, <4>1 DEF Averaged
    <3>2. scores'.exact = 0 /\ scores'.substring = 0 /\ scores'.semantic = 0
      BY <2>3, <3>1 DEF Fields
    <3> QED BY <1>1, <1>5, <1>9, <2>1, <2>2, <2>3, <2>4, <3>2 DEF Averaged
  <2> QED BY <1>4, <2>5, <2>6, <2>7 DEF BenchInv
<1>10. CASE part = "bash"
  <2>1. part' = "dialogues" /\ todo' = Dialogues /\ scores' = scores
    BY <1>10 DEF E!EndOfPart
  <2>2. Sought'
    BY <1>3, <1>6, <1>10, <2>1 DEF Sought
  <2>3. BenchTypes' /\ Called' /\ Diagnosed'
    BY <1>1, <1>2, <1>3, <1>10, <2>1 DEF BenchTypes, Called, Diagnosed
  <2>4. Averaged' /\ Parsed'
    BY <1>1, <1>3, <1>5, <1>10, <2>1 DEF Averaged, Parsed
  <2> QED BY <1>4, <2>2, <2>3, <2>4 DEF BenchInv
<1>11. ASSUME part = "dialogues" PROVE AtMost(Len(Dialogues), 0)
  BY <1>1, <1>2, <1>3, <1>11, Tallies DEF Sought, AtMost
<1>12. CASE part = "dialogues" /\ test = Nothing
  <2>1. part' = "logs" /\ todo' = FaultLogs /\ scores' = scores
    BY <1>12 DEF E!EndOfPart
  <2>2. Sought' /\ Diagnosed'
    BY <1>3, <1>7, <1>11, <1>12, <2>1 DEF Sought, AtMost, Diagnosed
  <2>3. BenchTypes' /\ Called'
    BY <1>1, <1>2, <1>3, <1>12, <2>1 DEF BenchTypes, Called
  <2>4. Averaged' /\ Parsed'
    BY <1>1, <1>3, <1>12, <2>1 DEF Averaged, Parsed
  <2> QED BY <1>4, <2>2, <2>3, <2>4 DEF BenchInv
<1>13. CASE part = "dialogues" /\ test # Nothing
  <2>1. PICK lines : lines = E!Prefix(test, MaxLines)
    OBVIOUS
  <2>2. part' = "format" /\ todo' = lines /\ scores' = [scores EXCEPT !.lines = Len(lines)]
    BY <1>13, <2>1 DEF E!EndOfPart
  <2>3. lines \in Seq(Examples) /\ Len(lines) \in Nat
    <3>1. test \in Seq(Examples) /\ MaxLines \in Nat
      BY <1>3, <1>13, Windows DEF BenchTypes
    <3>2. lines \in Seq(Examples)
      BY <2>1, <3>1, PrefixKeeps
    <3> QED BY <3>2
  <2>4. /\ scores' \in [Fields -> Nat] /\ scores'.lines = Len(lines)
        /\ \A f \in Fields \ {"lines"} : scores'[f] = scores[f]
    BY <1>3, <2>2, <2>3 DEF Fields
  <2>5. \A f \in {"format", "lenient", "strict", "found", "correct", "exact", "substring",
                  "semantic", "samples", "parseable"} : scores'[f] = scores[f]
    BY <2>4 DEF Fields
  <2>6. BenchTypes' /\ Called'
    BY <1>1, <1>2, <1>3, <1>13, <2>2, <2>4, <2>5 DEF BenchTypes, Called
  <2>7. Parsed'
    <3>1. scores.parseable = 0
      <4>1. scores.parseable \in Nat
        BY <1>3 DEF Fields
      <4> QED BY <1>3, <1>13, <4>1 DEF Parsed
    <3> QED BY <1>1, <1>5, <1>13, <2>1, <2>2, <2>3, <2>4, <2>5, <3>1 DEF Parsed
  <2>8. Averaged'
    BY <1>1, <1>3, <1>5, <1>13, <2>2, <2>5 DEF Averaged
  <2>9. Sought' /\ Diagnosed'
    BY <1>3, <1>11, <1>13, <2>2, <2>5 DEF Sought, AtMost, Diagnosed
  <2> QED BY <1>4, <2>6, <2>7, <2>8, <2>9 DEF BenchInv
<1>14. CASE part = "format"
  <2>1. part' = "logs" /\ todo' = FaultLogs /\ scores' = scores
    BY <1>14 DEF E!EndOfPart
  <2>2. Sought' /\ Diagnosed'
    BY <1>3, <1>7, <1>14, <2>1 DEF Sought, AtMost, Diagnosed
  <2>3. BenchTypes' /\ Called'
    BY <1>1, <1>2, <1>3, <1>14, <2>1 DEF BenchTypes, Called
  <2>4. Averaged' /\ Parsed'
    BY <1>1, <1>3, <1>5, <1>14, <2>1 DEF Averaged, Parsed
  <2> QED BY <1>4, <2>2, <2>3, <2>4 DEF BenchInv
<1>15. CASE part = "logs"
  <2>1. part' = "save" /\ scores' = scores
    BY <1>15 DEF E!EndOfPart
  <2>2. Sought' /\ Diagnosed'
    BY <1>3, <1>15, <2>1 DEF Sought, AtMost, Diagnosed
  <2>3. BenchTypes' /\ Called'
    BY <1>1, <1>2, <1>3, <1>15, <2>1 DEF BenchTypes, Called
  <2>4. Averaged' /\ Parsed'
    BY <1>1, <1>3, <1>5, <1>15, <2>1 DEF Averaged, Parsed
  <2> QED BY <1>4, <2>2, <2>3, <2>4 DEF BenchInv
<1> QED BY <1>1, <1>8, <1>9, <1>10, <1>12, <1>13, <1>14, <1>15

LEMMA BenchInvariance == DeploySpec => []BenchInv
PROOF
<1>1. DeployInit => BenchInv
  BY BenchStarts DEF DeployInit
<1>2. BenchInv /\ [DeployNext]_allVars => BenchInv'
  <2> SUFFICES ASSUME BenchInv, [DeployNext]_allVars PROVE BenchInv'
    OBVIOUS
  <2>1. CASE UNCHANGED benchmarking
    <3>1. /\ test' = test /\ part' = part /\ todo' = todo /\ context' = context
          /\ scores' = scores /\ report' = report
      BY <2>1 DEF benchmarking
    <3>2. BenchTypes' /\ Called' /\ Diagnosed'
      BY <3>1 DEF BenchInv, BenchTypes, Called, Diagnosed
    <3>3. Averaged' /\ Parsed'
      BY <3>1 DEF BenchInv, Averaged, Parsed, BashPlaces, E!Prefix
    <3>4. Sought' /\ History'
      BY <3>1 DEF BenchInv, Sought, AtMost, Remains, History, IsSequence
    <3> QED BY <3>2, <3>3, <3>4 DEF BenchInv
  <2>2. CASE E!Start
    BY <2>2, StartKeeps
  <2>3. CASE E!EndOfPart
    BY <2>3, EndOfPartKeeps
  <2>4. CASE E!LineRaises
    BY <2>4, LineRaisesKeeps
  <2>5. CASE E!Save
    BY <2>5, SaveKeeps
  <2>6. ASSUME NEW output \in Outputs, E!ToolCall(output) PROVE BenchInv'
    BY <2>6, ToolCallKeeps
  <2>7. ASSUME NEW output \in Outputs, E!Bash(output) PROVE BenchInv'
    BY <2>7, BashKeeps
  <2>8. ASSUME NEW output \in Outputs, E!Turn(output) PROVE BenchInv'
    BY <2>8, TurnKeeps
  <2>9. ASSUME NEW output \in Outputs, E!Format(output) PROVE BenchInv'
    BY <2>9, FormatKeeps
  <2>10. ASSUME NEW output \in Outputs, E!Diagnosis(output) PROVE BenchInv'
    BY <2>10, DiagnosisKeeps
  <2> QED BY <2>1, <2>2, <2>3, <2>4, <2>5, <2>6, <2>7, <2>8, <2>9, <2>10
       DEF DeployNext, RunModel, RunConverter, RunBenchmark, E!Next, allVars
<1> QED BY <1>1, <1>2, PTL DEF DeploySpec

(* agent_benchmark.py: results are those of a whole run, with no rate past *)
(* one and nothing averaged over nothing, for any scenarios, test files    *)
(* and outputs; a run that raised leaves none.                             *)
THEOREM ReportIsOfAWholeRun == DeploySpec => []ReportAddsUp
PROOF
<1>1. BenchInv => ReportAddsUp
  <2> SUFFICES ASSUME BenchInv PROVE ReportAddsUp
    OBVIOUS
  <2>1. part = "raised" => report = Nothing
    BY DEF BenchInv, BenchTypes
  <2>2. ASSUME report # Nothing
        PROVE  /\ part = "done" /\ report.scores = scores
               /\ scores.found <= Sum(Most)
    <3>1. part = "done" /\ report.scores = scores
      BY <2>2 DEF BenchInv, BenchTypes
    <3> QED BY <3>1, Tallies DEF BenchInv, Sought, AtMost, Sum
  <2>3. ASSUME part = "done"
        PROVE  /\ scores.strict <= scores.lenient /\ scores.lenient <= scores.format
               /\ scores.format <= Len(ToolCallPrompts)
               /\ scores.exact <= scores.substring /\ scores.substring <= scores.samples
               /\ scores.semantic <= scores.samples
               /\ scores.parseable <= scores.lines /\ scores.correct <= Len(FaultLogs)
    BY DEF BenchInv, Called, Averaged, Parsed, Diagnosed
  <2>4. ASSUME part = "done"
        PROVE  IF test = Nothing THEN scores.samples = 0 /\ scores.lines = 0
               ELSE /\ 0 < scores.samples /\ scores.samples <= MaxLines
                    /\ scores.samples <= Cardinality(BashPlaces)
                    /\ scores.lines = Len(E!Prefix(test, MaxLines))
    BY <2>4 DEF BenchInv, Averaged, Parsed
  <2> QED BY <2>1, <2>2, <2>3, <2>4 DEF ReportAddsUp, Most, BashPlaces
<1> QED BY <1>1, BenchInvariance, PTL
=============================================================================
