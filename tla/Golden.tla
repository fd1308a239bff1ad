------------------------------- MODULE Golden -------------------------------
(***************************************************************************)
(* golden_harness.py and compare_logits.py: one plain forward pass with    *)
(* hooks that keep the output of every module that runs, and the           *)
(* comparison of what they kept with the files another engine dumped.      *)
(*                                                                         *)
(* A tensor is known by its key and a dumped one by how it differs from    *)
(* the golden tensor it is compared with.  Auxiliary losses, which the     *)
(* comparison skips, are left out.                                         *)
(***************************************************************************)
EXTENDS Inference

CONSTANTS Directories,  \* sequences of dumped files, in the order of their names
          GoldenSize,   \* elements of a golden tensor
          Tolerance,    \* percent of divergent elements allowed
          Undecided     \* no verdict

ASSUME GoldenAssumption ==
  /\ IsFiniteSet(Rows) /\ Rows # {}
  /\ Undecided # "PASS"

VARIABLES captured,     \* keys of the golden file
          compared,     \* golden key -> dumped key and metrics
          verdict

goldenVars == <<captured, compared, verdict>>

-----------------------------------------------------------------------------
(* Keys: l{layer}_{base}, or {base} outside the layers; the base of an expert's
   output holds its number, counted from 0 in the code. *)

Key(base) == [prefix |-> "", layer |-> 0, base |-> base, expert |-> 0]
LayerKey(l, base) == [prefix |-> "l", layer |-> l, base |-> base, expert |-> 0]
ExpertKey(l, e) == [LayerKey(l, "moe_expert_out") EXCEPT !.expert = e]

Kept(bases) == {LayerKey(layer - 1, b) : b \in bases}

Harness == ~request.caches

GoldenInit == Init /\ captured = {} /\ compared = << >> /\ verdict = Undecided

\* The hooks fire as the modules return; an exception inside the attention
\* comes after its projections.
HookAttend ==
  /\ Attend
  /\ captured' = IF ~Harness THEN captured
       ELSE captured \cup (IF layer = 1 THEN {Key("embed")} ELSE {})
            \cup Kept({"block_input_input", "pre_attn_norm_out", "attn_q", "attn_k", "attn_v"})
            \cup (IF at' = "raised" THEN {} ELSE Kept({"attn_out"}))
  /\ UNCHANGED <<compared, verdict>>

HookRoute ==
  /\ Route
  /\ captured' = IF Harness
       THEN captured \cup Kept({"pre_moe_norm_out", "moe_shared_out", "moe_router_logits"})
       ELSE captured
  /\ UNCHANGED <<compared, verdict>>

\* An expert without tokens is not called, so its hook does not fire.
HookDispatch ==
  /\ Dispatch
  /\ captured' = IF Harness /\ \E t \in Tokens : expert \in Range(routed[t])
                 THEN captured \cup {ExpertKey(layer - 1, expert)} ELSE captured
  /\ UNCHANGED <<compared, verdict>>

HookLayerDone ==
  /\ LayerDone
  /\ captured' = IF Harness
       THEN captured \cup Kept({"moe_out", "block_out"})
            \cup (IF layer = Layers THEN {Key("final_norm"), Key("logits")} ELSE {})
       ELSE captured
  /\ UNCHANGED <<compared, verdict>>

HookReturn == /\ Return
              /\ captured' = IF Harness THEN captured \cup {Key("final_logits")} ELSE captured
              /\ UNCHANGED <<compared, verdict>>

HookSample == (Sample \/ TopKRaises) /\ UNCHANGED goldenVars

-----------------------------------------------------------------------------
(* compare_logits *)

\* What a directory is read as: .npy files without the prefix tensor_, .bin
\* files as they are, the later one of two with the same key.
KeyOf(file) ==
  IF file.ext # "npy" THEN file.key
  ELSE [file.key EXCEPT !.prefix = CASE @ = "tensor_l" -> "l" [] @ = "tensor_" -> "" [] OTHER -> @]
Loaded(directory) ==
  LET read == SelectSeq(directory, LAMBDA f : f.ext \in {"npy", "bin"})
  IN [k \in {KeyOf(read[i]) : i \in DOMAIN read} |->
        Last(SelectSeq(read, LAMBDA f : KeyOf(f) = k)).data]

Renamed == [attn_q |-> "attn_q_proj", attn_k |-> "attn_k_proj", attn_v |-> "attn_v_proj",
            attn_out |-> "attn_o_proj", moe_router_logits |-> "moe_router",
            moe_shared_out |-> "moe_shared", block_out |-> "block", moe_out |-> "moe"]

\* The names tried for a golden key; the one without a layer comes before the
\* other spellings of the layer.
Candidates(key) ==
  LET renamed == IF key.base \in DOMAIN Renamed
                 THEN <<[key EXCEPT !.base = Renamed[key.base]]>> ELSE << >>
      spelt(prefix) == [key EXCEPT !.prefix = prefix]
  IN <<key>> \o renamed \o
     IF key.prefix = "l" THEN <<spelt("tensor_l"), [key EXCEPT !.prefix = "", !.layer = 0], spelt("layer"), spelt("layer_")>>
     ELSE <<spelt("tensor_")>>

Matches(key, tensors) == SelectSeq(Candidates(key), LAMBDA c : c \in DOMAIN tensors)

\* compare_tensors.  The mean square error is infinite with an infinite element
\* and NaN with a NaN, and so is the largest error; no comparison with a NaN is
\* true, so a NaN is no divergence, and neither is below the threshold.  Tensors
\* of different sizes have an infinite error and do not pass.
Metrics(match, d) ==
  [with |-> match, size |-> d.size,
   passed |-> d.size = GoldenSize
                /\ (d.divergent * 100 <= Tolerance * d.size \/ d.mse = "below"),
   error |-> IF d.size # GoldenSize THEN "inf"
             ELSE IF d.mse \in {"inf", "nan"} THEN d.mse ELSE "finite"]

NoEvidence(results) == FALSE
\* max() of the errors that are not infinite raises when there are none.
MaxRaises(results) == {k \in DOMAIN results : results[k].error # "inf"} = {}

\* Without a dumped tensor the summary of the golden file formats a list with a
\* string's format and raises.
Compare ==
  /\ at = "done" /\ Harness /\ verdict = Undecided
  /\ \E directory \in Directories :
       LET tensors == Loaded(directory)
           keys == {k \in captured : Matches(k, tensors) # << >>}
           results == [k \in keys |->
             LET match == Head(Matches(k, tensors)) IN Metrics(match, tensors[match])]
       IN /\ compared' = results
          /\ verdict' = IF DOMAIN tensors = {} \/ MaxRaises(results) THEN "raised"
                        ELSE IF \A k \in keys : results[k].passed THEN "PASS" ELSE "FAIL"
  /\ UNCHANGED <<vars, captured>>

GoldenNext == \/ HookAttend \/ HookRoute \/ HookDispatch \/ HookLayerDone
              \/ HookSample \/ HookReturn \/ Compare
=============================================================================
