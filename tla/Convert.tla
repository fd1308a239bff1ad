------------------------------ MODULE Convert -------------------------------
(***************************************************************************)
(* convert_model.py: a state dict written as a MOM1 file, its weights in   *)
(* the Q8_0 blocks of quant.py, and the names and sizes by which the C     *)
(* engine is told to read it (export_config.py, load_mom1_header).         *)
(*                                                                         *)
(* A tensor's name is the sequence of its dotted parts, its data the       *)
(* places of its elements.  The engine itself is not in the repository:    *)
(* its reader is what the comments of the format say it computes.          *)
(***************************************************************************)
EXTENDS Loops, SequencesExt, FiniteSets, FiniteSetsExt

CONSTANTS StateDicts,   \* sequences of [name, shape] in the order of their names
          Config,       \* MominoMoEConfig, as a record of its fields
          BlockSize,    \* Q8_0_BLOCK_SIZE
          Nothing       \* no file

BlockAssumption ==
  /\ BlockSize \in Nat \ {0}
  /\ StateDicts \subseteq Seq([name : Seq(STRING) \ {<< >>}, shape : Seq(Nat)])

VARIABLES call,         \* [state, quantize, verbose]
          step, current, descriptors, chunks,   \* of convert_checkpoint_to_mom1
          mom, header   \* the .mom file and model_config.h

vars == <<call, step, current, descriptors, chunks, mom, header>>

HeaderSize == 128
DescSize == 64
Alignment == 64

CeilDiv(n, d) == (n + d - 1) \div d
Product(dims) == ProductUpTo(dims)[Len(dims)]

-----------------------------------------------------------------------------
(* Names *)

Dotted(name) == FoldLeft(LAMBDA s, part : s \o "." \o part, Head(name), Tail(name))

Projection == [q_proj |-> "wq", k_proj |-> "wk", v_proj |-> "wv", o_proj |-> "wo"]

\* What is renamed has five parts or more, which the norms of a layer have not;
\* outside the layers nothing is: TENSOR_NAME_MAP is not used.
MapTensorName(name) ==
  IF name[1] # "layers" \/ Len(name) < 5 THEN name
  ELSE LET of == SubSeq(name, 1, 2)
       IN CASE name[3] = "attention" /\ name[4] \in DOMAIN Projection ->
                 of \o <<"attn", Projection[name[4]], "weight">>
            [] name[3] = "input_norm" -> of \o <<"attn_norm", "weight">>
            [] name[3] = "post_attention_norm" -> of \o <<"ffn_norm", "weight">>
            [] name[3] = "moe" /\ name[4] = "router" -> of \o <<"moe", "router", "weight">>
            [] name[3] = "moe" /\ name[4] = "shared_expert"
                 /\ name[5] \in {"gate", "up", "down"} ->
                 of \o <<"moe", "shared", name[5], "weight">>
            [] name[3] = "moe" /\ name[4] = "experts" ->
                 of \o <<"moe", "experts", name[5], name[6], "weight">>
            [] OTHER -> name

\* The sixth part of an expert's name is read whether there is one or not.
Unmappable(name) ==
  name[1] = "layers" /\ Len(name) = 5 /\ name[3] = "moe" /\ name[4] = "experts"

\* With room for 23 bytes, names of experts would be cut to the same.
CutShort(s) == IF Len(s) <= 23 THEN s ELSE SubSeq(s, 1, 23)

\* The 31 bytes a descriptor has for it.
Cut(s) == IF Len(s) <= 31 THEN s ELSE SubSeq(s, 1, 31)

\* The TENSOR_ macros of model_config.h, filled in for a tensor.
MacroName(name) ==
  CASE name[1] = "embed" -> <<"token_embed", "weight">>
    [] name[1] = "norm" -> <<"model", "norm", "weight">>
    [] name[1] = "layers" /\ Len(name) = 4 /\ name[3] = "input_norm" ->
         <<name[1], name[2], "attn_norm", "weight">>
    [] name[1] = "layers" /\ Len(name) = 4 /\ name[3] = "post_attention_norm" ->
         <<name[1], name[2], "ffn_norm", "weight">>
    [] OTHER -> MapTensorName(name)

-----------------------------------------------------------------------------
(* Q8_0: the rows of a tensor, each padded to whole blocks *)

RowsOf(shape) == Product(Front(shape))
BlocksPerRow(shape) == CeilDiv(Last(shape), BlockSize)

\* The element each lane of each block was made from; none for the padding.
QuantizeQ80(shape) ==
  [b \in 0..(RowsOf(shape) * BlocksPerRow(shape) - 1) |-> [lane \in 0..(BlockSize - 1) |->
     LET column == (b % BlocksPerRow(shape)) * BlockSize + lane
     IN IF column < Last(shape) THEN <<b \div BlocksPerRow(shape), column>> ELSE << >>]]

DequantizedFlat(blocks, shape, row, column) ==
  LET place == row * Last(shape) + column
  IN blocks[place \div BlockSize][place % BlockSize]

\* dequantize_q8_0: where the element of a row and a column is looked for.
Dequantized(blocks, shape, row, column) ==
  LET place == row * BlocksPerRow(shape) * BlockSize + column
  IN blocks[place \div BlockSize][place % BlockSize]

\* 32 int8 and an fp16 for each block
Q8Bytes(shape) == RowsOf(shape) * BlocksPerRow(shape) * (BlockSize + 2)
Fp32Bytes(shape) == 4 * Product(shape)

\* Parts of names in which "norm", "router" or "bias" occurs.
KeptInFp32 == {"norm", "input_norm", "post_attention_norm", "router", "bias"}

DtypeOf(tensor, quantize) ==
  IF quantize /\ Len(tensor.shape) >= 2 /\ Range(tensor.name) \cap KeptInFp32 = {}
  THEN "q8_0" ELSE "fp32"

\* "nbytes is implicit from dtype+shape; C engine computes it"
Bytes(dtype, shape) == IF dtype = "q8_0" THEN Q8Bytes(shape) ELSE Fp32Bytes(shape)

-----------------------------------------------------------------------------
Conversions == [state : StateDicts, quantize : BOOLEAN, verbose : BOOLEAN]

Init == /\ call \in Conversions
        /\ step = "encode" /\ current = 0 /\ descriptors = << >> /\ chunks = << >>
        /\ mom = Nothing /\ header = Nothing

\* A descriptor has room for four dimensions.
FirstFour(shape) == IF Len(shape) <= 4 THEN shape ELSE SubSeq(shape, 1, 4)

Aligned(n) == CeilDiv(n, Alignment) * Alignment

\* One tensor: padding, descriptor, data.  The line printed for it formats a
\* list with a string's format and raises: main, which always asks for it,
\* converts nothing.
EncodeTensor ==
  /\ step = "encode" /\ Len(descriptors) < Len(call.state)
  /\ ~Unmappable(call.state[Len(descriptors) + 1].name)
  /\ LET tensor == call.state[Len(descriptors) + 1]
         dtype == DtypeOf(tensor, call.quantize)
         bytes == Bytes(dtype, tensor.shape)
         offset == Aligned(current)
         padding == IF offset > current THEN <<[of |-> "pad", bytes |-> offset - current]>>
                    ELSE << >>
     IN /\ chunks' = chunks \o padding \o <<[of |-> tensor.name, bytes |-> bytes]>>
        /\ descriptors' = Append(descriptors,
             [name |-> Cut(Dotted(MapTensorName(tensor.name))), dtype |-> dtype,
              rank |-> Len(tensor.shape), shape |-> FirstFour(tensor.shape), offset |-> offset])
        /\ current' = offset + bytes
  /\ step' = IF call.verbose THEN "raised" ELSE "encode"
  /\ UNCHANGED <<call, mom, header>>

NameRaises ==
  /\ step = "encode" /\ Len(descriptors) < Len(call.state)
  /\ Unmappable(call.state[Len(descriptors) + 1].name)
  /\ step' = "raised"
  /\ UNCHANGED <<call, current, descriptors, chunks, mom, header>>

\* Header, descriptors and data; the header carries the configuration.
WriteFile ==
  /\ step = "encode" /\ Len(descriptors) = Len(call.state)
  /\ mom' = [config |-> Config, tensors |-> Len(descriptors), descriptors |-> descriptors,
             dataOffset |-> HeaderSize + Len(descriptors) * DescSize, chunks |-> chunks]
  /\ step' = "done"
  /\ UNCHANGED <<call, current, descriptors, chunks, header>>

\* generate_config_header, at any time
ExportConfig ==
  /\ header = Nothing
  /\ header' = [config |-> Config, kvDim |-> Config.n_kv_heads * Config.head_dim,
                groups |-> Config.n_heads \div Config.n_kv_heads,
                kvCacheBytes |-> Config.context_len * Config.n_kv_heads * Config.head_dim
                                   * Config.n_layers * 4,
                blockSize |-> BlockSize, blockBytes |-> BlockSize + 2]
  /\ UNCHANGED <<call, step, current, descriptors, chunks, mom>>

Next == EncodeTensor \/ NameRaises \/ WriteFile \/ ExportConfig

-----------------------------------------------------------------------------
(* Reading *)

Sizes(pieces) == [k \in DOMAIN pieces |-> pieces[k].bytes]

\* verify_mom1_header, with a configuration of its own
HeaderMatches(config) ==
  \A field \in {"d_model", "n_layers", "n_heads", "n_kv_heads", "head_dim", "d_ff",
                "n_experts", "top_k", "vocab_size", "context_len"} :
    mom.config[field] = config[field]

\* The position in the file at which a chunk starts.
Start(k) == mom.dataOffset + SumUpTo(Sizes(mom.chunks))[k - 1]
=============================================================================
