------------------------------ MODULE Batches -------------------------------
(***************************************************************************)
(* dataset.py and byte_tokenizer.py: how a line of a JSONL file, or a      *)
(* stream of token files, becomes the token ids, labels and attention mask *)
(* of a training item, and which of them the shifted losses look at.       *)
(*                                                                         *)
(* A token is the part of the text its byte is of: "prompt", "marker" (the *)
(* newline, <|assistant|> and space between prompt and response),          *)
(* "response", "eos" or "pad".  Texts are ASCII: a byte for a character.   *)
(***************************************************************************)
EXTENDS Integers, Sequences, SequencesExt, FiniteSetsExt

CONSTANTS MarkerLen,     \* 15 in the code
          MaxSeqLen,     \* --max-seq-len
          MaxPromptLen, MaxResponseLen   \* of DPODataset

\* The losses shift by one, so the first token of a sequence is never a target:
\* a sequence and a marker have more than one token, a prompt has at least one.
LengthsAssumption == /\ MarkerLen \in Nat \ {0, 1} /\ MaxSeqLen \in Nat \ {0, 1}
                     /\ MaxPromptLen \in Nat \ {0} /\ MaxResponseLen \in Nat

Ignored == "ignored"   \* the label -100

\* ByteTokenizer.encode of n bytes
Encode(part, n) == [i \in 1..n |-> part]
Cut(ids, n) == SubSeq(ids, 1, Min({n, Len(ids)}))

\* The first n labels are ignored, one label per id.
Masked(ids, n) == [i \in DOMAIN ids |-> IF i <= n THEN Ignored ELSE ids[i]]

Padded(ids, pad, n) == ids \o [i \in 1..(n - Len(ids)) |-> pad]

-----------------------------------------------------------------------------
(* SFTDataset.__getitem__ on a text sample *)

\* The prompt is encoded again by itself to find where its labels end.
MaskEndPastMarker(promptLen, ids) == Min({promptLen + MarkerLen + 1, Len(ids)})
MaskEnd(promptLen, ids) == Min({promptLen, Len(ids)})

SftItem(promptLen, responseLen) ==
  LET ids == Cut(Encode("prompt", promptLen) \o Encode("marker", MarkerLen)
                   \o Encode("response", responseLen), MaxSeqLen)
      labels == Masked(ids, MaskEnd(promptLen, ids))
  IN [ids |-> Padded(ids, "pad", MaxSeqLen),
      labels |-> Padded(labels, Ignored, MaxSeqLen),
      mask |-> Padded(Encode(1, Len(ids)), 0, MaxSeqLen)]

-----------------------------------------------------------------------------
(* DPODataset.__getitem__: one side of a pair.  With prompt and response
   both at their limits the end marker does not fit. *)

PairSide(promptLen, responseLen) ==
  LET prompt == Cut(Encode("prompt", promptLen), MaxPromptLen)
      response == Cut(Encode("response", responseLen), MaxResponseLen)
      limit == Min({Len(prompt) + Len(response) + 1, MaxPromptLen + MaxResponseLen})
      ids == Cut(prompt \o response \o <<"eos">>, limit)
  IN [ids |-> ids,
      labels |-> Masked(ids, Min({Len(prompt), limit})),
      mask |-> Encode(1, limit)]

-----------------------------------------------------------------------------
(* PretrainDataset: the files of a directory one after another, cut into
   chunks of MaxSeqLen; a remainder is dropped, the order is shuffled. *)

Stream(sizes) == FlattenSeq([f \in DOMAIN sizes |-> [i \in 1..sizes[f] |-> <<f, i>>]])

Chunks(sizes) ==
  LET tokens == Stream(sizes)
  IN {SubSeq(tokens, i * MaxSeqLen + 1, (i + 1) * MaxSeqLen) :
        i \in 0..(Len(tokens) \div MaxSeqLen - 1)}

-----------------------------------------------------------------------------
(* compute_loss and compute_log_probs shift: the logits at i - 1 are judged
   by the label at i, so the first label is never looked at. *)

Targets(item) == {i \in 2..Len(item.labels) : item.labels[i] # Ignored}
=============================================================================
