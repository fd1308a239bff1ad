------------------------------ MODULE Quality -------------------------------
(***************************************************************************)
(* quality_filter.py: which samples QualityFilter lets through.  A text is *)
(* what the filter measures of it: its length, whether it holds a          *)
(* blacklisted phrase, and how many strong and weak patterns match it.     *)
(* Warnings and scores are only reported and are left out.                 *)
(***************************************************************************)
EXTENDS Loops, SequencesExt

CONSTANT Null   \* the None an API may return for a text

MinSftResponse == 80
MaxSftResponse == 8000
MinDpoChosen == 80
MinPrompt == 20

Text == [len : Nat, black : BOOLEAN, strong : Nat, weak : Nat]
NoText == [len |-> 0, black |-> FALSE, strong |-> 0, weak |-> 0]

Has(s, key) == key \in DOMAIN s
Get(s, key) == IF Has(s, key) THEN s[key] ELSE NoText

\* At least `percent' of the patterns the metadata lists; none listed, no test.
Covers(s, percent) ==
  Has(s, "expected") /\ s.expected.total > 0 =>
    100 * s.expected.matched >= percent * s.expected.total

SftPasses(s) ==
  LET r == Get(s, "response")
  IN /\ r.len \in MinSftResponse..MaxSftResponse
     /\ s.prompt.len >= MinPrompt
     /\ ~r.black
     /\ r.strong >= 2
     /\ Covers(s, 50)

DpoPasses(s) ==
  LET c == s.chosen
      r == s.rejected
  IN /\ c.len >= MinDpoChosen
     /\ ~c.black
     /\ c.strong > r.strong
     /\ c.weak <= r.weak \/ c.weak <= 1
     /\ Covers(s, 40)

IsPair(s) == Has(s, "chosen") /\ Has(s, "rejected")

Passes(s) == IF IsPair(s) THEN DpoPasses(s) ELSE SftPasses(s)

\* len(None) in evaluate_sft
EvaluationRaises(s) == ~IsPair(s) /\ Get(s, "response") = Null
=============================================================================
