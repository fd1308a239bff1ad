------------------------------ MODULE Generate ------------------------------
(***************************************************************************)
(* generate_dataset.py: the stages of main, each of which collects samples *)
(* from the templates or from a teacher model, filters and deduplicates    *)
(* them and writes one JSONL file.  A stage of the API waits for one       *)
(* answer per template, and the process may be killed at any step; a later *)
(* run writes into the same directory.                                     *)
(*                                                                         *)
(* The text of a prompt is the template it is of, the form it is put in    *)
(* and whether augment_samples has appended its sentence to it.            *)
(***************************************************************************)
EXTENDS Quality, FiniteSetsExt

CONSTANTS Templates,   \* FAULT_TEMPLATES, a sequence
          CommandLines,\* the options considered
          Answers,     \* bound: the texts the teacher model returns
          MaxLaunches  \* bound: processes started in one output directory

TemplatesAssumption ==
  /\ MaxLaunches \in Nat
  /\ IsSequence(Templates)
  /\ \A i \in DOMAIN Templates :
       /\ Templates[i].len \in Nat \ {0}
       /\ Templates[i].chosen \in Text /\ Templates[i].rejected \in Text
       /\ \A j \in DOMAIN Templates \ {i} : Templates[i].id # Templates[j].id

\* Counts that are not negative.
OptionsAssumption ==
  /\ Answers \subseteq Text
  /\ \A a \in CommandLines : /\ a.maxSamples \in Nat /\ a.augment \in Nat
                             /\ IsSequence(a.faultTypes)

VARIABLES args,      \* options of the current process
          stages,    \* stages it has still to do, the current one first
          asked,     \* templates of the stage already sent to the teacher
          samples,   \* what the stage has collected
          out,       \* samples being written, or Null
          files,     \* name of a stage -> [lines, cut]
          launches

gvars == <<args, stages, asked, samples, out, files, launches>>

StageNames == {"sft_template", "dpo_template", "sft_api", "dpo_api"}
NoFile == [lines |-> << >>, cut |-> FALSE]

\* Templates of main: a fault type named twice brings its templates twice.
Selected(a) ==
  LET typed == IF a.faultTypes = << >> THEN Templates
               ELSE FlattenSeq([k \in DOMAIN a.faultTypes |->
                      Picked(Templates, {i \in DOMAIN Templates :
                                           Templates[i].fault = a.faultTypes[k]})])
  IN IF a.difficulty = "all" THEN typed
     ELSE Picked(typed, {i \in DOMAIN typed : typed[i].difficulty = a.difficulty})

\* `if max_samples': zero is no bound
Wanted(a) ==
  LET ts == Selected(a)
  IN IF a.maxSamples = 0 \/ a.maxSamples > Len(ts) THEN ts
     ELSE SubSeq(ts, 1, a.maxSamples)

StagesOf(a) ==
  LET modes == {m \in {"sft", "dpo"} : a.mode \in {m, "both"}}
      templates == a.source \in {"template", "both"}
      api == a.source \in {"api", "both"} /\ a.api
  IN Picked(<<"sft_template", "dpo_template", "sft_api", "dpo_api">>,
       {i \in 1..4 : /\ IF i % 2 = 1 THEN "sft" \in modes ELSE "dpo" \in modes
                     /\ IF i <= 2 THEN templates ELSE api})

-----------------------------------------------------------------------------
(* Samples *)

\* build_sft_prompt and build_dpo_prompt put some 120 characters around it.
Prompt(t, form) ==
  [of |-> t.id, form |-> form, augmented |-> FALSE,
   len |-> IF form = "template" THEN t.len ELSE t.len + 120]

TemplateSample(t, stage) ==
  IF stage = "sft_template" THEN [prompt |-> Prompt(t, "template"), response |-> t.chosen]
  ELSE [prompt |-> Prompt(t, "template"), chosen |-> t.chosen, rejected |-> t.rejected]

\* The same shape in both modes: what a DPO stage gets is no pair.
ApiSample(t, stage, text) == [prompt |-> Prompt(t, stage), response |-> text]

EveryOne(ss) == DOMAIN ss
FirstOfPrompt(ss) == {i \in DOMAIN ss : \A j \in 1..(i - 1) : ss[j].prompt # ss[i].prompt}

\* A prompt counts as seen whether or not its first sample passes.
FilterAndDedup(ss) ==
  Picked(ss, {i \in FirstOfPrompt(ss) : Passes(ss[i])})

FilterRaises(ss) == \E i \in FirstOfPrompt(ss) : EvaluationRaises(ss[i])

Variant(s) == [prompt |-> [s.prompt EXCEPT !.augmented = TRUE, !.len = @ + 45],
               response |-> s.response]

Augmented(ss, n) ==
  LET k == Min({n, 2 * Len(ss)})
  IN {ss \o [j \in 1..k |-> Variant(ss[pick[j]])] : pick \in [1..k -> DOMAIN ss]}

-----------------------------------------------------------------------------
Ended == stages = << >>
Stage == Head(stages)
IsApi(stage) == stage \in {"sft_api", "dpo_api"}
Idle == stages' = << >> /\ asked' = 0 /\ samples' = << >> /\ out' = Null

Init == /\ args = Null /\ stages = << >> /\ asked = 0 /\ samples = << >> /\ out = Null
        /\ files = [n \in StageNames |-> NoFile] /\ launches = 0

\* main up to its first stage; no templates or a dry run end it.
Launch == /\ Ended /\ launches < MaxLaunches
          /\ launches' = launches + 1
          /\ args' \in CommandLines
          /\ stages' = IF Selected(args') = << >> \/ args'.dryRun THEN << >>
                       ELSE StagesOf(args')
          /\ asked' = 0 /\ samples' = << >> /\ out' = Null
          /\ UNCHANGED files

FromTemplates ==
  /\ ~Ended /\ ~IsApi(Stage) /\ out = Null
  /\ LET ts == Wanted(args)
         kept == FilterAndDedup([k \in DOMAIN ts |-> TemplateSample(ts[k], Stage)])
     IN IF Stage = "sft_template" /\ args.augment > 0
        THEN out' \in Augmented(kept, args.augment)
        ELSE out' = kept
  /\ UNCHANGED <<args, stages, asked, samples, files, launches>>

Asking == ~Ended /\ IsApi(Stage) /\ out = Null /\ asked < Len(Wanted(args))
Template == Wanted(args)[asked + 1]
Collect(new) == /\ samples' = samples \o new
                /\ asked' = asked + 1
                /\ UNCHANGED <<args, stages, out, files, launches>>

Fallback == ApiSample(Template, Stage, Template.chosen)

Answered == /\ Asking
            /\ \E text \in Answers : Collect(<<ApiSample(Template, Stage, text)>>)

RequestFails == Asking /\ Collect(<<Fallback>>)

\* Appended before len(content) raises, then replaced by nothing: both stay.
NullAnswer == Asking /\ Collect(<<ApiSample(Template, Stage, Null), Fallback>>)

FilterAnswers ==
  /\ ~Ended /\ IsApi(Stage) /\ out = Null /\ asked = Len(Wanted(args))
  /\ IF FilterRaises(samples)
     THEN Idle
     ELSE out' = FilterAndDedup(samples) /\ UNCHANGED <<stages, asked, samples>>
  /\ UNCHANGED <<args, files, launches>>

Write == /\ ~Ended /\ out # Null
         /\ files' = [files EXCEPT ![Stage] = [lines |-> out, cut |-> FALSE]]
         /\ stages' = Tail(stages) /\ asked' = 0 /\ samples' = << >> /\ out' = Null
         /\ UNCHANGED <<args, launches>>

\* A kill while the file is written leaves a beginning of it, the last line
\* perhaps cut.
Killed == /\ ~Ended
          /\ \/ out # Null
                /\ \E n \in 0..Len(out), cut \in BOOLEAN :
                     /\ cut => n > 0
                     /\ files' = [files EXCEPT ![Stage] =
                                    [lines |-> SubSeq(out, 1, n), cut |-> cut]]
             \/ UNCHANGED files
          /\ Idle
          /\ UNCHANGED <<args, launches>>

Next == \/ Launch \/ FromTemplates \/ Answered \/ RequestFails \/ NullAnswer
        \/ FilterAnswers \/ Write \/ Killed
=============================================================================
