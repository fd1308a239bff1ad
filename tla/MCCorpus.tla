------------------------------ MODULE MCCorpus ------------------------------
\* Instances for TLC: texts on both sides of every threshold of the filter,
\* two templates of one fault type, and conversations of every outcome.
EXTENDS Corpus

Of(n, b, s, w) == [len |-> n, black |-> b, strong |-> s, weak |-> w]
Good == Of(80, FALSE, 2, 1)
Poor == Of(30, FALSE, 1, 2)

MCTemplates ==
  << [id |-> 1, len |-> 20, fault |-> "oom", difficulty |-> "hard", chosen |-> Good, rejected |-> Poor],
     [id |-> 2, len |-> 24, fault |-> "oom", difficulty |-> "easy",
      chosen |-> Of(81, FALSE, 3, 0), rejected |-> Of(33, TRUE, 0, 0)],
     [id |-> 3, len |-> 19, fault |-> "irq", difficulty |-> "easy",
      chosen |-> Of(84, FALSE, 3, 2), rejected |-> Of(40, FALSE, 2, 2)] >>

Line(mode, source, types, max, augment) ==
  [mode |-> mode, source |-> source, api |-> source # "template", faultTypes |-> types,
   difficulty |-> "all", maxSamples |-> max, augment |-> augment, dryRun |-> FALSE]

MCCommandLines ==
  { Line("both", "template", <<"oom", "irq">>, 0, 2), Line("sft", "template", << >>, 1, 1),
    Line("both", "both", <<"oom", "oom">>, 2, 0), Line("dpo", "api", <<"irq", "irq">>, 0, 0),
    [Line("dpo", "template", << >>, 0, 0) EXCEPT !.difficulty = "easy"],
    [Line("sft", "api", <<"irq">>, 0, 0) EXCEPT !.dryRun = TRUE] }

MCAnswers == {Good, Of(79, FALSE, 2, 0), Of(81, TRUE, 3, 0), Of(8001, FALSE, 3, 0)}

Msg(role, content, calls) == [role |-> role, content |-> content, calls |-> calls]
U == Msg("user", "a", FALSE)
A == Msg("assistant", "b", FALSE)
C == Msg("assistant", "", TRUE)
T == Msg("tool", "c", FALSE)
Bank(conversation, pair) == [conversation |-> conversation, pair |-> pair]

MCDatasets ==
  << [format |-> "toucan",
      rows |-> <<None, <<U, C, T, A, U>>, <<A>>, <<U, U, C>>, <<U, Msg("assistant", " ", FALSE)>> >>],
     [format |-> "agentbank", rows |-> << >>],
     [format |-> "agentbank",
      rows |-> <<Bank(<<Msg("system", "s", FALSE), U, A, U, Msg("gpt", "d", FALSE), T>>, TRUE),
                 Bank(<<U, Msg("agent", "", FALSE)>>, TRUE),
                 Bank(<<A>>, FALSE), Bank(<<U, Msg("bot", " ", FALSE)>>, FALSE)>>],
     [format |-> "toucan", rows |-> <<<<U, Msg("assistant", None, FALSE)>>>>] >>

MCTokenFiles == {<<13, 9>>, <<40, 0, 90>>}
=============================================================================
