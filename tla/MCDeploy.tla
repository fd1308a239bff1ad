------------------------------ MODULE MCDeploy ------------------------------
\* Instances for TLC: two rows, a vocabulary of three tokens, prompts that fit
\* the context, that reach its end while generating, and that do not fit; a
\* model of every kind of tensor, with rows that do and do not fill their blocks.
EXTENDS Deploy

Ask(n, max, greedy, k, p) ==
  [caches |-> TRUE, promptLen |-> n, maxNew |-> max, greedy |-> greedy, topK |-> k, topP |-> p]
Plain(n) == [caches |-> FALSE, promptLen |-> n, maxNew |-> 0, greedy |-> TRUE, topK |-> 0, topP |-> 0]

MCRequests == {Ask(2, 1, FALSE, 2, 0), Ask(1, 2, TRUE, 0, 0), Ask(1, 3, FALSE, 0, 60),
               Ask(2, 2, FALSE, 2, 90), Ask(2, 1, FALSE, 4, 0), Ask(4, 1, TRUE, 0, 0), Ask(0, 1, TRUE, 0, 0),
               Plain(1), Plain(4)}

D(a, b, e) == [t \in {"a", "b", "eos"} |-> CASE t = "a" -> a [] t = "b" -> b [] OTHER -> e]
MCDistributions == {D(60, 30, 10), D(20, 20, 60), D(0, 100, 0)}

Data(size, divergent, mse) == [size |-> size, divergent |-> divergent, mse |-> mse]
File(prefix, l, base, ext, data) ==
  [key |-> [prefix |-> prefix, layer |-> l, base |-> base, expert |-> 0], ext |-> ext, data |-> data]
\* "nan": every element is.
MCDirectories ==
  { << >>,
    << File("", 0, "hidden_states", "npy", Data(40, 0, "below")) >>,
    << File("", 0, "logits", "bin", Data(20, 0, "nan")), File("", 0, "logits", "npy", Data(40, 2, "above")) >>,
    << File("", 0, "logits", "npy", Data(20, 0, "below")) >>,
    << File("tensor_l", 1, "attn_q", "npy", Data(40, 9, "above")), File("", 0, "readme", "txt", Data(0, 0, "below")) >>,
    << [File("", 0, "moe_expert_out", "npy", Data(40, 0, "nan")) EXCEPT !.key.expert = 3], File("l", 0, "moe", "npy", Data(40, 5, "below")) >>,
    << File("", 0, "logits", "npy", Data(40, 1, "inf")) >>,
    << File("", 0, "logits", "npy", Data(40, 1, "inf")), File("", 0, "embed", "npy", Data(40, 0, "nan")) >>,
    << File("", 0, "logits", "npy", Data(40, 0, "nan")) >> }

Tensor(name, shape) == [name |-> name, shape |-> shape]
InLayer(l, rest) == <<"layers", l>> \o rest
MCStateDicts ==
  { << Tensor(<<"embed", "weight">>, <<5, 6>>),
       Tensor(InLayer("0", <<"attention", "k_proj", "weight">>), <<2, 6>>),
       Tensor(InLayer("0", <<"attention", "q_proj", "weight">>), <<4, 6>>),
       Tensor(InLayer("0", <<"input_norm", "weight">>), <<6>>),
       Tensor(InLayer("0", <<"moe", "experts", "0", "down", "weight">>), <<6, 9>>),
       Tensor(InLayer("0", <<"moe", "experts", "0", "gate", "weight">>), <<9, 6>>),
       Tensor(InLayer("0", <<"moe", "router", "weight">>), <<3, 6>>),
       Tensor(InLayer("0", <<"moe", "shared_expert", "gate", "weight">>), <<9, 6>>),
       Tensor(<<"lm_head", "weight">>, <<5, 6>>),
       Tensor(<<"norm", "weight">>, <<6>>) >>,
    << Tensor(InLayer("10", <<"moe", "experts", "10", "gate", "weight">>), <<2, 3, 4>>),
       Tensor(InLayer("10", <<"moe", "experts", "10", "up", "weight">>), <<8, 8>>),
       Tensor(InLayer("10", <<"moe", "experts", "11", "up", "weight">>), <<1, 1>>),
       Tensor(InLayer("10", <<"moe", "shared_expert", "up", "weight">>), <<1, 2, 1, 2, 3>>),
       Tensor(InLayer("10", <<"post_attention_norm", "weight">>), <<16>>),
       Tensor(InLayer("10", <<"post_attention_norm", "weight", "fine">>), << >>) >>,
    << Tensor(<<"norm", "weight">>, <<6>>),
       Tensor(InLayer("0", <<"moe", "experts", "weight">>), <<3, 6, 9>>) >> }

MCConfig == [vocab_size |-> 5, d_model |-> 6, n_layers |-> 2, n_heads |-> 2, n_kv_heads |-> 1,
             head_dim |-> 3, d_ff |-> 9, n_experts |-> 3, top_k |-> 2, n_shared_experts |-> 1,
             context_len |-> 3]

Scenario(prompt, function, args) == [prompt |-> prompt, function |-> function, args |-> args]
MCToolCallPrompts ==
  << Scenario(<<"user", "install">>, "apt", {"package"}),
     Scenario(<<"user", "call_ls">>, "ls", {"path"}) >>
CallWith(n, function, args) == [pattern |-> n, function |-> function, args |-> args]
MCCalls == [w \in {"call_ls", "json_apt", "tag_apt"} |->
  CASE w = "call_ls" -> CallWith(3, "ls", {}) [] w = "json_apt" -> CallWith(1, "apt", {"package", "yes"})
    [] OTHER -> CallWith(2, "apt", {"path"})]
MCMarks == [w \in {"json_apt", "{", "step:", "1."} |->
  CASE w = "json_apt" -> "json" [] w = "{" -> "brace" [] w = "step:" -> "key" [] OTHER -> "number"]

MCDialogues ==
  << [turns |-> << <<"disk", "full">>, <<"logs">>, <<"rotate">> >>, keywords |-> {"disk", "rotate", "logs"}],
     [turns |-> << <<"swap">>, <<"oom">> >>, keywords |-> {"swap", "panic"}] >>

Log(words, expected) == [log |-> words, expected |-> expected]
MCFaultLogs == << Log(<<"oom", "killed">>, "oom"), Log(<<"panic", "rip", "nmi", "trace">>, "panic"),
                  Log(<<"hung">>, "deadlock"),
                  Log(<<"list", "of", "freed", "pages">>, "memory_corruption") >>
MCFaultTypes == <<"oom", "panic", "deadlock", "memory_corruption">>
Spelling(word, fault) == [word |-> word, fault |-> fault]
MCSpellings == << Spelling("oom", "oom"), Spelling("panic", "panic"), Spelling("deadlock", "deadlock"),
                  Spelling("memory_corruption", "memory_corruption"),
                  Spelling("memory corruption", "memory_corruption") >>

Example(prompt, response, bash) == [prompt |-> prompt, response |-> response, bash |-> bash]
Ls == Example(<<"user", "step:", "step:">>, <<"ls">>, TRUE)
MCTestFiles ==
  { Nothing, << >>, <<Example(<<"user", "{">>, <<"hi">>, FALSE)>>,
    <<Ls, Example(<<"user">>, << >>, TRUE), Example(<<"user", "1.">>, <<"user", "1.", "oom">>, TRUE)>>,
    <<Example(<<"user", "json_apt", "{">>, <<"hi">>, FALSE), Ls>> }

MCWords == {"user", "install", "call_ls", "disk", "full", "logs", "rotate", "swap", "oom", "killed",
            "panic", "rip", "nmi", "trace", "hung", "list", "of", "freed", "pages", "deadlock",
            "memory_corruption", "memory corruption",
            "step:", "ls", "{", "hi", "1.", "json_apt", "tag_apt"}

MCOutputs == { << >>, <<"oom">>, <<"json_apt", "memory corruption", "rotate">>,
               <<"tag_apt", "1.", "deadlock">> }
=============================================================================
