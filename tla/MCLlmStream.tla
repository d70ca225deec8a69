---------------------------- MODULE MCLlmStream ----------------------------
(* Small instance of LlmStream: a chain of four providers, bodies of two  *)
(* tool calls whose arguments come in two pieces.                          *)
EXTENDS LlmStream

E(k, c) == [kind |-> k, call |-> c]
T == Mark("text")
F == Mark("finish")
D == Mark("done")
X == Mark("error")

MCReplies == [d \in Dialects |->
    CASE d = "openai" ->
           {<<T, T, F, D>>,
            <<T, E("open", 1), E("part", 1), E("part", 1),
              E("open", 2), E("part", 2), E("part", 2), F, D>>,
            <<E("open", 1), E("open", 2), E("part", 2), E("part", 1),
              E("part", 1), E("part", 2), F, D>>,
            <<E("open", 1), E("part", 1), E("part", 1), D>>,
            <<T, E("open", 1), E("part", 1), X>>}
      [] d = "anthropic" ->
           {<<T, T, F, D>>, <<T, D>>,
            <<T, E("open", 1), E("part", 1), E("part", 1), E("close", 1),
              E("open", 2), E("part", 2), E("part", 2), E("close", 2), F, D>>,
            <<E("open", 1), E("part", 1), E("part", 1), E("close", 1), D>>,
            <<E("open", 1), E("part", 1), E("part", 1), E("close", 1), X>>}
      [] d = "bedrock" ->
           {<<T, T, F>>, <<T, E("call", 1), E("call", 2), F>>}
      [] d = "gemini" ->
           {<<T, T, F>>, <<T, E("call", 1), E("call", 2), F>>,
            <<E("call", 1), T>>, <<E("call", 1), X>>}]

MCDialect == <<"openai", "anthropic", "gemini", "bedrock">>
=============================================================================
