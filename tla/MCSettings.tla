----------------------------- MODULE MCSettings -----------------------------
(* Small instance of Settings: two terminals, a provider with two names and *)
(* overrides, bedrock, codex and a misspelt one.                           *)
EXTENDS Settings, TLC

CONSTANTS t1, t2
Shell(set, p, f) ==
    [exported |-> [v \in Vars |-> IF v \in DOMAIN set THEN set[v] ELSE Unset],
     prompt |-> p, project |-> f]
Cfg(p, b, k, s) == [provider |-> p, base |-> b, keyEnv |-> k, prompt |-> s]
MCSurroundings == {Shell(<<>>, FALSE, NoFile),
                   Shell("zai" :> 1, TRUE, NoFile),
                   Shell(<<>>, FALSE, Cfg("glm", None, None, "project"))}
MCFirstFiles == {NoFile, Cfg("zai", "zai", None, "mine"), Cfg("glm", "zai", "zai", "mine")}
MCFirstEnvs == {<<>>, <<[var |-> "openai", key |-> 0]>>}
MCFlags == {<<None, None>>, <<"openai", None>>, <<"openai", "codex">>}
MCChains == {{}, {"bedrock", "openai", "typo"}}
=============================================================================
