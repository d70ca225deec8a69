----------------------------- MODULE Providers -----------------------------
(***************************************************************************)
(* The providers a model id may name (merlion-config lib.rs), what the     *)
(* wizards offer of them (setup.rs), and the clients a chat is built with  *)
(* (main.rs): the one of the configured model and those of fallback.yaml.  *)
(*                                                                         *)
(* A provider's key variable and base URL are named by the provider they   *)
(* belong to, a configuration is [provider, base, keyEnv], the last two    *)
(* None or the provider they were written for.                             *)
(***************************************************************************)
CONSTANTS
    None,       \* a field that is left out
    Custom,     \* the variable an api_key_env in config.yaml names
    Unset       \* a variable that is not in the environment

OpenAiLike == {"openai", "openrouter", "nous", "novita", "moonshot", "minimax",
               "zai", "glm", "groq", "deepseek"}
Resolvable == OpenAiLike \cup {"anthropic", "gemini", "bedrock", "vertex", "codex"}
Usual == "openai"

(* codex signs in by itself: its key variable is no name of a variable.    *)
Keyless == {"codex"}

(* Two names for one service share its URL and its variable.               *)
Owner(p) == IF p = "glm" THEN "zai" ELSE p
Wire(p) == IF p \in OpenAiLike THEN "openai" ELSE p

(* The wizards list every service once.                                    *)
Catalog == Resolvable \ {"glm"}

(* api_key_env of config.yaml, else the provider's own variable; the setup *)
(* wizard takes OPENAI_API_KEY when the provider is unknown.               *)
KeyVar(c) == IF c.provider \notin Resolvable THEN Usual
             ELSE IF c.keyEnv = None THEN Owner(c.provider) ELSE Custom

(* -m provider:model or a bare model, and --provider, which wins.          *)
Overridden(c, m, p) ==
    [c EXCEPT !.provider = IF p # None THEN p ELSE IF m # None THEN m ELSE @]

(* Clients that are built from the environment alone have a URL of their   *)
(* own, and without their variable they are not built.                     *)
OwnCredentials == {"bedrock", "vertex", "codex"}
Builds(c, found) ==
    /\ c.provider \in Resolvable
    /\ c.provider \in OwnCredentials \ Keyless => found[Owner(c.provider)] # Unset

(* What a client sends, where, and whose key goes with it.                 *)
Client(c) ==
    LET own == c.provider \in OwnCredentials
    IN [wire |-> Wire(c.provider),
        url  |-> IF own \/ c.base = None THEN Owner(c.provider) ELSE c.base,
        var  |-> IF own THEN Owner(c.provider) ELSE KeyVar(c),
        key  |-> IF own \/ c.keyEnv = None THEN Owner(c.provider) ELSE c.keyEnv]

(* An entry of the chain is a model of its own: what config.yaml says of   *)
(* the URL and the key is not for it.                                      *)
Entry_KeepsUrl(c, p) == [c EXCEPT !.provider = p]
Entry(c, p) == [c EXCEPT !.provider = p, !.base = None, !.keyEnv = None]

(* Without its first client a chat does not start; an entry that cannot be *)
(* resolved or built is skipped.                                           *)
Clients(c, chain, found) ==
    IF ~Builds(c, found) THEN {}
    ELSE {Client(c)} \cup {Client(Entry(c, p)) : p \in {q \in chain : Builds(Entry(c, q), found)}}

(* The key goes to the service it is for, in that service's dialect.       *)
StaysHome(k) == k.key = k.url /\ k.wire = Wire(k.url)
=============================================================================
