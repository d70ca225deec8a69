------------------------------- MODULE MCHome -------------------------------
(* Small instance of Home: two processes, and what they are out for.       *)
EXTENDS Home, TLC

CONSTANTS a, b, x, y, s1, s2
MCScenarios ==
    {(a :> kinds) @@ (b :> kinds) :
        kinds \in {{"chat", "approve"}, {"chat", "share"}, {"chat", "memory"}, {"mcp", "oauth"},
                   {"fallback"}, {"curator"}, {"chat", "skill", "skills"}}}
    \cup {(a :> {"chat", "say"}) @@ (b :> {"chat", "say", "prune"}),
          (a :> {"chat", "say"}) @@ (b :> {"backup", "import"}),
          (a :> {"chat", "memory", "backup"}) @@ (b :> {"import"}),
          (a :> {"chat", "approve", "say"}) @@ (b :> {"uninstall"})}

Symmetric == Permutations(Sessions)
=============================================================================
