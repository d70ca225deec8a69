----------------------------- MODULE MCMcpHttp -----------------------------
(* Small instance of McpHttp: a server over stdio and an HTTP server with  *)
(* a variable for its bearer, which expose a tool under the same name.     *)
EXTENDS McpHttp

MCServers == <<[name |-> <<"a">>, http |-> FALSE, tools |-> {<<"b", "t">>, <<"u">>}, env |-> FALSE],
               [name |-> <<"a", "b">>, http |-> TRUE, tools |-> {<<"t">>}, env |-> TRUE]>>
MCTests == {1, 2}
=============================================================================
