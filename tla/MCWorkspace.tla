---------------------------- MODULE MCWorkspace ----------------------------
(* Small instance of Workspace: one workspace file, one skill, two tokens, *)
(* of which the second is a description only the loader finds.             *)
EXTENDS Workspace

CONSTANTS f, s1
MCFiles ==
    {[p \in Paths |-> IF p = Skill THEN skill ELSE IF p = Remote THEN <<>> ELSE text] :
        skill \in {Missing, <<"u", "v">>}, text \in {<<"u", "u", "u">>}}
MCStrings == {<<"u">>, <<"v">>, <<"u", "u">>, <<"v", "v">>}
=============================================================================
