----------------------------- MODULE MCProvider -----------------------------
(* Whom a conversation is sent to: the commands that choose a provider and *)
(* keep its key, and Codex, the provider that keeps conversations of its   *)
(* own. The two models share nothing, so one run checks both: a behaviour  *)
(* is of one of them, while nothing moves in the other.                    *)
EXTENDS MCSettings, MCCodex

VARIABLE subject   \* whose behaviour it is

SettingsUntouched == around = Shell(<<>>, FALSE, NoFile) /\ config = NoFile /\ env = <<>>

ProviderInit ==
    /\ Init /\ CodexInit
    /\ \/ subject = "settings" /\ frontend = "chat"
       \/ subject = "codex" /\ SettingsUntouched

ProviderNext ==
    /\ UNCHANGED subject
    /\ \/ subject = "settings" /\ Next /\ UNCHANGED codexVars
       \/ subject = "codex" /\ CodexNext /\ UNCHANGED vars

ProviderSpec == ProviderInit /\ [][ProviderNext]_<<subject, vars, codexVars>>
=============================================================================
