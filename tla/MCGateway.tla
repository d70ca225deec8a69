----------------------------- MODULE MCGateway -----------------------------
(* Small instance of Gateway: no platform, one, and one that another ends. *)
EXTENDS Gateway, TLC

Says(p, i, k) == [platform |-> p, n |-> i, kind |-> k]
MCTraffic ==
    ({} :> {})
    @@ ({"telegram"} :> {Says("telegram", 1, "voice"), Says("telegram", 2, "text")})
    @@ ({"slack"} :> {Says("slack", 1, "direct"), Says("slack", 2, "chatter")})
    @@ ({"telegram", "discord"} :> {Says("telegram", 1, "sticker"), Says("telegram", 2, "text"),
                                    Says("discord", 1, "mention")})
MCMessages == UNION {MCTraffic[t] : t \in DOMAIN MCTraffic}
=============================================================================
