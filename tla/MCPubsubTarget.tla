--------------------------- MODULE MCPubsubTarget ---------------------------
(***************************************************************************)
(* PubsubTarget on small trees: a materialized id that the branches        *)
(* revise, one revision taking it away, and an event three branches share. *)
(***************************************************************************)
EXTENDS PubsubTarget, MCTree

MCId == {"candle", "event"}
MCValue == {"a1", "a3", "b2", "c2", "c3", "E"}

Candle(value) == [id |-> "candle", value |-> value]
Event == [id |-> "event", value |-> "E"]

MCBlock == DOMAIN TinyTree
MCNum == NumbersOf(TinyTree)
MCPath == PathsOf(TinyTree)
MCSelected == {"a1", "a2", "b1", "b2", "c2"}

MCOps ==
    [b \in MCBlock |->
        CASE b \in {"a1", "b2"} -> <<Candle(b)>>
          [] b = "a2" -> <<Candle(Deleted), Event>>
          [] b = "b1" -> <<Event>>
          [] b = "c2" -> <<Event, Candle(b)>>
          [] OTHER -> <<>>]

\* g - a1 - a2 - a3, with c3 on top of a2; the candle is deleted and comes back.
LongTree == "g" :> "g" @@ "a1" :> "g" @@ "a2" :> "a1" @@ "a3" :> "a2" @@ "c3" :> "a2"

LongBlock == DOMAIN LongTree
LongNum == NumbersOf(LongTree)
LongPath == PathsOf(LongTree)
LongSelected == {"a1", "a2", "a3", "c3"}

ReturningOps ==
    [b \in LongBlock |->
        CASE b \in {"a1", "a3", "c3"} -> <<Candle(b)>>
          [] b = "a2" -> <<Candle(Deleted)>>
          [] OTHER -> <<>>]
=============================================================================
