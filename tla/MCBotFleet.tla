----------------------------- MODULE MCBotFleet ------------------------------
(***************************************************************************)
(* Two bots share application "a", one of them is also alone on "b"; a     *)
(* third bot is alone on "c" and shares nothing.                           *)
(***************************************************************************)
EXTENDS BotFleet

MCRows == 1..4
MCNoRow == 0
MCAppOf == <<"c", "a", "b", "c">>
MCBots == {"bot1", "bot2", "bot3"}
MCAppsOf == [b \in MCBots |-> CASE b = "bot1" -> {"a"}
                                 [] b = "bot2" -> {"a", "b"}
                                 [] b = "bot3" -> {"c"}]
=============================================================================
