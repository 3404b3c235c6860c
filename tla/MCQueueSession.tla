--------------------------- MODULE MCQueueSession ----------------------------
(***************************************************************************)
(* Two bots on application "a", one of them also, and alone, on "b".       *)
(***************************************************************************)
EXTENDS QueueSession

MCRows == 1..2
MCNoRow == 0
MCAppOf == <<"a", "b">>
MCBots == {"bot1", "bot2"}
MCAppsOf == [b \in MCBots |-> IF b = "bot2" THEN {"a", "b"} ELSE {"a"}]
=============================================================================
