----------------------------- MODULE MCResponse -----------------------------
(* Small instance of Response: a body of five characters.                  *)
EXTENDS Response

MCTask == {"request", "respond", "loop", "receive", "getn", "copy"}
MCBody == <<1, 2, 3, 4, 5>>
=============================================================================
