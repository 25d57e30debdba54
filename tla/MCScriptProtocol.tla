-------------------------- MODULE MCScriptProtocol --------------------------
(* An instance of ScriptProtocol for TLC: scripts, in UTF-8, that leave two, *)
(* one and no bytes of the last three empty, results of the kinds that       *)
(* json_escape tells apart.                                                  *)
EXTENDS ScriptProtocol

Scripts    == {<<97>>, <<195, 191>>, <<97, 195, 169>>, <<97, 98, 195, 191>>}
Lines      == {<<>>, <<97, 98>>}
Texts      == {<<>>, <<Quote, NL, Backslash>>, <<31>>}
Broadcasts == {<<99>>}
=============================================================================
