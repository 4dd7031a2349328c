----------------------------- MODULE MCGameLoop -----------------------------
(***************************************************************************)
(* Instance of GameLoop for TLC: the server's systems in their order, and  *)
(* the plugins of the directory.                                           *)
(***************************************************************************)
EXTENDS GameLoop

MCKinds == <<"time", "weather", "block">>
MCFiles == <<"p", "q">>
MCMakes == [p |-> {"system", "hook"}, q |-> {"system", "command"}]
=============================================================================
