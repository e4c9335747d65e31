----------------------------- MODULE MCWorkspace ----------------------------
(***************************************************************************)
(* The values of module Workspace for TLC that a configuration cannot      *)
(* state.  The requests, handlers or workers of a part do the same.        *)
(***************************************************************************)
EXTENDS Workspace, TLC

ActorsAlike == Permutations(Actors)

\* the meters of a message of an external channel, in the order they are counted
RunMeters == <<"external_messages", "telegram_messages">>
=============================================================================
