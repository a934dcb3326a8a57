------------------------------ MODULE MCSchema ------------------------------
(* A small instance of Schema for TLC. *)
EXTENDS Schema

MCScripts == <<<<"repeatable">>, <<"repeatable", "repeatable">>, <<"once">>>>
MCBuilds == {2, 3}
=============================================================================
