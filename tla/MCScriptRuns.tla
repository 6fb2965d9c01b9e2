---------------------------- MODULE MCScriptRuns ----------------------------
(***************************************************************************)
(* The instances of ScriptRuns that TLC checks.  Tabs share nothing but    *)
(* loggedRunIds, and runs nothing but the order in which their calls and   *)
(* events arrive: one tab suffices, and one run for what must happen.      *)
(***************************************************************************)
EXTENDS ScriptRuns

CONSTANTS t1
=============================================================================
