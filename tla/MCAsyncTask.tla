---------------------------- MODULE MCAsyncTask ----------------------------
(***************************************************************************)
(* AsyncTask on a small instance: functions that start commands on fewer   *)
(* threads than there are functions.                                       *)
(***************************************************************************)
EXTENDS AsyncTask
=============================================================================
