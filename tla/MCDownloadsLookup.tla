-------------------------- MODULE MCDownloadsLookup --------------------------
(* Two lookups of one process over the same cache, as asymmetry and        *)
(* registered-squat make them: full and partial batches, scoped names, a   *)
(* name listed twice.                                                      *)
EXTENDS DownloadsLookup
MCProcesses ==
  {<< <<"a", "b", "c">>, <<"c", "@s">> >>,
   << <<"@s", "@t">>, <<"@s", "a">> >>,
   << <<"a", "a">>, <<"a">> >>}
=============================================================================
