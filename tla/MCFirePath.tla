----------------------------- MODULE MCFirePath -----------------------------
(* Instances of FirePath for TLC: which ids are in use.                      *)
EXTENDS FirePath

PlainSchedules == {<<"s">>}
PlainJobs == {<<"j">>}
PlainBindings == {<<"b">>, <<"c">>}
None == {}
OneBinding == {<<"b">>}
=============================================================================
