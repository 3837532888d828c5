------------------------ MODULE MCRequestLifecycle -------------------------
(* RequestLifecycle for TLC: two calls with one reference ID, a timeout of *)
(* two pieces, one failed send, one stop.                                  *)
EXTENDS RequestLifecycle

MCWanted == [mode |-> 2, bypass |-> FALSE, idps |-> {"idp1"}, minIdp |-> 1,
             ases |-> {}, minAs |-> 1]
=============================================================================
