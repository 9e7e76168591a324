----------------------------- MODULE MCRouters -----------------------------
(***************************************************************************)
(* Instances of Routers: the patterns compete for the paths, as literal    *)
(* against parameter and as parameter against wildcard, and '/x/*' means   *)
(* something else to each router.                                          *)
(***************************************************************************)
EXTENDS Routers

ServedPaths    == {<<"a">>, <<"b">>, <<"a", "b">>}
ManyPatterns   == {<<"a">>, <<":">>, <<"a", ":">>, <<":", ":">>, <<"a", "*">>}
FewPatterns    == {<<"a">>, <<":">>, <<"a", "*">>}
FewPaths       == {<<"a">>, <<"a", "b">>}
Wild           == {<<"a", "*">>}
============================================================================
