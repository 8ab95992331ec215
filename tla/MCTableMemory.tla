--------------------------- MODULE MCTableMemory ---------------------------
(***************************************************************************)
(* A small instance of TableMemoryUse: hosts with and without a port,      *)
(* paths with and without slashes at their ends, nested prefixes, and no   *)
(* list at all.                                                            *)
(***************************************************************************)
EXTENDS TableMemoryUse

MCHosts == {Nil, {<<"h">>}, {<<"h", "80">>, <<"g">>}}
MCPathPrefixes == {Nil, {<<"", "a", "">>}, {<<"a">>, <<"", "a", "b">>}}

MCRequestHosts == {<<"">>, <<"h">>, <<"h", "8080">>, <<"g">>}
MCRequestPaths == {<<"", "">>, <<"", "a">>, <<"", "a", "b", "c">>, <<"", "b">>}
=============================================================================
