--------------------------- MODULE MCInterceptor ---------------------------
(***************************************************************************)
(* Small instances of Interceptor: one app in two versions, which differ   *)
(* in their paths and in the settings of their rate buckets, and requests  *)
(* to a path that only the first version has.                              *)
(***************************************************************************)
EXTENDS Interceptor

CONSTANTS n1, minute, short

MCObject(rate, paths) ==
    [name |-> n1, created |-> 1, rate |-> rate, hosts |-> {<<"h">>}, pathPrefixes |-> paths]

OneApp == {MCObject(None, Nil), MCObject(short, {<<"", "a", "">>})}

RootPath == {NewKey(<<"h", "8080">>, <<"", "">>)}
=============================================================================
