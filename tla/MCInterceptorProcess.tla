------------------------ MODULE MCInterceptorProcess ------------------------
(***************************************************************************)
(* Small instances of InterceptorProcess.                                  *)
(***************************************************************************)
EXTENDS InterceptorProcess

File(id, suffix, pair, names) == [id |-> id, suffix |-> suffix, pair |-> pair, names |-> names]

(* The default has name h; the store has a second certificate for h and    *)
(* two for g, under both naming conventions.                               *)
NoDefault == {}
SomeDefault == {File("d", ".crt", "d", {"h"})}

GoodStore ==
    {File("a", ".pem", "a", {"h", "g"}), File("a", "-key.pem", "a", {}),
     File("b", ".crt", "b", {"g"}), File("b", ".key", "b", {})}

(* The .pem file takes the place of the .crt file, but the key is that of  *)
(* the latter.                                                             *)
BadStore ==
    {File("a", ".pem", "a", {"h"}), File("a", ".crt", "b", {"g"}), File("a", ".key", "b", {})}

MCConfig(parts, store, default) == [parts |-> parts, store |-> store, default |-> default]

MCConfigs ==
    {MCConfig({"tls"}, GoodStore, SomeDefault), MCConfig({"tls"}, BadStore, NoDefault),
     MCConfig({"metrics"}, {}, NoDefault), MCConfig({"pprof"}, {}, NoDefault)}
=============================================================================
