----------------------------- MODULE CertStore -----------------------------
(***************************************************************************)
(* The certificates of the TLS proxy (getTLSConfig in interceptor/main.go). *)
(*                                                                         *)
(* A file has an id, which is its path without the suffix, a suffix, the   *)
(* key pair it belongs to, and the names (SANs) in it: none in a key.  The *)
(* certificate of KEDA_HTTP_PROXY_TLS_CERT_PATH, if there is one, is the   *)
(* default: a set of at most one file.                                     *)
(***************************************************************************)
EXTENDS Naturals, FiniteSets, Functions

CONSTANT NoName   \* the server name of a client that sends none

CertSuffixes == {".crt", ".pem"}
KeySuffixes == {"-key.pem", ".key"}

(* filepath.Walk goes in lexical order, and a later file of the same id    *)
(* replaces the one before: .pem comes last, and .key after -key.pem.      *)
LastOf(files, suffix) ==
    {f \in files : f.suffix = suffix \/ \A g \in files : g.id = f.id => g.suffix # suffix}

CertFiles(store) == LastOf({f \in store : f.suffix \in CertSuffixes}, ".pem")
KeyFiles(store) == LastOf({f \in store : f.suffix \in KeySuffixes}, ".key")

(* Every certificate has a key, and LoadX509KeyPair finds that they match. *)
Loads(store) ==
    \A c \in CertFiles(store) : \E k \in KeyFiles(store) : k.id = c.id /\ k.pair = c.pair

(* The orders in which certificates are added: the default first, then     *)
(* those of the store as a range over a map comes upon them.  An order     *)
(* numbers the certificates; one of the store that is the default, too, is *)
(* added twice, and the second time counts.                                *)
Orders(default, store) ==
    {order \in Injection(default \cup CertFiles(store), 0..Cardinality(CertFiles(store))) :
       \A c \in DOMAIN order : order[c] = 0 <=> c \notin CertFiles(store)}

(* addCert, one after the other: the last one with a name has it.          *)
AddCerts(order) ==
    [n \in UNION {c.names : c \in DOMAIN order} |->
       CHOOSE c \in DOMAIN order :
         n \in c.names /\ \A d \in DOMAIN order : n \in d.names => order[d] <= order[c]]

(* Faulty variant: the default is preferred.                               *)
GetCertificateDefault(certs, default, name) ==
    IF default # {} \/ name \notin DOMAIN certs THEN default ELSE {certs[name]}

(* GetCertificate: by the server name, else the default, else an error.    *)
GetCertificate(certs, default, name) ==
    IF name \in DOMAIN certs THEN {certs[name]} ELSE default

(* Certificates lists what is in the map, in the map's order, which is any. *)
Certificates(certs) == Range(certs)

(* The certificates that crypto/tls may show to a client; if there is none *)
(* the handshake fails.  GetCertificate is not asked for a client that     *)
(* sends no name while there are Certificates: the first one that the      *)
(* client supports is shown.                                               *)
Shown(certs, default, name) ==
    IF name = NoName /\ Certificates(certs) # {} THEN Certificates(certs)
    ELSE GetCertificate(certs, default, name)
=============================================================================
