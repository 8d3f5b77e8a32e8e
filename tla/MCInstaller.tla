----------------------------- MODULE MCInstaller -----------------------------
(* Up to three nodes, each at its own address or at the first one's; two    *)
(* host names, so that names repeat; a password or one of two keys.         *)
EXTENDS Installer

CONSTANTS k1, k2, s1

Node(hosts, ips, auths) == [host : hosts, ip : ips, auth : auths, role : {"MASTER", "WORKER"}]
Key(k, u) == [authType |-> "SSH_KEY", user |-> u, pass |-> "", key |-> Cipher(k, s1)]
Password == [authType |-> "PASSWORD", user |-> "u", pass |-> "p", key |-> NoKey]

Stored(n) ==
    [host |-> n.host, ip |-> n.ip, role |-> n.role, authType |-> n.auth.authType,
     user |-> n.auth.user, pass |-> n.auth.pass, key |-> n.auth.key]

MCRows ==
    LET N1 == Node({"a"}, {1}, {Password, Key(k1, "u")})
        N2 == Node({"a", "b"}, {1, 2}, {Password, Key(k1, "u"), Key(k2, "u"), Key(k2, "")})
        M2 == Node({"a", "b"}, {2}, {Password, Key(k2, "u")})
        N3 == {n \in Node({"a", "c"}, {3}, {Key(k2, "u")}) : n.role = "MASTER"}
    IN  {<<Stored(n)>> : n \in N1}
        \cup {<<Stored(n), Stored(m)>> : n \in N1, m \in N2}
        \cup {<<Stored(n), Stored(m), Stored(o)>> : n \in N1, m \in M2, o \in N3}
=============================================================================
