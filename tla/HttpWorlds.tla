----------------------------- MODULE HttpWorlds -----------------------------
(* The worlds in which HttpAuth is checked: a world names the requests, the*)
(* addresses and the credentials of a behaviour, so that each part meets   *)
(* all of its cases without meeting every case of the others.              *)
EXTENDS Naturals

CONSTANTS i1, i2, k1, k2, k3, k4, s1, a, b, None

MCKeyKind == [k \in {k1, k2, k3, k4} |-> CASE k = k1 -> "admin" [] k = k2 -> "viewer"
                               [] k = k3 -> "device" [] OTHER -> "narrow"]

Call(kind, on, h, c, q) == [kind |-> kind, on |-> on, header |-> h, cookie |-> c, query |-> q]
Header(kind, t)         == Call(kind, None, t, None, None)
Cookie(kind, t)         == Call(kind, None, None, t, None)

(* Failures and successes of an address, until a ban has ended.            *)
Limited(calls) == [ips |-> {i2}, config |-> {}, issued |-> {k1}, until |-> 6, calls |-> calls]
Limits  == Limited({Header("list", "wrong"), Header("list", k1), Header("login", "wrong")})
Logins  == Limited({Header("login", "wrong"), Header("login", k1)})
(* One key and its session, over its quota.                                *)
OverQuota == [ips |-> {i2}, config |-> {}, issued |-> {k1}, until |-> 4,
    calls |-> {Header("list", k1), Cookie("list", s1), Header("login", k1)}]
(* Sessions and tickets of a key that is revoked.                          *)
Authority == [ips |-> {i2}, config |-> {}, issued |-> {k1, k2}, until |-> 3,
    calls |-> {Header("login", k2), Cookie("list", s1), Call("revoke", k2, k1, None, None)}]
(* Tickets for two terminals.                                              *)
Viewing == [ips |-> {i2}, config |-> {}, issued |-> {k2}, until |-> 4,
    calls |-> {Call("ticket", a, k2, None, None), Call("ticket", b, k2, None, None)}]
(* A server without any key gets its first.                                *)
Development == [ips |-> {i1}, config |-> {}, issued |-> {}, until |-> 3,
    calls |-> {Header("login", "wrong"), Cookie("list", s1), Call("issue", k1, None, s1, None)}]
(* Its console leaves.                                                     *)
Leaving == [ips |-> {i1}, config |-> {}, issued |-> {k1}, until |-> 2,
    calls |-> {Header("login", k1), Cookie("list", s1), Call("logout", None, k1, s1, None)}]
(* A token in the configuration; keys that are good for something else.    *)
Configured == [ips |-> {i1}, config |-> {"credentials"}, issued |-> {k2, k3, k4}, until |-> 3,
    calls |-> {Header("list", "config"), Header("login", "config"), Header("list", None),
               Header("list", k3), Header("login", k3), Header("login", k4)}]
(* A credential in the query, where nothing else has one.                  *)
Queries == [ips |-> {i2}, config |-> {}, issued |-> {k1, k2}, until |-> 3,
    calls |-> {Call("list", None, None, None, k2), Call("list", None, None, None, "wrong"),
               Call("list", None, "wrong", None, k1)}]
Unprotected == [ips |-> {i2}, config |-> {"insecure"}, issued |-> {}, until |-> 3,
    calls |-> {Header("list", None), Header("list", k1), Call("issue", k1, None, None, None),
               Call("revoke", k1, None, None, None)}]

MCWorlds == {Limits, Logins, OverQuota, Authority, Viewing, Development, Leaving, Configured, Queries, Unprotected}
=============================================================================
