------------------------------ MODULE HttpAuth ------------------------------
(***************************************************************************)
(* Who may call the HTTP interface: the authentication layer in front of   *)
(* every route, with the failures it counts per address, the requests it   *)
(* counts per key, the sessions of the console and the tickets of the      *)
(* remote desktop.                                                         *)
(*                                                                         *)
(* Sources: crates/server/src/mcp/mod.rs (auth_layer), rate_limit.rs,      *)
(* session.rs, desktop_ticket.rs, the login, logout, ticket and key        *)
(* handlers of mcp/dashboard.rs, config.rs. Each of these stores has a     *)
(* lock of its own, held for one operation; between two of them any other  *)
(* request may run. A step here is one such operation, or two on different *)
(* stores one after the other where no other request can tell.             *)
(*                                                                         *)
(* A tick is a second. The code of a request has no await before its       *)
(* handler runs, and is taken not to be cut by a tick; a handler may last. *)
(*                                                                         *)
(* Abstracted: secrets (a credential is a name), the audit records, the    *)
(* wording of a refusal. An address the limiter holds no entry for is one  *)
(* with an empty entry. How keys are stored is the subject of KeyStore.    *)
(***************************************************************************)
EXTENDS Naturals, Sequences, FiniteSets

CONSTANTS
    Requests,     \* requests in flight at one time
    Ips,          \* addresses of peers
    Loopback,     \* those that are loopback
    Keys,         \* keys of the key store
    KeyKind,      \* what each is good for
    SessionIds,   \* session tokens
    Tickets,      \* desktop tickets
    Terminals,    \* terminals a ticket may name
    Limit,        \* failures in a minute that limit an address
    BanAt,        \* failures in ten minutes that ban it
    Minute,       \* the short window
    TenMinutes,   \* the long window
    BanTime,      \* how long a ban lasts
    Quota,        \* requests of one key in a minute
    SessionTtl,   \* how long a session lasts
    TicketTtl,    \* how long a ticket lasts
    Worlds,       \* what may happen: a behaviour draws one of these
    None          \* no credential, no time

(* KeyKind says what a key is good for: admin and viewer, an administrator's*)
(* and a viewer's; device, the token of a device; narrow, one with neither *)
(* the mcp nor the console scope. The numbers are at least one, and Minute *)
(* is at most TenMinutes.                                                  *)

VARIABLES
    world,     \* the world of this behaviour
    now,       \* the clock
    entry,     \* the limiter's entry of each address
    hits,      \* the requests the quota tracker holds for each key id
    key,       \* each key: absent, active or revoked
    sessions,  \* the sessions held
    tickets,   \* the tickets held
    req,       \* the requests being served
    log,       \* history: the failures recorded since the last success, of ten minutes
    passed,    \* history: the requests past their check when a ban was set
    admitted,  \* history: when requests of each key id were admitted, of one minute
    ended,     \* history: when a key was revoked, when open development ended
    granted    \* history: whose authority a session or ticket carries, since when

vars == <<world, now, entry, hits, key, sessions, tickets, req,
          log, passed, admitted, ended, granted>>
limiter  == <<entry, log, passed>>
quotas   == <<hits, admitted>>
consoles == <<sessions, tickets, granted>>
keyring  == <<key, ended>>

PCs     == {"idle", "fallback", "pass", "serve", "failcheck", "failrecord", "loginpass", "loginfail"}
Owners  == Keys \cup {"config", "local", "dev"}
KeyIds  == Keys \cup {"legacy"}
(* Whose authority, counted under which key id, with which role: none,     *)
(* viewer, operator or administrator.                                      *)
Nobody  == [by |-> None, id |-> "legacy", role |-> 0]
Idle    == [pc |-> "idle", ip |-> None, kind |-> "list", on |-> None, token |-> None,
            cookie |-> None, who |-> Nobody]
NoEntry == [failures |-> <<>>, until |-> 0]

(* What comes in: a request with what it is about and up to three          *)
(* credentials, of which "wrong" stands for any that nobody knows.         *)
Kinds       == {"list", "ticket", "issue", "revoke", "login", "logout"}
Credentials == Keys \cup SessionIds \cup {"config", "wrong", None}
Calls       == [kind : Kinds, on : Terminals \cup Keys \cup {None},
                header : Credentials, cookie : Credentials, query : Credentials]

(* What Vec::retain keeps of the times in s: those at most w before t. The *)
(* windows are closed: a failure still counts exactly a minute later.      *)
Kept(s, t, w) ==
    LET f[n \in 0..Len(s)] ==
          IF n = 0 THEN <<>> ELSE IF t - s[n] <= w THEN Append(f[n - 1], s[n]) ELSE f[n - 1]
    IN  f[Len(s)]
Within(s, w)   == Kept(s, now, w)
Banned(e)      == e.until > now
Peeked(e)      == IF Banned(e) THEN e ELSE [e EXCEPT !.until = 0]
Limited(e)     == Len(Within(e.failures, Minute)) >= Limit
Decision(e)    == IF Banned(e) THEN "banned" ELSE IF Limited(e) THEN "limited" ELSE "allowed"

Prune_Minute(s) == \* keeps what the short window needs
    Within(s, Minute)
Prune(s) == Within(s, TenMinutes)
Recorded(e) ==
    IF Banned(e) THEN e
    ELSE LET kept == Prune(Append(e.failures, now)) IN
         [failures |-> kept, until |-> IF Len(kept) >= BanAt THEN now + BanTime ELSE 0]

(* A success removes the entry, the ban with it.                           *)
Check(i)   == /\ entry' = [entry EXCEPT ![i] = Peeked(@)]
              /\ UNCHANGED log
Fail(i)    == /\ entry' = [entry EXCEPT ![i] = Recorded(@)]
              /\ log' = [log EXCEPT ![i] = IF Banned(entry[i]) THEN @ ELSE Append(@, now)]
              /\ passed' = IF Banned(entry'[i]) /\ ~Banned(entry[i])
                           THEN [passed EXCEPT ![i] = {r \in Requests : req[r].ip = i}]
                           ELSE passed
Succeed(i) == /\ entry' = [entry EXCEPT ![i] = NoEntry]
              /\ log' = [log EXCEPT ![i] = <<>>]
              /\ passed' = [passed EXCEPT ![i] = {}]

HasCredentials == "credentials" \in world.config
Insecure       == "insecure" \in world.config
AnyActive      == \E k \in Keys : key[k] = "active"
OpenDev        == ~HasCredentials /\ ~AnyActive

(* The header is read before the cookie, the cookie before the query.      *)
Extract(c) == IF c.header # None THEN c.header
              ELSE IF c.cookie # None THEN c.cookie ELSE c.query

Init ==
    /\ world \in Worlds
    /\ now = 1
    /\ entry = [i \in Ips |-> NoEntry]
    /\ hits = [id \in KeyIds |-> <<>>]
    /\ key = [k \in Keys |-> IF k \in world.issued THEN "active" ELSE "absent"]
    /\ sessions = <<>> /\ tickets = <<>>
    /\ req = [r \in Requests |-> Idle]
    /\ log = [i \in Ips |-> <<>>]
    /\ passed = [i \in Ips |-> {}]
    /\ admitted = [id \in KeyIds |-> <<>>]
    /\ ended = [o \in Owners |-> IF o = "dev" /\ world.issued # {} THEN 0 ELSE None]
    /\ granted = <<>>

Goto(r, pc) == req' = [req EXCEPT ![r].pc = pc]
Answer(r)   == req' = [req EXCEPT ![r] = Idle]

(***************************************************************************)
(* The authentication layer. It is left to the handler: the login, which   *)
(* has no credential yet, and the desktop socket, which has a ticket.      *)
(***************************************************************************)
Blocks_Never(e) == \* an address is looked at only when a credential has failed
    FALSE
Blocks(e) == Decision(e) = "banned"

Alive(s)     == sessions[s].until > now
Principal(k) == [by |-> k, id |-> k, role |-> IF KeyKind[k] = "admin" THEN 3 ELSE 1]
Administrator(by) == [by |-> by, id |-> "legacy", role |-> 3]
Without(f, x)     == [y \in DOMAIN f \ {x} |-> f[y]]

(* A session answers for the principal it was made for, a key for itself;  *)
(* a revoked key fails; what neither store knows may be configured.        *)
Verdict(t) ==
    IF t \in DOMAIN sessions /\ Alive(t) THEN [pc |-> "pass", who |-> sessions[t].who]
    ELSE IF t \in Keys /\ key[t] = "active" THEN [pc |-> "pass", who |-> Principal(t)]
    ELSE IF t \in Keys /\ key[t] = "revoked" THEN [pc |-> "failcheck", who |-> Nobody]
    ELSE [pc |-> "fallback", who |-> Nobody]

(* A device's token, and a key without the scope, are refused at once.     *)
OutOfScope(t) == t \in Keys /\ key[t] = "active" /\ KeyKind[t] \in {"device", "narrow"}

(* A request of an address that is not banned comes in. An expired session *)
(* is dropped when it is presented.                                        *)
Receive(r) == \E i \in world.ips, c \in world.calls :
    LET t == Extract(c) IN
    /\ req[r].pc = "idle" /\ c.kind # "login" /\ ~Blocks(entry[i]) /\ ~OutOfScope(t)
    /\ req' = [req EXCEPT ![r] = [pc |-> Verdict(t).pc, ip |-> i, kind |-> c.kind, on |-> c.on,
                                  token |-> t, cookie |-> c.cookie, who |-> Verdict(t).who]]
    /\ sessions' = IF t \in DOMAIN sessions /\ ~Alive(t) THEN Without(sessions, t) ELSE sessions
    /\ Check(i)
    /\ passed' = [passed EXCEPT ![i] = @ \ {r}]
    /\ UNCHANGED <<world, now, quotas, tickets, granted, keyring>>

(* A configured token counts only while one is configured. Without any     *)
(* credential a peer of this machine is the administrator.                 *)
Fallback(r) ==
    LET configured == HasCredentials /\ req[r].token = "config"
        local      == Insecure \/ (req[r].ip \in Loopback /\ OpenDev) IN
    /\ req[r].pc = "fallback"
    /\ req' = [req EXCEPT ![r].pc  = IF configured \/ local THEN "pass" ELSE "failcheck",
                          ![r].who = IF configured THEN Administrator("config")
                                     ELSE IF local THEN Administrator("local") ELSE Nobody]
    /\ UNCHANGED <<world, now, limiter, quotas, consoles, keyring>>

(* A failure is recorded unless the address is limited already or no       *)
(* credential was sent: the check and the record are two operations.       *)
FailCheck(r) == LET i == req[r].ip IN
    /\ req[r].pc = "failcheck"
    /\ IF Decision(entry[i]) = "allowed" /\ req[r].token # None
       THEN Goto(r, "failrecord") ELSE Answer(r)
    /\ Check(i)
    /\ UNCHANGED <<world, now, quotas, consoles, keyring, passed>>

FailRecord(r) ==
    /\ req[r].pc = "failrecord"
    /\ Answer(r)
    /\ Fail(req[r].ip)
    /\ UNCHANGED <<world, now, quotas, consoles, keyring>>

MinRole(kind) == CASE kind \in {"issue", "revoke"} -> 3
                   [] kind \in {"list", "ticket"} -> 1
                   [] kind = "logout" -> 0

(* Only a request that is admitted is counted.                             *)
Counted(kept) == IF Len(kept) < Quota THEN Append(kept, now) ELSE kept

(* The success is recorded; then the role is looked at; then the request   *)
(* is counted, if its key id has one left in this minute. The handlers     *)
(* that only read end here.                                                *)
Pass(r) == LET id   == req[r].who.id
               kept == Within(hits[id], Minute)
               may  == req[r].who.role >= MinRole(req[r].kind) IN
    /\ req[r].pc = "pass"
    /\ Succeed(req[r].ip)
    /\ hits' = IF may THEN [hits EXCEPT ![id] = Counted(kept)] ELSE hits
    /\ admitted' = IF may /\ Len(kept) < Quota THEN [admitted EXCEPT ![id] = Append(@, now)]
                   ELSE admitted
    /\ IF may /\ Len(kept) < Quota /\ req[r].kind # "list" THEN Goto(r, "serve") ELSE Answer(r)
    /\ UNCHANGED <<world, now, consoles, keyring>>

(***************************************************************************)
(* The handlers that change what the layer looks at.                       *)
(***************************************************************************)
Fresh(S)     == CHOOSE x \in S \ DOMAIN granted : TRUE
Grant(x, by) == granted' =
    [y \in DOMAIN granted \cup {x} |->
       IF y = x THEN [by |-> by, since |-> now, tried |-> FALSE, opened |-> FALSE] ELSE granted[y]]

(* The session of the cookie ends, whatever the request was admitted for.  *)
Logout(r) ==
    /\ req[r].pc = "serve" /\ req[r].kind = "logout"
    /\ Answer(r)
    /\ sessions' = Without(sessions, req[r].cookie)
    /\ UNCHANGED <<world, now, limiter, quotas, tickets, granted, keyring>>

IssueTicket(r) == LET t    == Fresh(Tickets)
                      live == {x \in DOMAIN tickets : tickets[x].until > now} IN
    /\ req[r].pc = "serve" /\ req[r].kind = "ticket" /\ ~(Tickets \subseteq DOMAIN granted)
    /\ Answer(r)
    /\ tickets' = [x \in live \cup {t} |->
                     IF x = t THEN [term |-> req[r].on, until |-> now + TicketTtl] ELSE tickets[x]]
    /\ Grant(t, req[r].who.by)
    /\ UNCHANGED <<world, now, limiter, quotas, sessions, keyring>>

IssueKey(r) == LET k == req[r].on IN
    /\ req[r].pc = "serve" /\ req[r].kind = "issue"
    /\ Answer(r)
    /\ key' = [key EXCEPT ![k] = IF @ = "absent" THEN "active" ELSE @]
    /\ ended' = IF OpenDev /\ key[k] = "absent" THEN [ended EXCEPT !["dev"] = now] ELSE ended
    /\ UNCHANGED <<world, now, limiter, quotas, consoles>>

(* The last active key of an administrator stays.                          *)
LastAdmin(k) == KeyKind[k] = "admin"
                /\ \A j \in Keys \ {k} : ~(KeyKind[j] = "admin" /\ key[j] = "active")

(* Once no key is active, a server without credentials is open again.      *)
OpensAgain(k) == ~HasCredentials /\ \A j \in Keys \ {k} : key[j] # "active"

RevokeKey(r) == LET k == req[r].on IN
    /\ req[r].pc = "serve" /\ req[r].kind = "revoke"
    /\ Answer(r)
    /\ IF key[k] = "active" /\ ~LastAdmin(k)
       THEN /\ key' = [key EXCEPT ![k] = "revoked"]
            /\ ended' = [ended EXCEPT ![k] = now, !["dev"] = IF OpensAgain(k) THEN None ELSE @]
       ELSE UNCHANGED keyring
    /\ UNCHANGED <<world, now, limiter, quotas, consoles>>

(***************************************************************************)
(* The login. It is refused to an address that is limited or banned, and   *)
(* records every failure. Without any credential the server takes any key. *)
(***************************************************************************)
LoginVerdict(t) ==
    LET unknown == t \in Keys => key[t] = "absent" IN
    IF t \in Keys /\ key[t] = "active" /\ KeyKind[t] # "device"
    THEN [pc |-> "loginpass", who |-> Principal(t)]
    ELSE IF HasCredentials /\ t = "config"
    THEN [pc |-> "loginpass", who |-> Administrator("config")]
    ELSE IF OpenDev /\ unknown
    THEN [pc |-> "loginpass", who |-> Administrator("dev")]
    ELSE [pc |-> "loginfail", who |-> Nobody]

Login(r) == \E i \in world.ips, c \in world.calls :
    LET t == Extract(c) IN
    /\ req[r].pc = "idle" /\ c.kind = "login" /\ t # None /\ Decision(entry[i]) = "allowed"
    /\ req' = [req EXCEPT ![r] = [Idle EXCEPT !.pc = LoginVerdict(t).pc, !.who = LoginVerdict(t).who,
                                              !.ip = i, !.kind = "login"]]
    /\ Check(i)
    /\ passed' = [passed EXCEPT ![i] = @ \ {r}]
    /\ UNCHANGED <<world, now, quotas, consoles, keyring>>

LoginFail(r) ==
    /\ req[r].pc = "loginfail"
    /\ Answer(r)
    /\ Fail(req[r].ip)
    /\ UNCHANGED <<world, now, quotas, consoles, keyring>>

(* The success is recorded and a session made; the expired ones are        *)
(* dropped. It holds what the principal was, not the key.                  *)
CreateSession(r) == LET s    == Fresh(SessionIds)
                        live == {x \in DOMAIN sessions : Alive(x)} IN
    /\ req[r].pc = "loginpass" /\ ~(SessionIds \subseteq DOMAIN granted)
    /\ Answer(r)
    /\ Succeed(req[r].ip)
    /\ sessions' = [x \in live \cup {s} |->
                      IF x = s THEN [who |-> req[r].who, until |-> now + SessionTtl] ELSE sessions[x]]
    /\ Grant(s, req[r].who.by)
    /\ UNCHANGED <<world, now, quotas, tickets, keyring>>

(***************************************************************************)
(* The desktop socket. A ticket is taken out of the store before it is     *)
(* looked at; it is good through the end of its time.                      *)
(***************************************************************************)
Opens(t, term) == tickets[t].until >= now /\ tickets[t].term = term

OpenSocket == \E t \in DOMAIN tickets, term \in Terminals :
    /\ tickets' = Without(tickets, t)
    /\ granted' = [granted EXCEPT ![t].tried = TRUE, ![t].opened = @ \/ Opens(t, term)]
    /\ UNCHANGED <<world, now, limiter, quotas, sessions, keyring, req>>

Tick ==
    /\ now < world.until
    /\ \A r \in Requests : req[r].pc \in {"idle", "serve"}
    /\ now' = now + 1
    /\ log' = [i \in Ips |-> Kept(log[i], now', TenMinutes)]
    /\ admitted' = [id \in KeyIds |-> Kept(admitted[id], now', Minute)]
    /\ UNCHANGED <<world, entry, passed, hits, consoles, keyring, req>>

Step(r) == \/ Receive(r) \/ Fallback(r) \/ FailCheck(r) \/ FailRecord(r) \/ Pass(r)
           \/ Logout(r) \/ IssueTicket(r) \/ IssueKey(r) \/ RevokeKey(r)
           \/ Login(r) \/ LoginFail(r) \/ CreateSession(r)

Next == (\E r \in Requests : Step(r)) \/ OpenSocket \/ Tick
Spec == Init /\ [][Next]_vars

-----------------------------------------------------------------------------
Times == 0..(now + BanTime + SessionTtl + TicketTtl)

(* What each variable holds.                                               *)
TypeOK ==
    /\ now \in Nat /\ now <= world.until
    /\ \A i \in Ips : entry[i].failures \in Seq(0..now) /\ entry[i].until \in Times
    /\ key \in [Keys -> {"absent", "active", "revoked"}]
    /\ \A id \in KeyIds : hits[id] \in Seq(0..now) /\ Len(hits[id]) <= Quota
    /\ DOMAIN sessions \subseteq SessionIds
    /\ \A s \in DOMAIN sessions : sessions[s].until \in Times /\ sessions[s].who.role \in 1..3
    /\ DOMAIN tickets \subseteq Tickets
    /\ \A t \in DOMAIN tickets : tickets[t].term \in Terminals /\ tickets[t].until \in Times
    /\ \A r \in Requests : req[r].pc \in PCs /\ req[r].who.id \in KeyIds

(* Although record_failure_at forgets what is older than ten minutes and   *)
(* check_at forgets nothing, the limiter's two windows hold exactly the    *)
(* failures since the address last succeeded.                              *)
LimiterExact == \A i \in Ips : Within(entry[i].failures, TenMinutes) = log[i]

(* The check and the record are two operations: requests at the same time  *)
(* may each find the address below its limit. They exceed it by no more    *)
(* than one failure each but the first.                                    *)
BurstBounded == \A i \in Ips :
    Len(Within(log[i], Minute)) <= Limit - 1 + Cardinality(Requests)

(* A ban is cut short by a success of the same address only if that        *)
(* request was past its own check when the ban was set.                    *)
BanLifted == [][\A i \in Ips :
    Banned(entry[i]) /\ now' = now /\ entry'[i].until <= now
        => \E r \in passed[i] : req[r].ip = i /\ req[r].pc \in {"pass", "loginpass"}
                                /\ req'[r].pc # req[r].pc]_vars

(* In no minute more requests of one key id are admitted than its quota,   *)
(* whether they come with the key or with sessions made from it, and       *)
(* however many requests a refusal has driven away.                        *)
QuotaHolds == \A id \in KeyIds : Len(admitted[id]) <= Quota

(* A revoked key, or a development server that got its first key, admits   *)
(* nobody once the sessions made before have run out.                      *)
AuthorityEnds == [][\A r \in Requests :
    req[r].pc # "pass" /\ req'[r].pc = "pass"
        => LET by == req'[r].who.by IN ended[by] # None => now < ended[by] + SessionTtl]_vars

(* A ticket opens a socket only in its time and at the first attempt: one  *)
(* that names another terminal uses it up.                                 *)
TicketSpent == [][\A t \in DOMAIN granted :
    ~granted[t].opened /\ granted'[t].opened
        => ~granted[t].tried /\ now <= granted[t].since + TicketTtl]_vars

=============================================================================
