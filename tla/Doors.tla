-------------------------------- MODULE Doors --------------------------------
(***************************************************************************)
(* The two doors of the server and its keys side by side: Enrollment, by   *)
(* which a device asks to be let in, HttpAuth, by which a request is, and  *)
(* KeyStore, the API keys. They share no state: a behaviour is one of one  *)
(* of the three, drawn at its beginning, while the others stand still.     *)
(***************************************************************************)
EXTENDS Enrollment, Sequences

CONSTANTS
    (* HttpAuth, and its worlds *)
    Callers, Requests, Ips, Loopback, Accounts, KeyKind, SessionIds, Tickets, Terminals,
    Limit, BanAt, Minute, TenMinutes, BanTime, Quota, SessionTtl, TicketTtl,
    (* KeyStore *)
    ApiKeys, Verifiers, KeyTime, MaxGrace, NoKey, Never, Unsure, Chances

VARIABLES
    part,
    (* HttpAuth *)
    world, clock, entry, hits, key, sessions, tickets, req, log, passed, admitted, ended, given,
    (* KeyStore *)
    chance, server, refusal, bootFile, keysFile, saved, mem, recent, verifier, hour, used, printed, promise

http == <<world, clock, entry, hits, key, sessions, tickets, req, log, passed, admitted, ended, given>>
keystore == <<chance, server, refusal, bootFile, keysFile, saved, mem, recent, verifier, hour, used, printed, promise>>

H == INSTANCE HttpAuth WITH Worlds <- Callers, Keys <- Accounts, now <- clock, granted <- given
K == INSTANCE KeyStore WITH Keys <- ApiKeys, MaxTime <- KeyTime, Scenarios <- Chances,
                            env <- chance, disk <- saved, now <- hour

ASSUME AccessAssumption ==
    /\ Limit \in Nat \ {0} /\ BanAt \in Nat \ {0} /\ Quota \in Nat \ {0}
    /\ Minute \in Nat /\ TenMinutes \in Nat /\ Minute <= TenMinutes
    /\ BanTime \in Nat /\ SessionTtl \in Nat /\ TicketTtl \in Nat
    /\ IsFiniteSet(Requests)

(* None is no address, and no authority; a handler is asked for a ticket   *)
(* to a terminal, and for a change to a key.                               *)
ASSUME CallersAssumption ==
    /\ None \notin Ips \cup H!Owners
    /\ Accounts \cap {"config", "local", "dev", "legacy"} = {}
    /\ \A w \in Callers :
          /\ w.ips \subseteq Ips /\ w.issued \subseteq Accounts /\ w.until \in Nat \ {0}
          /\ w.calls \subseteq H!Calls
          /\ \A c \in w.calls : /\ c.kind = "ticket" => c.on \in Terminals
                                /\ c.kind \in {"issue", "revoke"} => c.on \in Accounts

(* The sentinels are no keys and no records, and no time is never.         *)
ASSUME ChancesAssumption == Chances \subseteq SUBSET K!Events
ASSUME TimeAssumption == KeyTime \in Nat /\ MaxGrace \in Nat
ASSUME NeverAssumption == Never \notin Nat
ASSUME SentinelsAssumption ==
    NoKey \notin K!Records \cup ApiKeys \cup {"partial"} /\ Unsure \notin K!Entries
ASSUME KeysAssumption == "partial" \notin ApiKeys

MCInit ==
    /\ part \in {"enrollment", "http", "keys"}
    /\ IF part = "enrollment" THEN TRUE ELSE env = CHOOSE e \in Scenarios : TRUE
    /\ IF part = "http" THEN TRUE ELSE world = CHOOSE w \in Callers : TRUE
    /\ IF part = "keys" THEN TRUE ELSE chance = CHOOSE c \in Chances : TRUE
    /\ Init /\ H!Init /\ K!Init

MCNext ==
    \/ part = "enrollment" /\ Next   /\ UNCHANGED <<part, http, keystore>>
    \/ part = "http"       /\ H!Next /\ UNCHANGED <<part, vars, keystore>>
    \/ part = "keys"       /\ K!Next /\ UNCHANGED <<part, vars, http>>

MCSpec == MCInit /\ [][MCNext]_<<part, vars, http, keystore>>

-----------------------------------------------------------------------------
(* Whatever requests come at once, the limiter and the quota count what    *)
(* they should, no more and no less (rate_limit.rs and the layer in front  *)
(* of every route, mcp/mod.rs, auth_layer). The types of the part are      *)
(* checked with them.                                                      *)
WithinLimits == part = "http" => H!TypeOK /\ H!LimiterExact /\ H!BurstBounded /\ H!QuotaHolds

(* A right ends where it should: a revoked key's with the sessions made    *)
(* before, a ticket's with its first use or its time, a ban with its time  *)
(* or with a success that was under way (session.rs, desktop_ticket.rs,    *)
(* rate_limit.rs).                                                         *)
RightsEnd == H!AuthorityEnds /\ H!TicketSpent /\ H!BanLifted

(* What was acknowledged of a key, and what the banner said of the root    *)
(* key, holds in memory and on disk, and the last admin key remains        *)
(* (keystore.rs, bootstrap.rs). The types of the part are checked with the *)
(* first of them.                                                          *)
AcknowledgedHolds == part = "keys" => K!TypeOK /\ K!AcknowledgedHolds
BannerHolds       == part = "keys" => K!BannerHolds
AdminRemains      == K!AdminRemains
=============================================================================
