-------------------------- MODULE EnrollmentProofs --------------------------
(***************************************************************************)
(* Proofs about the two doors, HttpAuth and Enrollment, for any callers,   *)
(* keys, addresses, limits, sessions, identities, times and scenarios.     *)
(*                                                                         *)
(* HttpAuth: what the limiter and the quota hold is described by what they *)
(* keep of a list of times (Kept), a recursive function. What it gives is  *)
(* proved with a smallest counterexample, that is, the set of the lengths  *)
(* at which it would fail has no least member and so is empty.             *)
(*                                                                         *)
(* Enrollment: the list of pending records is copied into snapshots and    *)
(* read back from files, so what holds of the list is proved of every copy *)
(* there is.                                                               *)
(***************************************************************************)
EXTENDS Doors, FiniteSetTheorems, SequenceTheorems, WellFoundedInduction, TLAPS

Principals == [by : H!Owners \cup {None}, id : H!KeyIds, role : 0..3]
Request    == [pc : H!PCs, ip : Ips \cup {None}, kind : H!Kinds, on : Terminals \cup Accounts \cup {None},
               token : H!Credentials, cookie : H!Credentials, who : Principals]

HTypes ==
    /\ world \in Callers /\ clock \in Nat \ {0} /\ clock <= world.until
    /\ entry \in [Ips -> [failures : Seq(Nat), until : Nat]]
    /\ hits \in [H!KeyIds -> Seq(Nat)] /\ admitted \in [H!KeyIds -> Seq(Nat)]
    /\ log \in [Ips -> Seq(Nat)] /\ passed \in [Ips -> SUBSET Requests]
    /\ key \in [Accounts -> {"absent", "active", "revoked"}]
    /\ ended \in [H!Owners -> Nat \cup {None}]
    /\ req \in [Requests -> Request]
    /\ DOMAIN sessions \subseteq SessionIds /\ DOMAIN tickets \subseteq Tickets
    /\ \A s \in DOMAIN sessions : sessions[s] \in [who : Principals, until : Nat]
    /\ \A t \in DOMAIN tickets : tickets[t] \in [term : Terminals, until : Nat]

(* A request being served has an address, a subject of its kind, and once  *)
(* it has passed somebody it acts for.                                     *)
ServedOf(q) ==
    /\ q.ip = None <=> q.pc = "idle"
    /\ q.kind = "ticket" => q.on \in Terminals
    /\ q.kind \in {"issue", "revoke"} => q.on \in Accounts
    /\ q.pc \in {"pass", "serve", "loginpass"} => q.who.by \in H!Owners /\ q.who.role \in 1..3
ServedInv == \A r \in Requests : ServedOf(req[r])

(* A right that has ended was not given since.                             *)
RightInv ==
    /\ ended["config"] = None /\ ended["local"] = None
    /\ H!OpenDev => ended["dev"] = None
    /\ \A k \in Accounts : key[k] # "revoked" => ended[k] = None
    /\ \A r \in Requests : req[r].pc = "loginpass" => ended[req[r].who.by] \in {None, clock}
    /\ \A s \in DOMAIN sessions :
          /\ sessions[s].who.by \in H!Owners /\ sessions[s].who.role \in 1..3
          /\ sessions[s].until <= clock + SessionTtl
          /\ ended[sessions[s].who.by] # None => sessions[s].until <= ended[sessions[s].who.by] + SessionTtl

(* A ticket in the store has not been tried.                               *)
Carried == [by : H!Owners, since : Nat, tried : BOOLEAN, opened : BOOLEAN]
TicketInv ==
    /\ \A t \in DOMAIN given : given[t] \in Carried
    /\ \A t \in DOMAIN tickets :
          /\ t \in DOMAIN given /\ given[t].tried = FALSE
          /\ tickets[t].until = given[t].since + TicketTtl /\ tickets[t].until <= clock + TicketTtl

(* Whoever is served from an address under a ban was past its check.       *)
BanInv == \A i \in Ips : entry[i].until > clock => \A r \in Requests : req[r].ip = i => r \in passed[i]

(* The times held, and those that count.                                   *)
CountInv ==
    /\ \A i \in Ips : /\ entry[i].failures \in Seq(0..clock) /\ entry[i].until <= clock + BanTime
                      /\ H!Kept(entry[i].failures, clock, TenMinutes) = log[i]
    /\ \A id \in H!KeyIds : /\ hits[id] \in Seq(0..clock) /\ Len(hits[id]) <= Quota
                            /\ H!Kept(hits[id], clock, Minute) = admitted[id]

(* Each request on its way to record a failure was below the limit when it *)
(* was checked.                                                            *)
Failing(i) == {r \in Requests : req[r].ip = i /\ req[r].pc \in {"failrecord", "loginfail"}}
BurstInv == \A i \in Ips :
    Len(H!Kept(log[i], clock, Minute)) + Cardinality(Failing(i)) <= Limit - 1 + Cardinality(Requests)
(* A set of numbers that holds none without a smaller one is empty.        *)
LEMMA NoLeast ==
    ASSUME NEW S \in SUBSET Nat, \A n \in S : \E m \in S : m < n
    PROVE  S = {}
<1>1. SUFFICES ASSUME S # {} PROVE FALSE
  OBVIOUS
<1>2. PICK x \in S : \A y \in S : ~(<<y, x>> \in OpToRel(<, Nat))
  BY <1>1, NatLessThanWellFounded, WFMin
<1>3. PICK m \in S : m < x
  OBVIOUS
<1> QED BY <1>2, <1>3 DEF OpToRel

(* What Append gives, for arguments that are terms.                        *)
LEMMA Appended ==
    ASSUME NEW S, NEW s \in Seq(S), NEW x \in S
    PROVE  /\ Append(s, x) \in Seq(S) /\ Len(Append(s, x)) = Len(s) + 1
           /\ Append(s, x)[Len(s) + 1] = x /\ \A i \in 1..Len(s) : Append(s, x)[i] = s[i]
<1>1. Len(s) \in Nat
  BY LenProperties
<1> QED BY <1>1, AppendProperties

Grown(g, s, t, w, m) ==
    /\ g \in [0..m -> Seq(Nat)] /\ g[0] = <<>>
    /\ \A n \in 1..m : g[n] = IF t - s[n] <= w THEN Append(g[n - 1], s[n]) ELSE g[n - 1]

(* The steps of Kept, up to the m-th: one more, all, and no other.         *)
LEMMA GrownMore ==
    ASSUME NEW s \in Seq(Nat), NEW t \in Nat, NEW w \in Nat, NEW m \in 1..Len(s),
           NEW g, Grown(g, s, t, w, m - 1)
    PROVE  \E h : Grown(h, s, t, w, m)
<1> DEFINE x == IF t - s[m] <= w THEN Append(g[m - 1], s[m]) ELSE g[m - 1]
           h == [n \in 0..m |-> IF n = m THEN x ELSE g[n]]
<1>1. s[m] \in Nat /\ m \in Nat /\ m - 1 \in 0..(m - 1)
  BY ElementOfSeq
<1>2. g[m - 1] \in Seq(Nat)
  BY <1>1 DEF Grown
<1>3. x \in Seq(Nat)
  BY <1>1, <1>2, Appended
<1>4. \A n \in 0..m : n # m => n \in 0..(m - 1) /\ g[n] \in Seq(Nat)
  BY <1>1 DEF Grown
<1>5. h \in [0..m -> Seq(Nat)]
  BY <1>3, <1>4
<1>6. h[0] = <<>>
  BY <1>1 DEF Grown
<1>7. ASSUME NEW n \in 1..m
      PROVE  h[n] = IF t - s[n] <= w THEN Append(h[n - 1], s[n]) ELSE h[n - 1]
  <2>1. n - 1 \in 0..m /\ n - 1 # m /\ n \in 0..m
    BY <1>1
  <2>2. h[n - 1] = g[n - 1]
    BY <2>1
  <2>3. CASE n = m
    BY <2>1, <2>2, <2>3
  <2>4. CASE n # m
    <3>1. n \in 1..(m - 1) /\ h[n] = g[n]
      BY <1>1, <2>1, <2>4
    <3> QED BY <2>2, <3>1 DEF Grown
  <2> QED BY <2>3, <2>4
<1>8. Grown(h, s, t, w, m)
  BY <1>5, <1>6, <1>7 DEF Grown
<1> QED BY <1>8

LEMMA GrownExists ==
    ASSUME NEW s \in Seq(Nat), NEW t \in Nat, NEW w \in Nat, NEW m \in 0..Len(s)
    PROVE  \E g : Grown(g, s, t, w, m)
<1> DEFINE S == {n \in 0..Len(s) : ~\E g : Grown(g, s, t, w, n)}
<1>1. \A n \in S : \E k \in S : k < n
  <2> SUFFICES ASSUME NEW n \in S PROVE \E k \in S : k < n
    OBVIOUS
  <2>1. n # 0
    <3> DEFINE g == [i \in 0..0 |-> <<>>]
    <3>1. Grown(g, s, t, w, 0)
      BY EmptySeq DEF Grown
    <3> QED BY <3>1
  <2>2. n \in 1..Len(s) /\ n - 1 \in 0..Len(s) /\ n - 1 < n
    BY <2>1, LenProperties
  <2>3. n - 1 \in S
    BY <2>2, GrownMore
  <2> QED BY <2>2, <2>3
<1>2. S = {}
  <2>1. S \in SUBSET Nat
    BY LenProperties
  <2> HIDE DEF S
  <2> QED BY <1>1, <2>1, NoLeast
<1> QED BY <1>2

(* Two ways to grow over sequences that agree so far agree.                *)
Agreeing(g, h, s, z, t, w, k, j, m) ==
    /\ s \in Seq(Nat) /\ z \in Seq(Nat) /\ t \in Nat /\ w \in Nat /\ k \in Nat /\ j \in Nat /\ m \in Nat
    /\ Grown(g, s, t, w, k) /\ Grown(h, z, t, w, j) /\ m <= k /\ m <= j /\ \A n \in 1..m : s[n] = z[n]

LEMMA GrownSame ==
    ASSUME NEW g, NEW h, NEW s, NEW z, NEW t, NEW w, NEW k, NEW j, NEW m, Agreeing(g, h, s, z, t, w, k, j, m)
    PROVE  g[m] = h[m]
<1>0. /\ s \in Seq(Nat) /\ z \in Seq(Nat) /\ t \in Nat /\ w \in Nat /\ k \in Nat /\ j \in Nat /\ m \in Nat
      /\ Grown(g, s, t, w, k) /\ Grown(h, z, t, w, j) /\ m <= k /\ m <= j /\ \A n \in 1..m : s[n] = z[n]
  BY DEF Agreeing
<1> DEFINE S == {n \in 0..m : g[n] # h[n]}
<1>1. \A n \in S : \E l \in S : l < n
  <2> SUFFICES ASSUME NEW n \in S PROVE \E l \in S : l < n
    OBVIOUS
  <2>1. n # 0
    BY <1>0 DEF Grown
  <2>2. n \in 1..m /\ n \in 1..k /\ n \in 1..j /\ n - 1 \in 0..m /\ n - 1 < n
    BY <1>0, <2>1
  <2>3. g[n - 1] # h[n - 1]
    <3>1. s[n] = z[n]
      BY <1>0, <2>2
    <3>2. g[n] = IF t - s[n] <= w THEN Append(g[n - 1], s[n]) ELSE g[n - 1]
      BY <1>0, <2>2 DEF Grown
    <3>3. h[n] = IF t - z[n] <= w THEN Append(h[n - 1], z[n]) ELSE h[n - 1]
      BY <1>0, <2>2 DEF Grown
    <3>4. g[n] # h[n]
      OBVIOUS
    <3> QED BY ONLY <3>1, <3>2, <3>3, <3>4
  <2> QED BY <2>2, <2>3
<1>2. S = {}
  <2>1. S \in SUBSET Nat
    BY <1>0
  <2> HIDE DEF S
  <2> QED BY <1>1, <2>1, NoLeast
<1>3. m \in 0..m
  BY <1>0
<1> QED BY <1>2, <1>3

(* Kept is the last of its steps.                                          *)
LEMMA KeptGrown ==
    ASSUME NEW s \in Seq(Nat), NEW t \in Nat, NEW w \in Nat
    PROVE  \E g : Grown(g, s, t, w, Len(s)) /\ H!Kept(s, t, w) = g[Len(s)]
<1> DEFINE Is(f) == f = [n \in 0..Len(s) |-> IF n = 0 THEN <<>> ELSE
                           IF t - s[n] <= w THEN Append(f[n - 1], s[n]) ELSE f[n - 1]]
           F == CHOOSE f : Is(f)
<1>0. Len(s) \in Nat
  BY LenProperties
<1>1. PICK g : Grown(g, s, t, w, Len(s))
  BY <1>0, GrownExists
<1>2. Is(g)
  <2>1. g = [n \in 0..Len(s) |-> g[n]]
    BY <1>0, <1>1 DEF Grown
  <2>2. ASSUME NEW n \in 0..Len(s)
        PROVE  g[n] = IF n = 0 THEN <<>> ELSE IF t - s[n] <= w THEN Append(g[n - 1], s[n]) ELSE g[n - 1]
    <3>1. CASE n = 0
      BY <1>1, <3>1 DEF Grown
    <3>2. CASE n # 0
      <4>1. n \in 1..Len(s)
        BY <1>0, <3>2
      <4> QED BY <1>1, <3>2, <4>1 DEF Grown
    <3> QED BY <3>1, <3>2
  <2> QED BY <2>1, <2>2
<1>3. Is(F)
  <2> HIDE DEF Is
  <2> QED BY <1>2
<1>4. H!Kept(s, t, w) = F[Len(s)]
  BY DEF H!Kept
<1> HIDE DEF F
<1>5. F[0] = <<>> /\ \A n \in 1..Len(s) : F[n] = IF t - s[n] <= w THEN Append(F[n - 1], s[n]) ELSE F[n - 1]
  <2>1. \A n \in 0..Len(s) : F[n] = IF n = 0 THEN <<>> ELSE
                                   IF t - s[n] <= w THEN Append(F[n - 1], s[n]) ELSE F[n - 1]
    BY <1>3, ZenonT(20)
  <2>2. 0 \in 0..Len(s) /\ \A n \in 1..Len(s) : n \in 0..Len(s) /\ n # 0
    BY <1>0
  <2> QED BY ONLY <2>1, <2>2, Zenon
<1>6. DOMAIN F = 0..Len(s) /\ F = [n \in 0..Len(s) |-> F[n]]
  BY <1>3
<1>7. \A n \in 0..Len(s) : F[n] \in Seq(Nat)
  <2> DEFINE S == {n \in 0..Len(s) : F[n] \notin Seq(Nat)}
  <2>1. \A n \in S : \E l \in S : l < n
    <3> SUFFICES ASSUME NEW n \in S PROVE \E l \in S : l < n
      OBVIOUS
    <3>1. n # 0
      BY <1>5, EmptySeq
    <3>2. n \in 1..Len(s) /\ n - 1 \in 0..Len(s) /\ n - 1 < n
      BY <1>0, <3>1
    <3>3. F[n - 1] \notin Seq(Nat)
      <4>1. s[n] \in Nat
        BY <3>2, ElementOfSeq
      <4>2. F[n] = Append(F[n - 1], s[n]) \/ F[n] = F[n - 1]
        BY <1>5, <3>2
      <4>3. ASSUME F[n - 1] \in Seq(Nat) PROVE F[n] \in Seq(Nat)
        <5>1. Append(F[n - 1], s[n]) \in Seq(Nat)
          BY ONLY <4>1, <4>3, Appended
        <5> QED BY ONLY <4>2, <4>3, <5>1, Zenon
      <4> QED BY <4>3
    <3> QED BY <3>2, <3>3
  <2>2. S = {}
    <3>1. S \in SUBSET Nat
      BY <1>0
    <3> HIDE DEF S
    <3> QED BY <2>1, <3>1, NoLeast
  <2> QED BY <2>2
<1>8. Grown(F, s, t, w, Len(s))
  BY <1>5, <1>6, <1>7 DEF Grown
<1> QED BY <1>4, <1>8

(* Kept of no times, of times, and with one more.                          *)
LEMMA KeptEmpty ==
    ASSUME NEW t \in Nat, NEW w \in Nat
    PROVE  H!Kept(<<>>, t, w) = <<>>
<1>0. <<>> \in Seq(Nat)
  BY EmptySeq
<1>1. PICK g : Grown(g, <<>>, t, w, Len(<<>>)) /\ H!Kept(<<>>, t, w) = g[Len(<<>>)]
  BY ONLY <1>0, KeptGrown, t \in Nat, w \in Nat, Zenon
<1>2. Len(<<>>) = 0
  OBVIOUS
<1> QED BY <1>1, <1>2 DEF Grown

LEMMA KeptType ==
    ASSUME NEW s \in Seq(Nat), NEW t \in Nat, NEW w \in Nat
    PROVE  H!Kept(s, t, w) \in Seq(Nat)
<1>1. PICK g : Grown(g, s, t, w, Len(s)) /\ H!Kept(s, t, w) = g[Len(s)]
  BY KeptGrown
<1>2. Len(s) \in 0..Len(s)
  BY LenProperties
<1> QED BY <1>1, <1>2 DEF Grown

LEMMA KeptAppend ==
    ASSUME NEW s \in Seq(Nat), NEW x \in Nat, NEW t \in Nat, NEW w \in Nat
    PROVE  H!Kept(Append(s, x), t, w) = IF t - x <= w THEN Append(H!Kept(s, t, w), x) ELSE H!Kept(s, t, w)
<1> DEFINE z == Append(s, x)
           n == Len(s)
<1>1. z \in Seq(Nat) /\ Len(z) = n + 1 /\ z[n + 1] = x /\ \A i \in 1..n : z[i] = s[i]
  BY Appended, LenProperties
<1>2. n \in Nat
  BY LenProperties
<1>3. PICK g : Grown(g, z, t, w, n + 1) /\ H!Kept(z, t, w) = g[n + 1]
  <2> HIDE DEF z, n
  <2>1. \E g : Grown(g, z, t, w, Len(z)) /\ H!Kept(z, t, w) = g[Len(z)]
    BY <1>1, KeptGrown, Zenon
  <2> QED BY <1>1, <2>1, Zenon
<1>4. PICK h : Grown(h, s, t, w, n) /\ H!Kept(s, t, w) = h[n]
  BY KeptGrown
<1> HIDE DEF z, n
<1>5. g[n] = h[n]
  <2>1. n + 1 \in Nat /\ n <= n + 1 /\ n <= n /\ \A i \in 1..n : z[i] = s[i]
    BY <1>1, <1>2
  <2>2. Grown(g, z, t, w, n + 1) /\ Grown(h, s, t, w, n) /\ z \in Seq(Nat)
    BY <1>1, <1>3, <1>4
  <2>3. Agreeing(g, h, z, s, t, w, n + 1, n, n)
    BY <1>2, <2>1, <2>2 DEF Agreeing
  <2> QED BY ONLY <2>3, GrownSame
<1>6. g[n + 1] = IF t - z[n + 1] <= w THEN Append(g[n + 1 - 1], z[n + 1]) ELSE g[n + 1 - 1]
  BY <1>2, <1>3 DEF Grown
<1>7. n + 1 - 1 = n
  BY <1>2
<1>8. H!Kept(z, t, w) = IF t - x <= w THEN Append(H!Kept(s, t, w), x) ELSE H!Kept(s, t, w)
  BY <1>1, <1>3, <1>4, <1>5, <1>6, <1>7
<1> QED BY <1>8 DEF z

(* Induction over sequences.                                               *)
LEMMA SeqInduction ==
    ASSUME NEW S \in SUBSET Seq(Nat), <<>> \in S, \A s \in S, x \in Nat : Append(s, x) \in S
    PROVE  S = Seq(Nat)
<1> SUFFICES ASSUME NEW s \in Seq(Nat) PROVE s \in S
  OBVIOUS
<1> DEFINE N == {n \in Nat : \E z \in Seq(Nat) \ S : Len(z) = n}
<1>1. \A n \in N : \E m \in N : m < n
  <2> SUFFICES ASSUME NEW n \in N PROVE \E m \in N : m < n
    OBVIOUS
  <2>1. PICK z \in Seq(Nat) \ S : Len(z) = n
    OBVIOUS
  <2> DEFINE y == SubSeq(z, 1, n - 1)
  <2>2. z # <<>>
    OBVIOUS
  <2>3. n \in Nat /\ n > 0
    BY <2>1, <2>2, EmptySeq, LenProperties
  <2>a. \A i \in 1..n : z[i] \in Nat
    BY <2>1, ElementOfSeq
  <2>b. 1 \in Int /\ n - 1 \in Int /\ 1..(n - 1) \subseteq 1..n /\ n \in 1..n
    BY <2>3
  <2>c. /\ y \in Seq(Nat) /\ Len(y) = IF 1 <= n - 1 THEN n - 1 - 1 + 1 ELSE 0
        /\ \A i \in 1..(n - 1 - 1 + 1) : y[i] = z[1 + i - 1]
    <3>1. \A i \in 1..(n - 1) : z[i] \in Nat
      BY ONLY <2>a, <2>b
    <3> QED BY ONLY <2>b, <3>1, SubSeqProperties
  <2>4. y \in Seq(Nat) /\ Len(y) = n - 1 /\ z[n] \in Nat /\ \A i \in 1..(n - 1) : y[i] = z[i]
    <3> HIDE DEF y
    <3>1. n - 1 - 1 + 1 = n - 1 /\ (IF 1 <= n - 1 THEN n - 1 - 1 + 1 ELSE 0) = n - 1
      BY ONLY <2>3
    <3>2. \A i \in 1..(n - 1) : y[i] = z[1 + i - 1] /\ 1 + i - 1 = i
      BY ONLY <2>3, <2>c, <3>1
    <3>3. z[n] \in Nat
      BY ONLY <2>a, <2>b
    <3> QED BY ONLY <2>c, <3>1, <3>2, <3>3
  <2> HIDE DEF y
  <2>5. Append(y, z[n]) = z
    <3>1. /\ Append(y, z[n]) \in Seq(Nat) /\ Len(Append(y, z[n])) = n
          /\ Append(y, z[n])[n] = z[n] /\ \A i \in 1..(n - 1) : Append(y, z[n])[i] = z[i]
      <4>1. n - 1 + 1 = n
        BY <2>3
      <4>2. /\ Append(y, z[n]) \in Seq(Nat) /\ Len(Append(y, z[n])) = Len(y) + 1
            /\ Append(y, z[n])[Len(y) + 1] = z[n] /\ \A i \in 1..Len(y) : Append(y, z[n])[i] = y[i]
        BY ONLY <2>4, Appended
      <4>3. Len(y) = n - 1 /\ Len(y) + 1 = n /\ \A i \in 1..(n - 1) : y[i] = z[i]
        BY ONLY <2>4, <4>1
      <4> QED BY ONLY <4>2, <4>3, Zenon
    <3>2. \A i \in 1..n : Append(y, z[n])[i] = z[i]
      <4>1. \A i \in 1..n : i = n \/ i \in 1..(n - 1)
        BY ONLY <2>3
      <4> QED BY ONLY <3>1, <4>1, Zenon
    <3> QED BY <2>1, <3>1, <3>2, SeqEqual
  <2>6. y \notin S
    BY <2>4, <2>5
  <2>7. n - 1 \in N /\ n - 1 < n
    BY <2>3, <2>4, <2>6
  <2> QED BY <2>7
<1>2. N = {}
  <2> HIDE DEF N
  <2>1. N \in SUBSET Nat
    BY DEF N
  <2> QED BY <1>1, <2>1, NoLeast
<1> QED BY <1>2, LenProperties

(* What a later or narrower window keeps, it keeps of what an earlier and  *)
(* wider one has kept.                                                     *)
Wider(t, w, u, v) == \A x \in Nat : u - x <= v => t - x <= w

LEMMA KeptTwice ==
    ASSUME NEW t \in Nat, NEW w \in Nat, NEW u \in Nat, NEW v \in Nat,
           Wider(t, w, u, v), NEW s \in Seq(Nat)
    PROVE  H!Kept(H!Kept(s, t, w), u, v) = H!Kept(s, u, v)
<1> DEFINE S == {z \in Seq(Nat) : H!Kept(H!Kept(z, t, w), u, v) = H!Kept(z, u, v)}
<1>1. <<>> \in S
  BY KeptEmpty, EmptySeq
<1>2. ASSUME NEW z \in S, NEW x \in Nat PROVE Append(z, x) \in S
  <2>1. Append(z, x) \in Seq(Nat)
    BY Appended
  <2>2. CASE t - x <= w
    <3>1. H!Kept(Append(z, x), t, w) = Append(H!Kept(z, t, w), x)
      BY <2>2, KeptAppend
    <3>2. H!Kept(Append(H!Kept(z, t, w), x), u, v) = IF u - x <= v THEN Append(H!Kept(H!Kept(z, t, w), u, v), x) ELSE H!Kept(H!Kept(z, t, w), u, v)
      <4>1. H!Kept(z, t, w) \in Seq(Nat)
        BY KeptType
      <4> HIDE DEF S
      <4> DEFINE y == H!Kept(z, t, w)
      <4>2. y \in Seq(Nat)
        BY <4>1
      <4> HIDE DEF y
      <4>3. H!Kept(Append(y, x), u, v) = IF u - x <= v THEN Append(H!Kept(y, u, v), x) ELSE H!Kept(y, u, v)
        BY <4>2, KeptAppend
      <4> QED BY <4>3 DEF y
    <3>3. H!Kept(Append(z, x), u, v) = IF u - x <= v THEN Append(H!Kept(z, u, v), x) ELSE H!Kept(z, u, v)
      BY KeptAppend
    <3> QED BY <2>1, <3>1, <3>2, <3>3
  <2>3. CASE ~(t - x <= w)
    <3>1. H!Kept(Append(z, x), t, w) = H!Kept(z, t, w)
      BY <2>3, KeptAppend
    <3>2. H!Kept(Append(z, x), u, v) = H!Kept(z, u, v)
      <4>1. ~(u - x <= v)
        BY <2>3 DEF Wider
      <4> QED BY <4>1, KeptAppend
    <3> QED BY <2>1, <3>1, <3>2
  <2> QED BY <2>2, <2>3
<1> HIDE DEF S
<1>3. S = Seq(Nat)
  <2>1. S \in SUBSET Seq(Nat)
    BY DEF S
  <2> QED BY <1>1, <1>2, <2>1, SeqInduction
<1> QED BY <1>3 DEF S

(* No more is kept than there was, nor anything else.                      *)
LEMMA KeptFewer ==
    ASSUME NEW t \in Nat, NEW w \in Nat, NEW T \in SUBSET Nat, NEW s \in Seq(T)
    PROVE  H!Kept(s, t, w) \in Seq(T) /\ Len(H!Kept(s, t, w)) <= Len(s)
<1> DEFINE S == {z \in Seq(Nat) : Len(H!Kept(z, t, w)) <= Len(z) /\ (z \in Seq(T) => H!Kept(z, t, w) \in Seq(T))}
<1>1. <<>> \in S
  <2>1. H!Kept(<<>>, t, w) = <<>>
    BY KeptEmpty
  <2>2. <<>> \in Seq(Nat) /\ Len(<<>>) = 0 /\ Len(<<>>) <= Len(<<>>)
    BY EmptySeq
  <2> QED BY <2>1, <2>2
<1>2. ASSUME NEW z \in S, NEW x \in Nat PROVE Append(z, x) \in S
  <2>1. Append(z, x) \in Seq(Nat) /\ Len(Append(z, x)) = Len(z) + 1
    BY Appended
  <2>2. Len(z) \in Nat /\ H!Kept(z, t, w) \in Seq(Nat) /\ Len(H!Kept(z, t, w)) \in Nat
    BY LenProperties, KeptType
  <2>3. Append(z, x) \in Seq(T) => z \in Seq(T) /\ x \in T
    <3> SUFFICES ASSUME Append(z, x) \in Seq(T) PROVE z \in Seq(T) /\ x \in T
      OBVIOUS
    <3>1. \A i \in 1..(Len(z) + 1) : Append(z, x)[i] \in T
      BY <2>1, ElementOfSeq
    <3>2. x \in T
      BY <2>2, <3>1, Appended
    <3>3. \A i \in 1..Len(z) : z[i] \in T
      BY <2>2, <3>1, Appended
    <3>4. z = [i \in 1..Len(z) |-> z[i]]
      BY LenProperties
    <3>5. z \in Seq(T)
      BY <2>2, <3>3, <3>4, SeqDef
    <3> QED BY <3>2, <3>5
  <2>4. H!Kept(Append(z, x), t, w) \in {Append(H!Kept(z, t, w), x), H!Kept(z, t, w)}
    BY KeptAppend
  <2>5. Len(H!Kept(Append(z, x), t, w)) <= Len(z) + 1
    BY <2>2, <2>4, Appended
  <2>6. Append(z, x) \in Seq(T) => H!Kept(Append(z, x), t, w) \in Seq(T)
    <3> SUFFICES ASSUME Append(z, x) \in Seq(T) PROVE H!Kept(Append(z, x), t, w) \in Seq(T)
      OBVIOUS
    <3>1. H!Kept(z, t, w) \in Seq(T) /\ x \in T
      BY <2>3
    <3>2. Append(H!Kept(z, t, w), x) \in Seq(T)
      BY ONLY <3>1, Appended
    <3> QED BY ONLY <2>4, <3>1, <3>2, Zenon
  <2> QED BY <2>1, <2>5, <2>6
<1> HIDE DEF S
<1>3. S = Seq(Nat)
  <2>1. S \in SUBSET Seq(Nat)
    BY DEF S
  <2> QED BY <1>1, <1>2, <2>1, SeqInduction
<1>4. s \in Seq(Nat)
  <2>1. s \in [1..Len(s) -> T]
    BY LenProperties
  <2>2. s \in [1..Len(s) -> Nat]
    BY <2>1
  <2> QED BY <2>2, LenProperties, SeqDef
<1> QED BY <1>3, <1>4 DEF S
-----------------------------------------------------------------------------
(* What a step makes of its request.                                       *)
Becomes(r, q) == q \in Request /\ ServedOf(q) /\ req' = [req EXCEPT ![r] = q]

(* One request by itself.                                                  *)
LEMMA SingleRequest ==
    ASSUME HTypes, ServedInv, NEW r \in Requests
    PROVE  /\ req[r] \in Request /\ ServedOf(req[r])
           /\ req[r].pc # "idle" => req[r].ip \in Ips
           /\ req = [p \in Requests |-> req[p]]
<1>1. req[r] \in Request /\ ServedOf(req[r]) /\ req = [p \in Requests |-> req[p]]
  BY DEF HTypes, ServedInv
<1>2. req[r].pc # "idle" => req[r].ip \in Ips
  BY <1>1 DEF Request, ServedOf
<1> QED BY <1>1, <1>2

(* A request that is answered is idle again.                               *)
LEMMA IdleServed == H!Idle \in Request /\ ServedOf(H!Idle) /\ H!Idle.pc = "idle" /\ H!Idle.ip = None
BY CallersAssumption DEF H!Idle, H!Nobody, Request, Principals, H!PCs, H!Kinds, H!Credentials, H!KeyIds, ServedOf

LEMMA AnswerBecomes == ASSUME NEW r \in Requests, H!Answer(r) PROVE Becomes(r, H!Idle)
BY IdleServed DEF H!Answer, Becomes

(* A request that goes on is the same but for its place.                   *)
LEMMA GotoBecomes ==
    ASSUME HTypes, ServedInv, NEW r \in Requests, NEW to \in H!PCs \ {"idle"}, H!Goto(r, to), req[r].pc # "idle",
           to \in {"pass", "serve", "loginpass"} => req[r].pc \in {"pass", "serve", "loginpass"}
    PROVE  Becomes(r, [req[r] EXCEPT !.pc = to])
<1> DEFINE q == [req[r] EXCEPT !.pc = to]
<1>1. req[r] \in Request /\ ServedOf(req[r])
  BY SingleRequest
<1>2. q \in Request /\ q.pc = to /\ q.ip = req[r].ip /\ q.kind = req[r].kind /\ q.on = req[r].on /\ q.who = req[r].who
  BY <1>1 DEF Request
<1>3. req' = [req EXCEPT ![r] = q]
  BY DEF H!Goto
<1> HIDE DEF q
<1>4. ServedOf(q)
  BY <1>1, <1>2 DEF ServedOf
<1> QED BY <1>2, <1>3, <1>4 DEF Becomes, q

(* Whoever a request acts for.                                             *)
LEMMA PrincipalType ==
    /\ \A k \in Accounts : H!Principal(k) \in Principals /\ H!Principal(k).by = k /\ H!Principal(k).role \in 1..3
    /\ \A by \in {"config", "local", "dev"} :
          H!Administrator(by) \in Principals /\ H!Administrator(by).by = by /\ H!Administrator(by).role \in 1..3
    /\ H!Nobody \in Principals
BY DEF H!Principal, H!Administrator, H!Nobody, Principals, H!Owners, H!KeyIds

LEMMA ExtractType == \A c \in H!Calls : H!Extract(c) \in H!Credentials
BY DEF H!Calls, H!Extract

(* What the layer finds a credential to be.                                *)
LEMMA VerdictType ==
    ASSUME HTypes, RightInv, NEW t
    PROVE  /\ H!Verdict(t).pc \in {"pass", "failcheck", "fallback"} /\ H!Verdict(t).who \in Principals
           /\ H!Verdict(t).pc = "pass" =>
                H!Verdict(t).who.by \in H!Owners /\ H!Verdict(t).who.role \in 1..3
<1>1. CASE t \in DOMAIN sessions /\ H!Alive(t)
  <2>1. H!Verdict(t) = [pc |-> "pass", who |-> sessions[t].who]
    BY <1>1 DEF H!Verdict
  <2> QED BY <1>1, <2>1 DEF HTypes, RightInv
<1>2. CASE ~(t \in DOMAIN sessions /\ H!Alive(t))
  <2>1. CASE t \in Accounts /\ key[t] = "active"
    <3>1. H!Verdict(t) = [pc |-> "pass", who |-> H!Principal(t)]
      BY <1>2, <2>1 DEF H!Verdict
    <3> QED BY <2>1, <3>1, PrincipalType DEF H!Owners
  <2>2. CASE ~(t \in Accounts /\ key[t] = "active")
    <3>1. H!Verdict(t) \in {[pc |-> "failcheck", who |-> H!Nobody], [pc |-> "fallback", who |-> H!Nobody]}
      BY <1>2, <2>2 DEF H!Verdict
    <3> QED BY <3>1, PrincipalType
  <2> QED BY <2>1, <2>2
<1> QED BY <1>1, <1>2

(* What the login finds it to be.                                          *)
LEMMA LoginVerdictType ==
    ASSUME NEW t
    PROVE  /\ H!LoginVerdict(t).pc \in {"loginpass", "loginfail"} /\ H!LoginVerdict(t).who \in Principals
           /\ H!LoginVerdict(t).pc = "loginpass" =>
                H!LoginVerdict(t).who.by \in H!Owners /\ H!LoginVerdict(t).who.role \in 1..3
<1>1. \/ t \in Accounts /\ key[t] = "active" /\ H!LoginVerdict(t) = [pc |-> "loginpass", who |-> H!Principal(t)]
      \/ H!LoginVerdict(t) = [pc |-> "loginpass", who |-> H!Administrator("config")]
      \/ H!OpenDev /\ H!LoginVerdict(t) = [pc |-> "loginpass", who |-> H!Administrator("dev")]
      \/ H!LoginVerdict(t) = [pc |-> "loginfail", who |-> H!Nobody]
  BY DEF H!LoginVerdict
<1> QED BY <1>1, PrincipalType DEF H!Owners

(* The request a call begins.                                              *)
LEMMA ReceiveBecomes ==
    ASSUME HTypes, ServedInv, RightInv, NEW r \in Requests, NEW i \in world.ips, NEW c \in world.calls,
           req' = [req EXCEPT ![r] = [pc |-> H!Verdict(H!Extract(c)).pc, ip |-> i, kind |-> c.kind, on |-> c.on,
                                      token |-> H!Extract(c), cookie |-> c.cookie, who |-> H!Verdict(H!Extract(c)).who]]
    PROVE  \E q : /\ Becomes(r, q) /\ q.ip = i /\ i \in Ips /\ q.pc \in {"pass", "failcheck", "fallback"}
                  /\ q.pc = H!Verdict(H!Extract(c)).pc /\ q.who = H!Verdict(H!Extract(c)).who
<1> DEFINE t == H!Extract(c)
           q == [pc |-> H!Verdict(t).pc, ip |-> i, kind |-> c.kind, on |-> c.on, token |-> t, cookie |-> c.cookie,
                 who |-> H!Verdict(t).who]
<1>1. /\ i \in Ips /\ c \in H!Calls
      /\ c.kind = "ticket" => c.on \in Terminals
      /\ c.kind \in {"issue", "revoke"} => c.on \in Accounts
  BY CallersAssumption DEF HTypes
<1>2. i # None
  BY <1>1, CallersAssumption
<1>3. /\ c.kind \in H!Kinds /\ c.on \in Terminals \cup Accounts \cup {None} /\ c.cookie \in H!Credentials
      /\ t \in H!Credentials
  BY <1>1, ExtractType DEF H!Calls
<1>4. /\ H!Verdict(t).pc \in {"pass", "failcheck", "fallback"} /\ H!Verdict(t).who \in Principals
      /\ H!Verdict(t).pc = "pass" => H!Verdict(t).who.by \in H!Owners /\ H!Verdict(t).who.role \in 1..3
  BY VerdictType
<1>5. req' = [req EXCEPT ![r] = q]
  OBVIOUS
<1> HIDE DEF t
<1>6. /\ q.pc = H!Verdict(t).pc /\ q.ip = i /\ q.kind = c.kind /\ q.on = c.on /\ q.token = t /\ q.cookie = c.cookie
      /\ q.who = H!Verdict(t).who
  OBVIOUS
<1>7. q \in Request
  BY <1>1, <1>3, <1>4 DEF Request, H!PCs
<1> HIDE DEF q
<1>8. ServedOf(q)
  BY <1>1, <1>2, <1>4, <1>6 DEF ServedOf
<1>9. Becomes(r, q) /\ q.ip = i /\ i \in Ips /\ q.pc \in {"pass", "failcheck", "fallback"}
  BY <1>1, <1>4, <1>5, <1>6, <1>7, <1>8 DEF Becomes
<1> QED BY <1>6, <1>9 DEF t

LEMMA LoginBecomes ==
    ASSUME HTypes, NEW r \in Requests, NEW i \in world.ips, NEW t,
           req' = [req EXCEPT ![r] = [H!Idle EXCEPT !.pc = H!LoginVerdict(t).pc, !.who = H!LoginVerdict(t).who,
                                                    !.ip = i, !.kind = "login"]]
    PROVE  \E q : /\ Becomes(r, q) /\ q.ip = i /\ i \in Ips /\ q.pc \in {"loginpass", "loginfail"}
                  /\ q.pc = H!LoginVerdict(t).pc /\ q.who = H!LoginVerdict(t).who
<1> DEFINE v == H!LoginVerdict(t)
           q == [H!Idle EXCEPT !.pc = v.pc, !.who = v.who, !.ip = i, !.kind = "login"]
<1>1. i \in Ips /\ i # None
  BY CallersAssumption DEF HTypes
<1>2. /\ v.pc \in {"loginpass", "loginfail"} /\ v.who \in Principals
      /\ v.pc = "loginpass" => v.who.by \in H!Owners /\ v.who.role \in 1..3
  BY LoginVerdictType
<1>3. req' = [req EXCEPT ![r] = q]
  OBVIOUS
<1> HIDE DEF v
<1>4. H!Idle \in Request
  BY IdleServed
<1>5. q.pc = v.pc /\ q.ip = i /\ q.kind = "login" /\ q.who = v.who
  BY <1>4 DEF Request
<1>6. q \in Request
  BY <1>1, <1>2, <1>4 DEF Request, H!PCs, H!Kinds
<1> HIDE DEF q
<1>7. ServedOf(q)
  BY <1>1, <1>2, <1>5 DEF ServedOf
<1>8. Becomes(r, q)
  BY <1>3, <1>6, <1>7 DEF Becomes
<1> QED BY <1>1, <1>2, <1>5, <1>8 DEF v

LEMMA FallbackBecomes ==
    ASSUME HTypes, ServedInv, NEW r \in Requests, H!Fallback(r)
    PROVE  \E q : /\ Becomes(r, q) /\ q.ip = req[r].ip /\ q.pc \in {"pass", "failcheck"}
                  /\ q.pc = "pass" => q.who.by \in {"config", "local"}
<1> DEFINE configured == H!HasCredentials /\ req[r].token = "config"
           local == H!Insecure \/ (req[r].ip \in Loopback /\ H!OpenDev)
           to == IF configured \/ local THEN "pass" ELSE "failcheck"
           who == IF configured THEN H!Administrator("config")
                  ELSE IF local THEN H!Administrator("local") ELSE H!Nobody
           q == [req[r] EXCEPT !.pc = to, !.who = who]
<1>1. req[r] \in Request /\ ServedOf(req[r]) /\ req[r].pc = "fallback" /\ req[r].pc # "idle"
  BY SingleRequest DEF H!Fallback
<1>2. req' = [req EXCEPT ![r].pc = to, ![r].who = who]
  BY DEF H!Fallback
<1>3. /\ to \in {"pass", "failcheck"} /\ who \in Principals
      /\ to = "pass" => who.by \in {"config", "local"} /\ who.role \in 1..3
  BY PrincipalType
<1> HIDE DEF to, who
<1>4. q \in Request /\ q.pc = to /\ q.ip = req[r].ip /\ q.kind = req[r].kind /\ q.on = req[r].on /\ q.who = who
  BY <1>1, <1>3 DEF Request, H!PCs
<1>5. req' = [req EXCEPT ![r] = q]
  BY <1>2 DEF HTypes
<1> HIDE DEF q
<1>6. ServedOf(q)
  BY <1>1, <1>3, <1>4 DEF ServedOf, H!Owners
<1> QED BY <1>3, <1>4, <1>5, <1>6 DEF Becomes
-----------------------------------------------------------------------------
(* What one step needs of the others, and what it does to the limiter and  *)
(* to its request.                                                         *)
Base == HTypes /\ ServedInv /\ RightInv /\ TicketInv

(* Only the request of the step changes.                                   *)
LEMMA ReqAfter ==
    ASSUME HTypes, ServedInv, NEW r \in Requests, NEW q, Becomes(r, q)
    PROVE  /\ req' \in [Requests -> Request] /\ ServedInv'
           /\ \A p \in Requests : req'[p] = IF p = r THEN q ELSE req[p]
<1>1. \A p \in Requests : req'[p] = IF p = r THEN q ELSE req[p]
  BY DEF Becomes, HTypes
<1>2. req' \in [Requests -> Request]
  BY DEF Becomes, HTypes
<1>3. \A p \in Requests : ServedOf(req'[p])
  BY <1>1 DEF Becomes, ServedInv
<1> QED BY <1>1, <1>2, <1>3 DEF ServedInv

(* The limiter's operations.                                               *)
LEMMA LookKeeps ==
    ASSUME HTypes, NEW i \in Ips, H!Check(i)
    PROVE  /\ entry' \in [Ips -> [failures : Seq(Nat), until : Nat]] /\ log' = log
           /\ \A j \in Ips : /\ entry'[j].failures = entry[j].failures
                             /\ entry'[j].until = entry[j].until \/ (entry'[j].until = 0 /\ entry[j].until <= clock)
<1> DEFINE e == H!Peeked(entry[i])
<1>1. entry[i] \in [failures : Seq(Nat), until : Nat]
  BY DEF HTypes
<1>2. e = entry[i] \/ (~(entry[i].until > clock) /\ e = [entry[i] EXCEPT !.until = 0])
  BY DEF H!Peeked, H!Banned
<1>3. e \in [failures : Seq(Nat), until : Nat] /\ e.failures = entry[i].failures
      /\ (e.until = entry[i].until \/ (e.until = 0 /\ entry[i].until <= clock))
  BY <1>1, <1>2 DEF HTypes
<1>4. entry' = [entry EXCEPT ![i] = e] /\ log' = log
  BY DEF H!Check
<1> HIDE DEF e
<1> QED BY <1>3, <1>4 DEF HTypes

(* A failure under a ban changes nothing; otherwise it is recorded.        *)
LEMMA FailRecords ==
    ASSUME HTypes, NEW i \in Ips, H!Fail(i)
    PROVE  \/ /\ entry[i].until > clock /\ entry' = entry /\ log' = log /\ passed' = passed
           \/ /\ ~(entry[i].until > clock)
              /\ log' = [log EXCEPT ![i] = Append(log[i], clock)]
              /\ \E e : /\ entry' = [entry EXCEPT ![i] = e]
                        /\ e.failures = H!Kept(Append(entry[i].failures, clock), clock, TenMinutes)
                        /\ e \in [failures : Seq(Nat), until : Nat] /\ e.until \in {0, clock + BanTime}
                        /\ passed' = IF e.until > clock
                                     THEN [passed EXCEPT ![i] = {p \in Requests : req[p].ip = i}] ELSE passed
<1>1. entry[i] \in [failures : Seq(Nat), until : Nat] /\ clock \in Nat
  BY DEF HTypes
<1>2. CASE entry[i].until > clock
  <2>1. H!Banned(entry[i]) /\ H!Recorded(entry[i]) = entry[i]
    BY <1>2 DEF H!Banned, H!Recorded
  <2>2. entry' = entry /\ log' = log
    BY <2>1 DEF H!Fail, HTypes
  <2>3. passed' = passed
    BY <2>1 DEF H!Fail
  <2> QED BY <1>2, <2>2, <2>3
<1>3. CASE ~(entry[i].until > clock)
  <2> DEFINE kept == H!Kept(Append(entry[i].failures, clock), clock, TenMinutes)
             e == [failures |-> kept, until |-> IF Len(kept) >= BanAt THEN clock + BanTime ELSE 0]
  <2>1. kept \in Seq(Nat)
    BY <1>1, KeptType, AccessAssumption, Appended
  <2>2. ~H!Banned(entry[i]) /\ H!Recorded(entry[i]) = e
    BY <1>3 DEF H!Banned, H!Recorded, H!Prune, H!Within
  <2>3. e \in [failures : Seq(Nat), until : Nat] /\ e.failures = kept /\ e.until \in {0, clock + BanTime}
    BY <1>1, <2>1, AccessAssumption
  <2>4. entry' = [entry EXCEPT ![i] = e] /\ log' = [log EXCEPT ![i] = Append(log[i], clock)]
    BY <2>2 DEF H!Fail
  <2> HIDE DEF e
  <2>5. entry'[i] = e
    BY <2>4 DEF HTypes
  <2>6. passed' = IF e.until > clock THEN [passed EXCEPT ![i] = {p \in Requests : req[p].ip = i}] ELSE passed
    <3>1. H!Banned(entry'[i]) <=> e.until > clock
      BY <2>5 DEF H!Banned
    <3> QED BY <2>2, <3>1 DEF H!Fail
  <2> QED BY <1>3, <2>3, <2>4, <2>6
<1> QED BY <1>2, <1>3

(* A success forgets the address and no other.                             *)
LEMMA SuccessKeeps ==
    ASSUME HTypes, NEW i \in Ips, H!Succeed(i)
    PROVE  /\ entry' \in [Ips -> [failures : Seq(Nat), until : Nat]] /\ log' \in [Ips -> Seq(Nat)]
           /\ passed' \in [Ips -> SUBSET Requests]
           /\ entry'[i].failures = <<>> /\ entry'[i].until = 0 /\ log'[i] = <<>>
           /\ \A j \in Ips : j # i => entry'[j] = entry[j] /\ log'[j] = log[j] /\ passed'[j] = passed[j]
<1>1. H!NoEntry \in [failures : Seq(Nat), until : Nat] /\ H!NoEntry.failures = <<>> /\ H!NoEntry.until = 0
  BY EmptySeq DEF H!NoEntry
<1>2. <<>> \in Seq(Nat)
  BY EmptySeq
<1>3. entry' = [entry EXCEPT ![i] = H!NoEntry] /\ log' = [log EXCEPT ![i] = <<>>] /\ passed' = [passed EXCEPT ![i] = {}]
  BY DEF H!Succeed
<1> HIDE DEF H!NoEntry
<1>4. entry'[i] = H!NoEntry /\ log'[i] = <<>>
  BY <1>3 DEF HTypes
<1> QED BY <1>1, <1>2, <1>3, <1>4 DEF HTypes

(* A failure keeps the types.                                              *)
LEMMA FailTypes ==
    ASSUME HTypes, NEW i \in Ips, H!Fail(i)
    PROVE  /\ entry' \in [Ips -> [failures : Seq(Nat), until : Nat]] /\ log' \in [Ips -> Seq(Nat)]
           /\ passed' \in [Ips -> SUBSET Requests]
<1>1. Append(log[i], clock) \in Seq(Nat)
  BY Appended DEF HTypes
<1>2. CASE entry' = entry /\ log' = log /\ passed' = passed
  BY <1>2 DEF HTypes
<1>3. CASE /\ log' = [log EXCEPT ![i] = Append(log[i], clock)]
           /\ \E e : /\ entry' = [entry EXCEPT ![i] = e]
                     /\ e \in [failures : Seq(Nat), until : Nat]
                     /\ passed' = IF e.until > clock
                                  THEN [passed EXCEPT ![i] = {p \in Requests : req[p].ip = i}] ELSE passed
  <2>1. PICK e : /\ entry' = [entry EXCEPT ![i] = e]
                 /\ e \in [failures : Seq(Nat), until : Nat]
                 /\ passed' = IF e.until > clock
                              THEN [passed EXCEPT ![i] = {p \in Requests : req[p].ip = i}] ELSE passed
    BY <1>3
  <2>2. entry' \in [Ips -> [failures : Seq(Nat), until : Nat]]
    BY <2>1 DEF HTypes
  <2>3. passed' \in [Ips -> SUBSET Requests]
    <3>1. {p \in Requests : req[p].ip = i} \in SUBSET Requests /\ passed \in [Ips -> SUBSET Requests]
      BY DEF HTypes
    <3> QED BY <2>1, <3>1
  <2> QED BY <1>1, <1>3, <2>2, <2>3 DEF HTypes
<1> QED BY <1>2, <1>3, FailRecords

(* A store of sessions without one of them is a store of sessions.         *)
LEMMA CutType ==
    ASSUME HTypes, NEW x, NEW f, f = H!Without(sessions, x) \/ f = sessions
    PROVE  /\ DOMAIN f \subseteq DOMAIN sessions /\ \A s \in DOMAIN f : f[s] = sessions[s]
           /\ DOMAIN f \subseteq SessionIds /\ \A s \in DOMAIN f : f[s] \in [who : Principals, until : Nat]
BY DEF HTypes, H!Without

(* Each step keeps the types, and has a request to be served well.         *)
LEMMA ReceiveTypes ==
    ASSUME Base, NEW r \in Requests, H!Receive(r)
    PROVE  HTypes' /\ ServedInv'
<1>1. PICK i \in world.ips, c \in world.calls :
        /\ req' = [req EXCEPT ![r] = [pc |-> H!Verdict(H!Extract(c)).pc, ip |-> i, kind |-> c.kind, on |-> c.on,
                                      token |-> H!Extract(c), cookie |-> c.cookie, who |-> H!Verdict(H!Extract(c)).who]]
        /\ \E x : sessions' = H!Without(sessions, x) \/ sessions' = sessions
        /\ H!Check(i) /\ passed' = [passed EXCEPT ![i] = @ \ {r}]
        /\ UNCHANGED <<world, clock, hits, admitted, tickets, given, key, ended>>
  BY DEF H!Receive, H!quotas, H!keyring
<1>2. PICK q : Becomes(r, q) /\ i \in Ips
  BY <1>1, ReceiveBecomes DEF Base
<1>3. req' \in [Requests -> Request] /\ ServedInv'
  BY <1>2, ReqAfter DEF Base
<1>4. entry' \in [Ips -> [failures : Seq(Nat), until : Nat]] /\ log' = log
  BY <1>1, <1>2, LookKeeps DEF Base
<1>5. DOMAIN sessions' \subseteq SessionIds /\ \A s \in DOMAIN sessions' : sessions'[s] \in [who : Principals, until : Nat]
  BY <1>1, CutType DEF Base
<1>6. passed' \in [Ips -> SUBSET Requests]
  BY <1>1, <1>2 DEF Base, HTypes
<1> QED BY <1>1, <1>3, <1>4, <1>5, <1>6 DEF Base, HTypes

LEMMA LoginTypes ==
    ASSUME Base, NEW r \in Requests, H!Login(r)
    PROVE  HTypes' /\ ServedInv'
<1>1. PICK i \in world.ips, c \in world.calls :
        /\ req' = [req EXCEPT ![r] = [H!Idle EXCEPT !.pc = H!LoginVerdict(H!Extract(c)).pc,
                                                    !.who = H!LoginVerdict(H!Extract(c)).who, !.ip = i, !.kind = "login"]]
        /\ H!Check(i) /\ passed' = [passed EXCEPT ![i] = @ \ {r}]
        /\ UNCHANGED <<world, clock, hits, admitted, sessions, tickets, given, key, ended>>
  BY DEF H!Login, H!quotas, H!keyring, H!consoles
<1>2. PICK q : Becomes(r, q) /\ i \in Ips
  BY <1>1, LoginBecomes DEF Base
<1>3. req' \in [Requests -> Request] /\ ServedInv'
  BY <1>2, ReqAfter DEF Base
<1>4. entry' \in [Ips -> [failures : Seq(Nat), until : Nat]] /\ log' = log
  BY <1>1, <1>2, LookKeeps DEF Base
<1>5. passed' \in [Ips -> SUBSET Requests]
  BY <1>1, <1>2 DEF Base, HTypes
<1> QED BY <1>1, <1>3, <1>4, <1>5 DEF Base, HTypes

LEMMA FallbackTypes ==
    ASSUME Base, NEW r \in Requests, H!Fallback(r)
    PROVE  HTypes' /\ ServedInv'
<1>1. req' \in [Requests -> Request] /\ ServedInv'
  BY FallbackBecomes, ReqAfter DEF Base
<1>2. UNCHANGED <<world, clock, entry, log, passed, hits, admitted, sessions, tickets, given, key, ended>>
  BY DEF H!Fallback, H!limiter, H!quotas, H!consoles, H!keyring
<1> QED BY <1>1, <1>2 DEF Base, HTypes

LEMMA FailCheckBecomes ==
    ASSUME HTypes, ServedInv, NEW r \in Requests, H!FailCheck(r)
    PROVE  /\ req[r].pc = "failcheck" /\ req[r].ip \in Ips
           /\ \E q : /\ Becomes(r, q)
                     /\ \/ q.pc = "idle" /\ q.ip = None
                        \/ q.pc = "failrecord" /\ q.ip = req[r].ip /\ H!Decision(entry[q.ip]) = "allowed"
<1>1. req[r].pc = "failcheck" /\ req[r].ip \in Ips
  BY SingleRequest DEF H!FailCheck
<1>2. CASE H!Decision(entry[req[r].ip]) = "allowed" /\ H!Goto(r, "failrecord")
  <2>1. "failrecord" \in H!PCs \ {"idle"}
    BY DEF H!PCs
  <2>2. Becomes(r, [req[r] EXCEPT !.pc = "failrecord"])
    BY <1>1, <1>2, <2>1, GotoBecomes
  <2>3. [req[r] EXCEPT !.pc = "failrecord"].pc = "failrecord" /\ [req[r] EXCEPT !.pc = "failrecord"].ip = req[r].ip
    BY SingleRequest DEF Request
  <2> QED BY <1>1, <1>2, <2>2, <2>3
<1>3. CASE H!Answer(r)
  BY <1>1, <1>3, AnswerBecomes, IdleServed
<1> QED BY <1>2, <1>3 DEF H!FailCheck

LEMMA FailCheckTypes ==
    ASSUME Base, NEW r \in Requests, H!FailCheck(r)
    PROVE  HTypes' /\ ServedInv'
<1>1. req' \in [Requests -> Request] /\ ServedInv'
  BY FailCheckBecomes, ReqAfter DEF Base
<1>2. entry' \in [Ips -> [failures : Seq(Nat), until : Nat]] /\ log' = log
  BY FailCheckBecomes, LookKeeps DEF Base, H!FailCheck
<1>3. UNCHANGED <<world, clock, passed, hits, admitted, sessions, tickets, given, key, ended>>
  BY DEF H!FailCheck, H!quotas, H!consoles, H!keyring
<1> QED BY <1>1, <1>2, <1>3 DEF Base, HTypes

(* Either way of recording a failure.                                      *)
Failed(r) ==
    /\ req[r].pc \in {"failrecord", "loginfail"} /\ req[r].ip \in Ips /\ H!Answer(r) /\ H!Fail(req[r].ip)
    /\ UNCHANGED <<world, clock, hits, admitted, sessions, tickets, given, key, ended>>

LEMMA FailsRecorded ==
    ASSUME HTypes, ServedInv, NEW r \in Requests, H!FailRecord(r) \/ H!LoginFail(r)
    PROVE  Failed(r)
BY SingleRequest DEF H!FailRecord, H!LoginFail, Failed, H!quotas, H!consoles, H!keyring

LEMMA FailedTypes ==
    ASSUME Base, NEW r \in Requests, Failed(r)
    PROVE  HTypes' /\ ServedInv'
<1>1. req' \in [Requests -> Request] /\ ServedInv'
  BY AnswerBecomes, ReqAfter DEF Base, Failed
<1>2. /\ entry' \in [Ips -> [failures : Seq(Nat), until : Nat]] /\ log' \in [Ips -> Seq(Nat)]
      /\ passed' \in [Ips -> SUBSET Requests]
  BY FailTypes DEF Base, Failed
<1> QED BY <1>1, <1>2 DEF Base, HTypes, Failed

LEMMA PassBecomes ==
    ASSUME HTypes, ServedInv, NEW r \in Requests, H!Pass(r)
    PROVE  /\ req[r].pc = "pass" /\ req[r].ip \in Ips
           /\ \E q : /\ Becomes(r, q)
                     /\ (q.pc = "idle" /\ q.ip = None) \/ (q.pc = "serve" /\ q.ip = req[r].ip)
<1>1. req[r].pc = "pass" /\ req[r].ip \in Ips
  BY SingleRequest DEF H!Pass
<1>2. CASE H!Goto(r, "serve")
  <2>1. "serve" \in H!PCs \ {"idle"}
    BY DEF H!PCs
  <2>2. Becomes(r, [req[r] EXCEPT !.pc = "serve"])
    BY <1>1, <1>2, <2>1, GotoBecomes
  <2>3. [req[r] EXCEPT !.pc = "serve"].pc = "serve" /\ [req[r] EXCEPT !.pc = "serve"].ip = req[r].ip
    BY SingleRequest DEF Request
  <2> QED BY <1>1, <1>2, <2>2, <2>3
<1>3. CASE H!Answer(r)
  BY <1>1, <1>3, AnswerBecomes, IdleServed
<1> QED BY <1>2, <1>3 DEF H!Pass

(* The quota, for one key id.                                              *)
LEMMA PassCounts ==
    ASSUME HTypes, ServedInv, NEW r \in Requests, H!Pass(r)
    PROVE  \E id \in H!KeyIds : LET kept == H!Kept(hits[id], clock, Minute) IN
             \/ hits' = hits /\ admitted' = admitted
             \/ /\ Len(kept) < Quota /\ hits' = [hits EXCEPT ![id] = Append(kept, clock)]
                /\ admitted' = [admitted EXCEPT ![id] = Append(admitted[id], clock)]
             \/ hits' = [hits EXCEPT ![id] = kept] /\ ~(Len(kept) < Quota) /\ admitted' = admitted
<1> DEFINE id == req[r].who.id
           kept == H!Kept(hits[id], clock, Minute)
           may == req[r].who.role >= H!MinRole(req[r].kind)
<1>1. id \in H!KeyIds
  BY SingleRequest DEF Request, Principals
<1>2. /\ hits' = IF may THEN [hits EXCEPT ![id] = H!Counted(kept)] ELSE hits
      /\ admitted' = IF may /\ Len(kept) < Quota THEN [admitted EXCEPT ![id] = Append(admitted[id], clock)] ELSE admitted
  BY DEF H!Pass, H!Within
<1>3. H!Counted(kept) = IF Len(kept) < Quota THEN Append(kept, clock) ELSE kept
  BY DEF H!Counted
<1> HIDE DEF may, id
<1> QED BY <1>1, <1>2, <1>3

LEMMA PassTypes ==
    ASSUME Base, NEW r \in Requests, H!Pass(r)
    PROVE  HTypes' /\ ServedInv'
<1>1. req' \in [Requests -> Request] /\ ServedInv'
  BY PassBecomes, ReqAfter DEF Base
<1>2. /\ entry' \in [Ips -> [failures : Seq(Nat), until : Nat]] /\ log' \in [Ips -> Seq(Nat)]
      /\ passed' \in [Ips -> SUBSET Requests]
  BY PassBecomes, SuccessKeeps DEF Base, H!Pass
<1>3. hits' \in [H!KeyIds -> Seq(Nat)] /\ admitted' \in [H!KeyIds -> Seq(Nat)]
  <2>1. \A id \in H!KeyIds : H!Kept(hits[id], clock, Minute) \in Seq(Nat)
    BY KeptType, AccessAssumption DEF Base, HTypes
  <2>2. /\ \A id \in H!KeyIds : Append(H!Kept(hits[id], clock, Minute), clock) \in Seq(Nat)
        /\ \A id \in H!KeyIds : Append(admitted[id], clock) \in Seq(Nat)
    BY <2>1, Appended DEF Base, HTypes
  <2>3. PICK id \in H!KeyIds : LET kept == H!Kept(hits[id], clock, Minute) IN
             \/ hits' = hits /\ admitted' = admitted
             \/ /\ Len(kept) < Quota /\ hits' = [hits EXCEPT ![id] = Append(kept, clock)]
                /\ admitted' = [admitted EXCEPT ![id] = Append(admitted[id], clock)]
             \/ hits' = [hits EXCEPT ![id] = kept] /\ ~(Len(kept) < Quota) /\ admitted' = admitted
    BY PassCounts DEF Base
  <2>4. hits \in [H!KeyIds -> Seq(Nat)] /\ admitted \in [H!KeyIds -> Seq(Nat)]
    BY DEF Base, HTypes
  <2> DEFINE kept == H!Kept(hits[id], clock, Minute)
  <2>5. kept \in Seq(Nat) /\ Append(kept, clock) \in Seq(Nat) /\ Append(admitted[id], clock) \in Seq(Nat)
    BY <2>1, <2>2
  <2>6. /\ \E h \in {hits[id], kept, Append(kept, clock)} : hits' = [hits EXCEPT ![id] = h]
        /\ \E a \in {admitted[id], Append(admitted[id], clock)} : admitted' = [admitted EXCEPT ![id] = a]
    <3> HIDE DEF kept
    <3>1. hits = [hits EXCEPT ![id] = hits[id]] /\ admitted = [admitted EXCEPT ![id] = admitted[id]]
      BY <2>4
    <3> QED BY <2>3, <3>1 DEF kept
  <2> HIDE DEF kept
  <2>7. hits' \in [H!KeyIds -> Seq(Nat)]
    BY <2>4, <2>5, <2>6
  <2>8. admitted' \in [H!KeyIds -> Seq(Nat)]
    BY <2>4, <2>5, <2>6
  <2> QED BY <2>7, <2>8
<1>4. UNCHANGED <<world, clock, sessions, tickets, given, key, ended>>
  BY DEF H!Pass, H!consoles, H!keyring
<1> QED BY <1>1, <1>2, <1>3, <1>4 DEF Base, HTypes

(* The handlers.                                                           *)
LEMMA HandlerTypes ==
    ASSUME Base, NEW r \in Requests,
           H!Logout(r) \/ H!IssueTicket(r) \/ H!IssueKey(r) \/ H!RevokeKey(r)
    PROVE  HTypes' /\ ServedInv' /\ req[r].pc = "serve" /\ H!Answer(r)
<1>0. /\ req[r].pc = "serve" /\ H!Answer(r)
      /\ UNCHANGED <<world, clock, entry, log, passed, hits, admitted>>
  BY DEF H!Logout, H!IssueTicket, H!IssueKey, H!RevokeKey, H!limiter, H!quotas
<1>1. req' \in [Requests -> Request] /\ ServedInv'
  BY <1>0, AnswerBecomes, ReqAfter DEF Base
<1>2. CASE H!Logout(r)
  <2>1. /\ sessions' = H!Without(sessions, req[r].cookie)
        /\ UNCHANGED <<tickets, given, key, ended>>
    BY <1>2 DEF H!Logout, H!keyring
  <2>2. DOMAIN sessions' \subseteq SessionIds /\ \A s \in DOMAIN sessions' : sessions'[s] \in [who : Principals, until : Nat]
    BY <2>1, CutType DEF Base
  <2> QED BY <1>0, <1>1, <2>1, <2>2 DEF Base, HTypes
<1>3. CASE H!IssueTicket(r)
  <2> DEFINE t    == H!Fresh(Tickets)
             live == {x \in DOMAIN tickets : tickets[x].until > clock}
             new  == [term |-> req[r].on, until |-> clock + TicketTtl]
  <2>1. /\ tickets' = [x \in live \cup {t} |-> IF x = t THEN new ELSE tickets[x]]
        /\ req[r].kind = "ticket" /\ ~(Tickets \subseteq DOMAIN given)
        /\ UNCHANGED <<sessions, key, ended>>
    BY <1>3 DEF H!IssueTicket, H!keyring
  <2>2. t \in Tickets
    BY <2>1 DEF H!Fresh
  <2>3. new \in [term : Terminals, until : Nat]
    BY <2>1, SingleRequest, AccessAssumption DEF Base, HTypes, ServedOf
  <2> HIDE DEF t, new
  <2>4. DOMAIN tickets' = live \cup {t} /\ \A x \in DOMAIN tickets' : tickets'[x] = IF x = t THEN new ELSE tickets[x]
    BY <2>1
  <2> QED BY <1>0, <1>1, <2>1, <2>2, <2>3, <2>4 DEF Base, HTypes
<1>4. CASE H!IssueKey(r)
  <2>1. /\ key' = [key EXCEPT ![req[r].on] = IF @ = "absent" THEN "active" ELSE @]
        /\ ended' = [ended EXCEPT !["dev"] = clock] \/ ended' = ended
        /\ UNCHANGED <<sessions, tickets, given>>
    BY <1>4 DEF H!IssueKey, H!consoles
  <2>2. key' \in [Accounts -> {"absent", "active", "revoked"}]
    BY <2>1 DEF Base, HTypes
  <2>3. ended' \in [H!Owners -> Nat \cup {None}]
    BY <2>1 DEF Base, HTypes
  <2> QED BY <1>0, <1>1, <2>1, <2>2, <2>3 DEF Base, HTypes
<1>5. CASE H!RevokeKey(r)
  <2>1. /\ \/ UNCHANGED <<key, ended>>
           \/ /\ key' = [key EXCEPT ![req[r].on] = "revoked"]
              /\ \E x \in {None, ended["dev"]} :
                    ended' = [ended EXCEPT ![req[r].on] = clock, !["dev"] = x]
        /\ req[r].on \in Accounts
        /\ UNCHANGED <<sessions, tickets, given>>
    <3>1. req[r].kind = "revoke" /\ UNCHANGED <<sessions, tickets, given>>
      BY <1>5 DEF H!RevokeKey, H!consoles
    <3>2. req[r].on \in Accounts
      BY <3>1, SingleRequest DEF Base, ServedOf
    <3>3. CASE UNCHANGED H!keyring
      BY <3>1, <3>2, <3>3 DEF H!keyring
    <3>4. CASE /\ key' = [key EXCEPT ![req[r].on] = "revoked"]
               /\ ended' = [ended EXCEPT ![req[r].on] = clock, !["dev"] = IF H!OpensAgain(req[r].on) THEN None ELSE @]
      <4>1. req[r].on # "dev" /\ ended \in [H!Owners -> Nat \cup {None}]
        BY <3>2, CallersAssumption DEF Base, HTypes
      <4>2. ended' = [ended EXCEPT ![req[r].on] = clock, !["dev"] = IF H!OpensAgain(req[r].on) THEN None ELSE ended["dev"]]
        BY <3>4, <4>1
      <4>3. \E x \in {None, ended["dev"]} : x = IF H!OpensAgain(req[r].on) THEN None ELSE ended["dev"]
        OBVIOUS
      <4> QED BY <3>1, <3>2, <3>4, <4>2, <4>3
    <3> QED BY <1>5, <3>3, <3>4 DEF H!RevokeKey
  <2>2. key' \in [Accounts -> {"absent", "active", "revoked"}]
    BY <2>1 DEF Base, HTypes
  <2>3. ended' \in [H!Owners -> Nat \cup {None}]
    <3>1. None \in Nat \cup {None} /\ ended["dev"] \in Nat \cup {None} /\ clock \in Nat \cup {None}
      BY DEF Base, HTypes, H!Owners
    <3> QED BY <2>1, <3>1 DEF Base, HTypes
  <2> QED BY <1>0, <1>1, <2>1, <2>2, <2>3 DEF Base, HTypes
<1> QED BY <1>0, <1>2, <1>3, <1>4, <1>5

(* A login makes one session, with the rights of the request.              *)
LEMMA CreateTypes ==
    ASSUME Base, NEW r \in Requests, H!CreateSession(r)
    PROVE  /\ HTypes' /\ ServedInv' /\ req[r].pc = "loginpass" /\ req[r].ip \in Ips
           /\ \E s \in SessionIds : /\ s \notin DOMAIN given /\ DOMAIN given' = DOMAIN given \cup {s}
                                    /\ \A t \in DOMAIN given : given'[t] = given[t]
           /\ \A s \in DOMAIN sessions' : \/ s \in DOMAIN sessions /\ sessions'[s] = sessions[s]
                                          \/ sessions'[s] = [who |-> req[r].who, until |-> clock + SessionTtl]
<1> DEFINE s    == H!Fresh(SessionIds)
           live == {x \in DOMAIN sessions : H!Alive(x)}
           new  == [who |-> req[r].who, until |-> clock + SessionTtl]
<1>1. /\ req[r].pc = "loginpass" /\ ~(SessionIds \subseteq DOMAIN given) /\ H!Answer(r) /\ H!Succeed(req[r].ip)
      /\ sessions' = [x \in live \cup {s} |-> IF x = s THEN new ELSE sessions[x]]
      /\ given' = [y \in DOMAIN given \cup {s} |->
                     IF y = s THEN [by |-> req[r].who.by, since |-> clock, tried |-> FALSE, opened |-> FALSE]
                     ELSE given[y]]
      /\ UNCHANGED <<world, clock, hits, admitted, tickets, key, ended>>
  BY DEF H!CreateSession, H!quotas, H!keyring, H!Grant
<1>2. s \in SessionIds /\ s \notin DOMAIN given
  BY <1>1 DEF H!Fresh
<1>3. new \in [who : Principals, until : Nat]
  BY SingleRequest, AccessAssumption DEF Base, HTypes, Request
<1> HIDE DEF s, new
<1>4. DOMAIN sessions' = live \cup {s} /\ \A x \in DOMAIN sessions' : sessions'[x] = IF x = s THEN new ELSE sessions[x]
  BY <1>1
<1>5. req[r].ip \in Ips
  BY <1>1, SingleRequest DEF Base
<1>6. req' \in [Requests -> Request] /\ ServedInv'
  BY <1>1, AnswerBecomes, ReqAfter DEF Base
<1>7. /\ entry' \in [Ips -> [failures : Seq(Nat), until : Nat]] /\ log' \in [Ips -> Seq(Nat)]
      /\ passed' \in [Ips -> SUBSET Requests]
  BY <1>1, <1>5, SuccessKeeps DEF Base
<1>8. HTypes'
  BY <1>1, <1>2, <1>3, <1>4, <1>6, <1>7 DEF Base, HTypes
<1>9. DOMAIN given' = DOMAIN given \cup {s} /\ \A t \in DOMAIN given : given'[t] = given[t]
  BY <1>1, <1>2
<1> QED BY <1>1, <1>2, <1>4, <1>5, <1>6, <1>8, <1>9 DEF new

LEMMA SocketTypes ==
    ASSUME Base, H!OpenSocket
    PROVE  HTypes' /\ ServedInv'
<1>1. PICK t \in DOMAIN tickets : tickets' = H!Without(tickets, t)
  BY DEF H!OpenSocket
<1>2. UNCHANGED <<world, clock, entry, log, passed, hits, admitted, sessions, key, ended, req>>
  BY DEF H!OpenSocket, H!limiter, H!quotas, H!keyring
<1>3. DOMAIN tickets' \subseteq DOMAIN tickets /\ \A x \in DOMAIN tickets' : tickets'[x] = tickets[x]
  BY <1>1 DEF H!Without
<1> QED BY <1>2, <1>3 DEF Base, HTypes, ServedInv

LEMMA TickTypes ==
    ASSUME Base, H!Tick
    PROVE  HTypes' /\ ServedInv'
<1>1. /\ clock < world.until /\ clock' = clock + 1
      /\ log' = [i \in Ips |-> H!Kept(log[i], clock', TenMinutes)]
      /\ admitted' = [id \in H!KeyIds |-> H!Kept(admitted[id], clock', Minute)]
      /\ UNCHANGED <<world, entry, passed, hits, sessions, tickets, given, key, ended, req>>
  BY DEF H!Tick, H!consoles, H!keyring
<1>2. clock' \in Nat \ {0} /\ clock' <= world.until
  BY <1>1, CallersAssumption DEF Base, HTypes
<1>3. log' \in [Ips -> Seq(Nat)]
  BY <1>1, <1>2, KeptType, AccessAssumption DEF Base, HTypes
<1>4. admitted' \in [H!KeyIds -> Seq(Nat)]
  BY <1>1, <1>2, KeptType, AccessAssumption DEF Base, HTypes
<1> QED BY <1>1, <1>2, <1>3, <1>4 DEF Base, HTypes, ServedInv

-----------------------------------------------------------------------------
(* Rights end.                                                             *)
LEMMA RightFrame ==
    ASSUME Base, UNCHANGED <<world, clock, key, ended>>,
           \A p \in Requests : req'[p].pc = "loginpass" => ended[req'[p].who.by] \in {None, clock},
           \A s \in DOMAIN sessions' :
              \/ s \in DOMAIN sessions /\ sessions'[s] = sessions[s]
              \/ /\ sessions'[s].who.by \in H!Owners /\ sessions'[s].who.role \in 1..3
                 /\ sessions'[s].until = clock + SessionTtl /\ ended[sessions'[s].who.by] \in {None, clock}
    PROVE  RightInv'
<1>1. /\ ended'["config"] = None /\ ended'["local"] = None
      /\ H!OpenDev' => ended'["dev"] = None
      /\ \A k \in Accounts : key'[k] # "revoked" => ended'[k] = None
  <2>1. H!OpenDev' = H!OpenDev
    BY DEF H!OpenDev, H!HasCredentials, H!AnyActive
  <2> QED BY <2>1 DEF Base, RightInv
<1>2. ASSUME NEW s \in DOMAIN sessions'
      PROVE  /\ sessions'[s].who.by \in H!Owners /\ sessions'[s].who.role \in 1..3
             /\ sessions'[s].until <= clock + SessionTtl
             /\ ended[sessions'[s].who.by] # None => sessions'[s].until <= ended[sessions'[s].who.by] + SessionTtl
  <2>1. CASE s \in DOMAIN sessions /\ sessions'[s] = sessions[s]
    BY <2>1 DEF Base, RightInv
  <2>2. CASE /\ sessions'[s].who.by \in H!Owners /\ sessions'[s].who.role \in 1..3
             /\ sessions'[s].until = clock + SessionTtl /\ ended[sessions'[s].who.by] \in {None, clock}
    BY <2>2, AccessAssumption DEF Base, HTypes
  <2> QED BY <2>1, <2>2
<1>3. \A s \in DOMAIN sessions' :
        /\ sessions'[s].who.by \in H!Owners /\ sessions'[s].who.role \in 1..3
        /\ sessions'[s].until <= clock' + SessionTtl
        /\ ended'[sessions'[s].who.by] # None => sessions'[s].until <= ended'[sessions'[s].who.by] + SessionTtl
  BY <1>2
<1>4. \A p \in Requests : req'[p].pc = "loginpass" => ended'[req'[p].who.by] \in {None, clock'}
  OBVIOUS
<1> QED BY <1>1, <1>3, <1>4 DEF RightInv

(* A right is alive when the login finds it.                               *)
LEMMA LoginRight ==
    ASSUME Base, NEW t, H!LoginVerdict(t).pc = "loginpass"
    PROVE  ended[H!LoginVerdict(t).who.by] = None
<1>1. \/ t \in Accounts /\ key[t] = "active" /\ H!LoginVerdict(t) = [pc |-> "loginpass", who |-> H!Principal(t)]
      \/ H!LoginVerdict(t) = [pc |-> "loginpass", who |-> H!Administrator("config")]
      \/ H!OpenDev /\ H!LoginVerdict(t) = [pc |-> "loginpass", who |-> H!Administrator("dev")]
      \/ H!LoginVerdict(t) = [pc |-> "loginfail", who |-> H!Nobody]
  BY DEF H!LoginVerdict
<1> QED BY <1>1, PrincipalType DEF Base, RightInv

LEMMA SameSessions == sessions' = sessions => \A s \in DOMAIN sessions' : s \in DOMAIN sessions /\ sessions'[s] = sessions[s]
OBVIOUS

(* A request that is answered or goes on leaves the logins alone.          *)
LEMMA LoginsStay ==
    ASSUME Base, NEW r \in Requests, NEW q, Becomes(r, q), q.pc = "loginpass" => ended[q.who.by] \in {None, clock}
    PROVE  \A p \in Requests : req'[p].pc = "loginpass" => ended[req'[p].who.by] \in {None, clock}
<1>1. \A p \in Requests : req'[p] = IF p = r THEN q ELSE req[p]
  BY ReqAfter DEF Base
<1> QED BY <1>1 DEF Base, RightInv

LEMMA IdleStays ==
    ASSUME Base, NEW r \in Requests, H!Answer(r)
    PROVE  \A p \in Requests : req'[p].pc = "loginpass" => ended[req'[p].who.by] \in {None, clock}
BY AnswerBecomes, IdleServed, LoginsStay

(* No step of the layer or the login gives a right that has ended.         *)
LEMMA FrontRights ==
    ASSUME Base, NEW r \in Requests,
           H!Receive(r) \/ H!Login(r) \/ H!Fallback(r) \/ H!FailCheck(r) \/ Failed(r) \/ H!Pass(r)
    PROVE  RightInv' /\ UNCHANGED <<tickets, given, clock>>
<1>1. CASE H!Receive(r)
  <2>1. PICK i \in world.ips, c \in world.calls :
          /\ req' = [req EXCEPT ![r] = [pc |-> H!Verdict(H!Extract(c)).pc, ip |-> i, kind |-> c.kind, on |-> c.on,
                                        token |-> H!Extract(c), cookie |-> c.cookie, who |-> H!Verdict(H!Extract(c)).who]]
          /\ \E x : sessions' = H!Without(sessions, x) \/ sessions' = sessions
          /\ UNCHANGED <<world, clock, tickets, given, key, ended>>
    BY <1>1 DEF H!Receive, H!quotas, H!keyring
  <2>2. PICK q : Becomes(r, q) /\ q.pc \in {"pass", "failcheck", "fallback"}
    BY <2>1, ReceiveBecomes DEF Base
  <2>3. \A p \in Requests : req'[p].pc = "loginpass" => ended[req'[p].who.by] \in {None, clock}
    BY <2>2, LoginsStay
  <2>4. \A s \in DOMAIN sessions' : s \in DOMAIN sessions /\ sessions'[s] = sessions[s]
    BY <2>1, CutType DEF Base
  <2> QED BY <2>1, <2>3, <2>4, RightFrame
<1>2. CASE H!Login(r)
  <2>1. PICK i \in world.ips, c \in world.calls :
          /\ req' = [req EXCEPT ![r] = [H!Idle EXCEPT !.pc = H!LoginVerdict(H!Extract(c)).pc,
                                                      !.who = H!LoginVerdict(H!Extract(c)).who, !.ip = i, !.kind = "login"]]
          /\ UNCHANGED <<world, clock, sessions, tickets, given, key, ended>>
    BY <1>2 DEF H!Login, H!quotas, H!keyring, H!consoles
  <2> DEFINE v == H!LoginVerdict(H!Extract(c))
  <2>2. \E q : Becomes(r, q) /\ q.pc = v.pc /\ q.who = v.who
    <3>1. HTypes
      BY DEF Base
    <3>2. \E q : /\ Becomes(r, q) /\ q.ip = i /\ i \in Ips /\ q.pc \in {"loginpass", "loginfail"}
                 /\ q.pc = v.pc /\ q.who = v.who
      <4>1. req' = [req EXCEPT ![r] = [H!Idle EXCEPT !.pc = v.pc, !.who = v.who, !.ip = i, !.kind = "login"]]
        BY <2>1
      <4> QED BY ONLY <4>1, <3>1, LoginBecomes, r \in Requests, i \in world.ips, Zenon
    <3> QED BY <3>2
  <2>3. v.pc = "loginpass" => ended[v.who.by] = None
    BY LoginRight
  <2> HIDE DEF v
  <2>5. PICK q : Becomes(r, q) /\ q.pc = v.pc /\ q.who = v.who
    BY <2>2
  <2>4. \A p \in Requests : req'[p].pc = "loginpass" => ended[req'[p].who.by] \in {None, clock}
    BY <2>3, <2>5, LoginsStay
  <2> QED BY <2>1, <2>4, RightFrame, SameSessions
<1>3. CASE H!Fallback(r)
  <2>1. UNCHANGED <<world, clock, sessions, tickets, given, key, ended>>
    BY <1>3 DEF H!Fallback, H!consoles, H!keyring
  <2>2. PICK q : Becomes(r, q) /\ q.pc \in {"pass", "failcheck"}
    BY <1>3, FallbackBecomes DEF Base
  <2>3. \A p \in Requests : req'[p].pc = "loginpass" => ended[req'[p].who.by] \in {None, clock}
    BY <2>2, LoginsStay
  <2> QED BY <2>1, <2>3, RightFrame, SameSessions
<1>4. CASE H!FailCheck(r)
  <2>1. UNCHANGED <<world, clock, sessions, tickets, given, key, ended>>
    BY <1>4 DEF H!FailCheck, H!consoles, H!keyring
  <2>2. PICK q : Becomes(r, q) /\ q.pc \in {"idle", "failrecord"}
    BY <1>4, FailCheckBecomes DEF Base
  <2>3. \A p \in Requests : req'[p].pc = "loginpass" => ended[req'[p].who.by] \in {None, clock}
    BY <2>2, LoginsStay
  <2> QED BY <2>1, <2>3, RightFrame, SameSessions
<1>5. CASE Failed(r)
  <2>1. UNCHANGED <<world, clock, sessions, tickets, given, key, ended>> /\ H!Answer(r)
    BY <1>5 DEF Failed
  <2> QED BY <2>1, IdleStays, RightFrame, SameSessions
<1>6. CASE H!Pass(r)
  <2>1. UNCHANGED <<world, clock, sessions, tickets, given, key, ended>>
    BY <1>6 DEF H!Pass, H!consoles, H!keyring
  <2>2. PICK q : Becomes(r, q) /\ q.pc \in {"idle", "serve"}
    BY <1>6, PassBecomes DEF Base
  <2>3. \A p \in Requests : req'[p].pc = "loginpass" => ended[req'[p].who.by] \in {None, clock}
    BY <2>2, LoginsStay
  <2> QED BY <2>1, <2>3, RightFrame, SameSessions
<1> QED BY <1>1, <1>2, <1>3, <1>4, <1>5, <1>6

(* What becomes of a right that ends now.                                  *)
LEMMA RightChanges ==
    ASSUME Base, HTypes', UNCHANGED <<world, clock, sessions>>, NEW r \in Requests, H!Answer(r),
           \A o \in H!Owners : ended'[o] \in {ended[o], None, clock},
           ended'["config"] = None /\ ended'["local"] = None, H!OpenDev' => ended'["dev"] = None,
           \A k \in Accounts : key'[k] # "revoked" => ended'[k] = None
    PROVE  RightInv'
<1>1. ASSUME NEW s \in DOMAIN sessions
      PROVE  ended'[sessions[s].who.by] # None => sessions[s].until <= ended'[sessions[s].who.by] + SessionTtl
  <2> DEFINE o == sessions[s].who.by
  <2>1. /\ o \in H!Owners /\ sessions[s].until <= clock + SessionTtl
        /\ ended[o] # None => sessions[s].until <= ended[o] + SessionTtl
    BY DEF Base, RightInv
  <2>2. ended'[o] \in {ended[o], None, clock}
    BY <2>1
  <2> HIDE DEF o
  <2>3. ended'[o] # None => sessions[s].until <= ended'[o] + SessionTtl
    BY ONLY <2>1, <2>2
  <2> QED BY <2>3 DEF o
<1>2. \A p \in Requests : req'[p].pc = "loginpass" => ended'[req'[p].who.by] \in {None, clock}
  <2>1. PICK q : Becomes(r, q) /\ q.pc = "idle"
    BY AnswerBecomes, IdleServed
  <2>2. \A p \in Requests : req'[p] = IF p = r THEN q ELSE req[p]
    BY <2>1, ReqAfter DEF Base
  <2>3. \A p \in Requests : req[p].pc = "loginpass" => req[p].who.by \in H!Owners /\ ended[req[p].who.by] \in {None, clock}
    BY DEF Base, ServedInv, ServedOf, RightInv
  <2>4. \A p \in Requests : req[p].pc = "loginpass" => ended'[req[p].who.by] \in {None, clock}
    <3> SUFFICES ASSUME NEW p \in Requests, req[p].pc = "loginpass"
                 PROVE  ended'[req[p].who.by] \in {None, clock}
      OBVIOUS
    <3>1. req[p].who.by \in H!Owners /\ ended[req[p].who.by] \in {None, clock}
      BY <2>3
    <3>2. ended'[req[p].who.by] \in {ended[req[p].who.by], None, clock}
      BY <3>1
    <3> QED BY <3>1, <3>2
  <2> QED BY <2>1, <2>2, <2>4
<1> QED BY <1>1, <1>2 DEF Base, RightInv

(* Nor does a handler, though it may end one.                              *)
LEMMA HandlerRights ==
    ASSUME Base, NEW r \in Requests, H!Logout(r) \/ H!IssueTicket(r) \/ H!IssueKey(r) \/ H!RevokeKey(r)
    PROVE  RightInv'
<1>0. HTypes' /\ ServedInv' /\ H!Answer(r)
  BY HandlerTypes
<1>1. CASE H!Logout(r)
  <2>1. sessions' = H!Without(sessions, req[r].cookie) /\ UNCHANGED <<world, clock, key, ended>>
    BY <1>1 DEF H!Logout, H!keyring
  <2>2. \A s \in DOMAIN sessions' : s \in DOMAIN sessions /\ sessions'[s] = sessions[s]
    BY <2>1, CutType DEF Base
  <2> QED BY <1>0, <2>1, <2>2, IdleStays, RightFrame
<1>2. CASE H!IssueTicket(r)
  <2>1. UNCHANGED <<world, clock, sessions, key, ended>>
    BY <1>2 DEF H!IssueTicket, H!keyring
  <2> QED BY <1>0, <2>1, IdleStays, RightFrame, SameSessions
<1>3. CASE H!IssueKey(r)
  <2> DEFINE k == req[r].on
  <2>1. /\ UNCHANGED <<world, clock, sessions>>
        /\ key' = [key EXCEPT ![k] = IF @ = "absent" THEN "active" ELSE @]
        /\ ended' = IF H!OpenDev /\ key[k] = "absent" THEN [ended EXCEPT !["dev"] = clock] ELSE ended
        /\ req[r].kind = "issue"
    BY <1>3 DEF H!IssueKey, H!consoles
  <2>2. k \in Accounts
    BY <2>1, SingleRequest DEF Base, ServedOf
  <2> HIDE DEF k
  <2>3. \A o \in H!Owners : ended'[o] = ended[o] \/ (ended'[o] = clock /\ o = "dev" /\ H!OpenDev /\ key[k] = "absent")
    BY <2>1 DEF Base, HTypes
  <2>4. "config" \in H!Owners /\ "local" \in H!Owners /\ "dev" \in H!Owners /\ \A j \in Accounts : j \in H!Owners /\ j # "dev"
    BY CallersAssumption DEF H!Owners
  <2>5. ended'["config"] = None /\ ended'["local"] = None
    BY <2>3, <2>4 DEF Base, RightInv
  <2>6. \A j \in Accounts : key'[j] # "revoked" => ended'[j] = None
    <3>1. \A j \in Accounts : key'[j] # "revoked" => key[j] # "revoked"
      BY <2>1, <2>2 DEF Base, HTypes
    <3> QED BY <2>3, <2>4, <3>1 DEF Base, RightInv
  <2>7. H!OpenDev' => ended'["dev"] = None
    <3>1. key[k] = "absent" => ~H!OpenDev'
      <4>1. key[k] = "absent" => key'[k] = "active"
        BY <2>1, <2>2 DEF Base, HTypes
      <4> QED BY <2>2, <4>1 DEF H!OpenDev, H!AnyActive
    <3>2. H!OpenDev' /\ key[k] # "absent" => H!OpenDev
      <4>1. key[k] # "absent" => key' = key
        BY <2>1, <2>2 DEF Base, HTypes
      <4> QED BY <2>1, <4>1 DEF H!OpenDev, H!HasCredentials, H!AnyActive
    <3> QED BY <2>3, <2>4, <3>1, <3>2 DEF Base, RightInv
  <2>8. \A o \in H!Owners : ended'[o] \in {ended[o], None, clock}
    BY <2>3
  <2> QED BY <1>0, <2>1, <2>5, <2>6, <2>7, <2>8, RightChanges
<1>4. CASE H!RevokeKey(r)
  <2> DEFINE k == req[r].on
  <2>1. /\ UNCHANGED <<world, clock, sessions, tickets, given>> /\ req[r].kind = "revoke"
        /\ \/ UNCHANGED <<key, ended>>
           \/ /\ key' = [key EXCEPT ![k] = "revoked"]
              /\ ended' = [ended EXCEPT ![k] = clock, !["dev"] = IF H!OpensAgain(k) THEN None ELSE @]
    BY <1>4 DEF H!RevokeKey, H!consoles, H!keyring
  <2>2. k \in Accounts
    BY <2>1, SingleRequest DEF Base, ServedOf
  <2> HIDE DEF k
  <2>3. CASE UNCHANGED <<key, ended>>
    BY <1>0, <2>1, <2>3, IdleStays, RightFrame, SameSessions
  <2>4. CASE /\ key' = [key EXCEPT ![k] = "revoked"]
             /\ ended' = [ended EXCEPT ![k] = clock, !["dev"] = IF H!OpensAgain(k) THEN None ELSE @]
    <3>1. "config" \in H!Owners /\ "local" \in H!Owners /\ "dev" \in H!Owners /\ k \in H!Owners
          /\ k \notin {"dev", "config", "local"} /\ \A j \in Accounts : j \in H!Owners /\ j # "dev"
      BY <2>2, CallersAssumption DEF H!Owners
    <3>2. ended \in [H!Owners -> Nat \cup {None}]
      BY DEF Base, HTypes
    <3>3. /\ ended'[k] = clock /\ ended'["dev"] = IF H!OpensAgain(k) THEN None ELSE ended["dev"]
          /\ \A o \in H!Owners : o # k /\ o # "dev" => ended'[o] = ended[o]
      BY <2>4, <3>1, <3>2
    <3>4. ended'["config"] = None /\ ended'["local"] = None
      BY <3>1, <3>3 DEF Base, RightInv
    <3>5. \A j \in Accounts : key'[j] = IF j = k THEN "revoked" ELSE key[j]
      BY <2>4 DEF Base, HTypes
    <3>6. \A j \in Accounts : key'[j] # "revoked" => ended'[j] = None
      BY <3>1, <3>3, <3>5 DEF Base, RightInv
    <3>7. H!OpenDev' => H!OpensAgain(k)
      BY <2>1, <3>5 DEF H!OpenDev, H!OpensAgain, H!HasCredentials, H!AnyActive
    <3>8. H!OpenDev' => ended'["dev"] = None
      BY <3>3, <3>7
    <3>9. \A o \in H!Owners : ended'[o] \in {ended[o], None, clock}
      BY <3>3
    <3> QED BY <1>0, <2>1, <3>4, <3>6, <3>8, <3>9, RightChanges
  <2> QED BY <2>1, <2>3, <2>4
<1> QED BY <1>1, <1>2, <1>3, <1>4

(* A new session has a right that is alive, or ended in this second.       *)
LEMMA CreateRights ==
    ASSUME Base, NEW r \in Requests, H!CreateSession(r)
    PROVE  RightInv'
<1>1. H!Answer(r) /\ req[r].pc = "loginpass" /\ UNCHANGED <<world, clock, key, ended>>
  BY DEF H!CreateSession, H!keyring
<1>2. req[r].who.by \in H!Owners /\ req[r].who.role \in 1..3 /\ ended[req[r].who.by] \in {None, clock}
  BY <1>1 DEF Base, ServedInv, ServedOf, RightInv
<1>3. ASSUME NEW s \in DOMAIN sessions'
      PROVE  \/ s \in DOMAIN sessions /\ sessions'[s] = sessions[s]
             \/ /\ sessions'[s].who.by \in H!Owners /\ sessions'[s].who.role \in 1..3
                /\ sessions'[s].until = clock + SessionTtl /\ ended[sessions'[s].who.by] \in {None, clock}
  <2>1. CASE sessions'[s] = [who |-> req[r].who, until |-> clock + SessionTtl]
    BY <1>2, <2>1
  <2> QED BY <2>1, CreateTypes
<1> QED BY <1>1, <1>3, IdleStays, RightFrame

(* Time gives no right.                                                    *)
LEMMA TickRights ==
    ASSUME Base, H!Tick
    PROVE  RightInv'
<1>1. /\ clock' = clock + 1 /\ \A r \in Requests : req[r].pc \in {"idle", "serve"}
      /\ UNCHANGED <<world, sessions, key, ended, req>>
  BY DEF H!Tick, H!consoles, H!keyring
<1>2. H!OpenDev' = H!OpenDev
  BY <1>1 DEF H!OpenDev, H!HasCredentials, H!AnyActive
<1>3. \A s \in DOMAIN sessions : sessions[s].until <= clock' + SessionTtl
  BY <1>1, AccessAssumption DEF Base, RightInv, HTypes
<1>4. \A r \in Requests : req'[r].pc # "loginpass"
  BY <1>1
<1> QED BY <1>1, <1>2, <1>3, <1>4 DEF Base, RightInv
-----------------------------------------------------------------------------
(* Tickets.                                                                *)
LEMMA TicketsStay ==
    ASSUME Base, UNCHANGED <<tickets, given, clock>>
    PROVE  TicketInv'
BY DEF Base, TicketInv

(* Each step keeps what is known of the tickets.                           *)
LEMMA HandlerTickets ==
    ASSUME Base, NEW r \in Requests, H!Logout(r) \/ H!IssueTicket(r) \/ H!IssueKey(r) \/ H!RevokeKey(r)
    PROVE  TicketInv'
<1>1. CASE H!Logout(r) \/ H!IssueKey(r) \/ H!RevokeKey(r)
  <2>1. UNCHANGED <<tickets, given, clock>>
    BY <1>1 DEF H!Logout, H!IssueKey, H!RevokeKey, H!consoles
  <2> QED BY <2>1, TicketsStay
<1>2. CASE H!IssueTicket(r)
  <2> DEFINE t    == H!Fresh(Tickets)
             live == {x \in DOMAIN tickets : tickets[x].until > clock}
             new  == [term |-> req[r].on, until |-> clock + TicketTtl]
             mark == [by |-> req[r].who.by, since |-> clock, tried |-> FALSE, opened |-> FALSE]
  <2>1. /\ tickets' = [x \in live \cup {t} |-> IF x = t THEN new ELSE tickets[x]]
        /\ req[r].pc = "serve" /\ ~(Tickets \subseteq DOMAIN given)
        /\ given' = [y \in DOMAIN given \cup {t} |-> IF y = t THEN mark ELSE given[y]]
        /\ clock' = clock
    BY <1>2 DEF H!IssueTicket, H!Grant
  <2>2. t \notin DOMAIN given
    BY <2>1 DEF H!Fresh
  <2>3. mark \in Carried /\ new.until = mark.since + TicketTtl /\ new.until <= clock + TicketTtl /\ mark.tried = FALSE
    <3>1. req[r].who.by \in H!Owners /\ clock \in Nat
      BY <2>1, SingleRequest DEF Base, ServedOf, HTypes
    <3> QED BY <3>1, AccessAssumption DEF Carried
  <2> HIDE DEF t, new, mark
  <2>4. /\ DOMAIN tickets' = live \cup {t} /\ DOMAIN given' = DOMAIN given \cup {t}
        /\ \A x \in DOMAIN tickets' : tickets'[x] = IF x = t THEN new ELSE tickets[x]
        /\ \A x \in DOMAIN given' : given'[x] = IF x = t THEN mark ELSE given[x]
    BY <2>1
  <2>5. \A x \in DOMAIN given' : given'[x] \in Carried
    BY <2>3, <2>4 DEF Base, TicketInv
  <2>6. ASSUME NEW x \in DOMAIN tickets'
        PROVE  /\ x \in DOMAIN given' /\ given'[x].tried = FALSE
               /\ tickets'[x].until = given'[x].since + TicketTtl /\ tickets'[x].until <= clock' + TicketTtl
    <3>1. CASE x = t
      <4>1. x \in DOMAIN given' /\ given'[x] = mark /\ tickets'[x] = new
        BY <2>4, <3>1
      <4> QED BY <2>1, <2>3, <4>1
    <3>2. CASE x # t
      <4>1. x \in DOMAIN tickets
        BY <2>4, <3>2
      <4>2. x \in DOMAIN given
        BY <4>1 DEF Base, TicketInv
      <4>3. given'[x] = given[x] /\ tickets'[x] = tickets[x]
        BY <2>4, <3>2, <4>2
      <4> QED BY <2>1, <2>4, <4>1, <4>2, <4>3 DEF Base, TicketInv
    <3> QED BY <3>1, <3>2
  <2> QED BY <2>5, <2>6 DEF TicketInv
<1> QED BY <1>1, <1>2

LEMMA CreateTickets ==
    ASSUME Base, NEW r \in Requests, H!CreateSession(r)
    PROVE  TicketInv'
<1> DEFINE s    == H!Fresh(SessionIds)
           mark == [by |-> req[r].who.by, since |-> clock, tried |-> FALSE, opened |-> FALSE]
<1>1. /\ req[r].pc = "loginpass" /\ ~(SessionIds \subseteq DOMAIN given)
      /\ given' = [y \in DOMAIN given \cup {s} |-> IF y = s THEN mark ELSE given[y]]
      /\ UNCHANGED <<clock, tickets>>
  BY DEF H!CreateSession, H!Grant
<1>2. s \notin DOMAIN given
  BY <1>1 DEF H!Fresh
<1>3. mark \in Carried
  <2>1. req[r].who.by \in H!Owners /\ clock \in Nat
    BY <1>1, SingleRequest DEF Base, ServedOf, HTypes
  <2> QED BY <2>1 DEF Carried
<1> HIDE DEF s, mark
<1>4. /\ DOMAIN given' = DOMAIN given \cup {s}
      /\ \A x \in DOMAIN given' : given'[x] = IF x = s THEN mark ELSE given[x]
  BY <1>1
<1>5. \A x \in DOMAIN given : given'[x] = given[x]
  BY <1>2, <1>4
<1>6. \A x \in DOMAIN given' : given'[x] \in Carried
  BY <1>3, <1>4 DEF Base, TicketInv
<1> QED BY <1>1, <1>4, <1>5, <1>6 DEF Base, TicketInv

(* A socket takes its ticket out, and opens in its time only.              *)
LEMMA SocketTickets ==
    ASSUME Base, H!OpenSocket
    PROVE  /\ TicketInv' /\ RightInv'
           /\ \A t \in DOMAIN given : ~given[t].opened /\ given'[t].opened
                 => ~given[t].tried /\ clock <= given[t].since + TicketTtl
<1>1. PICK t \in DOMAIN tickets, term \in Terminals :
        /\ tickets' = H!Without(tickets, t)
        /\ given' = [given EXCEPT ![t].tried = TRUE, ![t].opened = @ \/ H!Opens(t, term)]
  BY DEF H!OpenSocket
<1>2. UNCHANGED <<world, clock, sessions, key, ended, req>>
  BY DEF H!OpenSocket, H!keyring
<1> DEFINE open == given[t].opened \/ H!Opens(t, term)
           mark == [given[t] EXCEPT !.tried = TRUE, !.opened = open]
<1>3. t \in DOMAIN given /\ given[t] \in Carried
  BY DEF Base, TicketInv
<1>4. given' = [given EXCEPT ![t] = mark]
  BY <1>1, <1>3 DEF Carried
<1>5. open \in BOOLEAN
  BY <1>3 DEF H!Opens, Carried
<1> HIDE DEF open
<1>6. mark \in Carried /\ mark.opened = open
  BY <1>3, <1>5 DEF Carried
<1> HIDE DEF mark
<1>7. /\ DOMAIN given' = DOMAIN given /\ given'[t] = mark
      /\ \A x \in DOMAIN given : x # t => given'[x] = given[x]
  BY <1>3, <1>4
<1>8. DOMAIN tickets' = DOMAIN tickets \ {t} /\ \A x \in DOMAIN tickets' : tickets'[x] = tickets[x]
  BY <1>1 DEF H!Without
<1>9. TicketInv'
  <2>1. \A x \in DOMAIN given' : given'[x] \in Carried
    BY <1>6, <1>7 DEF Base, TicketInv
  <2> QED BY <1>2, <1>7, <1>8, <2>1 DEF Base, TicketInv
<1>10. RightInv'
  <2>1. H!OpenDev' = H!OpenDev
    BY <1>2 DEF H!OpenDev, H!HasCredentials, H!AnyActive
  <2> QED BY <1>2, <2>1 DEF Base, RightInv
<1>11. ASSUME NEW x \in DOMAIN given, ~given[x].opened, given'[x].opened
       PROVE  ~given[x].tried /\ clock <= given[x].since + TicketTtl
  <2>1. x = t
    BY <1>7, <1>11
  <2>2. H!Opens(t, term)
    BY <1>6, <1>7, <1>11, <2>1 DEF open
  <2>3. tickets[t].until >= clock
    BY <2>2 DEF H!Opens
  <2> QED BY <1>3, <2>1, <2>3 DEF Base, TicketInv
<1> QED BY <1>9, <1>10, <1>11

LEMMA TickTickets ==
    ASSUME Base, H!Tick
    PROVE  TicketInv'
<1>1. clock' = clock + 1 /\ UNCHANGED <<tickets, given>>
  BY DEF H!Tick, H!consoles
<1>2. clock \in Nat /\ \A t \in DOMAIN tickets : tickets[t].until \in Nat
  BY DEF Base, HTypes
<1> QED BY <1>1, <1>2, AccessAssumption DEF Base, TicketInv
-----------------------------------------------------------------------------
(* Bans. What a step may not do to one.                                    *)
Lifted(i) == entry[i].until > clock /\ clock' = clock /\ entry'[i].until <= clock
Lawful == \A i \in Ips : Lifted(i) =>
    \E r \in passed[i] : req[r].ip = i /\ req[r].pc \in {"pass", "loginpass"} /\ req'[r].pc # req[r].pc

(* A step that lets nobody past a ban keeps it.                            *)
LEMMA BanFrame ==
    ASSUME HTypes, ServedInv, BanInv, clock' = clock, NEW r \in Requests, NEW q, Becomes(r, q),
           q.ip \in Ips => q.ip = req[r].ip \/ ~(entry'[q.ip].until > clock),
           \A i \in Ips : \/ ~(entry'[i].until > clock)
                          \/ entry'[i].until = entry[i].until /\ passed[i] \subseteq passed'[i]
                          \/ passed'[i] = {p \in Requests : req[p].ip = i}
    PROVE  BanInv'
<1> SUFFICES ASSUME NEW i \in Ips, entry'[i].until > clock, NEW p \in Requests, req'[p].ip = i
             PROVE  p \in passed'[i]
  BY DEF BanInv
<1>2. req'[p] = IF p = r THEN q ELSE req[p]
  BY ReqAfter
<1>3. req[p].ip = i
  <2>1. CASE p = r
    <3>1. q.ip = i
      BY <1>2, <2>1
    <3>2. q.ip = req[r].ip
      BY <3>1
    <3> QED BY <2>1, <3>1, <3>2
  <2>2. CASE p # r
    BY <1>2, <2>2
  <2> QED BY <2>1, <2>2
<1>4. CASE entry'[i].until = entry[i].until /\ passed[i] \subseteq passed'[i]
  BY <1>3, <1>4 DEF BanInv
<1>5. CASE passed'[i] = {x \in Requests : req[x].ip = i}
  BY <1>3, <1>5
<1> QED BY <1>4, <1>5

(* The check of an address, its success and its failure under a ban.       *)
LEMMA CheckBans ==
    ASSUME HTypes, ServedInv, BanInv, clock' = clock, NEW r \in Requests, NEW q, Becomes(r, q),
           NEW i \in Ips, H!Check(i),
           \/ passed' = passed /\ q.ip \in {None, req[r].ip}
           \/ passed' = [passed EXCEPT ![i] = @ \ {r}] /\ q.ip = i /\ ~(entry[i].until > clock)
    PROVE  BanInv' /\ Lawful
<1>1. \A j \in Ips : /\ entry[j].until \in Nat /\ entry'[j].until \in Nat /\ passed[j] \in SUBSET Requests
                     /\ entry'[j].until = entry[j].until \/ (entry'[j].until = 0 /\ entry[j].until <= clock)
  BY LookKeeps DEF HTypes
<1>2. Lawful
  <2>1. clock \in Nat
    BY DEF HTypes
  <2>2. \A j \in Ips : ~Lifted(j)
    <3> SUFFICES ASSUME NEW j \in Ips, Lifted(j) PROVE FALSE
      OBVIOUS
    <3> QED BY <1>1, <2>1 DEF Lifted
  <2> QED BY <2>2 DEF Lawful
<1>3. CASE passed' = passed /\ q.ip \in {None, req[r].ip}
  <2>1. q.ip \in Ips => q.ip = req[r].ip
    BY <1>3, CallersAssumption
  <2>2. \A j \in Ips : \/ ~(entry'[j].until > clock)
                       \/ entry'[j].until = entry[j].until /\ passed[j] \subseteq passed'[j]
    BY <1>1, <1>3 DEF HTypes
  <2> QED BY <1>2, <2>1, <2>2, BanFrame
<1>4. CASE passed' = [passed EXCEPT ![i] = @ \ {r}] /\ q.ip = i /\ ~(entry[i].until > clock)
  <2>0. clock \in Nat /\ passed \in [Ips -> SUBSET Requests]
    BY DEF HTypes
  <2>1. ~(entry'[i].until > clock)
    BY <1>1, <1>4, <2>0
  <2>2. \A j \in Ips : j # i => passed'[j] = passed[j]
    BY <1>4, <2>0
  <2>3. \A j \in Ips : \/ ~(entry'[j].until > clock)
                       \/ entry'[j].until = entry[j].until /\ passed[j] \subseteq passed'[j]
    BY <1>1, <2>0, <2>1, <2>2
  <2> QED BY <1>2, <1>4, <2>1, <2>3, BanFrame
<1> QED BY <1>3, <1>4

LEMMA SuccessBans ==
    ASSUME HTypes, ServedInv, BanInv, clock' = clock, NEW r \in Requests, NEW q, Becomes(r, q),
           req[r].pc \in {"pass", "loginpass"}, req[r].ip \in Ips, H!Succeed(req[r].ip),
           q.ip \in {None, req[r].ip}, q.pc \in {"idle", "serve"}
    PROVE  BanInv' /\ Lawful
<1> DEFINE i == req[r].ip
<1>0. clock \in Nat
  BY DEF HTypes
<1>1. entry'[i].until = 0 /\ \A j \in Ips : j # i => entry'[j] = entry[j] /\ passed'[j] = passed[j]
  BY SuccessKeeps
<1>2. \A j \in Ips : \/ ~(entry'[j].until > clock)
                     \/ entry'[j].until = entry[j].until /\ passed[j] \subseteq passed'[j]
  BY <1>0, <1>1
<1>3. q.ip \in Ips => q.ip = req[r].ip
  BY CallersAssumption
<1>4. BanInv'
  BY <1>2, <1>3, BanFrame
<1>5. Lawful
  <2> SUFFICES ASSUME NEW j \in Ips, Lifted(j)
               PROVE  \E p \in passed[j] : req[p].ip = j /\ req[p].pc \in {"pass", "loginpass"} /\ req'[p].pc # req[p].pc
    BY DEF Lawful
  <2>1. j = i
    BY <1>0, <1>1 DEF Lifted, HTypes
  <2>2. r \in passed[j]
    BY <2>1 DEF BanInv, Lifted
  <2>3. req'[r] = q
    BY ReqAfter
  <2> QED BY <2>1, <2>2, <2>3
<1> QED BY <1>4, <1>5

LEMMA FailedBans ==
    ASSUME HTypes, ServedInv, BanInv, NEW r \in Requests, Failed(r)
    PROVE  BanInv' /\ Lawful
<1> DEFINE i == req[r].ip
<1>0. /\ clock \in Nat /\ clock' = clock /\ i \in Ips /\ H!Fail(i) /\ passed \in [Ips -> SUBSET Requests]
      /\ entry \in [Ips -> [failures : Seq(Nat), until : Nat]]
  BY DEF HTypes, Failed
<1>1. Becomes(r, H!Idle) /\ H!Idle.ip \notin Ips
  BY AnswerBecomes, IdleServed, CallersAssumption DEF Failed
<1>2. CASE entry[i].until > clock /\ entry' = entry /\ passed' = passed
  <2>1. Lawful
    BY <1>0, <1>2 DEF Lawful, Lifted
  <2>2. \A j \in Ips : entry'[j].until = entry[j].until /\ passed[j] \subseteq passed'[j]
    BY <1>2
  <2> QED BY <1>0, <1>1, <2>1, <2>2, BanFrame
<1>3. CASE /\ ~(entry[i].until > clock)
           /\ \E e : /\ entry' = [entry EXCEPT ![i] = e]
                     /\ e \in [failures : Seq(Nat), until : Nat]
                     /\ passed' = IF e.until > clock
                                  THEN [passed EXCEPT ![i] = {p \in Requests : req[p].ip = i}] ELSE passed
  <2>1. PICK e : /\ entry' = [entry EXCEPT ![i] = e]
                 /\ e \in [failures : Seq(Nat), until : Nat]
                 /\ passed' = IF e.until > clock
                              THEN [passed EXCEPT ![i] = {p \in Requests : req[p].ip = i}] ELSE passed
    BY <1>3
  <2>2. entry'[i] = e /\ \A j \in Ips : j # i => entry'[j] = entry[j] /\ passed'[j] = passed[j]
    BY <1>0, <2>1
  <2>3. e.until \in Nat /\ (e.until > clock => passed'[i] = {p \in Requests : req[p].ip = i})
    BY <1>0, <2>1
  <2>4. Lawful
    BY <1>0, <1>3, <2>2 DEF Lawful, Lifted
  <2>5. \A j \in Ips : \/ ~(entry'[j].until > clock)
                       \/ entry'[j].until = entry[j].until /\ passed[j] \subseteq passed'[j]
                       \/ passed'[j] = {p \in Requests : req[p].ip = j}
    <3> SUFFICES ASSUME NEW j \in Ips, j = i, entry'[j].until > clock
                 PROVE  \/ entry'[j].until = entry[j].until /\ passed[j] \subseteq passed'[j]
                        \/ passed'[j] = {p \in Requests : req[p].ip = j}
      BY <2>2
    <3> QED BY <2>2, <2>3
  <2> QED BY <1>0, <1>1, <2>4, <2>5, BanFrame
<1> QED BY <1>0, <1>2, <1>3, FailRecords
-----------------------------------------------------------------------------
(* The counts of the limiter and of the quota.                             *)
FailuresOf(e, l, t) ==
    e.failures \in Seq(0..t) /\ e.until <= t + BanTime /\ H!Kept(e.failures, t, TenMinutes) = l
HitsOf(h, a, t) == h \in Seq(0..t) /\ Len(h) <= Quota /\ H!Kept(h, t, Minute) = a

(* The counts, address by address and key id by key id.                    *)
LEMMA CountParts ==
    CountInv <=> /\ \A i \in Ips : FailuresOf(entry[i], log[i], clock)
                 /\ \A id \in H!KeyIds : HitsOf(hits[id], admitted[id], clock)
BY DEF CountInv, FailuresOf, HitsOf

LEMMA CountPartsNext ==
    CountInv' <=> /\ \A i \in Ips : FailuresOf(entry'[i], log'[i], clock')
                  /\ \A id \in H!KeyIds : HitsOf(hits'[id], admitted'[id], clock')
BY DEF CountInv, FailuresOf, HitsOf

(* A time that has come is a number, and stays one that has come.          *)
LEMMA UpTo == ASSUME NEW t \in Nat, NEW s \in Seq(0..t) PROVE s \in Seq(Nat) /\ s \in Seq(0..(t + 1))
<1>1. 0..t \subseteq Nat /\ 0..t \subseteq 0..(t + 1)
  OBVIOUS
<1> QED BY <1>1, ElementOfSeq, SeqDef

(* What was kept is kept again.                                            *)
LEMMA KeptAgain ==
    ASSUME NEW t \in Nat, NEW w \in Nat, NEW v \in Nat, v <= w, NEW s \in Seq(Nat)
    PROVE  H!Kept(H!Kept(s, t, w), t, v) = H!Kept(s, t, v)
<1>1. Wider(t, w, t, v)
  BY DEF Wider
<1> QED BY <1>1, KeptTwice

(* What is dropped later is dropped then, whether it was kept now or not.  *)
LEMMA KeptLater ==
    ASSUME NEW t \in Nat, NEW w \in Nat, NEW s \in Seq(Nat)
    PROVE  H!Kept(H!Kept(s, t, w), t + 1, w) = H!Kept(s, t + 1, w)
<1>1. Wider(t, w, t + 1, w) /\ t + 1 \in Nat
  BY DEF Wider
<1> QED BY <1>1, KeptTwice

(* Kept gives no time that was not there, and no more of them.             *)
LEMMA KeptUpTo ==
    ASSUME NEW t \in Nat, NEW w \in Nat, NEW s \in Seq(0..t)
    PROVE  H!Kept(s, t, w) \in Seq(0..t) /\ Len(H!Kept(s, t, w)) \in Nat /\ Len(H!Kept(s, t, w)) <= Len(s)
<1>1. s \in Seq(Nat) /\ 0..t \in SUBSET Nat
  BY UpTo
<1>2. H!Kept(s, t, w) \in Seq(0..t) /\ Len(H!Kept(s, t, w)) <= Len(s)
  BY ONLY <1>1, KeptFewer, t \in Nat, w \in Nat, s \in Seq(0..t), Zenon
<1> QED BY <1>2, LenProperties

(* A time that is now is kept.                                             *)
LEMMA AppendNow ==
    ASSUME NEW t \in Nat, NEW w \in Nat, NEW s \in Seq(Nat)
    PROVE  H!Kept(Append(s, t), t, w) = Append(H!Kept(s, t, w), t)
<1>1. t - t <= w
  OBVIOUS
<1>2. H!Kept(Append(s, t), t, w) = IF t - t <= w THEN Append(H!Kept(s, t, w), t) ELSE H!Kept(s, t, w)
  BY ONLY KeptAppend, t \in Nat, w \in Nat, s \in Seq(Nat), Zenon
<1> QED BY <1>1, <1>2

(* The failure that is recorded now counts.                                *)
LEMMA RecordCounts ==
    ASSUME NEW t \in Nat, NEW e, NEW l, e.failures \in Seq(0..t), H!Kept(e.failures, t, TenMinutes) = l,
           NEW f, f.failures = H!Kept(Append(e.failures, t), t, TenMinutes), f.until \in {0, t + BanTime}
    PROVE  FailuresOf(f, Append(l, t), t)
<1> DEFINE s == e.failures
<1>1. s \in Seq(Nat) /\ s \in Seq(0..t) /\ t \in 0..t
  BY UpTo
<1> HIDE DEF s
<1>2. Append(s, t) \in Seq(0..t) /\ Append(s, t) \in Seq(Nat)
  BY <1>1, Appended
<1>3. H!Kept(Append(s, t), t, TenMinutes) \in Seq(0..t)
  BY <1>2, KeptUpTo, AccessAssumption
<1>4. H!Kept(H!Kept(Append(s, t), t, TenMinutes), t, TenMinutes) = H!Kept(Append(s, t), t, TenMinutes)
  <2>1. TenMinutes \in Nat /\ TenMinutes <= TenMinutes
    BY AccessAssumption
  <2> QED BY <1>2, <2>1, KeptAgain
<1>5. H!Kept(Append(s, t), t, TenMinutes) = Append(H!Kept(s, t, TenMinutes), t)
  BY <1>1, AppendNow, AccessAssumption
<1>6. f.until <= t + BanTime
  BY AccessAssumption
<1> QED BY <1>3, <1>4, <1>5, <1>6 DEF FailuresOf, s

(* The request that is admitted now counts.                                *)
LEMMA AdmitCounts ==
    ASSUME NEW t \in Nat, NEW h, NEW a, HitsOf(h, a, t)
    PROVE  /\ HitsOf(a, a, t)
           /\ Len(a) < Quota => HitsOf(Append(a, t), Append(a, t), t)
<1>1. h \in Seq(Nat) /\ h \in Seq(0..t) /\ t \in 0..t /\ H!Kept(h, t, Minute) = a /\ Len(h) <= Quota /\ Len(h) \in Nat
  BY UpTo, LenProperties DEF HitsOf
<1>2. a \in Seq(0..t) /\ Len(a) \in Nat /\ Len(a) <= Len(h)
  BY <1>1, KeptUpTo, AccessAssumption
<1>3. H!Kept(a, t, Minute) = a
  BY <1>1, KeptAgain, AccessAssumption
<1>4. HitsOf(a, a, t)
  BY <1>1, <1>2, <1>3, AccessAssumption DEF HitsOf
<1>5. Append(a, t) \in Seq(0..t) /\ Len(Append(a, t)) = Len(a) + 1
  BY <1>1, <1>2, Appended
<1>6. H!Kept(Append(a, t), t, Minute) = Append(a, t)
  BY <1>2, <1>3, UpTo, AppendNow, AccessAssumption
<1>7. Len(a) < Quota => HitsOf(Append(a, t), Append(a, t), t)
  BY <1>2, <1>5, <1>6, AccessAssumption DEF HitsOf
<1> QED BY <1>4, <1>7

(* Each step keeps the counts.                                             *)
LEMMA CheckCounts ==
    ASSUME HTypes, CountInv, NEW i \in Ips, H!Check(i), UNCHANGED <<clock, hits, admitted>>
    PROVE  CountInv'
<1>1. /\ log' = log
      /\ \A j \in Ips : /\ entry'[j].failures = entry[j].failures
                        /\ entry'[j].until = entry[j].until \/ (entry'[j].until = 0 /\ entry[j].until <= clock)
  BY LookKeeps
<1>2. \A j \in Ips : entry'[j].until <= clock + BanTime
  <2>1. \A j \in Ips : entry[j].until <= clock + BanTime
    BY DEF CountInv
  <2>2. 0 <= clock + BanTime
    BY AccessAssumption DEF HTypes
  <2> QED BY <1>1, <2>1, <2>2
<1> QED BY <1>1, <1>2 DEF CountInv

LEMMA SuccessCounts ==
    ASSUME HTypes, CountInv, NEW i \in Ips, H!Succeed(i), clock' = clock
    PROVE  \A j \in Ips : FailuresOf(entry'[j], log'[j], clock)
<1>1. /\ entry'[i].failures = <<>> /\ entry'[i].until = 0 /\ log'[i] = <<>>
      /\ \A j \in Ips : j # i => entry'[j] = entry[j] /\ log'[j] = log[j]
  BY SuccessKeeps
<1>2. <<>> \in Seq(0..clock) /\ H!Kept(<<>>, clock, TenMinutes) = <<>> /\ 0 <= clock + BanTime
  BY EmptySeq, KeptEmpty, AccessAssumption DEF HTypes
<1>3. FailuresOf(entry'[i], log'[i], clock)
  BY <1>1, <1>2 DEF FailuresOf
<1>4. \A j \in Ips : FailuresOf(entry[j], log[j], clock)
  BY CountParts
<1> QED BY <1>1, <1>3, <1>4

LEMMA FailedCounts ==
    ASSUME HTypes, CountInv, NEW r \in Requests, Failed(r)
    PROVE  CountInv'
<1> DEFINE i == req[r].ip
<1>0. /\ clock \in Nat /\ i \in Ips /\ H!Fail(i) /\ UNCHANGED <<clock, hits, admitted>>
      /\ entry \in [Ips -> [failures : Seq(Nat), until : Nat]] /\ log \in [Ips -> Seq(Nat)]
  BY DEF HTypes, Failed
<1>1. \A j \in Ips : FailuresOf(entry[j], log[j], clock)
  BY CountParts
<1>2. CASE entry' = entry /\ log' = log
  BY <1>0, <1>2 DEF CountInv
<1>3. CASE /\ log' = [log EXCEPT ![i] = Append(log[i], clock)]
           /\ \E e : /\ entry' = [entry EXCEPT ![i] = e]
                     /\ e.failures = H!Kept(Append(entry[i].failures, clock), clock, TenMinutes)
                     /\ e.until \in {0, clock + BanTime}
  <2>1. PICK e : /\ entry' = [entry EXCEPT ![i] = e]
                 /\ e.failures = H!Kept(Append(entry[i].failures, clock), clock, TenMinutes)
                 /\ e.until \in {0, clock + BanTime}
    BY <1>3
  <2>2. FailuresOf(entry[i], log[i], clock)
    BY <1>0, <1>1
  <2>3. FailuresOf(e, Append(log[i], clock), clock)
    <3>1. entry[i].failures \in Seq(0..clock) /\ H!Kept(entry[i].failures, clock, TenMinutes) = log[i]
      BY <2>2 DEF FailuresOf
    <3>2. clock \in Nat /\ e.until \in {0, clock + BanTime}
      BY <1>0, <2>1
    <3> QED BY ONLY <2>1, <3>1, <3>2, RecordCounts, Zenon
  <2>4. entry'[i] = e /\ log'[i] = Append(log[i], clock) /\ \A j \in Ips : j # i => entry'[j] = entry[j] /\ log'[j] = log[j]
    BY <1>0, <1>3, <2>1
  <2>5. \A j \in Ips : FailuresOf(entry'[j], log'[j], clock)
    BY <1>1, <2>3, <2>4
  <2>6. \A id \in H!KeyIds : HitsOf(hits'[id], admitted'[id], clock')
    BY <1>0, CountParts
  <2> QED BY <1>0, <2>5, <2>6, CountPartsNext
<1> QED BY <1>0, <1>2, <1>3, FailRecords

LEMMA PassCount ==
    ASSUME HTypes, ServedInv, CountInv, NEW r \in Requests, H!Pass(r)
    PROVE  CountInv'
<1>0. /\ req[r].ip \in Ips /\ H!Succeed(req[r].ip) /\ clock' = clock /\ clock \in Nat
      /\ hits \in [H!KeyIds -> Seq(Nat)] /\ admitted \in [H!KeyIds -> Seq(Nat)]
  BY PassBecomes DEF H!Pass, HTypes
<1>1. \A j \in Ips : FailuresOf(entry'[j], log'[j], clock')
  BY <1>0, SuccessCounts
<1>2. \A id \in H!KeyIds : HitsOf(hits[id], admitted[id], clock) /\ H!Kept(hits[id], clock, Minute) = admitted[id]
  BY CountParts DEF HitsOf
<1>3. PICK id \in H!KeyIds : LET kept == H!Kept(hits[id], clock, Minute) IN
             \/ hits' = hits /\ admitted' = admitted
             \/ /\ Len(kept) < Quota /\ hits' = [hits EXCEPT ![id] = Append(kept, clock)]
                /\ admitted' = [admitted EXCEPT ![id] = Append(admitted[id], clock)]
             \/ hits' = [hits EXCEPT ![id] = kept] /\ ~(Len(kept) < Quota) /\ admitted' = admitted
  BY PassCounts
<1> DEFINE a == admitted[id]
<1>4. \/ hits' = hits /\ admitted' = admitted
      \/ Len(a) < Quota /\ hits' = [hits EXCEPT ![id] = Append(a, clock)]
         /\ admitted' = [admitted EXCEPT ![id] = Append(a, clock)]
      \/ hits' = [hits EXCEPT ![id] = a] /\ admitted' = admitted
  BY <1>2, <1>3
<1>5. HitsOf(a, a, clock) /\ (Len(a) < Quota => HitsOf(Append(a, clock), Append(a, clock), clock))
  BY <1>0, <1>2, AdmitCounts
<1>6. /\ \A x \in H!KeyIds : x # id => hits'[x] = hits[x] /\ admitted'[x] = admitted[x]
      /\ \/ hits'[id] = hits[id] /\ admitted'[id] = a
         \/ Len(a) < Quota /\ hits'[id] = Append(a, clock) /\ admitted'[id] = Append(a, clock)
         \/ hits'[id] = a /\ admitted'[id] = a
  BY <1>0, <1>4
<1>7. \A x \in H!KeyIds : HitsOf(hits'[x], admitted'[x], clock)
  <2>1. HitsOf(hits'[id], admitted'[id], clock)
    BY <1>2, <1>5, <1>6
  <2> QED BY <1>2, <1>6, <2>1
<1> QED BY <1>0, <1>1, <1>7, CountPartsNext

LEMMA TickCounts ==
    ASSUME HTypes, CountInv, H!Tick
    PROVE  CountInv'
<1>1. /\ clock' = clock + 1 /\ clock \in Nat /\ UNCHANGED <<entry, hits>>
      /\ log' = [i \in Ips |-> H!Kept(log[i], clock', TenMinutes)]
      /\ admitted' = [id \in H!KeyIds |-> H!Kept(admitted[id], clock', Minute)]
  BY DEF H!Tick, HTypes
<1>2. ASSUME NEW i \in Ips PROVE FailuresOf(entry'[i], log'[i], clock')
  <2>1. /\ entry[i].failures \in Seq(0..clock) /\ entry[i].until <= clock + BanTime /\ entry[i].until \in Nat
        /\ H!Kept(entry[i].failures, clock, TenMinutes) = log[i]
    BY DEF CountInv, HTypes
  <2>2. entry[i].failures \in Seq(Nat) /\ entry[i].failures \in Seq(0..(clock + 1))
    BY <1>1, <2>1, UpTo
  <2>3. H!Kept(log[i], clock + 1, TenMinutes) = H!Kept(entry[i].failures, clock + 1, TenMinutes)
    BY <1>1, <2>1, <2>2, KeptLater, AccessAssumption
  <2>4. entry[i].until <= clock + 1 + BanTime
    BY <1>1, <2>1, AccessAssumption
  <2>5. log'[i] = H!Kept(log[i], clock + 1, TenMinutes)
    BY <1>1
  <2> QED BY <1>1, <2>2, <2>3, <2>4, <2>5 DEF FailuresOf
<1>3. ASSUME NEW id \in H!KeyIds PROVE HitsOf(hits'[id], admitted'[id], clock')
  <2>1. hits[id] \in Seq(0..clock) /\ Len(hits[id]) <= Quota /\ H!Kept(hits[id], clock, Minute) = admitted[id]
    BY DEF CountInv
  <2>2. hits[id] \in Seq(Nat) /\ hits[id] \in Seq(0..(clock + 1))
    BY <1>1, <2>1, UpTo
  <2>3. H!Kept(admitted[id], clock + 1, Minute) = H!Kept(hits[id], clock + 1, Minute)
    BY <1>1, <2>1, <2>2, KeptLater, AccessAssumption
  <2>4. admitted'[id] = H!Kept(admitted[id], clock + 1, Minute)
    BY <1>1
  <2> QED BY <1>1, <2>1, <2>2, <2>3, <2>4 DEF HitsOf
<1> QED BY <1>2, <1>3, CountPartsNext
-----------------------------------------------------------------------------
(* Bursts of failures.                                                     *)
Recent(i) == Len(H!Kept(log[i], clock, Minute))

(* The failures of the last minute, and the requests about to fail.        *)
LEMMA RecentType ==
    ASSUME HTypes, NEW i \in Ips
    PROVE  /\ Recent(i) \in Nat /\ IsFiniteSet(Failing(i)) /\ Cardinality(Failing(i)) \in Nat
           /\ Cardinality(Failing(i)) <= Cardinality(Requests) /\ Cardinality(Requests) \in Nat
           /\ log[i] \in Seq(Nat) /\ H!Kept(log[i], clock, Minute) \in Seq(Nat)
<1>1. log[i] \in Seq(Nat) /\ clock \in Nat
  BY DEF HTypes
<1>2. H!Kept(log[i], clock, Minute) \in Seq(Nat)
  BY <1>1, KeptType, AccessAssumption
<1>3. Recent(i) \in Nat
  BY <1>2, LenProperties DEF Recent
<1>4. Failing(i) \subseteq Requests /\ IsFiniteSet(Requests)
  BY AccessAssumption DEF Failing
<1>5. IsFiniteSet(Failing(i)) /\ Cardinality(Failing(i)) <= Cardinality(Requests)
  BY <1>4, FS_Subset
<1>6. Cardinality(Failing(i)) \in Nat /\ Cardinality(Requests) \in Nat
  BY <1>4, <1>5, FS_CardinalityType
<1> QED BY <1>1, <1>2, <1>3, <1>5, <1>6

(* An address that may go on is below its limit and not banned.            *)
LEMMA AllowedBelow ==
    ASSUME HTypes, CountInv, NEW i \in Ips, H!Decision(entry[i]) = "allowed"
    PROVE  Recent(i) < Limit /\ ~(entry[i].until > clock)
<1> DEFINE f == entry[i].failures
<1>1. f \in Seq(Nat) /\ clock \in Nat /\ H!Kept(f, clock, TenMinutes) = log[i]
  BY DEF HTypes, CountInv
<1>2. ~(Len(H!Kept(f, clock, Minute)) >= Limit) /\ ~(entry[i].until > clock)
  BY DEF H!Decision, H!Limited, H!Within, H!Banned
<1> HIDE DEF f
<1>3. H!Kept(H!Kept(f, clock, TenMinutes), clock, Minute) = H!Kept(f, clock, Minute)
  BY <1>1, AccessAssumption, KeptAgain
<1>4. Recent(i) \in Nat /\ Recent(i) = Len(H!Kept(f, clock, Minute))
  BY <1>1, <1>3, RecentType DEF Recent
<1> QED BY <1>2, <1>4, AccessAssumption

LEMMA RecentNext ==
    ASSUME NEW i \in Ips
    PROVE  Recent(i)' = Len(H!Kept(log'[i], clock', Minute))
BY DEF Recent

(* A step that records nothing.                                            *)
LEMMA BurstFrame ==
    ASSUME HTypes, HTypes', ServedInv, BurstInv, clock' = clock, NEW r \in Requests, NEW q, Becomes(r, q),
           \A i \in Ips : log'[i] = log[i] \/ log'[i] = <<>>,
           \A i \in Ips : q.ip = i /\ q.pc \in {"failrecord", "loginfail"}
                          => r \in Failing(i) \/ (log'[i] = log[i] /\ Recent(i) < Limit)
    PROVE  BurstInv'
<1> SUFFICES ASSUME NEW i \in Ips
             PROVE  Recent(i)' + Cardinality(Failing(i)') <= Limit - 1 + Cardinality(Requests)
  BY DEF BurstInv, Recent
<1>0. /\ Recent(i) + Cardinality(Failing(i)) <= Limit - 1 + Cardinality(Requests)
      /\ Recent(i) \in Nat /\ IsFiniteSet(Failing(i)) /\ Cardinality(Failing(i)) \in Nat /\ Cardinality(Requests) \in Nat
  BY RecentType DEF BurstInv, Recent
<1>1. IsFiniteSet(Failing(i)') /\ Cardinality(Failing(i)') \in Nat /\ Cardinality(Failing(i)') <= Cardinality(Requests)
  <2>1. Failing(i)' \subseteq Requests /\ IsFiniteSet(Requests)
    BY AccessAssumption DEF Failing
  <2> HIDE DEF Failing
  <2>2. IsFiniteSet(Failing(i)') /\ Cardinality(Failing(i)') <= Cardinality(Requests)
    BY <2>1, FS_Subset
  <2> QED BY <2>2, FS_CardinalityType
<1>2. Recent(i)' <= Recent(i) /\ Recent(i)' \in Nat
  <2>1. CASE log'[i] = log[i]
    BY <1>0, <2>1 DEF Recent
  <2>2. CASE log'[i] = <<>>
    <3>1. H!Kept(<<>>, clock, Minute) = <<>> /\ Len(<<>>) = 0
      BY KeptEmpty, EmptySeq, AccessAssumption DEF HTypes
    <3> QED BY <1>0, <2>2, <3>1, RecentNext
  <2> QED BY <2>1, <2>2
<1>3. \A p \in Requests : req'[p] = IF p = r THEN q ELSE req[p]
  BY ReqAfter
<1>4. CASE Failing(i)' \subseteq Failing(i)
  <2>1. Cardinality(Failing(i)') <= Cardinality(Failing(i))
    BY <1>0, <1>4, FS_Subset
  <2> QED BY <1>0, <1>1, <1>2, <2>1, AccessAssumption
<1>5. CASE ~(Failing(i)' \subseteq Failing(i))
  <2>1. r \notin Failing(i) /\ q.ip = i /\ q.pc \in {"failrecord", "loginfail"}
    BY <1>3, <1>5 DEF Failing
  <2>2. Recent(i) < Limit
    BY <2>1
  <2> QED BY <1>0, <1>1, <1>2, <2>2, AccessAssumption
<1> QED BY <1>4, <1>5

(* A failure recorded is one more, and one request less on its way.        *)
LEMMA FailedBurst ==
    ASSUME HTypes, HTypes', ServedInv, BurstInv, NEW r \in Requests, Failed(r)
    PROVE  BurstInv'
<1> DEFINE i == req[r].ip
<1>0. /\ clock \in Nat /\ clock' = clock /\ i \in Ips /\ H!Fail(i) /\ req[r].pc \in {"failrecord", "loginfail"}
      /\ log \in [Ips -> Seq(Nat)] /\ Becomes(r, H!Idle) /\ H!Idle.pc = "idle" /\ H!Idle.ip = None
  BY AnswerBecomes, IdleServed DEF HTypes, Failed
<1>1. CASE log' = log
  BY <1>0, <1>1, BurstFrame
<1>2. CASE log' = [log EXCEPT ![i] = Append(log[i], clock)]
  <2>0. \A p \in Requests : req'[p] = IF p = r THEN H!Idle ELSE req[p]
    BY <1>0, ReqAfter
  <2>1. ASSUME NEW j \in Ips
        PROVE  Recent(j)' + Cardinality(Failing(j)') <= Limit - 1 + Cardinality(Requests)
    <3>0. /\ Recent(j) + Cardinality(Failing(j)) <= Limit - 1 + Cardinality(Requests)
          /\ Recent(j) \in Nat /\ IsFiniteSet(Failing(j)) /\ Cardinality(Failing(j)) \in Nat /\ Cardinality(Requests) \in Nat
          /\ log[j] \in Seq(Nat) /\ H!Kept(log[j], clock, Minute) \in Seq(Nat)
      BY RecentType DEF BurstInv, Recent
    <3>1. CASE j = i
      <4>1. r \in Failing(j) /\ Failing(j)' = Failing(j) \ {r}
        BY <1>0, <2>0, <3>1 DEF Failing
      <4>2. Cardinality(Failing(j)') = Cardinality(Failing(j)) - 1
        BY <3>0, <4>1, FS_RemoveElement
      <4>3. H!Kept(Append(log[j], clock), clock, Minute) = Append(H!Kept(log[j], clock, Minute), clock)
        BY <1>0, <3>0, AppendNow, AccessAssumption
      <4>4. Len(Append(H!Kept(log[j], clock, Minute), clock)) = Len(H!Kept(log[j], clock, Minute)) + 1
        BY <1>0, <3>0, Appended
      <4>5. log'[j] = Append(log[j], clock)
        BY <1>0, <1>2, <3>1
      <4>6. Recent(j)' = Recent(j) + 1
        BY <1>0, <4>3, <4>4, <4>5, RecentNext DEF Recent
      <4> QED BY <3>0, <4>2, <4>6, AccessAssumption
    <3>2. CASE j # i
      <4>1. log'[j] = log[j]
        BY <1>0, <1>2, <3>2
      <4>2. Recent(j)' = Recent(j)
        BY <1>0, <4>1 DEF Recent
      <4>3. Failing(j)' \subseteq Failing(j)
        BY <1>0, <2>0 DEF Failing
      <4>4. Cardinality(Failing(j)') <= Cardinality(Failing(j)) /\ IsFiniteSet(Failing(j)')
        BY <3>0, <4>3, FS_Subset
      <4>5. Cardinality(Failing(j)') \in Nat
        BY <4>4, FS_CardinalityType
      <4> QED BY <3>0, <4>2, <4>4, <4>5, AccessAssumption
    <3> QED BY <3>1, <3>2
  <2> QED BY <2>1 DEF BurstInv, Recent
<1> QED BY <1>0, <1>1, <1>2, FailRecords

(* Time drops failures and adds none.                                      *)
LEMMA TickBurst ==
    ASSUME HTypes, BurstInv, H!Tick
    PROVE  BurstInv'
<1>1. /\ clock' = clock + 1 /\ clock \in Nat /\ clock + 1 \in Nat /\ req' = req
      /\ log' = [i \in Ips |-> H!Kept(log[i], clock', TenMinutes)]
  BY DEF H!Tick, HTypes
<1>2. ASSUME NEW i \in Ips
      PROVE  Recent(i)' + Cardinality(Failing(i)') <= Limit - 1 + Cardinality(Requests)
  <2>0. /\ Recent(i) + Cardinality(Failing(i)) <= Limit - 1 + Cardinality(Requests)
        /\ Recent(i) \in Nat /\ Cardinality(Failing(i)) \in Nat /\ Cardinality(Requests) \in Nat
        /\ log[i] \in Seq(Nat) /\ H!Kept(log[i], clock, Minute) \in Seq(Nat)
    BY RecentType DEF BurstInv, Recent
  <2>1. Failing(i)' = Failing(i)
    BY <1>1 DEF Failing
  <2>2. H!Kept(H!Kept(log[i], clock + 1, TenMinutes), clock + 1, Minute) = H!Kept(log[i], clock + 1, Minute)
    BY <1>1, <2>0, KeptAgain, AccessAssumption
  <2>3. H!Kept(H!Kept(log[i], clock, Minute), clock + 1, Minute) = H!Kept(log[i], clock + 1, Minute)
    BY <1>1, <2>0, KeptLater, AccessAssumption
  <2>4. \A z \in Seq(Nat) : Len(H!Kept(z, clock + 1, Minute)) \in Nat /\ Len(H!Kept(z, clock + 1, Minute)) <= Len(z)
    <3> SUFFICES ASSUME NEW z \in Seq(Nat)
                 PROVE  Len(H!Kept(z, clock + 1, Minute)) \in Nat /\ Len(H!Kept(z, clock + 1, Minute)) <= Len(z)
      OBVIOUS
    <3>1. Nat \in SUBSET Nat /\ Minute \in Nat
      BY AccessAssumption
    <3>2. H!Kept(z, clock + 1, Minute) \in Seq(Nat) /\ Len(H!Kept(z, clock + 1, Minute)) <= Len(z)
      BY ONLY <1>1, <3>1, KeptFewer, z \in Seq(Nat), Zenon
    <3> QED BY <3>2, LenProperties
  <2>5. Len(H!Kept(log[i], clock + 1, Minute)) \in Nat /\ Len(H!Kept(log[i], clock + 1, Minute)) <= Recent(i)
    BY <2>0, <2>3, <2>4 DEF Recent
  <2>6. log'[i] = H!Kept(log[i], clock + 1, TenMinutes)
    BY <1>1
  <2>7. Recent(i)' = Len(H!Kept(log[i], clock + 1, Minute))
    BY <1>1, <2>2, <2>6, RecentNext
  <2> QED BY <2>0, <2>1, <2>5, <2>7, AccessAssumption
<1> QED BY <1>2 DEF BurstInv, Recent
-----------------------------------------------------------------------------
(* All of them together, and what no step does.                            *)
HInv == Base /\ BanInv /\ CountInv /\ BurstInv

Spends == \A t \in DOMAIN given :
    ~given[t].opened /\ given'[t].opened => ~given[t].tried /\ clock <= given[t].since + TicketTtl
Over(by) == ended[by] # None => clock < ended[by] + SessionTtl
LetsIn == \A r \in Requests : req[r].pc # "pass" /\ req'[r].pc = "pass" => Over(req'[r].who.by)

Fine == HInv' /\ Lawful /\ Spends /\ LetsIn

(* A request gets past the layer with a right that is not over.            *)
LEMMA AdmitFrame ==
    ASSUME Base, NEW r \in Requests, NEW q, Becomes(r, q), q.pc = "pass" => Over(q.who.by)
    PROVE  LetsIn
<1>1. \A p \in Requests : req'[p] = IF p = r THEN q ELSE req[p]
  BY ReqAfter DEF Base
<1> QED BY <1>1 DEF LetsIn

LEMMA AnswerAdmits == ASSUME Base, NEW r \in Requests, H!Answer(r) PROVE LetsIn
BY AnswerBecomes, IdleServed, AdmitFrame

LEMMA SameGiven ==
    ASSUME Base, \A t \in DOMAIN given : given'[t] = given[t]
    PROVE  Spends
BY DEF Spends

(* The layer finds no other.                                               *)
LEMMA VerdictAdmits ==
    ASSUME Base, NEW t, H!Verdict(t).pc = "pass"
    PROVE  Over(H!Verdict(t).who.by)
<1>1. CASE t \in DOMAIN sessions /\ H!Alive(t)
  <2>1. H!Verdict(t).who = sessions[t].who
    BY <1>1 DEF H!Verdict
  <2> DEFINE by == sessions[t].who.by
  <2>2. /\ sessions[t].until > clock /\ sessions[t].until \in Nat /\ clock \in Nat
        /\ ended[by] # None => sessions[t].until <= ended[by] + SessionTtl
        /\ by \in H!Owners /\ ended \in [H!Owners -> Nat \cup {None}]
    BY <1>1 DEF Base, RightInv, HTypes, H!Alive
  <2> HIDE DEF by
  <2>3. Over(by)
    BY <2>2, AccessAssumption DEF Over
  <2> QED BY <2>1, <2>3 DEF by
<1>2. CASE ~(t \in DOMAIN sessions /\ H!Alive(t))
  <2>1. t \in Accounts /\ key[t] = "active" /\ H!Verdict(t).who = H!Principal(t)
    BY <1>2 DEF H!Verdict
  <2> QED BY <2>1, PrincipalType DEF Base, RightInv, Over
<1> QED BY <1>1, <1>2

(* Each step keeps all of them.                                            *)
LEMMA ReceiveFine == ASSUME HInv, NEW r \in Requests, H!Receive(r) PROVE Fine
<1>0. HTypes /\ ServedInv /\ RightInv /\ TicketInv /\ Base /\ BanInv /\ CountInv /\ BurstInv
  BY DEF HInv, Base
<1>1. HTypes' /\ ServedInv' /\ RightInv' /\ TicketInv' /\ clock' = clock /\ given' = given
  BY <1>0, ReceiveTypes, FrontRights, TicketsStay
<1>2. PICK i \in world.ips, c \in world.calls :
        /\ req' = [req EXCEPT ![r] = [pc |-> H!Verdict(H!Extract(c)).pc, ip |-> i, kind |-> c.kind, on |-> c.on,
                                      token |-> H!Extract(c), cookie |-> c.cookie, who |-> H!Verdict(H!Extract(c)).who]]
        /\ H!Check(i) /\ passed' = [passed EXCEPT ![i] = @ \ {r}] /\ ~H!Blocks(entry[i])
        /\ UNCHANGED <<hits, admitted>>
  BY DEF H!Receive, H!quotas
<1>3. PICK q : /\ Becomes(r, q) /\ q.ip = i /\ i \in Ips /\ q.pc \in {"pass", "failcheck", "fallback"}
               /\ q.pc = H!Verdict(H!Extract(c)).pc /\ q.who = H!Verdict(H!Extract(c)).who
  BY <1>0, <1>2, ReceiveBecomes
<1>4. ~(entry[i].until > clock)
  BY <1>2 DEF H!Blocks, H!Decision, H!Banned
<1>5. BanInv' /\ Lawful
  BY <1>0, <1>1, <1>2, <1>3, <1>4, CheckBans
<1>6. CountInv' /\ log' = log
  BY <1>0, <1>1, <1>2, <1>3, CheckCounts, LookKeeps
<1>7. BurstInv'
  BY <1>0, <1>1, <1>3, <1>6, BurstFrame
<1>8. q.pc = "pass" => Over(q.who.by)
  BY <1>0, <1>3, VerdictAdmits
<1>9. LetsIn /\ Spends
  BY <1>0, <1>1, <1>3, <1>8, AdmitFrame, SameGiven
<1> QED BY <1>1, <1>5, <1>6, <1>7, <1>9 DEF Fine, HInv, Base

LEMMA LoginFine == ASSUME HInv, NEW r \in Requests, H!Login(r) PROVE Fine
<1>0. HTypes /\ ServedInv /\ RightInv /\ TicketInv /\ Base /\ BanInv /\ CountInv /\ BurstInv
  BY DEF HInv, Base
<1>1. HTypes' /\ ServedInv' /\ RightInv' /\ TicketInv' /\ clock' = clock /\ given' = given
  BY <1>0, LoginTypes, FrontRights, TicketsStay
<1>2. PICK i \in world.ips, c \in world.calls :
        /\ req' = [req EXCEPT ![r] = [H!Idle EXCEPT !.pc = H!LoginVerdict(H!Extract(c)).pc,
                                                    !.who = H!LoginVerdict(H!Extract(c)).who, !.ip = i, !.kind = "login"]]
        /\ H!Check(i) /\ passed' = [passed EXCEPT ![i] = @ \ {r}] /\ H!Decision(entry[i]) = "allowed"
        /\ UNCHANGED <<hits, admitted>>
  BY DEF H!Login, H!quotas
<1>3. PICK q : Becomes(r, q) /\ q.ip = i /\ i \in Ips /\ q.pc \in {"loginpass", "loginfail"}
  <2> DEFINE v == H!LoginVerdict(H!Extract(c))
  <2>1. req' = [req EXCEPT ![r] = [H!Idle EXCEPT !.pc = v.pc, !.who = v.who, !.ip = i, !.kind = "login"]]
    BY <1>2
  <2>2. \E q : /\ Becomes(r, q) /\ q.ip = i /\ i \in Ips /\ q.pc \in {"loginpass", "loginfail"}
               /\ q.pc = v.pc /\ q.who = v.who
    BY ONLY <1>0, <2>1, LoginBecomes, r \in Requests, i \in world.ips, Zenon
  <2> QED BY <2>2
<1>4. Recent(i) < Limit /\ ~(entry[i].until > clock)
  BY <1>0, <1>2, <1>3, AllowedBelow
<1>5. BanInv' /\ Lawful
  BY <1>0, <1>1, <1>2, <1>3, <1>4, CheckBans
<1>6. CountInv' /\ log' = log
  BY <1>0, <1>1, <1>2, <1>3, CheckCounts, LookKeeps
<1>7. BurstInv'
  BY <1>0, <1>1, <1>3, <1>4, <1>6, BurstFrame
<1>8. LetsIn /\ Spends
  BY <1>0, <1>1, <1>3, AdmitFrame, SameGiven
<1> QED BY <1>1, <1>5, <1>6, <1>7, <1>8 DEF Fine, HInv, Base

LEMMA FallbackFine == ASSUME HInv, NEW r \in Requests, H!Fallback(r) PROVE Fine
<1>0. HTypes /\ ServedInv /\ RightInv /\ TicketInv /\ Base /\ BanInv /\ CountInv /\ BurstInv
  BY DEF HInv, Base
<1>1. HTypes' /\ ServedInv' /\ RightInv' /\ TicketInv' /\ clock' = clock /\ given' = given
  BY <1>0, FallbackTypes, FrontRights, TicketsStay
<1>2. UNCHANGED <<entry, log, passed, hits, admitted>>
  BY DEF H!Fallback, H!limiter, H!quotas
<1>3. PICK q : /\ Becomes(r, q) /\ q.ip = req[r].ip /\ q.pc \in {"pass", "failcheck"}
               /\ q.pc = "pass" => q.who.by \in {"config", "local"}
  BY <1>0, FallbackBecomes
<1>4. BanInv'
  BY <1>0, <1>1, <1>2, <1>3, BanFrame
<1>5. Lawful
  <2>1. \A i \in Ips : ~Lifted(i)
    BY <1>0, <1>2 DEF Lifted, HTypes
  <2> QED BY <2>1 DEF Lawful
<1>6. CountInv'
  BY <1>0, <1>1, <1>2 DEF CountInv
<1>7. BurstInv'
  BY <1>0, <1>1, <1>2, <1>3, BurstFrame
<1>8. q.pc = "pass" => Over(q.who.by)
  BY <1>0, <1>3 DEF RightInv, Over
<1>9. LetsIn /\ Spends
  BY <1>0, <1>1, <1>3, <1>8, AdmitFrame, SameGiven
<1> QED BY <1>1, <1>4, <1>5, <1>6, <1>7, <1>9 DEF Fine, HInv, Base

LEMMA FailCheckFine == ASSUME HInv, NEW r \in Requests, H!FailCheck(r) PROVE Fine
<1>0. HTypes /\ ServedInv /\ RightInv /\ TicketInv /\ Base /\ BanInv /\ CountInv /\ BurstInv
  BY DEF HInv, Base
<1>1. HTypes' /\ ServedInv' /\ RightInv' /\ TicketInv' /\ clock' = clock /\ given' = given
  BY <1>0, FailCheckTypes, FrontRights, TicketsStay
<1>2. H!Check(req[r].ip) /\ UNCHANGED <<passed, hits, admitted>>
  BY DEF H!FailCheck, H!quotas
<1>3. req[r].ip \in Ips
  BY <1>0, FailCheckBecomes
<1>4. PICK q : /\ Becomes(r, q)
               /\ \/ q.pc = "idle" /\ q.ip = None
                  \/ q.pc = "failrecord" /\ q.ip = req[r].ip /\ H!Decision(entry[q.ip]) = "allowed"
  BY <1>0, FailCheckBecomes
<1>5. BanInv' /\ Lawful
  BY <1>0, <1>1, <1>2, <1>3, <1>4, CheckBans
<1>6. CountInv' /\ log' = log
  BY <1>0, <1>1, <1>2, <1>3, CheckCounts, LookKeeps
<1>7. q.pc = "failrecord" => Recent(q.ip) < Limit
  BY <1>0, <1>3, <1>4, AllowedBelow
<1>8. BurstInv'
  BY <1>0, <1>1, <1>4, <1>6, <1>7, BurstFrame
<1>9. LetsIn /\ Spends
  BY <1>0, <1>1, <1>4, AdmitFrame, SameGiven
<1> QED BY <1>1, <1>5, <1>6, <1>8, <1>9 DEF Fine, HInv, Base

LEMMA FailedFine == ASSUME HInv, NEW r \in Requests, Failed(r) PROVE Fine
<1>0. HTypes /\ ServedInv /\ RightInv /\ TicketInv /\ Base /\ BanInv /\ CountInv /\ BurstInv
  BY DEF HInv, Base
<1>1. HTypes' /\ ServedInv' /\ RightInv' /\ TicketInv' /\ clock' = clock /\ given' = given
  BY <1>0, FailedTypes, FrontRights, TicketsStay
<1>2. BanInv' /\ Lawful /\ CountInv' /\ BurstInv'
  BY <1>0, <1>1, FailedBans, FailedCounts, FailedBurst
<1>3. LetsIn /\ Spends
  BY <1>0, <1>1, AnswerAdmits, SameGiven DEF Failed
<1> QED BY <1>1, <1>2, <1>3 DEF Fine, HInv, Base

(* A success leaves no failures.                                           *)
LEMMA SuccessBurst ==
    ASSUME HTypes, HTypes', ServedInv, BurstInv, clock' = clock, NEW r \in Requests, NEW q, Becomes(r, q),
           req[r].ip \in Ips, H!Succeed(req[r].ip), q.pc \in {"idle", "serve"}
    PROVE  BurstInv'
<1>1. \A i \in Ips : log'[i] = log[i] \/ log'[i] = <<>>
  BY SuccessKeeps
<1> QED BY <1>1, BurstFrame

LEMMA PassFine == ASSUME HInv, NEW r \in Requests, H!Pass(r) PROVE Fine
<1>0. HTypes /\ ServedInv /\ RightInv /\ TicketInv /\ Base /\ BanInv /\ CountInv /\ BurstInv
  BY DEF HInv, Base
<1>1. HTypes' /\ ServedInv' /\ RightInv' /\ TicketInv' /\ clock' = clock /\ given' = given
  BY <1>0, PassTypes, FrontRights, TicketsStay
<1>2. H!Succeed(req[r].ip)
  BY DEF H!Pass
<1>3. req[r].pc = "pass" /\ req[r].ip \in Ips
  BY <1>0, PassBecomes
<1>4. PICK q : /\ Becomes(r, q)
               /\ (q.pc = "idle" /\ q.ip = None) \/ (q.pc = "serve" /\ q.ip = req[r].ip)
  BY <1>0, PassBecomes
<1>5. BanInv' /\ Lawful
  BY <1>0, <1>1, <1>2, <1>3, <1>4, SuccessBans
<1>6. CountInv'
  BY <1>0, PassCount
<1>7. BurstInv'
  BY <1>0, <1>1, <1>2, <1>3, <1>4, SuccessBurst
<1>8. LetsIn /\ Spends
  BY <1>0, <1>1, <1>4, AdmitFrame, SameGiven
<1> QED BY <1>1, <1>5, <1>6, <1>7, <1>8 DEF Fine, HInv, Base

LEMMA CreateFine == ASSUME HInv, NEW r \in Requests, H!CreateSession(r) PROVE Fine
<1>0. HTypes /\ ServedInv /\ RightInv /\ TicketInv /\ Base /\ BanInv /\ CountInv /\ BurstInv
  BY DEF HInv, Base
<1>1. /\ HTypes' /\ ServedInv' /\ RightInv' /\ TicketInv' /\ req[r].pc = "loginpass" /\ req[r].ip \in Ips
      /\ \A t \in DOMAIN given : given'[t] = given[t]
  BY <1>0, CreateTypes, CreateRights, CreateTickets
<1>2. H!Succeed(req[r].ip) /\ H!Answer(r) /\ UNCHANGED <<clock, hits, admitted>>
  BY DEF H!CreateSession, H!quotas
<1>3. Becomes(r, H!Idle) /\ H!Idle.pc = "idle" /\ H!Idle.ip = None
  BY <1>2, AnswerBecomes, IdleServed
<1>4. BanInv' /\ Lawful
  BY <1>0, <1>1, <1>2, <1>3, SuccessBans
<1>5. CountInv'
  <2>1. \A j \in Ips : FailuresOf(entry'[j], log'[j], clock')
    BY <1>0, <1>1, <1>2, SuccessCounts
  <2>2. \A id \in H!KeyIds : HitsOf(hits'[id], admitted'[id], clock')
    BY <1>0, <1>2, CountParts
  <2> QED BY <2>1, <2>2, CountPartsNext
<1>6. BurstInv'
  BY <1>0, <1>1, <1>2, <1>3, SuccessBurst
<1>7. LetsIn /\ Spends
  BY <1>0, <1>1, <1>2, AnswerAdmits, SameGiven
<1> QED BY <1>1, <1>4, <1>5, <1>6, <1>7 DEF Fine, HInv, Base

LEMMA HandlerFine ==
    ASSUME HInv, NEW r \in Requests, H!Logout(r) \/ H!IssueTicket(r) \/ H!IssueKey(r) \/ H!RevokeKey(r)
    PROVE  Fine
<1>0. HTypes /\ ServedInv /\ RightInv /\ TicketInv /\ Base /\ BanInv /\ CountInv /\ BurstInv
  BY DEF HInv, Base
<1>1. HTypes' /\ ServedInv' /\ RightInv' /\ TicketInv' /\ H!Answer(r)
  BY <1>0, HandlerTypes, HandlerRights, HandlerTickets
<1>2. UNCHANGED <<clock, entry, log, passed, hits, admitted>>
  BY DEF H!Logout, H!IssueTicket, H!IssueKey, H!RevokeKey, H!limiter, H!quotas
<1>3. \A t \in DOMAIN given : given'[t] = given[t]
  <2>1. CASE H!Logout(r) \/ H!IssueKey(r) \/ H!RevokeKey(r)
    BY <2>1 DEF H!Logout, H!IssueKey, H!RevokeKey, H!consoles
  <2>2. CASE H!IssueTicket(r)
    <3> DEFINE t == H!Fresh(Tickets)
    <3>1. H!Grant(t, req[r].who.by) /\ ~(Tickets \subseteq DOMAIN given)
      BY <2>2 DEF H!IssueTicket
    <3>2. t \notin DOMAIN given
      BY <3>1 DEF H!Fresh
    <3> HIDE DEF t
    <3> QED BY <3>1, <3>2 DEF H!Grant
  <2> QED BY <2>1, <2>2
<1>4. Becomes(r, H!Idle) /\ H!Idle.pc = "idle" /\ H!Idle.ip = None
  BY <1>1, AnswerBecomes, IdleServed
<1>5. BanInv'
  BY <1>0, <1>2, <1>4, CallersAssumption, BanFrame
<1>6. Lawful
  <2>1. \A i \in Ips : ~Lifted(i)
    BY <1>0, <1>2 DEF Lifted, HTypes
  <2> QED BY <2>1 DEF Lawful
<1>7. CountInv'
  BY <1>0, <1>2 DEF CountInv
<1>8. BurstInv'
  BY <1>0, <1>1, <1>2, <1>4, BurstFrame
<1>9. LetsIn /\ Spends
  BY <1>0, <1>1, <1>3, AnswerAdmits, SameGiven
<1> QED BY <1>1, <1>5, <1>6, <1>7, <1>8, <1>9 DEF Fine, HInv, Base

LEMMA SocketFine == ASSUME HInv, H!OpenSocket PROVE Fine
<1>0. HTypes /\ ServedInv /\ RightInv /\ TicketInv /\ Base /\ BanInv /\ CountInv /\ BurstInv
  BY DEF HInv, Base
<1>1. HTypes' /\ ServedInv' /\ RightInv' /\ TicketInv' /\ Spends
  BY <1>0, SocketTypes, SocketTickets DEF Spends
<1>2. UNCHANGED <<clock, entry, log, passed, hits, admitted, req>>
  BY DEF H!OpenSocket, H!limiter, H!quotas
<1>3. BanInv' /\ CountInv' /\ BurstInv'
  BY <1>0, <1>2 DEF BanInv, CountInv, BurstInv, Failing
<1>4. Lawful /\ LetsIn
  <2>1. \A i \in Ips : ~Lifted(i)
    BY <1>0, <1>2 DEF Lifted, HTypes
  <2> QED BY <1>2, <2>1 DEF Lawful, LetsIn
<1> QED BY <1>1, <1>3, <1>4 DEF Fine, HInv, Base

LEMMA TickFine == ASSUME HInv, H!Tick PROVE Fine
<1>0. HTypes /\ ServedInv /\ RightInv /\ TicketInv /\ Base /\ BanInv /\ CountInv /\ BurstInv
  BY DEF HInv, Base
<1>1. HTypes' /\ ServedInv' /\ RightInv' /\ TicketInv' /\ CountInv' /\ BurstInv'
  BY <1>0, TickTypes, TickRights, TickTickets, TickCounts, TickBurst
<1>2. clock' = clock + 1 /\ clock \in Nat /\ UNCHANGED <<entry, passed, req, given>>
  BY <1>0 DEF H!Tick, H!consoles, HTypes
<1>3. BanInv'
  <2>1. \A i \in Ips : entry[i].until \in Nat
    BY <1>0 DEF HTypes
  <2> QED BY <1>0, <1>2, <2>1 DEF BanInv
<1>4. Lawful /\ LetsIn /\ Spends
  BY <1>2 DEF Lawful, Lifted, LetsIn, Spends
<1> QED BY <1>1, <1>3, <1>4 DEF Fine, HInv, Base

LEMMA NextFine == ASSUME HInv, H!Next PROVE Fine
<1>0. HTypes /\ ServedInv
  BY DEF HInv, Base
<1>1. CASE H!OpenSocket \/ H!Tick
  BY <1>1, SocketFine, TickFine
<1>2. ASSUME NEW r \in Requests, H!Step(r) PROVE Fine
  <2>1. CASE H!Receive(r) \/ H!Fallback(r) \/ H!FailCheck(r) \/ H!Pass(r) \/ H!Login(r) \/ H!CreateSession(r)
    BY <2>1, ReceiveFine, FallbackFine, FailCheckFine, PassFine, LoginFine, CreateFine
  <2>2. CASE H!FailRecord(r) \/ H!LoginFail(r)
    BY <1>0, <2>2, FailsRecorded, FailedFine
  <2>3. CASE H!Logout(r) \/ H!IssueTicket(r) \/ H!IssueKey(r) \/ H!RevokeKey(r)
    BY <2>3, HandlerFine
  <2> QED BY <1>2, <2>1, <2>2, <2>3 DEF H!Step
<1> QED BY <1>1, <1>2 DEF H!Next

(* At the beginning nobody has asked for anything.                         *)
LEMMA InitFine == ASSUME H!Init PROVE HInv
<1>1. /\ world \in Callers /\ clock = 1 /\ sessions = <<>> /\ tickets = <<>> /\ given = <<>>
      /\ entry = [i \in Ips |-> H!NoEntry] /\ log = [i \in Ips |-> <<>>] /\ passed = [i \in Ips |-> {}]
      /\ hits = [id \in H!KeyIds |-> <<>>] /\ admitted = [id \in H!KeyIds |-> <<>>]
      /\ key = [k \in Accounts |-> IF k \in world.issued THEN "active" ELSE "absent"]
      /\ req = [r \in Requests |-> H!Idle]
      /\ ended = [o \in H!Owners |-> IF o = "dev" /\ world.issued # {} THEN 0 ELSE None]
  BY DEF H!Init
<1>2. /\ <<>> \in Seq(Nat) /\ <<>> \in Seq(0..1) /\ Len(<<>>) = 0 /\ DOMAIN <<>> = {}
      /\ H!Kept(<<>>, 1, TenMinutes) = <<>> /\ H!Kept(<<>>, 1, Minute) = <<>>
  BY EmptySeq, KeptEmpty, AccessAssumption
<1>3. H!NoEntry \in [failures : Seq(Nat), until : Nat] /\ H!NoEntry.failures = <<>> /\ H!NoEntry.until = 0
  BY <1>2 DEF H!NoEntry
<1> HIDE DEF H!NoEntry
<1>4. world.until \in Nat \ {0} /\ world.issued \subseteq Accounts
  BY <1>1, CallersAssumption
<1>5. H!Idle \in Request /\ ServedOf(H!Idle) /\ H!Idle.pc = "idle" /\ H!Idle.ip = None
  BY IdleServed
<1>6. HTypes
  <2>1. /\ entry \in [Ips -> [failures : Seq(Nat), until : Nat]] /\ log \in [Ips -> Seq(Nat)]
        /\ hits \in [H!KeyIds -> Seq(Nat)] /\ admitted \in [H!KeyIds -> Seq(Nat)] /\ passed \in [Ips -> SUBSET Requests]
    BY <1>1, <1>2, <1>3
  <2>2. /\ key \in [Accounts -> {"absent", "active", "revoked"}] /\ ended \in [H!Owners -> Nat \cup {None}]
        /\ req \in [Requests -> Request]
    BY <1>1, <1>5
  <2>3. DOMAIN sessions = {} /\ DOMAIN tickets = {}
    BY <1>1, <1>2
  <2> QED BY <1>1, <1>4, <2>1, <2>2, <2>3 DEF HTypes
<1>7. ServedInv
  BY <1>1, <1>5 DEF ServedInv
<1>8. RightInv
  <2>1. \A o \in H!Owners : ended[o] = IF o = "dev" /\ world.issued # {} THEN 0 ELSE None
    BY <1>1
  <2>2. /\ "config" \in H!Owners /\ "local" \in H!Owners /\ "dev" \in H!Owners
        /\ \A k \in Accounts : k \in H!Owners /\ k # "dev"
    BY CallersAssumption DEF H!Owners
  <2>3. H!OpenDev => world.issued = {}
    BY <1>1, <1>4 DEF H!OpenDev, H!AnyActive
  <2>4. \A r \in Requests : req[r].pc # "loginpass"
    BY <1>1, <1>5
  <2>5. DOMAIN sessions = {}
    BY <1>1, <1>2
  <2> QED BY <2>1, <2>2, <2>3, <2>4, <2>5 DEF RightInv
<1>9. TicketInv
  BY <1>1, <1>2 DEF TicketInv
<1>10. BanInv
  BY <1>1, <1>3 DEF BanInv
<1>11. CountInv
  <2>1. \A i \in Ips : entry[i].failures = <<>> /\ entry[i].until = 0 /\ log[i] = <<>>
    BY <1>1, <1>3
  <2>2. \A id \in H!KeyIds : hits[id] = <<>> /\ admitted[id] = <<>>
    BY <1>1
  <2>3. 0 <= 1 + BanTime /\ 0 <= Quota
    BY AccessAssumption
  <2> QED BY <1>1, <1>2, <2>1, <2>2, <2>3 DEF CountInv
<1>12. BurstInv
  <2> SUFFICES ASSUME NEW i \in Ips
               PROVE  Recent(i) + Cardinality(Failing(i)) <= Limit - 1 + Cardinality(Requests)
    BY DEF BurstInv, Recent
  <2>1. Recent(i) = 0
    BY <1>1, <1>2 DEF Recent
  <2>2. Failing(i) = {}
    BY <1>1, <1>5 DEF Failing
  <2>3. Cardinality(Failing(i)) = 0 /\ Cardinality(Requests) \in Nat
    BY <2>2, FS_EmptySet, FS_CardinalityType, AccessAssumption
  <2> QED BY <2>1, <2>3, AccessAssumption
<1> QED BY <1>6, <1>7, <1>8, <1>9, <1>10, <1>11, <1>12 DEF HInv, Base

(* A step of the other part leaves this one alone.                         *)
LEMMA HttpStep == ASSUME HInv, [MCNext]_<<part, vars, http, keystore>> PROVE Fine \/ UNCHANGED http
<1>1. CASE part = "http" /\ H!Next
  BY <1>1, NextFine
<1> QED BY <1>1 DEF MCNext

LEMMA HttpStays == HInv /\ UNCHANGED http => HInv'
<1> SUFFICES ASSUME HInv, UNCHANGED http PROVE HInv'
  OBVIOUS
<1>1. /\ UNCHANGED <<world, clock, entry, hits, key, sessions, tickets, req>>
      /\ UNCHANGED <<log, passed, admitted, ended, given>>
  BY DEF http
<1>2. HTypes' /\ ServedInv'
  BY <1>1 DEF HInv, Base, HTypes, ServedInv
<1>3. H!OpenDev' = H!OpenDev
  BY <1>1 DEF H!OpenDev, H!HasCredentials, H!AnyActive
<1>4. RightInv' /\ TicketInv'
  BY <1>1, <1>3 DEF HInv, Base, RightInv, TicketInv
<1>5. BanInv' /\ CountInv' /\ BurstInv'
  BY <1>1 DEF HInv, BanInv, CountInv, BurstInv, Failing
<1> QED BY <1>2, <1>4, <1>5 DEF HInv, Base

(* The inductive invariant of HttpAuth holds in every behaviour.           *)
THEOREM HttpInvariant == MCSpec => []HInv
<1>1. MCInit => HInv
  BY InitFine DEF MCInit
<1>2. HInv /\ [MCNext]_<<part, vars, http, keystore>> => HInv'
  BY HttpStep, HttpStays DEF Fine
<1> QED BY <1>1, <1>2, PTL DEF MCSpec

(* The limiter counts exactly the failures of ten minutes, requests at     *)
(* once exceed its limit by no more than one each but the first, and no    *)
(* key id is admitted more often in a minute than its quota.               *)
THEOREM LimitsHold == MCSpec => []WithinLimits
<1>1. HInv => WithinLimits
  <2> SUFFICES ASSUME HInv PROVE H!TypeOK /\ H!LimiterExact /\ H!BurstBounded /\ H!QuotaHolds
    BY DEF WithinLimits
  <2>0. HTypes /\ ServedInv /\ RightInv /\ TicketInv /\ BanInv /\ CountInv /\ BurstInv
    BY DEF HInv, Base
  <2>1. clock \in Nat /\ clock <= world.until
    BY <2>0, CallersAssumption DEF HTypes
  <2>2. \A n \in Nat : n <= clock + BanTime \/ n <= clock + SessionTtl \/ n <= clock + TicketTtl => n \in H!Times
    BY <2>1, AccessAssumption DEF H!Times
  <2>3. \A i \in Ips : entry[i].failures \in Seq(0..clock) /\ entry[i].until \in H!Times
    BY <2>0, <2>2 DEF HTypes, CountInv
  <2>4. \A id \in H!KeyIds : hits[id] \in Seq(0..clock) /\ Len(hits[id]) <= Quota
    BY <2>0 DEF CountInv
  <2>5. \A s \in DOMAIN sessions : sessions[s].until \in H!Times /\ sessions[s].who.role \in 1..3
    BY <2>0, <2>2 DEF HTypes, RightInv
  <2>6. \A t \in DOMAIN tickets : tickets[t].term \in Terminals /\ tickets[t].until \in H!Times
    BY <2>0, <2>2 DEF HTypes, TicketInv
  <2>7. \A r \in Requests : req[r].pc \in H!PCs /\ req[r].who.id \in H!KeyIds
    BY <2>0 DEF HTypes, Request, Principals
  <2>8. H!TypeOK
    BY <2>0, <2>1, <2>3, <2>4, <2>5, <2>6, <2>7 DEF H!TypeOK, HTypes
  <2>9. H!LimiterExact
    BY <2>0 DEF H!LimiterExact, H!Within, CountInv
  <2>10. H!BurstBounded
    <3> SUFFICES ASSUME NEW i \in Ips
                 PROVE  Recent(i) <= Limit - 1 + Cardinality(Requests)
      BY DEF H!BurstBounded, H!Within, Recent, H!Cardinality, Cardinality
    <3>1. Recent(i) + Cardinality(Failing(i)) <= Limit - 1 + Cardinality(Requests)
      BY <2>0 DEF BurstInv, Recent
    <3> QED BY <2>0, <3>1, RecentType, AccessAssumption
  <2>11. H!QuotaHolds
    <3> SUFFICES ASSUME NEW id \in H!KeyIds PROVE Len(admitted[id]) <= Quota
      BY DEF H!QuotaHolds
    <3>1. HitsOf(hits[id], admitted[id], clock)
      BY <2>0, CountParts
    <3>2. hits[id] \in Seq(0..clock) /\ Len(hits[id]) <= Quota /\ H!Kept(hits[id], clock, Minute) = admitted[id]
      BY <3>1 DEF HitsOf
    <3>3. Len(admitted[id]) <= Len(hits[id]) /\ Len(admitted[id]) \in Nat /\ Len(hits[id]) \in Nat
      BY <2>1, <3>2, KeptUpTo, LenProperties, AccessAssumption
    <3> QED BY <3>2, <3>3, AccessAssumption
  <2> QED BY <2>8, <2>9, <2>10, <2>11
<1> QED BY <1>1, HttpInvariant, PTL

(* A revoked key admits nobody once the sessions made before have run out, *)
(* a ticket opens one socket in its time, and only a success that was past *)
(* its check cuts a ban short.                                             *)
THEOREM RightsDoEnd == MCSpec => RightsEnd
<1> DEFINE Admitting == \A r \in Requests :
             req[r].pc # "pass" /\ req'[r].pc = "pass"
               => LET by == req'[r].who.by IN ended[by] # None => clock < ended[by] + SessionTtl
           Lifting == \A i \in Ips :
             H!Banned(entry[i]) /\ clock' = clock /\ entry'[i].until <= clock
               => \E r \in passed[i] : req[r].ip = i /\ req[r].pc \in {"pass", "loginpass"} /\ req'[r].pc # req[r].pc
<1>1. HInv /\ [MCNext]_<<part, vars, http, keystore>> => [Admitting /\ Spends /\ Lifting]_H!vars
  <2> SUFFICES ASSUME HInv, [MCNext]_<<part, vars, http, keystore>>, ~UNCHANGED H!vars
               PROVE  Admitting /\ Spends /\ Lifting
    OBVIOUS
  <2>1. Fine
    BY HttpStep DEF http, H!vars
  <2> QED BY <2>1 DEF Fine, LetsIn, Over, Lawful, Lifted, H!Banned
<1>2. MCSpec => [][Admitting /\ Spends /\ Lifting]_H!vars
  BY <1>1, HttpInvariant, PTL DEF MCSpec
<1>3. MCSpec => [][Admitting]_H!vars /\ [][Spends]_H!vars /\ [][Lifting]_H!vars
  BY <1>2, PTL
<1> QED BY <1>3 DEF RightsEnd, H!AuthorityEnds, H!TicketSpent, H!BanLifted, Spends

-----------------------------------------------------------------------------
(* Enrollment.                                                             *)

(* What every copy of the list is like, and that each of its identities is *)
(* that of a session in g.                                                 *)
Good(r) ==
    /\ IsStore(r) /\ IsFiniteSet(DOMAIN r)
    /\ OneToOne(r) /\ Cardinality(DOMAIN r) <= MaxPending

Known(r, g, h) == \A id \in DOMAIN r : \E s \in g : h[s] = r[id].who

Copies == {records} \cup {snapshot[s] : s \in Sessions} \cup {inode[s].parses : s \in Sessions}

CopiesInv == \A r \in Copies : Good(r) /\ Known(r, signed, hello)

(* How far a session is says whether it has an identity, whether it was    *)
(* verified, and whether it has a file open.                               *)
Claiming   == Waiting \cup Writing \cup {"accepted"}
Unverified == {"new", "checking", "issuing", "proving", "consuming"}
StageOf(s) ==
    /\ pc[s] \in Claiming => hello[s] \in Claims
    /\ pc[s] \in Unverified => s \notin signed
    /\ pc[s] \in {"upserting", "accepted"} \cup Writing => s \in signed
    /\ s \in signed => hello[s] \in Claims
    /\ pc[s] \in {"writing", "renaming"} => fd[s] \in Sessions
StageInv == \A s \in Sessions : StageOf(s)

EInv == TypeOK /\ StageInv /\ CopiesInv

(* The history only grows: a verified session keeps its identity.          *)
Grows == signed \subseteq signed' /\ \A s \in signed : hello'[s] = hello[s]

USE DEF memory, history, disk
USE ScenariosAssumption, ClaimsAssumption, NoneAssumption, LimitsAssumption

-----------------------------------------------------------------------------
(* About lists.                                                            *)

LEMMA EmptyGood == \A g, h : IsStore(Nothing) /\ Good(Nothing) /\ Known(Nothing, g, h)
<1>1. DOMAIN Nothing = {}
    BY DEF Nothing
<1>2. IsFiniteSet({}) /\ Cardinality({}) = 0
    BY FS_EmptySet
<1> QED
    BY <1>1, <1>2 DEF Good, IsStore, OneToOne, Known

LEMMA UnexpiredType ==
    ASSUME NEW r, IsStore(r), NEW t
    PROVE  /\ DOMAIN Unexpired(r, t) \subseteq DOMAIN r
           /\ \A id \in DOMAIN Unexpired(r, t) : Unexpired(r, t)[id] = r[id]
           /\ IsStore(Unexpired(r, t))
BY DEF Unexpired, IsStore

LEMMA UnexpiredGood ==
    ASSUME NEW r, Good(r), NEW t, NEW g, NEW h, Known(r, g, h)
    PROVE  Good(Unexpired(r, t)) /\ Known(Unexpired(r, t), g, h)
<1> DEFINE u == Unexpired(r, t)
<1>1. /\ DOMAIN u \subseteq DOMAIN r /\ IsStore(u)
      /\ \A id \in DOMAIN u : u[id] = r[id]
    BY UnexpiredType DEF Good
<1>2. IsFiniteSet(DOMAIN u) /\ Cardinality(DOMAIN u) <= Cardinality(DOMAIN r)
    BY <1>1, FS_Subset DEF Good
<1>3. Cardinality(DOMAIN u) \in Nat /\ Cardinality(DOMAIN r) \in Nat
    BY <1>2, FS_CardinalityType DEF Good
<1>4. Cardinality(DOMAIN u) <= MaxPending
    BY <1>2, <1>3 DEF Good
<1>5. OneToOne(u) /\ Known(u, g, h)
    BY <1>1 DEF Good, OneToOne, Known
<1> QED
    BY <1>1, <1>2, <1>4, <1>5 DEF Good

(* A record that was admitted fits in with the others.                     *)
LEMMA UpsertedType ==
    ASSUME NEW r, IsStore(r), NEW s \in Sessions, hello[s] \in Claims, at[s] \in Times
    PROVE  \E id \in Sessions :
              /\ IF Same(r, hello[s]) = {} THEN id = s ELSE id \in Same(r, hello[s])
              /\ DOMAIN Upserted(r, s) = DOMAIN r \cup {id}
              /\ Upserted(r, s)[id] = [who |-> hello[s], expires |-> at[s] + PendingTTL]
              /\ \A x \in DOMAIN r \ {id} : Upserted(r, s)[x] = r[x]
              /\ IsStore(Upserted(r, s))
<1> DEFINE id == IF Same(r, hello[s]) = {} THEN s ELSE CHOOSE x \in Same(r, hello[s]) : TRUE
           new == [who |-> hello[s], expires |-> at[s] + PendingTTL]
<1>1. Same(r, hello[s]) \subseteq Sessions
    BY DEF Same, IsStore
<1>2. id \in Sessions /\ (IF Same(r, hello[s]) = {} THEN id = s ELSE id \in Same(r, hello[s]))
    BY <1>1
<1>3. new \in [who : Claims, expires : Expiries]
    BY DEF Times, Expiries
<1> HIDE DEF id, new
<1>4. Upserted(r, s) = Put(r, id, new)
    BY DEF Upserted, id, new
<1>5. /\ DOMAIN Put(r, id, new) = DOMAIN r \cup {id}
      /\ Put(r, id, new)[id] = new
      /\ \A x \in DOMAIN r \ {id} : Put(r, id, new)[x] = r[x]
    BY DEF Put
<1>6. IsStore(Upserted(r, s))
    BY <1>2, <1>3, <1>4, <1>5 DEF IsStore
<1>7. new = [who |-> hello[s], expires |-> at[s] + PendingTTL]
    BY DEF new
<1> QED
    BY <1>2, <1>4, <1>5, <1>6, <1>7

LEMMA UpsertedGood ==
    ASSUME NEW r, Good(r), NEW s \in Sessions, hello[s] \in Claims, at[s] \in Times,
           Admits(r, hello[s]), s \in signed, Known(r, signed, hello)
    PROVE  Good(Upserted(r, s)) /\ Known(Upserted(r, s), signed, hello)
<1> DEFINE u == Upserted(r, s)
<1>1. PICK id \in Sessions :
        /\ IF Same(r, hello[s]) = {} THEN id = s ELSE id \in Same(r, hello[s])
        /\ DOMAIN u = DOMAIN r \cup {id}
        /\ u[id] = [who |-> hello[s], expires |-> at[s] + PendingTTL]
        /\ \A x \in DOMAIN r \ {id} : u[x] = r[x]
        /\ IsStore(u)
    BY UpsertedType DEF Good
<1> HIDE DEF u
<1>2. IsFiniteSet(DOMAIN r) /\ Cardinality(DOMAIN r) \in Nat /\ Cardinality(DOMAIN r) <= MaxPending
    BY FS_CardinalityType DEF Good
<1>3. /\ IsFiniteSet(DOMAIN u)
      /\ Cardinality(DOMAIN u) = IF id \in DOMAIN r THEN Cardinality(DOMAIN r)
                                                    ELSE Cardinality(DOMAIN r) + 1
  <2>1. DOMAIN u = DOMAIN r \cup {id}
    BY <1>1
  <2>2. /\ IsFiniteSet(DOMAIN r \cup {id})
        /\ Cardinality(DOMAIN r \cup {id}) = IF id \in DOMAIN r THEN Cardinality(DOMAIN r)
                                                                ELSE Cardinality(DOMAIN r) + 1
    BY ONLY <1>2, FS_AddElement
  <2> QED
    BY ONLY <2>1, <2>2
<1>4. Cardinality(DOMAIN u) <= MaxPending
  <2>1. CASE Same(r, hello[s]) = {}
    BY <2>1, <1>2, <1>3 DEF Admits, Full
  <2>2. CASE Same(r, hello[s]) # {}
    BY <2>2, <1>1, <1>2, <1>3 DEF Same
  <2> QED
    BY <2>1, <2>2
<1>5. u[id].who = hello[s] /\ \A x \in DOMAIN u \ {id} : x \in DOMAIN r /\ u[x].who = r[x].who
    BY <1>1
<1>6. \A x \in DOMAIN r : r[x].who \in Identities
    BY DEF Good, IsStore
<1>7. ASSUME NEW x \in DOMAIN r \ {id}
      PROVE  r[x].who.device # hello[s].device /\ r[x].who.key # hello[s].key
  <2>1. (r[x].who.device = hello[s].device) <=> (r[x].who.key = hello[s].key)
    BY DEF Admits, Conflicts
  <2>2. SUFFICES ASSUME r[x].who.device = hello[s].device, r[x].who.key = hello[s].key
                 PROVE  FALSE
    BY <2>1
  <2>3. r[x].who = hello[s]
    BY <2>2, <1>6 DEF Identities
  <2>4. x \in Same(r, hello[s]) /\ id \in Same(r, hello[s])
    BY <2>3, <1>1 DEF Same
  <2>5. id \in DOMAIN r /\ r[id].who = r[x].who
    BY <2>3, <2>4 DEF Same
  <2> QED
    BY <2>5 DEF Good, OneToOne
<1>8. OneToOne(u)
  <2> SUFFICES ASSUME NEW x \in DOMAIN u, NEW y \in DOMAIN u, x # y
               PROVE  u[x].who.device # u[y].who.device /\ u[x].who.key # u[y].who.key
    BY DEF OneToOne
  <2>1. CASE x = id
    BY <2>1, <1>5, <1>7
  <2>2. CASE y = id
    BY <2>2, <1>5, <1>7
  <2>3. CASE x # id /\ y # id
    BY <2>3, <1>5 DEF Good, OneToOne
  <2> QED
    BY <2>1, <2>2, <2>3
<1>9. Known(u, signed, hello)
    BY <1>1, <1>5 DEF Known
<1>10. Good(u)
    BY <1>1, <1>3, <1>4, <1>8 DEF Good
<1> QED
    BY <1>9, <1>10 DEF u

(* A step whose copies are old ones, the empty list, or a list that is     *)
(* known to be good, keeps all copies good.                                *)
LEMMA CopiesKept ==
    ASSUME CopiesInv, Grows, NEW r, Good(r), Known(r, signed, hello),
           Copies' \subseteq Copies \cup {Nothing, r}
    PROVE  CopiesInv'
<1>1. \A x \in Copies \cup {Nothing, r} : Good(x) /\ Known(x, signed, hello)
    BY EmptyGood DEF CopiesInv
<1>2. \A x : Known(x, signed, hello) => Known(x, signed', hello')
    BY DEF Known, Grows
<1> QED
    BY <1>1, <1>2 DEF CopiesInv

-----------------------------------------------------------------------------
(* The steps, an action each.                                              *)

LEMMA EInit == Init => EInv
<1> SUFFICES ASSUME Init PROVE EInv
    OBVIOUS
<1> USE DEF Init
<1>1. IsStore(Nothing) /\ DOMAIN Nothing = {}
    BY EmptyGood DEF Nothing
<1>2. TypeOK
  <2> HIDE DEF Nothing
  <2> QED
    BY <1>1 DEF TypeOK, Times, Blank
<1>3. StageInv
    BY DEF StageInv, StageOf, Claiming, Waiting, Writing, Unverified
<1>4. Copies \subseteq {Nothing}
    BY DEF Copies, Blank
<1>5. CopiesInv
    BY <1>4, EmptyGood DEF CopiesInv
<1> QED
    BY <1>2, <1>3, <1>5 DEF EInv

LEMMA HelloKeeps ==
    ASSUME EInv, NEW s \in Sessions, NEW who \in Claims, Hello(s, who)
    PROVE  EInv'
<1> USE DEF Hello, Moves
<1>1. TypeOK'
    BY DEF EInv, TypeOK, Waiting
<1>2. StageInv'
    BY DEF EInv, TypeOK, StageInv, StageOf, Claiming, Waiting, Writing, Unverified
<1>3. Grows
    BY DEF EInv, TypeOK, StageInv, StageOf, Unverified, Grows
<1>4. Copies' = Copies
    BY DEF Copies
<1>5. CopiesInv'
    BY <1>3, <1>4, CopiesKept, EmptyGood DEF EInv
<1> QED
    BY <1>1, <1>2, <1>5 DEF EInv

LEMMA CheckKeeps ==
    ASSUME EInv, NEW s \in Sessions, Check(s)
    PROVE  EInv'
<1> DEFINE kept == Unexpired(records, at[s])
<1>1. IsStore(kept) /\ Good(kept) /\ Known(kept, signed, hello)
    BY UnexpiredGood DEF EInv, CopiesInv, Copies, Good
<1> HIDE DEF kept
<1>2. records' = kept
    BY DEF Check, kept
<1>3. TypeOK'
    BY <1>1, <1>2 DEF EInv, TypeOK, Check, Moves, Forget, Waiting, Ended, Times
<1>4. StageInv'
    BY DEF EInv, TypeOK, StageInv, StageOf, Claiming, Waiting, Writing, Unverified, Check, Moves, Forget
<1>5. Grows
    BY DEF EInv, TypeOK, StageInv, StageOf, Unverified, Grows, Check, Moves, Forget
<1>6. Copies' \subseteq Copies \cup {Nothing, kept}
    BY <1>2 DEF Copies, Check
<1>7. CopiesInv'
    BY <1>1, <1>5, <1>6, CopiesKept DEF EInv
<1> QED
    BY <1>3, <1>4, <1>7 DEF EInv

LEMMA IssueKeeps ==
    ASSUME EInv, NEW s \in Sessions, IssueChallenge(s)
    PROVE  EInv'
<1> USE DEF IssueChallenge, Moves
<1> DEFINE left == [c \in {x \in DOMAIN challenges : challenges[x] > at[s]} |-> challenges[c]]
           until == at[s] + ChallengeTTL
<1>1. /\ challenges' = Put(left, s, until)
      /\ DOMAIN left \subseteq DOMAIN challenges
      /\ \A c \in DOMAIN left : left[c] = challenges[c]
    OBVIOUS
<1>2. until \in 0..(MaxTime + ChallengeTTL)
    BY DEF EInv, TypeOK, Times
<1> HIDE DEF left, until
<1>3. /\ DOMAIN challenges' \subseteq Sessions
      /\ \A c \in DOMAIN challenges' : challenges'[c] \in 0..(MaxTime + ChallengeTTL)
    BY <1>1, <1>2 DEF Put, EInv, TypeOK
<1>4. TypeOK'
    BY <1>3 DEF EInv, TypeOK, Waiting
<1>5. StageInv'
    BY DEF EInv, TypeOK, StageInv, StageOf, Claiming, Waiting, Writing, Unverified
<1>6. Grows /\ Copies' = Copies
    BY DEF Grows, Copies
<1>7. CopiesInv'
    BY <1>6, CopiesKept, EmptyGood DEF EInv
<1> QED
    BY <1>4, <1>5, <1>7 DEF EInv

LEMMA AbandonKeeps ==
    ASSUME EInv, NEW s \in Sessions, Abandon(s)
    PROVE  EInv'
<1> USE DEF Abandon, Moves, Forget
<1>1. TypeOK'
    BY DEF EInv, TypeOK, Ended, Times
<1>2. StageInv'
    BY DEF EInv, TypeOK, StageInv, StageOf, Claiming, Waiting, Writing, Unverified
<1>3. Grows
    BY DEF EInv, TypeOK, StageInv, StageOf, Unverified, Grows
<1>4. Copies' = Copies
    BY DEF Copies
<1>5. CopiesInv'
    BY <1>3, <1>4, CopiesKept, EmptyGood DEF EInv
<1> QED
    BY <1>1, <1>2, <1>5 DEF EInv

LEMMA ProofKeeps ==
    ASSUME EInv, NEW s \in Sessions, Proof(s)
    PROVE  EInv'
<1> USE DEF Proof, Moves
<1>1. TypeOK'
    BY DEF EInv, TypeOK, Waiting
<1>2. StageInv'
    BY DEF EInv, TypeOK, StageInv, StageOf, Claiming, Waiting, Writing, Unverified
<1>3. Grows /\ Copies' = Copies
    BY DEF Grows, Copies
<1>4. CopiesInv'
    BY <1>3, CopiesKept, EmptyGood DEF EInv
<1> QED
    BY <1>1, <1>2, <1>4 DEF EInv

LEMMA ConsumeKeeps ==
    ASSUME EInv, NEW s \in Sessions, NEW valid \in BOOLEAN, Consume(s, valid)
    PROVE  EInv'
<1> DEFINE left == [c \in DOMAIN challenges \ {s} |-> challenges[c]]
<1>1. /\ challenges' = left
      /\ DOMAIN left \subseteq DOMAIN challenges
      /\ \A c \in DOMAIN left : left[c] = challenges[c]
    BY DEF Consume
<1> HIDE DEF left
<1>2. \/ /\ Moves(s, "consuming", "upserting") /\ at' = [at EXCEPT ![s] = now]
         /\ signed' = signed \cup {s} /\ hello' = hello
      \/ Moves(s, "consuming", "refused") /\ Forget(s) /\ signed' = signed
    BY DEF Consume
<1>3. UNCHANGED <<env, now, records, snapshot, disk, crashes, granted>>
    BY DEF Consume
<1>4. /\ DOMAIN challenges' \subseteq Sessions
      /\ \A c \in DOMAIN challenges' : challenges'[c] \in 0..(MaxTime + ChallengeTTL)
    BY <1>1 DEF EInv, TypeOK
<1>5. TypeOK'
    BY <1>2, <1>3, <1>4 DEF EInv, TypeOK, Moves, Forget, Waiting, Ended, Times
<1>6. StageInv'
    BY <1>2, <1>3 DEF EInv, TypeOK, StageInv, StageOf, Claiming, Waiting, Writing, Unverified,
                      Moves, Forget
<1>7. Grows
    BY <1>2 DEF EInv, TypeOK, StageInv, StageOf, Unverified, Grows, Moves, Forget
<1>8. Copies' = Copies
    BY <1>3 DEF Copies
<1>9. CopiesInv'
    BY <1>7, <1>8, CopiesKept, EmptyGood DEF EInv
<1> QED
    BY <1>5, <1>6, <1>9 DEF EInv

LEMMA UpsertKeeps ==
    ASSUME EInv, NEW s \in Sessions, Upsert(s)
    PROVE  EInv'
<1> DEFINE kept == Unexpired(records, at[s])
<1>1. Good(kept) /\ Known(kept, signed, hello)
    BY UnexpiredGood DEF EInv, CopiesInv, Copies
<1>2. /\ pc[s] = "upserting" /\ s \in signed /\ hello[s] \in Claims /\ at[s] \in Times
      /\ DOMAIN snapshot = Sessions
      /\ UNCHANGED <<env, now, challenges, hello, at, disk, crashes, signed>>
    BY DEF Upsert, Moves, EInv, StageInv, StageOf, Claiming, Waiting, TypeOK
<1> HIDE DEF kept
<1>3. \E r : /\ Good(r) /\ Known(r, signed, hello) /\ records' = r
             /\ DOMAIN snapshot' = Sessions
             /\ \A o \in Sessions : snapshot'[o] \in {snapshot[o], r}
             /\ pc' \in {[pc EXCEPT ![s] = to] : to \in {"opening", "accepted", "refused"}}
             /\ granted' \in {granted, granted \cup {s}}
  <2>1. CASE Admits(kept, hello[s]) /\ records' = Upserted(kept, s)
    <3>1. Good(Upserted(kept, s)) /\ Known(Upserted(kept, s), signed, hello)
        BY <1>1, <1>2, <2>1, UpsertedGood
    <3>2. /\ pc' = [pc EXCEPT ![s] = IF "file" \in env THEN "opening" ELSE "accepted"]
          /\ snapshot' = [snapshot EXCEPT ![s] = IF "file" \in env THEN records' ELSE @]
          /\ granted' = granted \cup {s}
        BY <2>1 DEF Upsert, Moves, kept
    <3>3. DOMAIN snapshot' = Sessions /\ \A o \in Sessions : snapshot'[o] \in {snapshot[o], records'}
        BY <3>2, <1>2
    <3>4. pc' \in {[pc EXCEPT ![s] = to] : to \in {"opening", "accepted", "refused"}}
        BY <3>2
    <3> QED
        BY <3>1, <3>2, <3>3, <3>4, <2>1
  <2>2. CASE records' = kept /\ ~Admits(kept, hello[s])
    BY <1>1, <1>2, <2>2 DEF Upsert, Moves, kept
  <2> QED
    BY <2>1, <2>2 DEF Upsert, kept
<1>4. PICK r : /\ Good(r) /\ Known(r, signed, hello) /\ records' = r
               /\ DOMAIN snapshot' = Sessions
               /\ \A o \in Sessions : snapshot'[o] \in {snapshot[o], r}
               /\ pc' \in {[pc EXCEPT ![s] = to] : to \in {"opening", "accepted", "refused"}}
               /\ granted' \in {granted, granted \cup {s}}
    BY <1>3
<1>5. IsStore(r)
    BY <1>4 DEF Good
<1>6. TypeOK'
    BY <1>2, <1>4, <1>5 DEF EInv, TypeOK, Writing, Ended
<1>7. StageInv'
    BY <1>2, <1>4 DEF EInv, TypeOK, StageInv, StageOf, Claiming, Waiting, Writing, Unverified
<1>8. Grows
    BY <1>2 DEF Grows
<1>9. Copies' \subseteq Copies \cup {Nothing, r}
    BY <1>2, <1>4 DEF Copies
<1>10. CopiesInv'
    BY <1>4, <1>8, <1>9, CopiesKept DEF EInv
<1> QED
    BY <1>6, <1>7, <1>10 DEF EInv

(* The steps of a writing task: what it is not told to write is a copy     *)
(* that exists, or nothing that parses.                                    *)
WriterStep(s) ==
    /\ UNCHANGED <<env, now, memory, hello, at, crashes, history>>
    /\ pc[s] \in Writing
    /\ \E to \in Writing \cup {"accepted", "refused"} :
          /\ pc' = [pc EXCEPT ![s] = to]
          /\ to \in {"writing", "renaming"} => fd'[s] \in Sessions
    /\ fd' \in [Sessions -> Sessions \cup {None}] /\ \A o \in Sessions \ {s} : fd'[o] = fd[o]
    /\ {file', tmp'} \subseteq Sessions \cup {None}
    /\ DOMAIN snapshot' = Sessions /\ \A o \in Sessions : snapshot'[o] \in {snapshot[o], Nothing}
    /\ DOMAIN inode' = Sessions
    /\ \A i \in Sessions : inode'[i].parses \in {inode[i].parses, snapshot[s], Nothing}

LEMMA WriterKeeps ==
    ASSUME EInv, NEW s \in Sessions, WriterStep(s)
    PROVE  EInv'
<1> USE DEF WriterStep
<1>1. \A r \in Copies : IsStore(r)
    BY DEF EInv, CopiesInv, Good
<1>2. \A o \in Sessions : IsStore(snapshot'[o]) /\ IsStore(inode'[o].parses)
    BY <1>1, EmptyGood DEF Copies
<1>3. TypeOK'
  <2>1. pc' \in [Sessions -> {"new"} \cup Waiting \cup Writing \cup Ended]
    BY DEF EInv, TypeOK, Ended
  <2> QED
    BY <1>2, <2>1 DEF EInv, TypeOK
<1>4. StageInv'
    BY DEF EInv, TypeOK, StageInv, StageOf, Claiming, Waiting, Writing, Unverified
<1>5. Grows
    BY DEF Grows
<1>6. Copies' \subseteq Copies \cup {Nothing}
    BY DEF Copies
<1>7. CopiesInv'
    BY <1>5, <1>6, CopiesKept, EmptyGood DEF EInv
<1> QED
    BY <1>3, <1>4, <1>7 DEF EInv

LEMMA WriterSteps ==
    ASSUME EInv, NEW s \in Sessions, Open(s) \/ Write(s) \/ Rename(s) \/ PersistFails(s)
    PROVE  WriterStep(s)
<1>1. /\ pc[s] \in {"writing", "renaming"} => fd[s] \in Sessions
      /\ fd \in [Sessions -> Sessions \cup {None}] /\ {file, tmp} \subseteq Sessions \cup {None}
      /\ DOMAIN snapshot = Sessions /\ DOMAIN inode = Sessions
    BY DEF EInv, StageInv, StageOf, TypeOK
<1> USE DEF WriterStep, Moves, Writing, Blank
<1>2. CASE Open(s)
  <2>1. (IF tmp = None THEN s ELSE tmp) \in Sessions
    BY <1>1
  <2> QED
    BY <1>1, <1>2, <2>1 DEF Open
<1>3. CASE Write(s)
  <2>1. PICK r \in {snapshot[s], Nothing} : inode' = [inode EXCEPT ![fd[s]] = [parses |-> r, written |-> TRUE]]
    BY <1>3 DEF Write
  <2>2. \A i \in Sessions : inode'[i].parses \in {inode[i].parses, snapshot[s], Nothing}
    BY <1>1, <2>1
  <2> QED
    BY <1>1, <1>3, <2>1, <2>2 DEF Write
<1>4. CASE Rename(s)
    BY <1>1, <1>4 DEF Rename
<1>5. CASE PersistFails(s)
  <2>1. /\ DOMAIN inode' = Sessions
        /\ \A i \in Sessions : inode'[i].parses \in {inode[i].parses, Nothing}
    BY <1>1, <1>5 DEF PersistFails
  <2>2. pc[s] \in Writing /\ pc' = [pc EXCEPT ![s] = "refused"]
    BY <1>5 DEF PersistFails
  <2> QED
    BY <1>1, <1>5, <2>1, <2>2 DEF PersistFails
<1> QED
    BY <1>2, <1>3, <1>4, <1>5

LEMMA ListKeeps ==
    ASSUME EInv, ListPending
    PROVE  EInv'
<1>1. PICK t \in 0..now : records' = Unexpired(records, t)
    BY DEF ListPending
<1> DEFINE kept == Unexpired(records, t)
<1>2. Good(kept) /\ Known(kept, signed, hello) /\ IsStore(kept)
    BY UnexpiredGood DEF EInv, CopiesInv, Copies, Good
<1>3. records' = kept
    BY <1>1
<1> HIDE DEF kept
<1> USE DEF ListPending
<1>4. TypeOK'
    BY <1>2, <1>3 DEF EInv, TypeOK
<1>5. StageInv'
    BY DEF EInv, StageInv, StageOf
<1>6. Grows
    BY DEF Grows
<1>7. Copies' \subseteq Copies \cup {Nothing, kept}
    BY <1>3 DEF Copies
<1>8. CopiesInv'
    BY <1>2, <1>6, <1>7, CopiesKept DEF EInv
<1> QED
    BY <1>4, <1>5, <1>8 DEF EInv

LEMMA TickKeeps ==
    ASSUME EInv, Tick
    PROVE  EInv'
<1> USE DEF Tick
<1>1. TypeOK'
    BY DEF EInv, TypeOK, Times
<1>2. StageInv'
    BY DEF EInv, StageInv, StageOf
<1>3. Grows /\ Copies' = Copies
    BY DEF Grows, Copies
<1>4. CopiesInv'
    BY <1>3, CopiesKept, EmptyGood DEF EInv
<1> QED
    BY <1>1, <1>2, <1>4 DEF EInv

LEMMA CrashKeeps ==
    ASSUME EInv, Crash
    PROVE  EInv'
<1> USE DEF Crash
<1>1. Load \in Copies \cup {Nothing}
    BY DEF Load, Copies, EInv, TypeOK
<1>2. \A r \in Copies \cup {Nothing} : IsStore(r)
    BY EmptyGood DEF EInv, CopiesInv, Good
<1>3. /\ \A o \in Sessions : snapshot'[o] = Nothing
      /\ \A o \in Sessions : inode'[o].parses \in {inode[o].parses, Nothing}
    BY DEF Blank
<1>4. \A o \in Sessions : IsStore(snapshot'[o]) /\ IsStore(inode'[o].parses)
    BY <1>2, <1>3 DEF Copies
<1>5. DOMAIN challenges' = {}
    BY DEF Nothing
<1>6. TypeOK'
    BY <1>1, <1>2, <1>4, <1>5 DEF EInv, TypeOK, Ended, Times
<1>7. StageInv'
    BY DEF EInv, TypeOK, StageInv, StageOf, Claiming, Waiting, Writing, Unverified, Ended
<1>8. Grows
    BY DEF Grows, EInv, TypeOK
<1>9. Copies' \subseteq Copies \cup {Nothing}
    BY <1>1, <1>3 DEF Copies
<1>10. CopiesInv'
    BY <1>8, <1>9, CopiesKept, EmptyGood DEF EInv
<1> QED
    BY <1>6, <1>7, <1>10 DEF EInv

LEMMA EStep == EInv /\ [Next]_vars => EInv'
<1> SUFFICES ASSUME EInv, [Next]_vars PROVE EInv'
    OBVIOUS
<1>1. CASE UNCHANGED vars
  <2>1. TypeOK' /\ StageInv'
    BY <1>1 DEF vars, EInv, TypeOK, StageInv, StageOf
  <2>2. CopiesInv'
    BY <1>1 DEF vars, EInv, CopiesInv, Copies
  <2> QED
    BY <2>1, <2>2 DEF EInv
<1>2. ASSUME NEW s \in Sessions, Session(s) PROVE EInv'
    BY <1>2, HelloKeeps, CheckKeeps, IssueKeeps, AbandonKeeps, ProofKeeps, ConsumeKeeps,
       UpsertKeeps, WriterSteps, WriterKeeps DEF Session
<1> QED
    BY <1>1, <1>2, ListKeeps, TickKeeps, CrashKeeps DEF Next

LEMMA EAlways == Spec => []EInv
<1> QED
    BY EInit, EStep, PTL DEF Spec

-----------------------------------------------------------------------------
(* How long a device stays on the list.                                    *)

(* Of a list r before the first crash: its records are those of granted    *)
(* sessions and expire when such a session says; and a granted identity is *)
(* on the list, or one of its grants has expired.                          *)
Ledger(r, g, h, a, n) ==
    /\ DOMAIN r \subseteq g
    /\ \A id \in DOMAIN r :
          \E o \in g : h[o] = r[id].who /\ a[o] + PendingTTL = r[id].expires
    /\ \A s \in g : \/ Same(r, h[s]) # {}
                    \/ \E o \in g : h[o] = h[s] /\ a[o] + PendingTTL <= n

GrantInv ==
    /\ \A s \in Sessions :
          /\ at[s] <= now
          /\ pc[s] \in {"new"} \cup Waiting => s \notin granted
          /\ pc[s] \in {"accepted"} \cup Writing => s \in granted
    /\ crashes = 0 => Ledger(records, granted, hello, at, now)

LEMMA LedgerPruned ==
    ASSUME NEW r, IsStore(r), NEW t \in Nat, NEW n \in Nat, t <= n,
           NEW g, NEW h, NEW a, Ledger(r, g, h, a, n)
    PROVE  Ledger(Unexpired(r, t), g, h, a, n)
<1> DEFINE u == Unexpired(r, t)
<1>1. /\ DOMAIN u \subseteq DOMAIN r
      /\ \A id \in DOMAIN u : u[id] = r[id]
      /\ \A id \in DOMAIN r \ DOMAIN u : ~(r[id].expires > t)
    BY DEF Unexpired
<1>2. \A id \in DOMAIN r : r[id].expires \in Nat
    BY DEF IsStore, Expiries
<1> HIDE DEF u
<1>3. ASSUME NEW s \in g, Same(r, h[s]) # {}
      PROVE  Same(u, h[s]) # {} \/ \E o \in g : h[o] = h[s] /\ a[o] + PendingTTL <= n
  <2>1. PICK id \in DOMAIN r : r[id].who = h[s]
    BY <1>3 DEF Same
  <2>2. CASE id \in DOMAIN u
    BY <2>1, <2>2, <1>1 DEF Same
  <2>3. CASE id \notin DOMAIN u
    <3>1. PICK o \in g : h[o] = r[id].who /\ a[o] + PendingTTL = r[id].expires
        BY DEF Ledger
    <3>2. r[id].expires <= n
        BY <2>3, <1>1, <1>2
    <3> QED
        BY <2>1, <3>1, <3>2
  <2> QED
    BY <2>2, <2>3
<1> QED
    BY <1>1, <1>3 DEF Ledger, u

LEMMA LedgerUpserted ==
    ASSUME NEW r, IsStore(r), NEW s \in Sessions, hello[s] \in Claims, at[s] \in Times,
           s \notin granted, Ledger(r, granted, hello, at, now)
    PROVE  Ledger(Upserted(r, s), granted \cup {s}, hello, at, now)
<1> DEFINE u == Upserted(r, s)
           g == granted \cup {s}
<1>1. PICK id \in Sessions :
        /\ IF Same(r, hello[s]) = {} THEN id = s ELSE id \in Same(r, hello[s])
        /\ DOMAIN u = DOMAIN r \cup {id}
        /\ u[id] = [who |-> hello[s], expires |-> at[s] + PendingTTL]
        /\ \A x \in DOMAIN r \ {id} : u[x] = r[x]
        /\ IsStore(u)
    BY UpsertedType
<1> HIDE DEF u
<1>2. s \notin DOMAIN r
    BY DEF Ledger
<1>3. id = s \/ (id \in DOMAIN r /\ r[id].who = hello[s])
    BY <1>1 DEF Same
<1>4. DOMAIN u \subseteq g
    BY <1>1, <1>3 DEF Ledger
<1>5. \A x \in DOMAIN u : \E o \in g : hello[o] = u[x].who /\ at[o] + PendingTTL = u[x].expires
  <2>1. u[id].who = hello[s] /\ u[id].expires = at[s] + PendingTTL
    BY <1>1
  <2> QED
    BY <1>1, <2>1 DEF Ledger
<1>6. \A x \in DOMAIN r : x \in DOMAIN u /\ u[x].who = r[x].who
    BY <1>1, <1>2, <1>3
<1>7. \A q \in granted : Same(r, hello[q]) # {} => Same(u, hello[q]) # {}
    BY <1>6 DEF Same
<1>8. Same(u, hello[s]) # {}
    BY <1>1 DEF Same
<1> QED
    BY <1>4, <1>5, <1>7, <1>8 DEF Ledger, u

(* A step that changes neither the list nor what was granted.              *)
LEMMA LedgerKept ==
    ASSUME EInv, Ledger(records, granted, hello, at, now), records' = records, granted' = granted,
           \A s \in granted : hello'[s] = hello[s] /\ at'[s] = at[s],
           now' \in Nat, now <= now'
    PROVE  Ledger(records', granted', hello', at', now')
<1>1. \A s \in granted : at[s] \in Nat
    BY DEF EInv, TypeOK, Times
<1>2. now \in Nat
    BY DEF EInv, TypeOK, Times
<1> QED
    BY <1>1, <1>2 DEF Ledger

LEMMA GInit == Init => GrantInv
BY DEF Init, GrantInv, Ledger, Nothing, Waiting, Writing

LEMMA GStep == EInv /\ GrantInv /\ [Next]_vars => GrantInv'
<1> SUFFICES ASSUME EInv, GrantInv, [Next]_vars PROVE GrantInv'
    OBVIOUS
<1>1. /\ now \in Times /\ Times \subseteq Nat /\ at \in [Sessions -> Times]
      /\ pc \in [Sessions -> {"new"} \cup Waiting \cup Writing \cup Ended]
      /\ hello \in [Sessions -> Claims \cup {None}] /\ crashes \in Nat
      /\ granted \subseteq Sessions /\ IsStore(records)
    BY DEF EInv, TypeOK, Times
<1>2. ASSUME NEW s \in Sessions, pc[s] \in {"new"} \cup Waiting,
             Hello(s, hello'[s]) \/ IssueChallenge(s) \/ Abandon(s) \/ Proof(s)
                \/ \E valid \in BOOLEAN : Consume(s, valid)
      PROVE  GrantInv'
  <2>1. /\ UNCHANGED <<now, records, granted, crashes>>
        /\ \A o \in Sessions \ {s} : hello'[o] = hello[o] /\ at'[o] = at[o] /\ pc'[o] = pc[o]
        /\ at'[s] \in {at[s], now, 0}
        /\ pc'[s] \in Waiting \cup {"refused"}
    BY <1>1, <1>2 DEF Hello, IssueChallenge, Abandon, Proof, Consume, Moves, Forget, Waiting
  <2>2. s \notin granted
    BY <1>2 DEF GrantInv
  <2>3. crashes' = 0 => Ledger(records', granted', hello', at', now')
    BY <1>1, <2>1, <2>2, LedgerKept DEF GrantInv
  <2> QED
    BY <1>1, <2>1, <2>2, <2>3 DEF GrantInv, Waiting, Writing
<1>3. ASSUME NEW s \in Sessions, Check(s) PROVE GrantInv'
  <2>1. /\ UNCHANGED <<now, granted, crashes>> /\ records' = Unexpired(records, at[s])
        /\ \A o \in Sessions \ {s} : hello'[o] = hello[o] /\ at'[o] = at[o] /\ pc'[o] = pc[o]
        /\ at'[s] \in {at[s], 0} /\ pc'[s] \in {"issuing", "refused"} /\ pc[s] = "checking"
    BY <1>1, <1>3 DEF Check, Moves, Forget
  <2>2. s \notin granted
    BY <2>1 DEF GrantInv, Waiting
  <2>3. crashes = 0 => Ledger(records', granted, hello, at, now)
    BY <1>1, <2>1, LedgerPruned DEF GrantInv
  <2>4. crashes' = 0 => Ledger(records', granted', hello', at', now')
    BY <1>1, <2>1, <2>2, <2>3 DEF Ledger
  <2> QED
    BY <1>1, <2>1, <2>2, <2>4 DEF GrantInv, Waiting, Writing
<1>4. ASSUME NEW s \in Sessions, Upsert(s) PROVE GrantInv'
  <2>1. /\ UNCHANGED <<now, crashes, hello, at>> /\ pc[s] = "upserting"
        /\ \A o \in Sessions \ {s} : pc'[o] = pc[o]
        /\ \/ pc'[s] \in {"opening", "accepted"} /\ granted' = granted \cup {s}
              /\ records' = Upserted(Unexpired(records, at[s]), s)
           \/ pc'[s] = "refused" /\ granted' = granted /\ records' = Unexpired(records, at[s])
    BY <1>1, <1>4 DEF Upsert, Moves
  <2>2. s \notin granted /\ hello[s] \in Claims
    BY <2>1 DEF GrantInv, EInv, StageInv, StageOf, Claiming, Waiting
  <2>3. IsStore(Unexpired(records, at[s]))
    BY <1>1, UnexpiredType
  <2>4. crashes = 0 => Ledger(Unexpired(records, at[s]), granted, hello, at, now)
    BY <1>1, LedgerPruned DEF GrantInv
  <2>5. crashes' = 0 => Ledger(records', granted', hello', at', now')
    BY <1>1, <2>1, <2>2, <2>3, <2>4, LedgerUpserted
  <2> QED
    BY <1>1, <2>1, <2>2, <2>5 DEF GrantInv, Waiting, Writing
<1>5. ASSUME NEW s \in Sessions, Open(s) \/ Write(s) \/ Rename(s) \/ PersistFails(s)
      PROVE  GrantInv'
  <2>1. WriterStep(s)
    BY <1>5, WriterSteps
  <2>2. /\ UNCHANGED <<now, records, granted, hello, at, crashes>> /\ pc[s] \in Writing
        /\ pc'[s] \in Writing \cup {"accepted", "refused"}
        /\ \A o \in Sessions \ {s} : pc'[o] = pc[o]
    BY <1>1, <2>1 DEF WriterStep
  <2>3. crashes' = 0 => Ledger(records', granted', hello', at', now')
    BY <1>1, <2>2 DEF GrantInv
  <2> QED
    BY <1>1, <2>2, <2>3 DEF GrantInv, Waiting, Writing
<1>6. CASE ListPending
  <2>1. PICK t \in 0..now : records' = Unexpired(records, t)
    BY <1>6 DEF ListPending
  <2>2. UNCHANGED <<now, granted, hello, at, crashes, pc>>
    BY <1>6 DEF ListPending
  <2>3. crashes = 0 => Ledger(records', granted, hello, at, now)
    BY <1>1, <2>1, LedgerPruned DEF GrantInv
  <2> QED
    BY <2>2, <2>3 DEF GrantInv
<1>7. CASE Tick
  <2>1. /\ UNCHANGED <<records, granted, hello, at, crashes, pc>>
        /\ now' \in Nat /\ now <= now'
    BY <1>1, <1>7 DEF Tick
  <2>2. crashes' = 0 => Ledger(records', granted', hello', at', now')
    BY <2>1, LedgerKept DEF GrantInv
  <2>3. ASSUME NEW s \in Sessions PROVE at'[s] <= now'
    <3>1. at[s] \in Nat /\ now \in Nat /\ at[s] <= now
        BY <1>1 DEF GrantInv
    <3> QED
        BY <2>1, <3>1
  <2> QED
    BY <2>1, <2>2, <2>3 DEF GrantInv
<1>8. CASE Crash
  <2>1. /\ UNCHANGED <<now, granted>> /\ crashes' = crashes + 1
        /\ \A o \in Sessions : at'[o] = 0
        /\ \A o \in Sessions : pc'[o] = IF pc[o] \in Waiting \cup Writing THEN "lost" ELSE pc[o]
    BY <1>8 DEF Crash
  <2> QED
    BY <1>1, <2>1 DEF GrantInv, Waiting, Writing
<1>9. CASE UNCHANGED vars
    BY <1>9 DEF vars, GrantInv
<1>10. ASSUME NEW s \in Sessions, Session(s) PROVE GrantInv'
  <2>1. ASSUME NEW who \in Claims, Hello(s, who) PROVE Hello(s, hello'[s]) /\ pc[s] = "new"
    BY <1>1, <2>1 DEF Hello, Moves
  <2>2. IssueChallenge(s) \/ Abandon(s) \/ Proof(s) \/ (\E valid \in BOOLEAN : Consume(s, valid))
           => pc[s] \in Waiting
    BY DEF IssueChallenge, Abandon, Proof, Consume, Moves, Waiting
  <2> QED
    BY <1>10, <2>1, <2>2, <1>2, <1>3, <1>4, <1>5 DEF Session
<1> QED
    BY <1>6, <1>7, <1>8, <1>9, <1>10 DEF Next

-----------------------------------------------------------------------------
(* The theorems.                                                           *)

(* Every variable of the enrollment keeps its type.                        *)
THEOREM EnrollmentTypes == Spec => []TypeOK
<1>1. EInv => TypeOK
    BY DEF EInv
<1> QED
    BY <1>1, EAlways, PTL

(* A device has one record and one key, and a key one device, on the list: *)
(* however the two halves of enrollments overlap, whatever is read back.   *)
THEOREM IdentityIsUnique == Spec => []IdentityUnique
<1>1. EInv => IdentityUnique
    BY DEF EInv, CopiesInv, Copies, Good, IdentityUnique
<1> QED
    BY <1>1, EAlways, PTL

(* The list keeps max_pending, although many more may be admitted at once. *)
THEOREM CapacityAlwaysHolds == Spec => []CapacityHolds
<1>1. EInv => CapacityHolds
    BY DEF EInv, CopiesInv, Copies, Good, CapacityHolds
<1> QED
    BY <1>1, EAlways, PTL

(* Nobody is on the list whose key has not signed an open challenge.       *)
THEOREM OnlyProvedListed == Spec => []OnlyProved
<1>1. EInv => OnlyProved
    BY DEF EInv, CopiesInv, Copies, Known, OnlyProved
<1> QED
    BY <1>1, EAlways, PTL

(* Before the first crash, a device that was told "pending" is on the list *)
(* until the earliest of its grants has expired: no refresh with an older  *)
(* clock, no prune and no conflict takes it away sooner.                   *)
THEOREM GrantedAreHeld == Spec => []HeldWhileGranted
<1>1. EInv /\ GrantInv => HeldWhileGranted
    BY DEF GrantInv, Ledger, HeldWhileGranted, Writing
<1> QED
    BY <1>1, EAlways, GInit, GStep, PTL DEF Spec
=============================================================================
