--------------------------- MODULE LifecycleWorlds ---------------------------
(* The worlds in which ServerLifecycle is checked: a world names the       *)
(* command lines of the starts, the file of the configuration and what may *)
(* happen.                                                                 *)
EXTENDS Naturals, Sequences

CONSTANT None

Run == [explicit |-> "good", env |-> None, found |-> {}, host |-> None, mode |-> "console",
        migrate |-> FALSE, bootstrap |-> TRUE, insecure |-> FALSE, plain |-> FALSE]
Move == [Run EXCEPT !.migrate = TRUE]
Local == [Run EXCEPT !.host = "127.0.0.1"]
As(mode) == [Local EXCEPT !.mode = mode]

World(lines, file, old, ports, agents, requests, events) ==
    [starts |-> lines, file |-> file, legacy |-> old, held |-> ports,
     agents |-> agents, requests |-> requests, events |-> events]
Open(tls) == [host |-> "0.0.0.0", tls |-> tls]

(* Old credentials, two of one role, and migrations in any number.         *)
Migrating == {World(<<Move, Move, last>>, Open(TRUE), <<"admin", "admin", "agent">>, {}, {}, {}, {"crash", "remove"}) :
                last \in {Move, Run, [Run EXCEPT !.bootstrap = FALSE]}}
(* Where the configuration comes from, and what it allows.                 *)
Refusing == {World(<<c>>, Open(tls), old, {}, {}, {}, {"signal"}) :
    tls \in BOOLEAN, old \in {<<>>, <<"agent">>},
    c \in {[Run EXCEPT !.explicit = x, !.env = e, !.found = f, !.bootstrap = b, !.insecure = i, !.plain = q] :
             x \in {None, "good", "bad"}, e \in {None, "missing", "good"}, f \in {{"bad"}, {"bad", "good"}},
             b \in BOOLEAN, i \in BOOLEAN, q \in BOOLEAN}}
(* Stopping while agents and consoles are at work.                         *)
Stopping == {World(<<As(mode)>>, Open(TRUE), <<>>, ports, {"a"}, {"r"}, events) :
    mode \in {"console", "tray", "stdio"}, ports \in {{}, {"http", "ws"}},
    events \in {{"signal", "quit", "eof", "release"}, {"signal", "quit", "eof", "hung", "diskfull"},
                {"signal", "quit", "denied"}}}

MCWorlds == Migrating \cup Refusing \cup Stopping
OnStdio  == {World(<<As("stdio")>>, Open(TRUE), <<>>, {}, {}, {}, {"signal"})}
OneAgent == {World(<<Local>>, Open(TRUE), <<>>, {}, {"a"}, {}, {"signal"})}
=============================================================================
