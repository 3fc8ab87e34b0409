--------------------------- MODULE ServerLifecycle ---------------------------
(***************************************************************************)
(* The life of a server process: which configuration it takes, what the    *)
(* migration of old credentials leaves behind, when it refuses to start,   *)
(* how it comes to listen, and how it stops its tasks and its writers.     *)
(* The process is started again and again over what it left on disk.       *)
(*                                                                         *)
(* Sources: crates/server/src/main.rs (main, run_server_pipeline),         *)
(* shutdown.rs, ws/mod.rs (the accept loop), config.rs (the gates), tray.rs*)
(* (the event loop).                                                       *)
(*                                                                         *)
(* What a request, a connection or a writer does in detail is the subject  *)
(* of other modules: here each has at most one record to leave.            *)
(***************************************************************************)
EXTENDS Naturals, Sequences

CONSTANTS
    Worlds,   \* what may happen: a behaviour draws one of these
    Tries,    \* how often a busy port is tried again
    None      \* no file, no role

VARIABLES
    world,    \* the world of this behaviour
    starts,   \* the command lines of the starts yet to come
    cmd,      \* the command line of this start
    pc,       \* how far the process has come
    cfg,      \* the configuration it runs with
    legacy,   \* old credentials in the file of the configuration
    keys,     \* the active keys of the key store on disk, as a sequence
    unsaved,  \* keys of the migration that are in its memory: their save failed
    seen,     \* the names the migration saw when it began
    todo,     \* the credentials it has yet to migrate, by their places in the file
    told,     \* what the last migration told of this file: nothing yet, clean, failures
    missed,   \* history: the credentials that a migration failed at, or was cut short before
    held,     \* ports another process holds
    tries,    \* attempts to bind, of the gateway and of the agents' socket
    http,     \* the HTTP gateway: down, binding, serving, draining
    ws,       \* the accept loop of agents: down, binding, serving
    work,     \* requests and connections at work
    signal,   \* a signal was sent to this process
    quit,     \* the tray's quit: none, clicked (and broadcast), taken
    stdin,    \* the standard input: open or closed
    store,    \* the writers: open or shut
    queue,    \* records accepted and not written
    disk      \* records written

vars == <<world, starts, cmd, pc, cfg, legacy, keys, unsaved, seen, todo, told, missed, held, tries, http, ws,
          work, signal, quit, stdin, store, queue, disk>>
boot     == <<legacy, keys, unsaved, seen, todo, told, missed>>
gateways == <<tries, http, ws>>
asked    == <<signal, quit, stdin>>
writers  == <<store, queue, disk>>

Loopback == {"127.0.0.1", "localhost"}
Ports    == {"http", "ws"}
Stores   == {"meta", "audit"}
Writes(p) == IF p \in world.agents THEN "meta" ELSE "audit"
Has(e)   == e \in world.events

Default == [host |-> "0.0.0.0", tls |-> FALSE]

Init ==
    /\ world \in Worlds
    /\ starts = world.starts /\ cmd = None /\ pc = "off" /\ cfg = Default
    /\ legacy = world.legacy /\ keys = <<>> /\ unsaved = <<>> /\ seen = {} /\ todo = {}
    /\ told = "nothing" /\ missed = {}
    /\ held = world.held /\ tries = [p \in Ports |-> 0] /\ http = "down" /\ ws = "down"
    /\ work = {} /\ signal = FALSE /\ quit = "none" /\ stdin = "open"
    /\ store = [s \in Stores |-> "open"] /\ queue = {} /\ disk = {}

(***************************************************************************)
(* The configuration. A file that is named and unreadable stops the start; *)
(* one that the environment names and that is not there is passed over,    *)
(* and so are unreadable files in the default places. Flags come last.     *)
(***************************************************************************)
Source(c) ==
    CASE c.explicit # None -> c.explicit
      [] c.explicit = None /\ c.env # None -> IF c.env = "missing" THEN "default" ELSE c.env
      [] OTHER -> IF "good" \in c.found THEN "good" ELSE "default"

Start ==
    /\ pc = "off" /\ starts # <<>>
    /\ starts' = Tail(starts)
    /\ cmd' = Head(starts)
    /\ LET c == Head(starts)
           f == IF Source(c) = "good" THEN world.file ELSE Default IN
       /\ cfg' = [host |-> IF c.host # None THEN c.host ELSE f.host, tls |-> f.tls]
       /\ pc' = IF Source(c) = "bad" THEN "off" ELSE IF c.migrate THEN "survey" ELSE "bootstrap"
    /\ signal' = FALSE /\ quit' = "none" /\ stdin' = "open"
    /\ store' = [s \in Stores |-> "open"] /\ queue' = {}
    /\ UNCHANGED <<world, boot, held, gateways, work, disk>>

(* The old credentials this start has read.                                *)
Old == IF Source(cmd) = "good" THEN legacy ELSE <<>>

(***************************************************************************)
(* The migration: one new key for every old credential whose name was not  *)
(* there at the beginning; the credentials of roles, which have the names  *)
(* of their roles, come in any order, the token of the agents after them.  *)
(* A secret is shown when its key is saved. One whose save fails is        *)
(* reported and passed over, but stays in memory, and the next save writes *)
(* it too. The operator is told to remove the old credentials from the     *)
(* file; a run that has read another file tells nothing of those in this   *)
(* one.                                                                    *)
(***************************************************************************)
Range(s)  == {s[i] : i \in 1..Len(s)}
NamesOf(ks) == {k.name : k \in Range(ks)}
Key(i, name, shown) == [of |-> i, name |-> name, shown |-> shown]

Survey_Blind == \* what an earlier run has made is not looked at
    /\ pc = "survey"
    /\ seen' = {} /\ todo' = 1..Len(Old) /\ told' = "nothing" /\ pc' = "migrate"
    /\ UNCHANGED <<world, starts, cmd, cfg, legacy, keys, unsaved, missed, held, gateways, work, asked, writers>>
Survey ==
    /\ pc = "survey"
    /\ seen' = NamesOf(keys) /\ todo' = 1..Len(Old) /\ told' = "nothing" /\ pc' = "migrate"
    /\ UNCHANGED <<world, starts, cmd, cfg, legacy, keys, unsaved, missed, held, gateways, work, asked, writers>>

Migrate == \E i \in todo, good \in BOOLEAN :
    /\ pc = "migrate" /\ (Old[i] = "agent" => todo = {i})
    /\ todo' = todo \ {i}
    /\ CASE Old[i] \in seen -> UNCHANGED <<keys, unsaved, told, missed>>
         [] Old[i] \notin seen /\ good ->
              /\ keys' = Append(keys \o unsaved, Key(i, Old[i], TRUE)) /\ unsaved' = <<>>
              /\ UNCHANGED <<told, missed>>
         [] Old[i] \notin seen /\ ~good ->
              /\ unsaved' = Append(unsaved, Key(i, Old[i], FALSE))
              /\ told' = "failures" /\ missed' = missed \cup {i} /\ UNCHANGED keys
    /\ UNCHANGED <<world, starts, cmd, pc, cfg, legacy, seen, held, gateways, work, asked, writers>>

Migrated ==
    /\ pc = "migrate" /\ todo = {}
    /\ pc' = "off" /\ told' = IF told = "failures" \/ Source(cmd) # "good" THEN told ELSE "clean"
    /\ unsaved' = <<>>
    /\ UNCHANGED <<world, starts, cmd, cfg, legacy, keys, seen, todo, missed, held, gateways, work, asked, writers>>

(* A crash, or the operator who loses patience.                            *)
Interrupt ==
    /\ pc = "migrate" /\ Has("crash")
    /\ pc' = "off" /\ told' = "nothing" /\ unsaved' = <<>> /\ missed' = missed \cup todo
    /\ UNCHANGED <<world, starts, cmd, cfg, legacy, keys, seen, todo, held, gateways, work, asked, writers>>

(* The operator, who has seen a migration end without a failure.           *)
RemoveLegacy ==
    /\ Has("remove") /\ pc = "off" /\ legacy # <<>> /\ told = "clean"
    /\ legacy' = <<>>
    /\ UNCHANGED <<world, starts, cmd, pc, cfg, keys, unsaved, seen, todo, told, missed, held, gateways, work, asked, writers>>

(***************************************************************************)
(* The first key, and the gates.                                           *)
(***************************************************************************)
Bootstrap ==
    /\ pc = "bootstrap"
    /\ keys' = IF cmd.bootstrap /\ keys = <<>> THEN <<Key(0, "root", TRUE)>> ELSE keys
    /\ pc' = "gates"
    /\ UNCHANGED <<world, starts, cmd, cfg, legacy, unsaved, seen, todo, told, missed, held, gateways, work, asked, writers>>

LegacyRefused    == keys # <<>> /\ Old # <<>>
HasCredentials   == keys # <<>> \/ Old # <<>>
BootRefused_NoTls == \* TLS is not asked for
    /\ cfg.host \notin Loopback /\ ~cmd.insecure
    /\ ~HasCredentials
BootRefused      ==
    /\ cfg.host \notin Loopback /\ ~cmd.insecure
    /\ ~HasCredentials \/ (~cfg.tls /\ ~cmd.plain)

Gates ==
    /\ pc = "gates"
    /\ IF LegacyRefused \/ BootRefused THEN pc' = "off" /\ UNCHANGED gateways
       ELSE /\ pc' = "running" /\ tries' = [p \in Ports |-> 0]
            /\ http' = "binding" /\ ws' = "binding"
    /\ UNCHANGED <<world, starts, cmd, cfg, boot, held, work, asked, writers>>

(***************************************************************************)
(* The listeners. A busy port is tried again; another error, or one try    *)
(* too many, ends what wanted it: the gateway, and with it the process, or *)
(* only the accept loop.                                                   *)
(***************************************************************************)
Stdio   == cmd.mode = "stdio"
Tray    == cmd.mode = "tray"
Running == pc = "running"
TriesLeft(p) == tries[p] < Tries

BindHttp ==
    /\ Running /\ http = "binding"
    /\ \/ "http" \notin held /\ http' = "serving" /\ UNCHANGED <<tries, pc>>
       \/ /\ "http" \in held /\ TriesLeft("http")
          /\ tries' = [tries EXCEPT !["http"] = @ + 1] /\ UNCHANGED <<http, pc>>
       \/ /\ Has("denied") \/ ("http" \in held /\ ~TriesLeft("http"))
          /\ http' = "down" /\ UNCHANGED tries
          /\ pc' = IF Stdio THEN pc ELSE "joining"
    /\ UNCHANGED <<world, starts, cmd, cfg, boot, held, ws, work, asked, writers>>

BindWs ==
    /\ Running /\ ws = "binding"
    /\ \/ "ws" \notin held /\ ws' = "serving" /\ UNCHANGED tries
       \/ /\ "ws" \in held /\ TriesLeft("ws")
          /\ tries' = [tries EXCEPT !["ws"] = @ + 1] /\ UNCHANGED ws
       \/ /\ Has("denied") \/ ("ws" \in held /\ ~TriesLeft("ws"))
          /\ ws' = "down" /\ UNCHANGED tries
    /\ UNCHANGED <<world, starts, cmd, pc, cfg, boot, held, http, work, asked, writers>>

Release(p) ==
    /\ p \in held /\ Has("release")
    /\ held' = held \ {p}
    /\ UNCHANGED <<world, starts, cmd, pc, cfg, boot, gateways, work, asked, writers>>

(***************************************************************************)
(* Requests and connections, each a task of its own that nobody joins. Each*)
(* leaves its record while the writer is open, and ends.                   *)
(***************************************************************************)
Alive == pc \notin {"off", "survey", "migrate", "bootstrap", "gates"}

Arrive(p) ==
    /\ pc \in {"running", "draining"} /\ p \notin work /\ p \notin queue \cup disk
    /\ (p \in world.agents /\ ws = "serving") \/ (p \in world.requests /\ http = "serving")
    /\ work' = work \cup {p}
    /\ UNCHANGED <<world, starts, cmd, pc, cfg, boot, held, gateways, asked, writers>>

Record(p) ==
    /\ Alive /\ p \in work /\ p \notin queue \cup disk /\ store[Writes(p)] = "open"
    /\ queue' = queue \cup {p}
    /\ UNCHANGED <<world, starts, cmd, pc, cfg, boot, held, gateways, work, asked, store, disk>>

Finish(p) ==
    /\ Alive /\ p \in work /\ ~Has("hung")
    /\ work' = work \ {p}
    /\ UNCHANGED <<world, starts, cmd, pc, cfg, boot, held, gateways, asked, writers>>

Persist(p) ==
    /\ Alive /\ p \in queue
    /\ queue' = queue \ {p} /\ disk' = disk \cup {p}
    /\ UNCHANGED <<world, starts, cmd, pc, cfg, boot, held, gateways, work, asked, store>>

(***************************************************************************)
(* The process is asked to stop. A signal has a handler only from when the *)
(* gateway serves, or at once on stdio; before, it kills. A quit of the    *)
(* tray waits in the channel until the gateway listens to it.              *)
(***************************************************************************)
Signal ==
    /\ Has("signal") /\ Running /\ ~signal
    /\ IF Stdio \/ http = "serving" THEN signal' = TRUE /\ UNCHANGED <<pc, http, ws, work, queue>>
       ELSE pc' = "off" /\ http' = "down" /\ ws' = "down" /\ work' = {} /\ queue' = {} /\ UNCHANGED signal
    /\ UNCHANGED <<world, starts, cmd, cfg, boot, held, tries, quit, stdin, store, disk>>

Quit ==
    /\ Has("quit") /\ Alive /\ Tray /\ quit = "none"
    /\ quit' = "clicked"
    /\ UNCHANGED <<world, starts, cmd, pc, cfg, boot, held, gateways, work, signal, stdin, writers>>

CloseInput ==
    /\ Has("eof") /\ Running /\ Stdio /\ stdin = "open"
    /\ stdin' = "closed"
    /\ UNCHANGED <<world, starts, cmd, pc, cfg, boot, held, gateways, work, signal, quit, writers>>

(* The gateway drains; stdio gives up at once.                             *)
StopGateway ==
    /\ Running
    /\ IF Stdio THEN signal \/ stdin = "closed" ELSE http = "serving" /\ (signal \/ quit = "clicked")
    /\ pc' = IF Stdio THEN "joining" ELSE "draining"
    /\ http' = IF Stdio THEN http ELSE "draining"
    /\ quit' = IF quit = "clicked" THEN "taken" ELSE quit
    /\ UNCHANGED <<world, starts, cmd, cfg, boot, held, tries, ws, work, signal, stdin, writers>>

Drained_Patient == \* there is no end to the patience with a request
    /\ pc = "draining" /\ work \cap world.requests = {}
    /\ pc' = "joining" /\ http' = "down"
    /\ UNCHANGED <<world, starts, cmd, cfg, boot, held, tries, ws, work, asked, writers>>
(* When no request is left, or after ten seconds.                          *)
Drained ==
    /\ pc = "draining"
    /\ pc' = "joining" /\ http' = "down"
    /\ UNCHANGED <<world, starts, cmd, cfg, boot, held, tries, ws, work, asked, writers>>

(* The accept loops end; what they have accepted goes on.                  *)
Join ==
    /\ pc = "joining"
    /\ pc' = "meta" /\ http' = "down" /\ ws' = "down"
    /\ UNCHANGED <<world, starts, cmd, cfg, boot, held, tries, work, asked, writers>>

(* The writer of the metadata writes what it has accepted and ends. If it  *)
(* cannot, the audit log is not told to.                                   *)
Kept(s) == {p \in queue : Writes(p) = s}
ShutMeta == \E good \in BOOLEAN :
    /\ pc = "meta" /\ (good \/ Has("diskfull"))
    /\ store' = [store EXCEPT !["meta"] = "shut"]
    /\ queue' = queue \ Kept("meta")
    /\ disk' = IF good THEN disk \cup Kept("meta") ELSE disk
    /\ pc' = IF good THEN "audit" ELSE "done"
    /\ UNCHANGED <<world, starts, cmd, cfg, boot, held, gateways, work, asked>>
ShutAudit ==
    /\ pc = "audit"
    /\ store' = [store EXCEPT !["audit"] = "shut"]
    /\ queue' = queue \ Kept("audit") /\ disk' = disk \cup Kept("audit")
    /\ pc' = "done"
    /\ UNCHANGED <<world, starts, cmd, cfg, boot, held, gateways, work, asked>>

(* The tray is told, and its loop ends; the runtime drops every task, and  *)
(* the audit log, which shuts itself down when it is dropped. A runtime    *)
(* that still reads from stdin waits for that read.                        *)
Exit_NoDrop == \* nothing is shut down when it is dropped
    /\ pc = "done" /\ (Stdio => stdin = "closed")
    /\ pc' = "off" /\ work' = {} /\ queue' = {}
    /\ UNCHANGED <<world, starts, cmd, cfg, boot, held, gateways, asked, store, disk>>
Exit ==
    /\ pc = "done" /\ (Stdio => stdin = "closed")
    /\ pc' = "off" /\ work' = {}
    /\ disk' = disk \cup Kept("audit") /\ queue' = {}
    /\ UNCHANGED <<world, starts, cmd, cfg, boot, held, gateways, asked, store>>

Process ==
    \/ Survey \/ Migrate \/ Migrated \/ Bootstrap \/ Gates \/ BindHttp \/ BindWs
    \/ StopGateway \/ Drained \/ Join \/ ShutMeta \/ ShutAudit \/ Exit
Next ==
    \/ Start \/ Process \/ Interrupt \/ RemoveLegacy \/ Signal \/ Quit \/ CloseInput
    \/ \E p \in Ports : Release(p)
    \/ \E p \in world.agents \cup world.requests : Arrive(p) \/ Record(p) \/ Finish(p) \/ Persist(p)

Fairness == WF_vars(Process)
Spec == Init /\ [][Next]_vars /\ Fairness

-----------------------------------------------------------------------------
(* What each variable holds.                                               *)
TypeOK ==
    /\ pc \in {"off", "survey", "migrate", "bootstrap", "gates", "running", "draining", "joining",
               "meta", "audit", "done"}
    /\ http \in {"down", "binding", "serving", "draining"} /\ ws \in {"down", "binding", "serving"}
    /\ tries \in [Ports -> 0..Tries] /\ (pc = "off" => work = {})
    /\ queue \cap disk = {} /\ quit \in {"none", "clicked", "taken"}

HasKey(i)    == \E k \in Range(keys) : k.of = i /\ k.shown
NameTaken(i) == world.legacy[i] \in NamesOf(keys)

(* A migration may be run again, whatever became of the runs before: no    *)
(* old credential gets a second key, and after a run that reports no       *)
(* failure each has the key whose secret was shown, unless an earlier run  *)
(* has failed at this very credential or was cut short before it. Of such a*)
(* one it says only that a key of its name is there.                       *)
MigrationRepeats ==
    /\ \A j, k \in 1..Len(keys) : keys[j].of = keys[k].of => j = k
    /\ told = "clean" => \A i \in 1..Len(world.legacy) : NameTaken(i) /\ (HasKey(i) \/ i \in missed)

(* After a run that reports no failure each old credential has a key whose *)
(* secret was shown. It need not: a key saved after its own save had failed*)
(* is never shown, and the next run passes over its name as migrated.      *)
EachMigrated == told = "clean" => \A i \in 1..Len(world.legacy) : HasKey(i)

(* What listens beyond the machine asks for a credential and is encrypted, *)
(* unless the operator said otherwise, and it does not take old credentials*)
(* beside the keys; also after the starts and migrations before it.        *)
ServesGuarded == Alive =>
    /\ cfg.host \in Loopback \/ cmd.insecure \/ (HasCredentials /\ (cfg.tls \/ cmd.plain))
    /\ keys = <<>> \/ Old = <<>>

(* Once the gateway serves, a record that was accepted is written before   *)
(* the process is gone: one of the audit log also if the metadata could    *)
(* not be written, and whatever task made it outlived its listener.        *)
AcceptedKept == [][Alive /\ (Stdio \/ http # "binding") =>
    \A p \in queue : p \in queue' \cup disk' \/ (Writes(p) = "meta" /\ Has("diskfull"))]_vars

(* A process that was asked to stop comes to its end, whatever a request   *)
(* in flight or another process does.                                      *)
StopsWhenAsked ==
    []<>(Alive => ~((signal /\ ~Stdio) \/ quit # "none" \/ stdin = "closed"))

(* So would one on stdio whose input stays open. It does not (OnStdio of   *)
(* LifecycleWorlds): the end waits for a read of stdin, and no run asks it. *)
StdioStops == []<>(Alive => ~signal)

(* The writers would be shut down when nothing makes records any more.     *)
(* They are not (OneAgent of LifecycleWorlds): connections are not joined. *)
ProducersStopped == pc \in {"meta", "audit"} => work = {}
=============================================================================
