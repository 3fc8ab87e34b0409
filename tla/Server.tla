-------------------------------- MODULE Server --------------------------------
(***************************************************************************)
(* Three parts of the server process that share none of its state, side by *)
(* side: the files of the audit trail, the life of the process and the     *)
(* dispatch of requests. A behaviour is one of one part, drawn at its      *)
(* beginning, while the others stand still in one of their worlds; so      *)
(* every step and every liveness argument is that of the part alone.       *)
(***************************************************************************)
EXTENDS AuditRotation, Sequences

CONSTANTS
    None,
    (* ServerLifecycle, and its worlds *)
    Lives, Tries,
    (* Dispatch, and its worlds *)
    Errands, Terminals, Sessions, Names, Fold, Host, MaxRequests, Room

VARIABLES
    part,
    (* ServerLifecycle *)
    run, starts, cmd, pc, cfg, legacy, keys, unsaved, seen, todo, told, missed, held, tries, http, ws,
    work, signal, quit, stdin, store, queue, disk,
    (* Dispatch *)
    world, session, known, name, joining, everybody, selected, left, req,
    line, reader, out, writer, written, image

lifecycle == <<run, starts, cmd, pc, cfg, legacy, keys, unsaved, seen, todo, told, missed, held, tries, http, ws,
               work, signal, quit, stdin, store, queue, disk>>
dispatch  == <<world, session, known, name, joining, everybody, selected, left, req,
               line, reader, out, writer, written, image>>

L == INSTANCE ServerLifecycle WITH Worlds <- Lives, world <- run
P == INSTANCE Dispatch WITH Worlds <- Errands, active <- everybody, disk <- image

ASSUME LivesAssumption == Tries \in Nat /\ \A w \in Lives : w.legacy \in Seq({"viewer", "operator", "admin", "agent"})

(* None is no terminal, no role and no door. Every request has items, and  *)
(* one over REST, which the authentication has let through, has a role.    *)
ASSUME ErrandsAssumption ==
    /\ MaxRequests \in Nat /\ Room \in Nat \ {0}
    /\ None \notin P!Ids /\ None \notin 1..3 /\ None \notin {"mcp", "rest", "stdio"}
    /\ \A w \in Errands :
          /\ w.online \cup w.kept \subseteq P!Ids
          /\ w.lines \in Seq(Seq(P!Items))
          /\ \A h \in w.http : h \in P!Errand /\ h.items # <<>> /\ (h.door = "rest" => h.role # None)

Parts == {"rotation", "lifecycle", "dispatch"}

MCInit ==
    /\ part \in Parts
    /\ IF part = "lifecycle" THEN TRUE ELSE run = CHOOSE w \in Lives : TRUE
    /\ IF part = "dispatch" THEN TRUE ELSE world = CHOOSE w \in Errands : TRUE
    /\ Init /\ L!Init /\ P!Init

MCNext ==
    \/ part = "rotation"  /\ Next   /\ UNCHANGED <<part, lifecycle, dispatch>>
    \/ part = "lifecycle" /\ L!Next /\ UNCHANGED <<part, vars, dispatch>>
    \/ part = "dispatch"  /\ P!Next /\ UNCHANGED <<part, vars, lifecycle>>

(* The fairness of each part, as it states it.                             *)
MCFairness ==
    /\ WF_lifecycle(part = "lifecycle" /\ L!Process)
    /\ WF_dispatch(part = "dispatch" /\ P!Stdio)
    /\ WF_dispatch(part = "dispatch" /\ \E r \in P!Requests : P!Work(r))

MCSpec == MCInit /\ [][MCNext]_<<part, vars, lifecycle, dispatch>> /\ MCFairness

-----------------------------------------------------------------------------
(* Dispatch: a call runs on the terminal it means (router.rs,              *)
(* resolve_terminal_id), by those who may (config.rs,                      *)
(* is_tool_allowed_for_role), and stdio answers every line and returns     *)
(* (mcp/mod.rs, run_stdio_server_with_streams). The types of the part are  *)
(* checked with the first of them.                                         *)
RunsWhereMeant == P!TypeOK /\ P!RunsWhereMeant
ActsByRight    == P!ActsByRight
StdioAnswers   == []P!StdioDrains /\ P!StdioReturns

(* ServerLifecycle: old credentials are migrated once, whatever is retried *)
(* (main.rs, the migration); no open listener is left unguarded            *)
(* (config.rs, the gates); what was accepted is written, and a process     *)
(* that is asked to stop stops (main.rs, shutdown.rs). The types of the    *)
(* part are checked with the first of them.                                *)
MigrationRepeats == L!TypeOK /\ L!MigrationRepeats
ServesGuarded    == L!ServesGuarded
AcceptedKept     == L!AcceptedKept
StopsWhenAsked   == L!StopsWhenAsked

(* The migration turns each of the old credentials into a key, whose       *)
(* secret it shows once ("逐条转成 KeyStore 记录、明文各展示一次",         *)
(* docs/plans): main.rs, the migration.                                    *)
EachMigrated == L!EachMigrated
=============================================================================
