---------------------------- MODULE DalLifecycle ----------------------------
(***************************************************************************)
(* The life of Dal instances in one process: getDal, resetDal, new Dal and *)
(* close(), with the calls that run meanwhile.                             *)
(*                                                                         *)
(* Three things are shared by the whole process and by all the Dals in it: *)
(* the singleton `defaultDal`, the schema domain, which the constructor    *)
(* replaces, and the event loop, so that a step here is what runs between  *)
(* two awaits.                                                             *)
(***************************************************************************)
EXTENDS Naturals, Sequences, FiniteSets

CONSTANTS
  Users,     \* pieces of the program that hold a Dal and call it
  Configs,   \* configurations: [url, primary, schemas, sharedTables]
  Entities,  \* the @Entity classes: [schema, table], schema "" if none is named
  PoolSize,  \* max
  MaxDals    \* bound: Dals made

ASSUME LifecycleAssumption ==
  /\ PoolSize \in Nat \ {0} /\ MaxDals \in Nat

(* Tables that every service may reach, in any schema. *)
PLATFORM_SHARED_TABLES == {"user_profiles", "translations"}

(* The tables that SQL made for an entity can name. *)
Targets == [schema : {e.schema : e \in Entities} \cup {cfg.primary : cfg \in Configs},
            table : {e.table : e \in Entities}]
NoTarget == [schema |-> "", table |-> ""]

VARIABLES
  dals,        \* all Dals ever made
  defaultDal,  \* the singleton, 0 for null
  domain,      \* the configuration that declares the process-wide domain
  held,        \* held[u]: the Dal that u keeps, 0 if it has none yet
  doing,       \* doing[u]: what u awaits
  gaveUp,      \* Dals whose close() met its deadline, or whose pool others ended
  overlapped   \* some resetDal began while another was under way

dalVars == <<dals, defaultDal, domain, held, doing, gaveUp, overlapped>>

(* single: made by getDal.  pool: open, ending (end() was called and       *)
(* clients are out), ended.                                                *)
Dal == [cfg : Configs, single : BOOLEAN, pool : {"open", "ending", "ended"},
        closed : BOOLEAN, closing : BOOLEAN]

(* call, wait: an operation with a client of the pool, or waiting for one, *)
(* and the table, with its schema, that its SQL names.                     *)
(* close, reset: close() awaits pool.end(), on behalf of resetDal or not.  *)
(* clear: resetDal, between the return of close() and its last statement.  *)
(* refused: the pool.end() of this close() rejects.                        *)
Activity(kind, d, target, refused) ==
  [kind |-> kind, dal |-> d, target |-> target, refused |-> refused]
Idle == Activity("idle", 0, NoTarget, FALSE)
Doing == [kind : {"idle", "call", "wait", "close", "reset", "clear"}, dal : 0 .. MaxDals,
          target : Targets \cup {NoTarget}, refused : BOOLEAN]

NoConfig == [url |-> "none", primary |-> "", schemas |-> {}, sharedTables |-> {}]

DalTypeOK ==
  /\ dals \in Seq(Dal) /\ Len(dals) <= MaxDals
  /\ defaultDal \in 0 .. Len(dals)
  /\ domain \in Configs \cup {NoConfig}
  /\ held \in [Users -> 0 .. Len(dals)]
  /\ doing \in [Users -> Doing]
  /\ gaveUp \subseteq DOMAIN dals
  /\ overlapped \in BOOLEAN

DalInit ==
  /\ dals = <<>> /\ defaultDal = 0 /\ domain = NoConfig
  /\ held = [u \in Users |-> 0]
  /\ doing = [u \in Users |-> Idle]
  /\ gaveUp = {} /\ overlapped = FALSE

AtRest(u) == doing[u] = Idle
Awaits(u, kind, d, target) == doing' = [doing EXCEPT ![u] = Activity(kind, d, target, FALSE)]
Ends(u) == doing' = [doing EXCEPT ![u] = Idle]

OnClients(d) == {u \in Users : doing[u].kind = "call" /\ doing[u].dal = d}

(***************************************************************************)
(* Getting a Dal                                                           *)
(***************************************************************************)

(* The constructor: the domain of the process is now that of this Dal. *)
Construct(cfg, single) ==
  /\ Len(dals) < MaxDals
  /\ dals' = Append(dals, [cfg |-> cfg, single |-> single, pool |-> "open",
                           closed |-> FALSE, closing |-> FALSE])
  /\ domain' = cfg

(* getDal on a process without a singleton. *)
GetDalCreates(u, cfg) ==
  /\ AtRest(u) /\ defaultDal = 0
  /\ Construct(cfg, TRUE)
  /\ defaultDal' = Len(dals) + 1
  /\ held' = [held EXCEPT ![u] = Len(dals) + 1]
  /\ UNCHANGED <<doing, gaveUp, overlapped>>

(* getDal() of a DomainService, which keeps what it gets for good, and     *)
(* getDal(config) with the url of the singleton, whatever its schemas.     *)
(* Another url is an error, as is no configuration before there is a       *)
(* singleton: nothing changes.                                             *)
GetDalReturns(u, cfg) ==
  /\ AtRest(u) /\ defaultDal # 0 /\ held[u] = 0
  /\ cfg # NoConfig => cfg.url = dals[defaultDal].cfg.url
  /\ held' = [held EXCEPT ![u] = defaultDal]
  /\ UNCHANGED <<dals, defaultDal, domain, doing, gaveUp, overlapped>>

(* new Dal(config), the way to a second database. *)
NewDal(u, cfg) ==
  /\ AtRest(u) /\ held[u] = 0
  /\ Construct(cfg, FALSE)
  /\ held' = [held EXCEPT ![u] = Len(dals) + 1]
  /\ UNCHANGED <<defaultDal, doing, gaveUp, overlapped>>

(***************************************************************************)
(* Calls                                                                   *)
(***************************************************************************)

(* Where SQL made now finds the entity: in the schema that it names, or in *)
(* the first of the domain.                                                *)
Resolved(e) ==
  [schema |-> IF e.schema = "" THEN domain.primary ELSE e.schema, table |-> e.table]

(* MUTANT of Permits: the domain keeps the shared tables of earlier Dals.  *)
PermitsOnceShared(target) ==
  \/ target.schema \in domain.schemas
  \/ target.table \in PLATFORM_SHARED_TABLES
  \/ \E d \in DOMAIN dals : target.table \in dals[d].cfg.sharedTables

(* resolveEntitySchema: a schema outside the domain throws, except for the *)
(* shared tables.                                                          *)
Permits(target) ==
  \/ target.schema \in domain.schemas
  \/ target.table \in PLATFORM_SHARED_TABLES \cup domain.sharedTables

(* An operation on an entity gets a client. *)
CallStarts(u, e) ==
  LET d == held[u]
  IN  /\ AtRest(u) /\ d # 0
      /\ Permits(Resolved(e))
      /\ dals[d].pool = "open" /\ Cardinality(OnClients(d)) < PoolSize
      /\ Awaits(u, "call", d, Resolved(e))
      /\ UNCHANGED <<dals, defaultDal, domain, held, gaveUp, overlapped>>

(* All clients are out: the operation, its SQL made, waits for one.  The   *)
(* statement that is sent in the end is the one made here.                 *)
CallWaits(u, e) ==
  LET d == held[u]
  IN  /\ AtRest(u) /\ d # 0
      /\ Permits(Resolved(e))
      /\ dals[d].pool = "open" /\ Cardinality(OnClients(d)) = PoolSize
      /\ Awaits(u, "wait", d, Resolved(e))
      /\ UNCHANGED <<dals, defaultDal, domain, held, gaveUp, overlapped>>

(* A pool that is ending serves nobody who waits. *)
CallServed(u) ==
  LET d == doing[u].dal
  IN  /\ doing[u].kind = "wait"
      /\ dals[d].pool = "open" /\ Cardinality(OnClients(d)) < PoolSize
      /\ Awaits(u, "call", d, doing[u].target)
      /\ UNCHANGED <<dals, defaultDal, domain, held, gaveUp, overlapped>>

(* The operation returns, or connectionTimeoutMillis has passed. *)
CallEnds(u) ==
  /\ doing[u].kind \in {"call", "wait"}
  /\ Ends(u)
  /\ UNCHANGED <<dals, defaultDal, domain, held, gaveUp, overlapped>>

(***************************************************************************)
(* Closing                                                                 *)
(***************************************************************************)

(* MUTANT of Closable: close() is not re-entrant. *)
ClosableAgain(d) == ~dals[d].closed

(* close() returns at once on a Dal that is closed or closing. *)
Closable(d) == ~dals[d].closed /\ ~dals[d].closing

Moved(dal, pool, closed, closing) ==
  [cfg |-> dal.cfg, single |-> dal.single, pool |-> pool, closed |-> closed, closing |-> closing]

(* pool.end() is called and awaited, on behalf of close or reset.  It      *)
(* rejects if the pool was ended before.                                   *)
EndPool(u, kind, d) ==
  LET pool == IF dals[d].pool = "open" THEN "ending" ELSE dals[d].pool
  IN  /\ dals' = [dals EXCEPT ![d] = Moved(dals[d], pool, dals[d].closed, TRUE)]
      /\ doing' = [doing EXCEPT ![u] = Activity(kind, d, NoTarget, dals[d].pool # "open")]

(* The finally of close(). *)
Closed(d) == [dals EXCEPT ![d] = Moved(dals[d], dals[d].pool, TRUE, FALSE)]

Close(u) ==
  LET d == held[u]
  IN  /\ AtRest(u) /\ d # 0 /\ Closable(d)
      /\ EndPool(u, "close", d)
      /\ UNCHANGED <<defaultDal, domain, held, gaveUp, overlapped>>

Resetting(u) == doing[u].kind \in {"reset", "clear"}

(* MUTANT of ResetDal: the singleton is cleared and not closed. *)
ResetDalUnclosed(u) ==
  /\ AtRest(u) /\ defaultDal # 0
  /\ Awaits(u, "clear", defaultDal, NoTarget)
  /\ overlapped' = (overlapped \/ \E x \in Users : Resetting(x))
  /\ UNCHANGED <<dals, defaultDal, domain, held, gaveUp>>

(* resetDal closes the singleton, or finds that done or under way. *)
ResetDal(u) ==
  LET d == defaultDal
  IN  /\ AtRest(u) /\ d # 0
      /\ IF Closable(d) THEN EndPool(u, "reset", d)
                        ELSE Awaits(u, "clear", d, NoTarget) /\ UNCHANGED dals
      /\ overlapped' = (overlapped \/ \E x \in Users : Resetting(x))
      /\ UNCHANGED <<defaultDal, domain, held, gaveUp>>

(* The last client of a pool that is ending is back. *)
PoolEnds(d) ==
  /\ d \in DOMAIN dals /\ dals[d].pool = "ending" /\ OnClients(d) = {}
  /\ dals' = [dals EXCEPT ![d] = Moved(dals[d], "ended", dals[d].closed, dals[d].closing)]
  /\ UNCHANGED <<defaultDal, domain, held, doing, gaveUp, overlapped>>

(* Tooling that was handed the pool (getPool) ends it. *)
PoolEndedByTool(d) ==
  /\ d \in DOMAIN dals /\ dals[d].pool = "open"
  /\ dals' = [dals EXCEPT ![d] = Moved(dals[d], "ending", dals[d].closed, dals[d].closing)]
  /\ gaveUp' = gaveUp \cup {d}
  /\ UNCHANGED <<defaultDal, domain, held, doing, overlapped>>

Returns(u) ==
  IF doing[u].kind = "reset" THEN Awaits(u, "clear", doing[u].dal, NoTarget) ELSE Ends(u)

(* pool.end() has resolved, or rejected: that is logged, and the Dal       *)
(* counts as closed.                                                       *)
CloseReturns(u) ==
  LET d == doing[u].dal
  IN  /\ doing[u].kind \in {"close", "reset"}
      /\ dals[d].pool = "ended" \/ doing[u].refused
      /\ dals' = Closed(d)
      /\ Returns(u)
      /\ UNCHANGED <<defaultDal, domain, held, gaveUp, overlapped>>

(* MUTANT of CloseGivesUp: there is no deadline. *)
CloseGivesUpNever(u) ==
  /\ doing[u].kind = "close" /\ doing[u].kind = "reset"
  /\ UNCHANGED dalVars

(* The deadline passes while clients are out.                              *)
CloseGivesUp(u) ==
  LET d == doing[u].dal
  IN  /\ doing[u].kind \in {"close", "reset"}
      /\ dals[d].pool = "ending" /\ ~doing[u].refused
      /\ dals' = Closed(d)
      /\ gaveUp' = gaveUp \cup {d}
      /\ Returns(u)
      /\ UNCHANGED <<defaultDal, domain, held, overlapped>>

(* defaultDal = null, whatever it is by now. *)
ResetClears(u) ==
  /\ doing[u].kind = "clear"
  /\ defaultDal' = 0
  /\ Ends(u)
  /\ UNCHANGED <<dals, domain, held, gaveUp, overlapped>>

DalNext ==
  \/ \E u \in Users :
       \/ \E cfg \in Configs : GetDalCreates(u, cfg) \/ NewDal(u, cfg)
       \/ \E e \in Entities : CallStarts(u, e) \/ CallWaits(u, e)
       \/ \E cfg \in Configs \cup {NoConfig} : GetDalReturns(u, cfg)
       \/ CallServed(u) \/ CallEnds(u)
       \/ Close(u) \/ ResetDal(u)
       \/ CloseReturns(u) \/ CloseGivesUp(u) \/ ResetClears(u)
  \/ \E d \in 1 .. MaxDals : PoolEnds(d) \/ PoolEndedByTool(d)

DalSpec == DalInit /\ [][DalNext]_dalVars

(* The timer of close() fires and continuations run.  Nothing says that a  *)
(* call ever ends: no fairness for CallEnds, nor for PoolEnds.             *)
DalFairness ==
  \A u \in Users : WF_dalVars(CloseReturns(u) \/ CloseGivesUp(u)) /\ WF_dalVars(ResetClears(u))

FairDalSpec == DalSpec /\ DalFairness

(***************************************************************************)
(* Properties                                                              *)
(***************************************************************************)

(* dal.ts:752: resetDal "Closes the existing instance if any".  A Dal of   *)
(* getDal whose pool is open is the singleton, so that a reset will close  *)
(* it, unless two resets overlapped: the later one of them clears whatever *)
(* getDal has made in between.                                             *)
DalsAreAccountedFor ==
  \A d \in DOMAIN dals :
    dals[d].single /\ dals[d].pool = "open" /\ d # defaultDal => overlapped

(* isClosed means that no call has a client of the pool any more, unless   *)
(* that close() met its deadline or others have ended the pool (251-277).  *)
ClosedIsDrained ==
  \A d \in DOMAIN dals : dals[d].closed /\ d \notin gaveUp =>
    dals[d].pool = "ended" /\ OnClients(d) = {}

(* A configuration declares a table: its schema is one that the service    *)
(* may touch (dal.ts:81-86), or the table is shared (dal.ts:88-96).        *)
Declares(cfg, target) ==
  \/ target.schema \in cfg.schemas
  \/ target.table \in PLATFORM_SHARED_TABLES
  \/ target.table \in cfg.sharedTables

(* The domain belongs to the process and not to a Dal, and SQL that was    *)
(* made waits for a client while Dals come and go.  All the same an        *)
(* operation reaches a table that the configuration of its own Dal does not*)
(* declare only if that of a younger one does; any other entity throws     *)
(* before SQL is built (schema-domain.ts:105-116).                         *)
OperationsStayInDomain ==
  \A u \in Users : doing[u].kind \in {"call", "wait"} =>
    \E d \in doing[u].dal .. Len(dals) : Declares(dals[d].cfg, doing[u].target)

(* close() and resetDal() end, whatever the calls on the pool do.          *)
ResetsEnd ==
  \A u \in Users : doing[u].kind \in {"close", "reset", "clear"} ~> AtRest(u)
=============================================================================
