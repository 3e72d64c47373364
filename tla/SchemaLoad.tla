------------------------------ MODULE SchemaLoad ------------------------------
(***************************************************************************)
(* Loading the schemas when a connection is opened: DB.loadSchemas (db.py) *)
(* under the lock of its database, the schema manager that all databases   *)
(* of the process share (schema.py), and InterfaceMaker.addData (cnd.py),  *)
(* which accepts a node type once.  Threads switch between any two steps.  *)
(***************************************************************************)
EXTENDS Naturals

CONSTANTS Threads, DBs,
          NoThread,
          MaxOpens   \* bound on the connections that are opened

ASSUME MaxOpensAssumption == MaxOpens \in Nat /\ NoThread \notin Threads /\ DBs # {}

VARIABLES
  global,     \* schema.py: _schema_manager, a number, 0 for None
  managers,   \* how many were made
  infos,      \* <<manager, DB>>: the manager has the node types in _infos, put
              \* there by a load of the DB (history: _infos does not say by whose)
  complete,   \* those that have all schemas and classes
  sm,         \* of a DB: _schema_manager
  lock,       \* of a DB: who holds _schemas_load_lock
  pc, db, mine, \* of a thread: where it is, for which DB, with which manager
  opens,      \* connections opened so far
  error       \* of a thread: why its last loadSchemas raised, or "no"

schemas == <<global, managers, infos, complete>>
vars    == <<schemas, sm, lock, pc, db, mine, opens, error>>

Loads == {"check", "create", "return", "fetch", "addCND", "update", "build", "classes", "set"}
Errors == {"server", "dropped", "faulty", "redefined"}

TypeOK ==
  /\ global \in Nat /\ managers \in Nat
  /\ infos \subseteq Nat \X DBs /\ complete \subseteq Nat
  /\ sm \in [DBs -> Nat] /\ lock \in [DBs -> Threads \cup {NoThread}]
  /\ pc \in [Threads -> Loads \cup {"idle", "acquire", "release", "raise"}]
  /\ db \in [Threads -> DBs] /\ mine \in [Threads -> Nat]
  /\ opens \in 0..MaxOpens
  /\ error \in [Threads -> Errors \cup {"no"}]

Init ==
  /\ global = 0 /\ managers = 0
  /\ infos = {} /\ complete = {}
  /\ sm = [d \in DBs |-> 0] /\ lock = [d \in DBs |-> NoThread]
  /\ pc = [t \in Threads |-> "idle"] /\ db = [t \in Threads |-> CHOOSE d \in DBs : TRUE]
  /\ mine = [t \in Threads |-> 0] /\ opens = 0
  /\ error = [t \in Threads |-> "no"]

At(t, here) == pc[t] = here
Goto(t, there) == pc' = [pc EXCEPT ![t] = there]

\* DB.open makes a connection.
Open(t, d) ==
  /\ At(t, "idle") /\ opens < MaxOpens
  /\ opens' = opens + 1
  /\ db' = [db EXCEPT ![t] = d] /\ error' = [error EXCEPT ![t] = "no"]
  /\ Goto(t, "acquire")
  /\ UNCHANGED <<schemas, sm, lock, mine>>

\* Mutant: the schemas are loaded for every connection.
AcquireAndLoad(t) ==
  /\ At(t, "acquire") /\ lock[db[t]] = NoThread
  /\ lock' = [lock EXCEPT ![db[t]] = t]
  /\ Goto(t, "check")
  /\ UNCHANGED <<schemas, sm, db, mine, opens, error>>

\* loadSchemas: the lock, and whether this is the first connection.
Acquire(t) ==
  /\ At(t, "acquire") /\ lock[db[t]] = NoThread
  /\ lock' = [lock EXCEPT ![db[t]] = t]
  /\ Goto(t, IF sm[db[t]] = 0 THEN "check" ELSE "release")
  /\ UNCHANGED <<schemas, sm, db, mine, opens, error>>

-----------------------------------------------------------------------------
(* _loadSchemas                                                            *)

Loading(t, here, there) ==
  /\ At(t, here) /\ Goto(t, there)
  /\ UNCHANGED <<sm, lock, db, opens, error>>

\* Mutant: the except clause does not call _cleanup.
FailNoCleanup(t, here, why) ==
  /\ At(t, here) /\ Goto(t, "raise")
  /\ error' = [error EXCEPT ![t] = why]
  /\ UNCHANGED <<schemas, sm, lock, db, mine, opens>>

\* The except clause: _cleanup drops the global manager, whoever uses it.
Fail(t, here, why) ==
  /\ At(t, here) /\ Goto(t, "raise")
  /\ global' = 0
  /\ error' = [error EXCEPT ![t] = why]
  /\ UNCHANGED <<managers, infos, complete, sm, lock, db, mine, opens>>

\* getGlobalSchemaManager tests, assigns and returns the global variable.
CheckGlobal(t) ==
  /\ Loading(t, "check", IF global = 0 THEN "create" ELSE "return")
  /\ UNCHANGED <<schemas, mine>>

CreateGlobal(t) ==
  /\ Loading(t, "create", "return")
  /\ managers' = managers + 1 /\ global' = managers + 1
  /\ UNCHANGED <<infos, complete, mine>>

ReturnGlobal(t) ==
  /\ Loading(t, "return", "fetch")
  /\ mine' = [mine EXCEPT ![t] = global]
  /\ UNCHANGED schemas

\* getNodeTypeDefs asks the server.
Fetch(t) ==
  \/ Loading(t, "fetch", "addCND") /\ UNCHANGED <<schemas, mine>>
  \/ Fail(t, "fetch", "server")

\* addData reads the text, which may have a fault, and refuses a node type that
\* is there already.  Without a manager, which another thread has dropped, addCND
\* is an AttributeError.
AddCND(t) ==
  IF mine[t] = 0 THEN Fail(t, "addCND", "dropped")
  ELSE \/ Fail(t, "addCND", "faulty")
       \/ IF \E d \in DBs : <<mine[t], d>> \in infos THEN Fail(t, "addCND", "redefined")
          ELSE Loading(t, "addCND", "update") /\ UNCHANGED <<schemas, mine>>

\* Mutant: the DB gets its manager before the classes are set.
UpdateInfosEarly(t) ==
  /\ At(t, "update") /\ Goto(t, "build")
  /\ infos' = infos \cup {<<mine[t], db[t]>>}
  /\ sm' = [sm EXCEPT ![db[t]] = mine[t]]
  /\ UNCHANGED <<global, managers, complete, lock, db, mine, opens, error>>

\* _infos.update: from now on the types are there.
UpdateInfos(t) ==
  /\ Loading(t, "update", "build")
  /\ infos' = infos \cup {<<mine[t], db[t]>>}
  /\ UNCHANGED <<global, managers, complete, mine>>

\* _buildSchemas makes the interfaces, or raises and leaves the types in _infos.
Build(t) ==
  \/ Loading(t, "build", "classes") /\ UNCHANGED <<schemas, mine>>
  \/ Fail(t, "build", "faulty")

\* addSchema for every type, and setClass; an exception of theirs too leaves what
\* is there.
SetClasses(t) ==
  \/ /\ Loading(t, "classes", "set")
     /\ complete' = complete \cup {mine[t]}
     /\ UNCHANGED <<global, managers, infos, mine>>
  \/ Fail(t, "classes", "faulty")

SetManager(t) ==
  /\ At(t, "set") /\ Goto(t, "release")
  /\ sm' = [sm EXCEPT ![db[t]] = mine[t]]
  /\ UNCHANGED <<schemas, lock, db, mine, opens, error>>

\* Mutant: the lock is not released when loading raises.
ReleaseLoaded(t) ==
  /\ pc[t] \in {"release", "raise"}
  /\ lock' = IF At(t, "raise") THEN lock ELSE [lock EXCEPT ![db[t]] = NoThread]
  /\ Goto(t, "idle")
  /\ UNCHANGED <<schemas, sm, db, mine, opens, error>>

\* The finally clause, with and without an exception.
Release(t) ==
  /\ pc[t] \in {"release", "raise"}
  /\ lock' = [lock EXCEPT ![db[t]] = NoThread]
  /\ Goto(t, "idle")
  /\ UNCHANGED <<schemas, sm, db, mine, opens, error>>

Step(t) == \/ Acquire(t) \/ CheckGlobal(t) \/ CreateGlobal(t) \/ ReturnGlobal(t)
           \/ Fetch(t) \/ AddCND(t) \/ UpdateInfos(t) \/ Build(t)
           \/ SetClasses(t) \/ SetManager(t) \/ Release(t)

Next == \E t \in Threads : Step(t) \/ \E d \in DBs : Open(t, d)

\* Every thread that can run is scheduled in the end; getNodeTypeDefs returns
\* or raises.
Spec == Init /\ [][Next]_vars /\ \A t \in Threads : WF_vars(Step(t))

-----------------------------------------------------------------------------
(* Properties.                                                             *)

\* A database whose schemas are loaded has all of them, although another
\* database's load may drop or use the same manager at any point, and may fail
\* with its types half-way in it.
LoadedIsComplete ==
  \A d \in DBs : sm[d] # 0 => <<sm[d], d>> \in infos /\ sm[d] \in complete

\* A database keeps the manager its first connection got (loadSchemas).
ManagerIsKept == [][\A d \in DBs : sm[d] # 0 => sm'[d] = sm[d]]_vars

\* Opening a connection always comes to an end: no error, in whatever order,
\* leaves a lock behind.
OpenReturns == \A t \in Threads : pc[t] = "acquire" ~> pc[t] = "idle"

\* addData refuses node types as redefined only where a load of another database
\* has put them, be it loaded, loading or failed.  What this database's own loads
\* put somewhere is never in its way: with one database, a process can load again
\* after any failure, those after _infos.update included (_cleanup, cnd.py:538-548).
RedefinedByAnother ==
  \A t \in Threads :
    pc[t] = "raise" /\ error[t] = "redefined" =>
      /\ <<mine[t], db[t]>> \notin infos
      /\ \E d \in DBs \ {db[t]} : <<mine[t], d>> \in infos

\* Who loads holds the lock of a database that has no manager yet; what the
\* database will get is not 0, and has what the steps so far have put into it.
Holds ==
  \A t \in Threads :
    /\ pc[t] \notin {"idle", "acquire"} => lock[db[t]] = t
    /\ pc[t] \in Loads => sm[db[t]] = 0
    /\ pc[t] \in {"update", "build", "classes", "set"} => mine[t] # 0
    /\ pc[t] \in {"build", "classes", "set"} => <<mine[t], db[t]>> \in infos
    /\ pc[t] = "set" => mine[t] \in complete

\* No manager is in use that was not made.
Numbered ==
  /\ global <= managers /\ \A t \in Threads : mine[t] <= managers
  /\ \A p \in infos : p[1] \in 1..managers

\* A manager with a database's types is the database's, or on its way to be, or
\* it is not the one that the next load gets.
DroppedOrKept ==
  \A p \in infos :
    \/ sm[p[2]] = p[1] \/ global # p[1]
    \/ \E u \in Threads : /\ db[u] = p[2] /\ mine[u] = p[1]
                          /\ pc[u] \in {"build", "classes", "set"}

\* A load that begins does so with a manager its database's loads have not used.
Fresh ==
  \A t \in Threads :
    pc[t] \in {"fetch", "addCND", "update"} => <<mine[t], db[t]>> \notin infos

\* The inductive invariant of the proofs.
IInv == /\ TypeOK /\ Holds /\ LoadedIsComplete
        /\ Numbered /\ DroppedOrKept /\ Fresh /\ RedefinedByAnother
=============================================================================
