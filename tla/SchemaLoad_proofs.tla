-------------------------- MODULE SchemaLoad_proofs --------------------------
(***************************************************************************)
(* Proofs about SchemaLoad, for any number of threads, databases and       *)
(* connections: what a database has loaded is complete and is kept.        *)
(***************************************************************************)
EXTENDS SchemaLoad, TLAPS

\* The part of the invariant that says who loads, and with what.
CoreInv == TypeOK /\ Holds /\ LoadedIsComplete

\* No thread is loading at the start.
LEMMA InitCoreInv == Init => CoreInv
<1> SUFFICES ASSUME Init PROVE CoreInv
  OBVIOUS
<1>1. (CHOOSE d \in DBs : TRUE) \in DBs
  BY MaxOpensAssumption
<1>2. TypeOK
  BY <1>1, MaxOpensAssumption DEF Init, TypeOK
<1>3. Holds
  BY DEF Init, Holds, Loads
<1>4. LoadedIsComplete
  BY DEF Init, LoadedIsComplete
<1> QED BY <1>2, <1>3, <1>4 DEF CoreInv

\* Opening a connection and taking the lock: a database that has a manager
\* is not loaded again.
LEMMA StartCoreInv ==
  ASSUME CoreInv, NEW t \in Threads,
         (\E d \in DBs : Open(t, d)) \/ Acquire(t)
  PROVE  CoreInv'
<1>1. CASE \E d \in DBs : Open(t, d)
  <2>1. PICK d \in DBs : Open(t, d)
    BY <1>1
  <2>2. TypeOK'
    BY <2>1, MaxOpensAssumption DEF CoreInv, TypeOK, Open, At, Goto, schemas
  <2>3. Holds'
    BY <2>1 DEF CoreInv, TypeOK, Holds, Open, At, Goto, schemas, Loads
  <2> QED BY <2>1, <2>2, <2>3 DEF CoreInv, LoadedIsComplete, Open, schemas
<1>2. CASE Acquire(t)
  <2>1. TypeOK'
    BY <1>2 DEF CoreInv, TypeOK, Acquire, At, Goto, schemas, Loads
  <2>2. Holds'
    BY <1>2, MaxOpensAssumption DEF CoreInv, TypeOK, Holds, Acquire, At, Goto, schemas, Loads
  <2> QED BY <1>2, <2>1, <2>2 DEF CoreInv, LoadedIsComplete, Acquire, schemas
<1> QED BY <1>1, <1>2

\* A load that raises gives the database nothing.
LEMMA FailCoreInv ==
  ASSUME CoreInv, NEW t \in Threads, NEW here \in Loads,
         NEW why \in Errors, Fail(t, here, why)
  PROVE  CoreInv'
<1>1. TypeOK'
  BY DEF CoreInv, TypeOK, Fail, At, Goto, Errors
<1>2. Holds'
  BY DEF CoreInv, TypeOK, Holds, Fail, At, Goto, Loads
<1> QED BY <1>1, <1>2 DEF CoreInv, LoadedIsComplete, Fail

\* An early step of a load that touches no manager: what the later steps need
\* of the thread's manager is asked only of those who have got there.
LEMMA ForwardCoreInv ==
  ASSUME CoreInv, NEW t \in Threads, NEW here \in Loads, NEW there \in {"addCND", "update"},
         Loading(t, here, there), UNCHANGED <<schemas, mine>>,
         there = "update" => mine[t] # 0
  PROVE  CoreInv'
<1>1. TypeOK'
  BY DEF CoreInv, TypeOK, Loading, At, Goto, schemas, Loads
<1>2. pc[t] \in Loads /\ pc' = [pc EXCEPT ![t] = there]
  BY DEF Loading, At, Goto
<1>3. ASSUME NEW w \in Threads \ {t} PROVE pc'[w] = pc[w]
  BY <1>2 DEF CoreInv, TypeOK
<1>4. pc'[t] = there
  BY <1>2 DEF CoreInv, TypeOK
<1>5. Holds'
  BY <1>2, <1>3, <1>4 DEF CoreInv, Holds, Loading, schemas, Loads
<1> QED BY <1>1, <1>5 DEF CoreInv, LoadedIsComplete, Loading, schemas

\* The steps of a load before the database gets its manager.
LEMMA LoadCoreInv ==
  ASSUME CoreInv, NEW t \in Threads,
         \/ CheckGlobal(t) \/ CreateGlobal(t) \/ ReturnGlobal(t) \/ Fetch(t)
         \/ AddCND(t) \/ UpdateInfos(t) \/ Build(t) \/ SetClasses(t)
  PROVE  CoreInv'
<1>1. CASE CheckGlobal(t) \/ CreateGlobal(t) \/ ReturnGlobal(t)
  <2>1. TypeOK'
    <3>1. CASE CheckGlobal(t)
      <4>1. pc' \in [Threads -> Loads \cup {"idle", "acquire", "release", "raise"}]
        BY <3>1 DEF CoreInv, TypeOK, CheckGlobal, Loading, At, Goto, Loads
      <4> QED BY <3>1, <4>1 DEF CoreInv, TypeOK, CheckGlobal, Loading, schemas
    <3>2. CASE CreateGlobal(t)
      BY <3>2 DEF CoreInv, TypeOK, CreateGlobal, Loading, At, Goto, Loads
    <3>3. CASE ReturnGlobal(t)
      BY <3>3 DEF CoreInv, TypeOK, ReturnGlobal, Loading, At, Goto, schemas, Loads
    <3> QED BY <1>1, <3>1, <3>2, <3>3
  <2>2. /\ UNCHANGED <<sm, lock, db, infos, complete>>
        /\ pc[t] \in {"check", "create", "return"} /\ pc'[t] \in {"create", "return", "fetch"}
        /\ \A w \in Threads \ {t} : pc'[w] = pc[w] /\ mine'[w] = mine[w]
    BY <1>1 DEF CoreInv, TypeOK, CheckGlobal, CreateGlobal, ReturnGlobal, Loading, At,
                Goto, schemas
  <2>3. Holds'
    BY <2>2 DEF CoreInv, Holds, Loads
  <2> QED BY <2>1, <2>2, <2>3 DEF CoreInv, LoadedIsComplete
<1>2. CASE Fetch(t)
  <2>1. CASE Fail(t, "fetch", "server")
    BY <2>1, FailCoreInv DEF Loads, Errors
  <2>2. CASE Loading(t, "fetch", "addCND") /\ UNCHANGED <<schemas, mine>>
    BY <2>2, ForwardCoreInv DEF Loads
  <2> QED BY <1>2, <2>1, <2>2 DEF Fetch
<1>3. CASE AddCND(t)
  <2>1. CASE \E why \in Errors : Fail(t, "addCND", why)
    BY <2>1, FailCoreInv DEF Loads
  <2>2. CASE mine[t] # 0 /\ Loading(t, "addCND", "update") /\ UNCHANGED <<schemas, mine>>
    BY <2>2, ForwardCoreInv DEF Loads
  <2> QED BY <1>3, <2>1, <2>2 DEF AddCND, Errors
<1>4. CASE UpdateInfos(t)
  <2>1. TypeOK'
    <3>1. pc' \in [Threads -> Loads \cup {"idle", "acquire", "release", "raise"}]
      BY <1>4 DEF CoreInv, TypeOK, UpdateInfos, Loading, At, Goto, Loads
    <3>2. infos' \subseteq Nat \X DBs
      BY <1>4 DEF CoreInv, TypeOK, UpdateInfos
    <3> QED BY <1>4, <3>1, <3>2 DEF CoreInv, TypeOK, UpdateInfos, Loading
  <2>2. /\ pc[t] = "update" /\ pc'[t] = "build"
        /\ \A w \in Threads \ {t} : pc'[w] = pc[w]
    BY <1>4 DEF CoreInv, TypeOK, UpdateInfos, Loading, At, Goto
  <2>3. /\ UNCHANGED <<sm, lock, db, mine, complete>>
        /\ infos \subseteq infos' /\ <<mine[t], db[t]>> \in infos'
    BY <1>4 DEF UpdateInfos, Loading
  <2>4. Holds'
    BY <2>2, <2>3 DEF CoreInv, Holds, Loads
  <2>5. LoadedIsComplete'
    BY <2>3 DEF CoreInv, LoadedIsComplete
  <2> QED BY <2>1, <2>4, <2>5 DEF CoreInv
<1>5. CASE Build(t)
  <2>1. CASE Fail(t, "build", "faulty")
    BY <2>1, FailCoreInv DEF Loads, Errors
  <2>2. CASE Loading(t, "build", "classes") /\ UNCHANGED <<schemas, mine>>
    <3>1. TypeOK'
      BY <2>2 DEF CoreInv, TypeOK, Loading, At, Goto, schemas, Loads
    <3>2. /\ pc[t] = "build" /\ pc'[t] = "classes"
          /\ \A w \in Threads \ {t} : pc'[w] = pc[w]
      BY <2>2 DEF CoreInv, TypeOK, Loading, At, Goto
    <3>3. UNCHANGED <<sm, lock, db, mine, complete, infos>>
      BY <2>2 DEF Loading, schemas
    <3> QED BY <3>1, <3>2, <3>3 DEF CoreInv, Holds, LoadedIsComplete, Loads
  <2> QED BY <1>5, <2>1, <2>2 DEF Build
<1>6. CASE SetClasses(t)
  <2>1. CASE Fail(t, "classes", "faulty")
    BY <2>1, FailCoreInv DEF Loads, Errors
  <2>2. CASE /\ Loading(t, "classes", "set")
             /\ complete' = complete \cup {mine[t]}
             /\ UNCHANGED <<global, managers, infos, mine>>
    <3>1. TypeOK'
      <4>1. pc' \in [Threads -> Loads \cup {"idle", "acquire", "release", "raise"}]
        BY <2>2 DEF CoreInv, TypeOK, Loading, At, Goto, Loads
      <4>2. complete' \subseteq Nat
        BY <2>2 DEF CoreInv, TypeOK
      <4> QED BY <2>2, <4>1, <4>2 DEF CoreInv, TypeOK, Loading
    <3>2. /\ pc[t] = "classes" /\ pc'[t] = "set"
          /\ \A w \in Threads \ {t} : pc'[w] = pc[w]
      BY <2>2 DEF CoreInv, TypeOK, Loading, At, Goto
    <3>3. /\ UNCHANGED <<sm, lock, db, mine, infos>>
          /\ complete \subseteq complete' /\ mine[t] \in complete'
      BY <2>2 DEF Loading
    <3>4. Holds'
      BY <3>2, <3>3 DEF CoreInv, Holds, Loads
    <3>5. LoadedIsComplete'
      BY <3>3 DEF CoreInv, LoadedIsComplete
    <3> QED BY <3>1, <3>4, <3>5 DEF CoreInv
  <2> QED BY <1>6, <2>1, <2>2 DEF SetClasses
<1> QED BY <1>1, <1>2, <1>3, <1>4, <1>5, <1>6

\* The database gets its manager, and the lock is released: no other thread is
\* loading for the same database.
LEMMA EndCoreInv ==
  ASSUME CoreInv, NEW t \in Threads, SetManager(t) \/ Release(t)
  PROVE  CoreInv'
<1>1. CASE SetManager(t)
  <2>1. TypeOK'
    BY <1>1 DEF CoreInv, TypeOK, SetManager, At, Goto, schemas, Loads
  <2>2. \A u \in Threads \ {t} : pc[u] \in Loads => db[u] # db[t]
    BY <1>1 DEF CoreInv, Holds, SetManager, At, Loads
  <2>3. Holds'
    BY <1>1, <2>2 DEF CoreInv, TypeOK, Holds, SetManager, At, Goto, schemas, Loads
  <2>4. LoadedIsComplete'
    BY <1>1 DEF CoreInv, TypeOK, Holds, LoadedIsComplete, SetManager, At, Goto, schemas
  <2> QED BY <2>1, <2>3, <2>4 DEF CoreInv
<1>2. CASE Release(t)
  <2>1. TypeOK'
    BY <1>2 DEF CoreInv, TypeOK, Release, At, Goto, schemas, Loads
  <2>2. /\ UNCHANGED <<sm, db, mine, infos, complete>>
        /\ lock' = [lock EXCEPT ![db[t]] = NoThread] /\ pc'[t] = "idle"
        /\ \A w \in Threads \ {t} : pc'[w] = pc[w]
        /\ pc[t] \in {"release", "raise"} /\ t \in Threads
    BY <1>2 DEF CoreInv, TypeOK, Release, Goto, schemas
  <2>3. \A w \in Threads \ {t} : pc[w] \notin {"idle", "acquire"} => db[w] # db[t]
    BY <2>2 DEF CoreInv, Holds
  <2>4. Holds'
    BY <2>2, <2>3 DEF CoreInv, TypeOK, Holds, Loads
  <2> QED BY <1>2, <2>1, <2>4 DEF CoreInv, LoadedIsComplete, Release, schemas
<1> QED BY <1>1, <1>2

\* The invariant is inductive.
LEMMA NextCoreInv ==
  ASSUME CoreInv, [Next]_vars
  PROVE  CoreInv'
<1>1. ASSUME NEW t \in Threads, Step(t) \/ \E d \in DBs : Open(t, d)
      PROVE  CoreInv'
  BY <1>1, StartCoreInv, LoadCoreInv, EndCoreInv DEF Step
<1>2. CASE UNCHANGED vars
  BY <1>2 DEF CoreInv, TypeOK, Holds, LoadedIsComplete, vars, schemas
<1> QED BY <1>1, <1>2 DEF Next

\* Only the load of a database without a manager gives it one.
LEMMA ManagerSteps ==
  ASSUME CoreInv, [Next]_vars
  PROVE  \A d \in DBs : sm[d] # 0 => sm'[d] = sm[d]
<1>1. ASSUME NEW t \in Threads, SetManager(t)
      PROVE  \A d \in DBs : sm[d] # 0 => sm'[d] = sm[d]
  BY <1>1 DEF CoreInv, TypeOK, Holds, SetManager, At, Loads
<1>2. CASE \A t \in Threads : ~SetManager(t)
  <2>1. sm' = sm
    BY <1>2 DEF Next, Step, Open, Acquire, CheckGlobal, CreateGlobal, ReturnGlobal,
                Fetch, AddCND, Fail, Loading, UpdateInfos, Build, SetClasses, Release, vars
  <2> QED BY <2>1
<1> QED BY <1>1, <1>2

-----------------------------------------------------------------------------
(* Managers and the types in them.                                         *)

\* What the invariant says of them.
TypesInv == Numbered /\ DroppedOrKept /\ Fresh /\ RedefinedByAnother

\* A thread that is loading has its database's lock, so that it is alone.
LEMMA OneLoads ==
  ASSUME CoreInv, NEW t \in Threads, NEW u \in Threads, db[t] = db[u],
         pc[t] \in Loads \cup {"raise"}, pc[u] \in Loads \cup {"raise"}
  PROVE  t = u
<1>1. lock[db[t]] = t /\ lock[db[u]] = u
  BY DEF CoreInv, Holds, Loads
<1> QED BY <1>1

\* Nothing is in a manager at the start.
LEMMA InitTypesInv == Init => TypesInv
BY DEF Init, TypesInv, Numbered, DroppedOrKept, Fresh, RedefinedByAnother

\* A step of one thread that puts no types anywhere and refuses nothing, and after
\* which the thread does not load, or goes on with the manager it had.
LEMMA QuietTypesInv ==
  ASSUME CoreInv, CoreInv', TypesInv, NEW t \in Threads,
         UNCHANGED <<infos, mine, sm, global, managers>>,
         pc[t] \notin {"build", "classes", "set"} \/ pc'[t] \in {"build", "classes", "set"},
         pc'[t] \in {"fetch", "addCND", "update"} => pc[t] \in {"fetch", "addCND", "update"},
         pc'[t] # "raise",
         \A u \in Threads \ {t} : db'[u] = db[u] /\ pc'[u] = pc[u] /\ error'[u] = error[u],
         pc[t] = "idle" \/ db'[t] = db[t]
  PROVE  TypesInv'
<1>1. Numbered'
  BY DEF TypesInv, Numbered
<1>2. DroppedOrKept'
  BY DEF TypesInv, DroppedOrKept
<1>3. Fresh'
  BY DEF TypesInv, Fresh
<1>4. RedefinedByAnother'
  BY DEF TypesInv, RedefinedByAnother
<1> QED BY <1>1, <1>2, <1>3, <1>4 DEF TypesInv

\* The manager that a load has used is dropped when it fails, and a load is refused
\* only by the types of others.
LEMMA FailTypesInv ==
  ASSUME CoreInv, TypesInv, NEW t \in Threads, NEW here \in Loads, NEW why \in Errors,
         Fail(t, here, why),
         why = "redefined" => here = "addCND" /\ \E d \in DBs : <<mine[t], d>> \in infos
  PROVE  TypesInv'
<1>1. /\ UNCHANGED <<infos, mine, db, sm, managers>> /\ global' = 0
      /\ pc[t] = here /\ pc'[t] = "raise" /\ error'[t] = why
      /\ \A u \in Threads \ {t} : pc'[u] = pc[u] /\ error'[u] = error[u]
  BY DEF CoreInv, TypeOK, Fail, At, Goto
<1>2. \A p \in infos : p[1] \in 1..managers
  BY DEF TypesInv, Numbered
<1>3. managers \in Nat
  BY DEF CoreInv, TypeOK
<1>4. Numbered'
  BY <1>1, <1>3 DEF TypesInv, Numbered
<1>5. DroppedOrKept'
  BY <1>1, <1>2, <1>3 DEF DroppedOrKept
<1>6. Fresh'
  BY <1>1 DEF TypesInv, Fresh
<1>7. RedefinedByAnother'
  <2> SUFFICES ASSUME NEW u \in Threads, pc'[u] = "raise", error'[u] = "redefined"
               PROVE  /\ <<mine[u], db[u]>> \notin infos
                      /\ \E d \in DBs \ {db[u]} : <<mine[u], d>> \in infos
    BY <1>1 DEF RedefinedByAnother
  <2>1. CASE u = t
    BY <1>1, <2>1 DEF TypesInv, Fresh
  <2>2. CASE u # t
    BY <1>1, <2>2 DEF TypesInv, RedefinedByAnother
  <2> QED BY <2>1, <2>2
<1> QED BY <1>4, <1>5, <1>6, <1>7 DEF TypesInv

\* A new manager has nobody's types.
LEMMA CreateTypesInv ==
  ASSUME CoreInv, TypesInv, NEW t \in Threads, CreateGlobal(t)
  PROVE  TypesInv'
<1>1. /\ UNCHANGED <<infos, mine, db, sm, error>>
      /\ managers' = managers + 1 /\ global' = managers + 1
      /\ pc[t] = "create" /\ pc'[t] = "return"
      /\ \A u \in Threads \ {t} : pc'[u] = pc[u]
  BY DEF CoreInv, TypeOK, CreateGlobal, Loading, At, Goto
<1>2. \A p \in infos : p[1] \in 1..managers
  BY DEF TypesInv, Numbered
<1>3. managers \in Nat
  BY DEF CoreInv, TypeOK
<1>4. Numbered'
  BY <1>1, <1>3 DEF CoreInv, TypeOK, TypesInv, Numbered
<1>5. DroppedOrKept'
  BY <1>1, <1>2, <1>3 DEF DroppedOrKept
<1>6. Fresh' /\ RedefinedByAnother'
  BY <1>1 DEF TypesInv, Fresh, RedefinedByAnother
<1> QED BY <1>4, <1>5, <1>6 DEF TypesInv

\* The manager that a load gets has no types of its database: a load that put them
\* there would have finished, or dropped the manager.
LEMMA ReturnTypesInv ==
  ASSUME CoreInv, TypesInv, NEW t \in Threads, ReturnGlobal(t)
  PROVE  TypesInv'
<1>1. /\ UNCHANGED <<infos, db, sm, error, global, managers>> /\ mine'[t] = global
      /\ pc[t] = "return" /\ pc'[t] = "fetch"
      /\ \A u \in Threads \ {t} : pc'[u] = pc[u] /\ mine'[u] = mine[u]
  BY DEF CoreInv, TypeOK, ReturnGlobal, Loading, At, Goto, schemas
<1>2. <<global, db[t]>> \notin infos
  <2> SUFFICES ASSUME <<global, db[t]>> \in infos PROVE FALSE
    OBVIOUS
  <2>1. global # 0
    BY DEF CoreInv, TypeOK, TypesInv, Numbered
  <2>2. sm[db[t]] = 0
    BY <1>1 DEF CoreInv, Holds, Loads
  <2>3. PICK u \in Threads : db[u] = db[t] /\ pc[u] \in {"build", "classes", "set"}
    BY <2>1, <2>2 DEF TypesInv, DroppedOrKept
  <2> QED BY <1>1, <2>3, OneLoads DEF Loads
<1>3. Numbered'
  BY <1>1 DEF TypesInv, Numbered
<1>4. DroppedOrKept'
  <2> SUFFICES ASSUME NEW p \in infos,
                      NEW u \in Threads, db[u] = p[2], mine[u] = p[1],
                      pc[u] \in {"build", "classes", "set"}
               PROVE  db[u] = p[2] /\ mine'[u] = p[1] /\ pc'[u] \in {"build", "classes", "set"}
    BY <1>1 DEF TypesInv, DroppedOrKept
  <2>1. u # t
    BY <1>1
  <2> QED BY <1>1, <2>1
<1>5. Fresh'
  BY <1>1, <1>2 DEF TypesInv, Fresh
<1>6. RedefinedByAnother'
  BY <1>1 DEF TypesInv, RedefinedByAnother
<1> QED BY <1>3, <1>4, <1>5, <1>6 DEF TypesInv

\* A load puts its types where no other load of its database works.
LEMMA UpdateTypesInv ==
  ASSUME CoreInv, TypesInv, NEW t \in Threads, UpdateInfos(t)
  PROVE  TypesInv'
<1>1. /\ UNCHANGED <<mine, db, sm, error, global, managers>>
      /\ infos' = infos \cup {<<mine[t], db[t]>>}
      /\ pc[t] = "update" /\ pc'[t] = "build"
      /\ \A u \in Threads \ {t} : pc'[u] = pc[u]
  BY DEF CoreInv, TypeOK, UpdateInfos, Loading, At, Goto
<1>2. mine[t] \in 1..managers
  <2>1. mine[t] # 0
    BY <1>1 DEF CoreInv, Holds
  <2>2. mine[t] \in Nat /\ managers \in Nat
    BY DEF CoreInv, TypeOK
  <2>3. mine[t] <= managers
    BY DEF TypesInv, Numbered
  <2> QED BY <2>1, <2>2, <2>3
<1>3. Numbered'
  BY <1>1, <1>2 DEF TypesInv, Numbered
<1>4. DroppedOrKept'
  BY <1>1 DEF TypesInv, DroppedOrKept
<1>5. \A u \in Threads \ {t} : pc[u] \in Loads \cup {"raise"} => db[u] # db[t]
  BY <1>1, OneLoads DEF Loads
<1>6. Fresh'
  BY <1>1, <1>5 DEF TypesInv, Fresh, Loads
<1>7. RedefinedByAnother'
  BY <1>1, <1>5 DEF TypesInv, RedefinedByAnother
<1> QED BY <1>3, <1>4, <1>6, <1>7 DEF TypesInv

\* The database gets the manager its load has put the types into.
LEMMA SetManagerTypesInv ==
  ASSUME CoreInv, TypesInv, NEW t \in Threads, SetManager(t)
  PROVE  TypesInv'
<1>1. /\ UNCHANGED <<infos, mine, db, error, global, managers>>
      /\ sm' = [sm EXCEPT ![db[t]] = mine[t]]
      /\ pc[t] = "set" /\ pc'[t] = "release"
      /\ \A u \in Threads \ {t} : pc'[u] = pc[u]
  BY DEF CoreInv, TypeOK, SetManager, At, Goto, schemas
<1>2. Numbered'
  BY <1>1 DEF TypesInv, Numbered
<1>3. DroppedOrKept'
  <2> SUFFICES ASSUME NEW p \in infos
               PROVE  \/ sm'[p[2]] = p[1] \/ global # p[1]
                      \/ \E u \in Threads : /\ db[u] = p[2] /\ mine[u] = p[1]
                                            /\ pc'[u] \in {"build", "classes", "set"}
    BY <1>1 DEF DroppedOrKept
  <2>1. p[2] \in DBs /\ p[1] # 0
    BY DEF CoreInv, TypeOK, TypesInv, Numbered
  <2>2. sm[db[t]] = 0
    BY <1>1 DEF CoreInv, Holds, Loads
  <2>3. CASE sm[p[2]] = p[1]
    BY <1>1, <2>1, <2>2, <2>3 DEF CoreInv, TypeOK
  <2>4. CASE global # p[1]
    BY <2>4
  <2>5. ASSUME NEW u \in Threads, db[u] = p[2], mine[u] = p[1],
               pc[u] \in {"build", "classes", "set"}
        PROVE  \/ sm'[p[2]] = p[1]
               \/ pc'[u] \in {"build", "classes", "set"}
    BY <1>1, <2>1, <2>5 DEF CoreInv, TypeOK
  <2> QED BY <2>3, <2>4, <2>5 DEF TypesInv, DroppedOrKept
<1>4. Fresh' /\ RedefinedByAnother'
  BY <1>1 DEF TypesInv, Fresh, RedefinedByAnother
<1> QED BY <1>2, <1>3, <1>4 DEF TypesInv

\* The steps that only move a thread forward.
LEMMA ForwardTypesInv ==
  ASSUME CoreInv, CoreInv', TypesInv, NEW t \in Threads,
         \/ \E d \in DBs : Open(t, d)
         \/ Acquire(t) \/ CheckGlobal(t) \/ Release(t)
         \/ /\ Loading(t, "fetch", "addCND") \/ Loading(t, "addCND", "update")
               \/ Loading(t, "build", "classes")
            /\ UNCHANGED <<schemas, mine>>
         \/ /\ Loading(t, "classes", "set")
            /\ UNCHANGED <<global, managers, infos, mine>>
  PROVE  TypesInv'
<1>1. UNCHANGED <<infos, mine, sm, global, managers>>
  BY DEF Open, Acquire, CheckGlobal, Release, Loading, schemas
<1>2. \A u \in Threads \ {t} : db'[u] = db[u] /\ pc'[u] = pc[u] /\ error'[u] = error[u]
  BY DEF CoreInv, TypeOK, Open, Acquire, CheckGlobal, Release, Loading, Goto
<1>3. pc'[t] # "raise" /\ (pc[t] = "idle" \/ db'[t] = db[t])
  BY DEF CoreInv, TypeOK, Open, Acquire, CheckGlobal, Release, Loading, Goto, At
<1>4. /\ pc[t] \notin {"build", "classes", "set"} \/ pc'[t] \in {"build", "classes", "set"}
      /\ pc'[t] \in {"fetch", "addCND", "update"} => pc[t] \in {"fetch", "addCND", "update"}
  BY DEF CoreInv, TypeOK, Open, Acquire, CheckGlobal, Release, Loading, Goto, At
<1> QED BY ONLY <1>1, <1>2, <1>3, <1>4, CoreInv, CoreInv', TypesInv, QuietTypesInv

\* Every step keeps track of whose types are where.
LEMMA NextTypesInv ==
  ASSUME CoreInv, CoreInv', TypesInv, [Next]_vars
  PROVE  TypesInv'
<1>1. CASE UNCHANGED vars
  BY <1>1 DEF TypesInv, Numbered, DroppedOrKept, Fresh, RedefinedByAnother, vars, schemas
<1>2. ASSUME NEW t \in Threads, \E d \in DBs : Open(t, d)
      PROVE  TypesInv'
  BY <1>2, ForwardTypesInv
<1>3. ASSUME NEW t \in Threads, Step(t) PROVE TypesInv'
  <2>1. CASE Acquire(t) \/ CheckGlobal(t) \/ Release(t)
    BY <2>1, ForwardTypesInv
  <2>2. CASE CreateGlobal(t) \/ ReturnGlobal(t) \/ UpdateInfos(t) \/ SetManager(t)
    BY <2>2, CreateTypesInv, ReturnTypesInv, UpdateTypesInv, SetManagerTypesInv
  <2>3. CASE Fetch(t)
    BY <2>3, ForwardTypesInv, FailTypesInv DEF Fetch, Loads, Errors
  <2>4. CASE AddCND(t)
    <3>1. CASE Fail(t, "addCND", "dropped") \/ Fail(t, "addCND", "faulty")
      BY <3>1, FailTypesInv DEF Loads, Errors
    <3>2. CASE Fail(t, "addCND", "redefined") /\ \E d \in DBs : <<mine[t], d>> \in infos
      BY <3>2, FailTypesInv DEF Loads, Errors
    <3>3. CASE Loading(t, "addCND", "update") /\ UNCHANGED <<schemas, mine>>
      BY <3>3, ForwardTypesInv
    <3> QED BY <2>4, <3>1, <3>2, <3>3 DEF AddCND
  <2>5. CASE Build(t)
    BY <2>5, ForwardTypesInv, FailTypesInv DEF Build, Loads, Errors
  <2>6. CASE SetClasses(t)
    BY <2>6, ForwardTypesInv, FailTypesInv DEF SetClasses, Loads, Errors
  <2> QED BY <1>3, <2>1, <2>2, <2>3, <2>4, <2>5, <2>6 DEF Step
<1> QED BY <1>1, <1>2, <1>3 DEF Next

-----------------------------------------------------------------------------
(* Theorems.                                                               *)

\* The inductive invariant holds: the lock of a database keeps the threads that
\* load its schemas apart, and no load gets a manager its database has used.
THEOREM Invariant == Spec => []IInv
<1>1. Init => CoreInv /\ TypesInv
  BY InitCoreInv, InitTypesInv
<1>2. CoreInv /\ TypesInv /\ [Next]_vars => (CoreInv /\ TypesInv)'
  BY NextCoreInv, NextTypesInv
<1>3. CoreInv /\ TypesInv => IInv
  BY DEF CoreInv, TypesInv, IInv
<1> QED BY <1>1, <1>2, <1>3, PTL DEF Spec

\* The schemas of a database are complete once it has them, whatever the loads
\* of other databases do to the manager they share.
THEOREM LoadedAreComplete == Spec => []LoadedIsComplete
<1>1. IInv => LoadedIsComplete
  BY DEF IInv
<1> QED BY <1>1, Invariant, PTL

\* A database never exchanges its manager for another.
THEOREM ManagersAreKept == Spec => ManagerIsKept
<1>1. IInv /\ [Next]_vars => \A d \in DBs : sm[d] # 0 => sm'[d] = sm[d]
  BY ManagerSteps DEF IInv, CoreInv
<1> QED BY <1>1, Invariant, PTL DEF Spec, ManagerIsKept

\* A load is refused as redefined only for what loads of other databases have put
\* into the manager, wherever loads fail and however the threads interleave: a
\* database's own failed loads never stand in its way (_cleanup, addData).
THEOREM OnlyOthersRedefine == Spec => []RedefinedByAnother
<1>1. IInv => RedefinedByAnother
  BY DEF IInv
<1> QED BY <1>1, Invariant, PTL
=============================================================================
