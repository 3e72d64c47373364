-------------------------- MODULE JCRServer_proofs --------------------------
(***************************************************************************)
(* Proofs about JCRServer, for every number of connections and nodes.      *)
(***************************************************************************)
EXTENDS JCRServer, TLAPS

-----------------------------------------------------------------------------
(* The inductive invariant holds at the start and is kept by every step.   *)

\* The server starts in the invariant.
LEMMA InitIInv == Init => IInv
  BY MaxXidAssumption
  DEF Init, IInv, TypeOK, SessionInTransaction, PreparedAgrees,
      PreparedStaysValid, ClosedIsIdle, SeenInPast, InSession, Valid,
      ServerStates, Statuses, TxnStates

\* IO.close() of any set of connections, the server's exit included.
LEMMA CloseAllIInv ==
  ASSUME IInv, NEW C \in SUBSET Conns, CloseAll(C),
         server' \in ServerStates,
         server' = server \/ C = Conns
  PROVE  IInv'
<1>1. TypeOK'
  <2>1. prepared' \in [Conns -> BOOLEAN]
    BY DEF IInv, TypeOK, CloseAll
  <2> QED BY <2>1, MaxXidAssumption DEF IInv, TypeOK, CloseAll, Statuses, TxnStates
<1>2. SessionInTransaction'
  BY DEF IInv, TypeOK, SessionInTransaction, InSession, CloseAll, ServerStates
<1>3. PreparedAgrees'
  BY DEF IInv, TypeOK, PreparedAgrees, InSession, CloseAll
<1>4. PreparedStaysValid'
  BY DEF IInv, TypeOK, PreparedStaysValid, Valid, CloseAll
<1>5. ClosedIsIdle'
  BY DEF IInv, TypeOK, ClosedIsIdle, InSession, CloseAll
<1>6. SeenInPast'
  BY DEF IInv, TypeOK, SeenInPast, CloseAll
<1> QED BY <1>1, <1>2, <1>3, <1>4, <1>5, <1>6 DEF IInv

\* The steps of a connection that end the server in one way only.
Ends(c) == Reset(c) \/ CommandBeforeLogin(c) \/ EmptyBatchLine(c)

\* The end of the select loop, for whatever reason.
LEMMA ExitIInv ==
  ASSUME IInv, NEW how \in ServerStates, Exit(how)
  PROVE  IInv'
BY CloseAllIInv DEF Exit

\* A new connection has no session yet.
LEMMA AcceptIInv ==
  ASSUME IInv, NEW c \in Conns, Accept(c)
  PROVE  IInv'
BY DEF IInv, TypeOK, SessionInTransaction, PreparedAgrees, PreparedStaysValid,
       ClosedIsIdle, SeenInPast, InSession, Valid, Accept, Statuses, session

\* A login starts the connection's first transaction.
LEMMA LoginIInv ==
  ASSUME IInv, NEW c \in Conns, Login(c)
  PROVE  IInv'
<1>1. TypeOK'
  BY MaxXidAssumption DEF IInv, TypeOK, Login, New, Statuses, TxnStates, session
<1>2. SessionInTransaction'
  BY MaxXidAssumption
  DEF IInv, TypeOK, SessionInTransaction, InSession, Login, New
<1>3. PreparedAgrees' /\ ClosedIsIdle'
  BY DEF IInv, TypeOK, PreparedAgrees, ClosedIsIdle, InSession, Login, New, session
<1>4. PreparedStaysValid' /\ SeenInPast'
  BY DEF IInv, TypeOK, PreparedStaysValid, SeenInPast, Valid, Login, New, session
<1> QED BY <1>1, <1>2, <1>3, <1>4 DEF IInv

\* What the four changing commands have in common.
LEMMA ChangeIInv ==
  ASSUME IInv, NEW c \in Conns, NEW N \in SUBSET Nodes,
         Changing(c), Change(c, N),
         NEW P \in SUBSET Nodes, NEW W \in SUBSET Nodes,
         P \cup W \subseteq pending[c] \cup written[c] \cup N,
         pending' = [pending EXCEPT ![c] = P],
         written' = [written EXCEPT ![c] = W],
         UNCHANGED <<server, processor, assoc, txn, version>>
  PROVE  IInv'
<1> USE DEF IInv, TypeOK, Changing
<1>1. TypeOK'
  BY DEF Change, processor, InSession
<1>2. SessionInTransaction' /\ PreparedAgrees' /\ ClosedIsIdle'
  BY DEF SessionInTransaction, PreparedAgrees, ClosedIsIdle, InSession, processor
<1>3. txn[c] # "prepared"
  BY DEF PreparedAgrees
<1>4. PreparedStaysValid'
  BY <1>3 DEF PreparedStaysValid, Valid, Change, processor
<1>5. SeenInPast'
  BY DEF SeenInPast, Change
<1> QED BY <1>1, <1>2, <1>4, <1>5

\* A successful prepare finds what was saved still valid.
LEMMA PrepareIInv ==
  ASSUME IInv, NEW c \in Conns, Prepare(c)
  PROVE  IInv'
<1> USE DEF IInv, TypeOK, Prepare, session
<1>1. TypeOK'
  <2>1. prepared' \in [Conns -> BOOLEAN]
    OBVIOUS
  <2> QED BY <2>1 DEF TxnStates
<1>2. SessionInTransaction' /\ PreparedAgrees' /\ ClosedIsIdle'
  BY DEF SessionInTransaction, PreparedAgrees, ClosedIsIdle, InSession
<1>3. PreparedStaysValid'
  BY DEF PreparedStaysValid, Valid
<1>4. SeenInPast'
  BY DEF SeenInPast
<1> QED BY <1>1, <1>2, <1>3, <1>4

\* The repository's timer drops what a prepared transaction saved.
LEMMA ExpireIInv ==
  ASSUME IInv, NEW c \in Conns, Expire(c)
  PROVE  IInv'
<1> USE DEF IInv, TypeOK, Expire, Rollback, processor
<1>1. TypeOK'
  BY DEF TxnStates
<1>2. SessionInTransaction' /\ PreparedAgrees' /\ ClosedIsIdle'
  BY DEF SessionInTransaction, PreparedAgrees, ClosedIsIdle, InSession
<1>3. PreparedStaysValid'
  BY DEF PreparedStaysValid, Valid
<1>4. SeenInPast'
  BY DEF SeenInPast
<1> QED BY <1>1, <1>2, <1>3, <1>4

\* The end of a transaction without effect, and the start of the next one.
LEMMA RollbackIInv ==
  ASSUME IInv, NEW c \in Conns, InSession(c), Rollback(c), New(c),
         UNCHANGED <<server, status>>
  PROVE  IInv'
<1> USE DEF IInv, TypeOK, Rollback, New
<1>1. TypeOK'
  BY MaxXidAssumption DEF TxnStates
<1>2. SessionInTransaction' /\ PreparedAgrees' /\ ClosedIsIdle'
  BY DEF SessionInTransaction, PreparedAgrees, ClosedIsIdle, InSession
<1>3. PreparedStaysValid'
  BY DEF PreparedStaysValid, Valid
<1>4. SeenInPast'
  BY DEF SeenInPast
<1> QED BY <1>1, <1>2, <1>3, <1>4

\* A commit makes new versions of nodes no other prepared transaction wrote.
LEMMA CommitIInv ==
  ASSUME IInv, NEW c \in Conns, InSession(c), txn[c] = "prepared",
         CommitWritten(c), New(c), UNCHANGED <<server, status>>
  PROVE  IInv'
<1> USE DEF IInv, TypeOK, CommitWritten, New
<1>1. TypeOK'
  BY MaxXidAssumption DEF TxnStates
<1>2. SessionInTransaction' /\ PreparedAgrees' /\ ClosedIsIdle'
  BY DEF SessionInTransaction, PreparedAgrees, ClosedIsIdle, InSession
<1>3. PreparedStaysValid'
  <2> SUFFICES ASSUME NEW d \in Conns, txn'[d] = "prepared"
               PROVE  Valid(d)'
    BY DEF PreparedStaysValid
  <2>1. d # c /\ txn[d] = "prepared"
    OBVIOUS
  <2>2. written[c] \cap written[d] = {}
    BY <2>1 DEF PreparedStaysValid, Valid
  <2> QED BY <2>1, <2>2 DEF PreparedStaysValid, Valid
<1>4. SeenInPast'
  BY DEF SeenInPast
<1> QED BY <1>1, <1>2, <1>3, <1>4

\* A step that changes nothing.
LEMMA StutterIInv ==
  ASSUME IInv, UNCHANGED vars
  PROVE  IInv'
BY DEF IInv, TypeOK, SessionInTransaction, PreparedAgrees, PreparedStaysValid,
       ClosedIsIdle, SeenInPast, InSession, Valid, vars, processor, session

\* The commands that change nodes.
LEMMA ChangingIInv ==
  ASSUME IInv, NEW c \in Conns, NEW N \in SUBSET Nodes,
         \/ ProcessMultiple(c, N)
         \/ ProcessMultipleFails(c, N)
         \/ Move(c, N)
         \/ WorkspaceChange(c, N)
  PROVE  IInv'
<1> DEFINE old == pending[c] \cup written[c]
<1>0. /\ pending[c] \in SUBSET Nodes /\ written[c] \in SUBSET Nodes
      /\ pending = [pending EXCEPT ![c] = pending[c]]
      /\ written = [written EXCEPT ![c] = written[c]]
  BY DEF IInv, TypeOK
<1>1. CASE ProcessMultiple(c, N)
  <2> DEFINE P == {}
             W == written[c] \cup pending[c] \cup N
  <2>1. /\ Changing(c) /\ Change(c, N)
        /\ pending' = [pending EXCEPT ![c] = P]
        /\ written' = [written EXCEPT ![c] = W]
        /\ UNCHANGED <<server, processor, assoc, txn, version>>
    BY <1>1 DEF ProcessMultiple
  <2>2. /\ P \in SUBSET Nodes /\ W \in SUBSET Nodes
        /\ P \cup W \subseteq pending[c] \cup written[c] \cup N
    BY <1>0
  <2> HIDE DEF P, W
  <2> QED BY <2>1, <2>2, ChangeIInv
<1>2. CASE ProcessMultipleFails(c, N) \/ Move(c, N)
  <2> DEFINE P == pending[c] \cup N
             W == written[c]
  <2>1. /\ Changing(c) /\ Change(c, N)
        /\ pending' = [pending EXCEPT ![c] = P]
        /\ written' = [written EXCEPT ![c] = W]
        /\ UNCHANGED <<server, processor, assoc, txn, version>>
    BY <1>0, <1>2 DEF ProcessMultipleFails, Move
  <2>2. /\ P \in SUBSET Nodes /\ W \in SUBSET Nodes
        /\ P \cup W \subseteq pending[c] \cup written[c] \cup N
    BY <1>0
  <2> HIDE DEF P, W
  <2> QED BY <2>1, <2>2, ChangeIInv
<1>3. CASE WorkspaceChange(c, N)
  <2> DEFINE P == pending[c]
             W == written[c] \cup N
  <2>1. /\ Changing(c) /\ Change(c, N)
        /\ pending' = [pending EXCEPT ![c] = P]
        /\ written' = [written EXCEPT ![c] = W]
        /\ UNCHANGED <<server, processor, assoc, txn, version>>
    BY <1>0, <1>3 DEF WorkspaceChange
  <2>2. /\ P \in SUBSET Nodes /\ W \in SUBSET Nodes
        /\ P \cup W \subseteq pending[c] \cup written[c] \cup N
    BY <1>0
  <2> HIDE DEF P, W
  <2> QED BY <2>1, <2>2, ChangeIInv
<1> QED BY <1>1, <1>2, <1>3

\* What each command that ends a transaction can do: finish it and start the
\* next one, or find an expired association in the way.
LEMMA EndCases ==
  ASSUME NEW c \in Conns, PrepareFails(c) \/ Commit(c) \/ RollbackCmd(c)
  PROVE  \/ /\ InSession(c) /\ Rollback(c)
            /\ New(c) /\ UNCHANGED <<server, status>>
         \/ /\ InSession(c) /\ Commit(c) /\ txn[c] = "prepared" /\ CommitWritten(c)
            /\ New(c) /\ UNCHANGED <<server, status>>
         \/ /\ InSession(c) /\ Exit("crashed")
            /\ txn[c] = "expired" /\ assoc[c] # 0
BY DEF PrepareFails, Commit, RollbackCmd, EndThen, AssocAfterEnd

\* A failed prepare, a commit and a rollback end the transaction.
LEMMA EndIInv ==
  ASSUME IInv, NEW c \in Conns, PrepareFails(c) \/ Commit(c) \/ RollbackCmd(c)
  PROVE  IInv'
<1>1. CASE Exit("crashed")
  BY <1>1, ExitIInv DEF ServerStates
<1> QED BY <1>1, EndCases, RollbackIInv, CommitIInv

\* One connection is closed.
LEMMA CloseIInv ==
  ASSUME IInv, NEW c \in Conns, Close(c)
  PROVE  IInv'
<1>1. /\ {c} \in SUBSET Conns /\ CloseAll({c})
      /\ server' = server /\ server' \in ServerStates
  BY DEF Close, IInv, TypeOK
<1> QED BY <1>1, CloseAllIInv

\* The invariant is inductive: one step per action.
LEMMA NextIInv ==
  ASSUME IInv, [Next]_vars
  PROVE  IInv'
<1>1. CASE Stop \/ \E c \in Conns : Ends(c)
  BY <1>1, ExitIInv
  DEF Stop, Ends, Reset, CommandBeforeLogin, EmptyBatchLine, ServerStates
<1>2. ASSUME NEW c \in Conns, Accept(c) \/ Login(c) \/ Close(c)
      PROVE  IInv'
  BY <1>2, AcceptIInv, LoginIInv, CloseIInv
<1>3. ASSUME NEW c \in Conns, NEW N \in SUBSET Nodes,
             \/ ProcessMultiple(c, N) \/ ProcessMultipleFails(c, N)
             \/ Move(c, N) \/ WorkspaceChange(c, N)
      PROVE  IInv'
  BY <1>3, ChangingIInv
<1>4. ASSUME NEW c \in Conns,
             Prepare(c) \/ PrepareFails(c) \/ Commit(c) \/ RollbackCmd(c) \/ Expire(c)
      PROVE  IInv'
  BY <1>4, PrepareIInv, EndIInv, ExpireIInv
<1>5. CASE UNCHANGED vars
  BY <1>5, StutterIInv
<1> QED BY <1>1, <1>2, <1>3, <1>4, <1>5 DEF Next, Ends

\* The inductive invariant, and with it the type invariant, holds in every
\* reachable state of the server.
THEOREM Invariant == Spec => []IInv
<1>1. Init => IInv
  BY InitIInv
<1>2. IInv /\ [Next]_vars => IInv'
  BY NextIInv
<1> QED BY <1>1, <1>2, PTL DEF Spec

\* The variables keep their types in every reachable state of the server.
THEOREM TypeCorrect == Spec => []TypeOK
<1>1. IInv => TypeOK
  BY DEF IInv
<1> QED BY <1>1, Invariant, PTL

\* Every session works inside the transaction its Processor will prepare.
THEOREM AlwaysInTransaction == Spec => []SessionInTransaction
<1>1. IInv => SessionInTransaction
  BY DEF IInv
<1> QED BY <1>1, Invariant, PTL

\* Once prepared, a transaction can be committed whatever the others do.
THEOREM PreparedIsSafe == Spec => []PreparedStaysValid
<1>1. IInv => PreparedStaysValid
  BY DEF IInv
<1> QED BY <1>1, Invariant, PTL

\* Processor.prepared is set exactly when the repository has the transaction
\* prepared, or had until its timer ended it (cmdPrepare, new).
THEOREM PreparedIsKnown == Spec => []PreparedAgrees
<1>1. IInv => PreparedAgrees
  BY DEF IInv
<1> QED BY <1>1, Invariant, PTL

-----------------------------------------------------------------------------
(* Action properties.                                                      *)

\* Only a successful commit makes versions.
LEMMA VersionSteps ==
  ASSUME IInv, [Next]_vars
  PROVE  \/ version' = version
         \/ \E c \in Conns : /\ InSession(c) /\ Commit(c) /\ txn[c] = "prepared"
                             /\ CommitWritten(c)
<1>1. CASE Stop \/ \E c \in Conns : Ends(c)
  BY <1>1 DEF Stop, Ends, Reset, CommandBeforeLogin, EmptyBatchLine, Exit, CloseAll
<1>2. ASSUME NEW c \in Conns, Accept(c) \/ Login(c) \/ Close(c) \/ Prepare(c) \/ Expire(c)
      PROVE  version' = version
  BY <1>2 DEF Accept, Login, Close, CloseAll, Prepare, Expire, Rollback
<1>3. ASSUME NEW c \in Conns, NEW N \in SUBSET Nodes,
             \/ ProcessMultiple(c, N) \/ ProcessMultipleFails(c, N)
             \/ Move(c, N) \/ WorkspaceChange(c, N)
      PROVE  version' = version
  BY <1>3 DEF ProcessMultiple, ProcessMultipleFails, Move, WorkspaceChange
<1>4. ASSUME NEW c \in Conns, PrepareFails(c) \/ Commit(c) \/ RollbackCmd(c)
      PROVE  \/ version' = version
             \/ /\ InSession(c) /\ Commit(c) /\ txn[c] = "prepared"
                /\ CommitWritten(c)
  BY <1>4, EndCases DEF Rollback, Exit, CloseAll
<1>5. CASE UNCHANGED vars
  BY <1>5 DEF vars
<1> QED BY <1>1, <1>2, <1>3, <1>4, <1>5 DEF Next, Ends

\* No committed change is ever overwritten by one made on an older version.
THEOREM LostUpdatesImpossible == Spec => NoLostUpdate
<1>1. ASSUME IInv, [Next]_vars
      PROVE  CommitsAreCurrent
  <2>1. CASE version' = version
    BY <2>1 DEF CommitsAreCurrent
  <2>2. ASSUME NEW c \in Conns, InSession(c), Commit(c), txn[c] = "prepared",
               CommitWritten(c)
        PROVE  CommitsAreCurrent
    <3>1. prepared[c] /\ Valid(c)
      BY <1>1, <2>2 DEF Commit, IInv, PreparedStaysValid
    <3> QED BY <1>1, <2>2, <3>1 DEF CommitsAreCurrent, CommitWritten, Valid, IInv, TypeOK
  <2> QED BY <1>1, <2>1, <2>2, VersionSteps
<1> QED BY <1>1, Invariant, PTL DEF Spec, NoLostUpdate

\* The XAException that nobody traps, and that takes the whole server down, comes
\* only after the repository's timer ended a prepared transaction.
THEOREM OnlyTimeoutsCrash == Spec => OnlyTimeoutCrashes
<1>1. ASSUME IInv, [Next]_vars
      PROVE  CrashIsTimeout
  <2>1. CASE Stop \/ \E c \in Conns : Ends(c)
    BY <2>1 DEF Stop, Ends, Reset, CommandBeforeLogin, EmptyBatchLine, Exit,
                CrashIsTimeout
  <2>2. ASSUME NEW c \in Conns,
               \/ Accept(c) \/ Login(c) \/ Close(c) \/ Prepare(c) \/ Expire(c)
        PROVE  CrashIsTimeout
    BY <2>2 DEF Accept, Login, Close, Prepare, Expire, CrashIsTimeout
  <2>3. ASSUME NEW c \in Conns, NEW N \in SUBSET Nodes,
               \/ ProcessMultiple(c, N) \/ ProcessMultipleFails(c, N)
               \/ Move(c, N) \/ WorkspaceChange(c, N)
        PROVE  CrashIsTimeout
    BY <2>3 DEF ProcessMultiple, ProcessMultipleFails, Move, WorkspaceChange,
                CrashIsTimeout
  <2>4. ASSUME NEW c \in Conns, PrepareFails(c) \/ Commit(c) \/ RollbackCmd(c)
        PROVE  CrashIsTimeout
    BY <1>1, <2>4, EndCases DEF CrashIsTimeout, IInv, PreparedAgrees
  <2>5. CASE UNCHANGED vars
    BY <2>5 DEF vars, CrashIsTimeout
  <2> QED BY <1>1, <2>1, <2>2, <2>3, <2>4, <2>5 DEF Next, Ends
<1> QED BY <1>1, Invariant, PTL DEF Spec, OnlyTimeoutCrashes

-----------------------------------------------------------------------------
(* Refinement of TxnStore.                                                 *)

storeBase == [c \in Conns |->
               [n \in Nodes |-> IF n \in written[c] THEN seen[c][n] ELSE 0]]

\* The server's initial states are initial states of the store.
LEMMA InitStore == Init => Store!Init
BY DEF Init, Store!Init

\* A step that changes none of version, written and what written is based on.
LEMMA StutterStore ==
  ASSUME UNCHANGED <<version, written>>,
         \A c \in Conns : \A n \in written[c] : seen'[c][n] = seen[c][n]
  PROVE  UNCHANGED Store!vars
BY DEF Store!vars

\* Dropping what a set of connections wrote is an abort in the store.
LEMMA AbortStore ==
  ASSUME IInv, NEW C \in SUBSET Conns,
         written' = [c \in Conns |-> IF c \in C THEN {} ELSE written[c]],
         UNCHANGED <<version, seen>>
  PROVE  Store!Abort(C)
BY DEF Store!Abort, IInv, TypeOK

\* A save or a workspace operation is a write in the store.
LEMMA WriteStore ==
  ASSUME IInv, NEW c \in Conns, NEW N \in SUBSET Nodes, NEW M \in SUBSET Nodes,
         Change(c, M), N \subseteq pending[c] \cup M,
         written' = [written EXCEPT ![c] = @ \cup N],
         UNCHANGED version
  PROVE  Store!Write(c)
<1> DEFINE f == [n \in Nodes |-> IF n \in N THEN seen'[c][n] ELSE 0]
<1> USE DEF IInv, TypeOK
<1>1. \A n \in pending[c] \cup written[c] : seen'[c][n] = seen[c][n]
  BY DEF Change
<1>2. \A n \in N : seen'[c][n] \in 0..version[n]
  <2>1. \A n \in N \cap (pending[c] \cup written[c]) :
          seen'[c][n] = seen[c][n] /\ seen[c][n] <= version[n] /\ seen[c][n] \in Nat
    BY <1>1 DEF SeenInPast
  <2>2. \A n \in N \ (pending[c] \cup written[c]) : seen'[c][n] = version[n]
    BY DEF Change
  <2>3. \A n \in N : version[n] \in Nat
    OBVIOUS
  <2>4. \A n \in N : n \in N \cap (pending[c] \cup written[c])
                    \/ n \in N \ (pending[c] \cup written[c])
    OBVIOUS
  <2> QED
    <3> TAKE n \in N
    <3> HIDE DEF IInv, TypeOK
    <3>1. CASE n \in N \cap (pending[c] \cup written[c])
      BY <2>1, <2>3, <3>1
    <3>2. CASE n \in N \ (pending[c] \cup written[c])
      BY <2>2, <2>3, <3>2
    <3> QED BY <2>4, <3>1, <3>2
<1>3. \A n \in Nodes : f[n] \in 0..version[n]
  BY <1>2
<1>4. f \in [Nodes -> UNION {0..version[n] : n \in Nodes}]
  BY <1>3
<1>5. \A n \in N : f[n] <= version[n]
  BY <1>3
<1>6. storeBase' = [storeBase EXCEPT ![c] =
                [n \in Nodes |-> IF n \in N \ written[c] THEN f[n] ELSE @[n]]]
  BY <1>1 DEF storeBase, Change
<1> HIDE DEF f
<1> QED BY <1>4, <1>5, <1>6 DEF Store!Write, storeBase

\* A commit of what is valid is a commit in the store.
LEMMA CommitStore ==
  ASSUME IInv, NEW c \in Conns, Valid(c), CommitWritten(c)
  PROVE  Store!Commit(c)
BY DEF Store!Commit, Store!Forget, IInv, TypeOK, Valid, CommitWritten

\* Rolling one connection back.
LEMMA RollbackStore ==
  ASSUME IInv, NEW c \in Conns, Rollback(c)
  PROVE  Store!Next
<1>1. written' = [d \in Conns |-> IF d \in {c} THEN {} ELSE written[d]]
  BY DEF Rollback, IInv, TypeOK
<1>2. {c} \in SUBSET Conns /\ UNCHANGED <<version, seen>>
  BY DEF Rollback
<1>3. Store!Abort({c})
  BY <1>1, <1>2, AbortStore
<1> QED BY <1>2, <1>3 DEF Store!Next

\* Closing connections aborts what they wrote in the store.
LEMMA CloseAllStore ==
  ASSUME IInv, NEW C \in SUBSET Conns, CloseAll(C)
  PROVE  Store!Next
<1>1. Store!Abort(C)
  BY AbortStore DEF CloseAll
<1> QED BY <1>1 DEF Store!Next

\* The four changing commands write in the store, or nothing.
LEMMA ChangingStore ==
  ASSUME IInv, NEW c \in Conns, NEW N \in SUBSET Nodes,
         \/ ProcessMultiple(c, N) \/ ProcessMultipleFails(c, N)
         \/ Move(c, N) \/ WorkspaceChange(c, N)
  PROVE  [Store!Next]_Store!vars
<1>1. CASE ProcessMultiple(c, N)
  <2> DEFINE W == pending[c] \cup N
  <2>1. /\ W \in SUBSET Nodes /\ W \subseteq pending[c] \cup N
        /\ Change(c, N) /\ UNCHANGED version
        /\ written' = [written EXCEPT ![c] = @ \cup W]
    BY <1>1 DEF ProcessMultiple, IInv, TypeOK
  <2> HIDE DEF W
  <2>2. Store!Write(c)
    BY <2>1, WriteStore
  <2> QED BY <2>2 DEF Store!Next
<1>2. CASE ProcessMultipleFails(c, N) \/ Move(c, N)
  <2>1. UNCHANGED <<version, written>> /\ Change(c, N)
    BY <1>2 DEF ProcessMultipleFails, Move
  <2>2. \A d \in Conns : \A n \in written[d] : seen'[d][n] = seen[d][n]
    BY <2>1 DEF Change, IInv, TypeOK
  <2> QED BY <2>1, <2>2, StutterStore
<1>3. CASE WorkspaceChange(c, N)
  <2>1. /\ Change(c, N) /\ UNCHANGED version
        /\ written' = [written EXCEPT ![c] = @ \cup N]
    BY <1>3 DEF WorkspaceChange
  <2>2. Store!Write(c)
    BY <2>1, WriteStore
  <2> QED BY <2>2 DEF Store!Next
<1> QED BY <1>1, <1>2, <1>3

\* Every step of the server is a step of the store or changes nothing there.
LEMMA NextStore ==
  ASSUME IInv, [Next]_vars
  PROVE  [Store!Next]_Store!vars
<1>1. CASE Stop \/ \E c \in Conns : Ends(c)
  BY <1>1, CloseAllStore
  DEF Stop, Ends, Reset, CommandBeforeLogin, EmptyBatchLine, Exit
<1>2. ASSUME NEW c \in Conns, Accept(c) \/ Login(c) \/ Prepare(c)
      PROVE  [Store!Next]_Store!vars
  <2>1. UNCHANGED <<version, written, seen>>
    BY <1>2 DEF Accept, Login, Prepare, session
  <2> QED BY <2>1, StutterStore
<1>3. ASSUME NEW c \in Conns, Close(c)
      PROVE  [Store!Next]_Store!vars
  <2>1. {c} \in SUBSET Conns /\ CloseAll({c})
    BY <1>3 DEF Close
  <2> QED BY <2>1, CloseAllStore
<1>4. ASSUME NEW c \in Conns, NEW N \in SUBSET Nodes,
             \/ ProcessMultiple(c, N) \/ ProcessMultipleFails(c, N)
             \/ Move(c, N) \/ WorkspaceChange(c, N)
      PROVE  [Store!Next]_Store!vars
  BY <1>4, ChangingStore
<1>5. ASSUME NEW c \in Conns, PrepareFails(c) \/ Commit(c) \/ RollbackCmd(c)
      PROVE  [Store!Next]_Store!vars
  <2>1. CASE Rollback(c)
    BY <2>1, RollbackStore
  <2>2. CASE txn[c] = "prepared" /\ CommitWritten(c)
    <3>1. Valid(c)
      BY <2>2 DEF IInv, PreparedStaysValid
    <3> QED BY <2>2, <3>1, CommitStore DEF Store!Next
  <2>3. CASE Exit("crashed")
    BY <2>3, CloseAllStore DEF Exit
  <2> QED BY <1>5, <2>1, <2>2, <2>3, EndCases
<1>6. ASSUME NEW c \in Conns, Expire(c)
      PROVE  [Store!Next]_Store!vars
  BY <1>6, RollbackStore DEF Expire
<1>7. CASE UNCHANGED vars
  BY <1>7, StutterStore DEF vars, session
<1> QED BY <1>1, <1>2, <1>3, <1>4, <1>5, <1>6, <1>7 DEF Next, Ends

\* The server implements the atomic optimistic transaction store.
THEOREM Refinement == Spec => ImplementsStore
<1>1. Init => Store!Init
  BY InitStore
<1>2. IInv /\ [Next]_vars => [Store!Next]_Store!vars
  BY NextStore
<1> QED BY <1>1, <1>2, Invariant, PTL DEF Spec, ImplementsStore, Store!Spec

=============================================================================
