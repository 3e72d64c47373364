----------------------------- MODULE JCRServer -----------------------------
(***************************************************************************)
(* The JCR stub server (server.py): one thread that serves every           *)
(* connection, a Processor per connection that drives one JCR session      *)
(* through its XAResource, and the repository the sessions share.          *)
(*                                                                         *)
(* The select loop runs a command to its end before it reads another, so   *)
(* a command is one step; the repository's own transaction timer is the    *)
(* only other thread.  The repository is external: what it does with a     *)
(* save, a prepare, a commit or a rollback is modelled from the outcomes   *)
(* the Processor handles.                                                  *)
(***************************************************************************)
EXTENDS Naturals, FiniteSets

CONSTANTS Conns,     \* connections, each accepted at most once
          Nodes,     \* nodes of the repository
          MaxXid     \* bound on Processor.xidcounter

ASSUME MaxXidAssumption == MaxXid \in Nat \ {0}

VARIABLES
  server,    \* "up", or the exception that ended acceptConnections:
             \*   "stopped"  SystemExit, command Q
             \*   "reset"    IOException of a channel
             \*   "crashed"  XAException of new()
             \*   "misused"  AttributeError, IndexError of a command out of place
  status,    \* [Conns -> {"new", "open", "session", "closed"}]
  xid,       \* [Conns -> 0..MaxXid]: Processor.xidcounter, naming Processor.xid
  prepared,  \* [Conns -> BOOLEAN]: Processor.prepared
  assoc,     \* xid the session's XAResource is associated with, 0 if none
  txn,       \* state of the current xid's transaction in the repository
  pending,   \* [Conns -> SUBSET Nodes]: changed in the session, not saved
  written,   \* [Conns -> SUBSET Nodes]: saved in the current transaction
  seen,      \* [Conns -> [Nodes -> Nat]]: version a change was made on
  version    \* [Nodes -> Nat]: committed versions

processor == <<status, xid, prepared>>
session   == <<pending, written, seen>>
vars == <<server, processor, assoc, txn, session, version>>

ServerStates == {"up", "stopped", "reset", "crashed", "misused"}
Statuses     == {"new", "open", "session", "closed"}
TxnStates    == {"none", "active", "prepared", "expired"}

TypeOK ==
  /\ server \in ServerStates
  /\ status \in [Conns -> Statuses]
  /\ xid \in [Conns -> 0..MaxXid]
  /\ prepared \in [Conns -> BOOLEAN]
  /\ assoc \in [Conns -> 0..MaxXid]
  /\ txn \in [Conns -> TxnStates]
  /\ pending \in [Conns -> SUBSET Nodes]
  /\ written \in [Conns -> SUBSET Nodes]
  /\ seen \in [Conns -> [Nodes -> Nat]]
  /\ version \in [Nodes -> Nat]

Init ==
  /\ server = "up"
  /\ status = [c \in Conns |-> "new"]
  /\ xid = [c \in Conns |-> 0]
  /\ prepared = [c \in Conns |-> FALSE]
  /\ assoc = [c \in Conns |-> 0]
  /\ txn = [c \in Conns |-> "none"]
  /\ pending = [c \in Conns |-> {}]
  /\ written = [c \in Conns |-> {}]
  /\ seen = [c \in Conns |-> [n \in Nodes |-> 0]]
  /\ version = [n \in Nodes |-> 0]

InSession(c) == server = "up" /\ status[c] = "session"

-----------------------------------------------------------------------------
(* Processor helpers and what the repository does for them.                *)

\* Mutant: a command does not end the association.
AssocKept(c) == {assoc[c]}

\* xaresource.end(xid): afterwards the session has no association, except
\* that the end of an expired transaction may fail to drop it.
AssocAfterEnd(c) == IF txn[c] = "expired" THEN {0, assoc[c]} ELSE {0}

\* Mutant: new() leaves the prepared flag alone.
NewKeepsPrepared(c) ==
  /\ xid[c] < MaxXid
  /\ xid' = [xid EXCEPT ![c] = @ + 1]
  /\ assoc' = [assoc EXCEPT ![c] = xid[c] + 1]
  /\ txn' = [txn EXCEPT ![c] = "active"]
  /\ UNCHANGED prepared

\* new(): xaresource.start(xid) of the next xid, after which nothing is prepared.
New(c) ==
  /\ xid[c] < MaxXid
  /\ xid' = [xid EXCEPT ![c] = @ + 1]
  /\ assoc' = [assoc EXCEPT ![c] = xid[c] + 1]
  /\ txn' = [txn EXCEPT ![c] = "active"]
  /\ prepared' = [prepared EXCEPT ![c] = FALSE]

\* xaresource.rollback(xid): what was saved is dropped; the session keeps its
\* unsaved changes, and nothing in the server calls session.refresh(False).
Rollback(c) ==
  /\ written' = [written EXCEPT ![c] = {}]
  /\ UNCHANGED <<pending, seen, version>>

\* Mutant: closing a connection does not log its session out.
CloseAllOnly(C) ==
  /\ status' = [c \in Conns |-> IF c \in C THEN "closed" ELSE status[c]]
  /\ UNCHANGED <<xid, prepared, assoc, txn, session, version>>

\* IO.close() of the connections C: logout rolls back and ends the session.
CloseAll(C) ==
  /\ status' = [c \in Conns |-> IF c \in C THEN "closed" ELSE status[c]]
  /\ prepared' = [c \in Conns |-> c \notin C /\ prepared[c]]
  /\ assoc' = [c \in Conns |-> IF c \in C THEN 0 ELSE assoc[c]]
  /\ txn' = [c \in Conns |-> IF c \in C THEN "none" ELSE txn[c]]
  /\ pending' = [c \in Conns |-> IF c \in C THEN {} ELSE pending[c]]
  /\ written' = [c \in Conns |-> IF c \in C THEN {} ELSE written[c]]
  /\ UNCHANGED <<xid, seen, version>>

\* An exception doRead's caller does not trap ends acceptConnections, and
\* run_server closes every connection on its way out.
Exit(how) ==
  /\ server' = how
  /\ CloseAll(Conns)

\* end(); on a live association new() fails with an XAException nobody traps.
EndThen(c, Finish) ==
  \E a \in AssocAfterEnd(c) :
    IF a = 0 THEN Finish /\ New(c) /\ UNCHANGED <<server, status>>
             ELSE Exit("crashed")

\* The session changes the nodes N: a new change is based on the version there is.
Change(c, N) ==
  seen' = [seen EXCEPT ![c] = [n \in Nodes |->
             IF n \in N \ (pending[c] \cup written[c]) THEN version[n] ELSE @[n]]]

\* The saved changes can still be committed: no node has moved on since, and
\* no other prepared transaction is about to write one of them.
Valid(c) ==
  /\ \A n \in written[c] : seen[c][n] = version[n]
  /\ \A d \in Conns \ {c} : txn[d] = "prepared" => written[c] \cap written[d] = {}

-----------------------------------------------------------------------------
(* Connections: acceptConnections, cmdLogin, cmdQuit, IO.close.            *)

Accept(c) ==
  /\ server = "up" /\ status[c] = "new"
  /\ status' = [status EXCEPT ![c] = "open"]
  /\ UNCHANGED <<server, xid, prepared, assoc, txn, session, version>>

Login(c) ==
  /\ server = "up" /\ status[c] = "open"
  /\ status' = [status EXCEPT ![c] = "session"]
  /\ New(c)
  /\ UNCHANGED <<server, session, version>>

\* Command q, end of file, or a trapped ValueError, KeyError or
\* RepositoryException: the connection is closed, the others are served on.
Close(c) ==
  /\ server = "up" /\ status[c] \in {"open", "session"}
  /\ CloseAll({c})
  /\ UNCHANGED server

\* Command Q: SystemExit.
Stop == server = "up" /\ Exit("stopped")

\* A connection is reset: the IOException of its channel's read or write is
\* not among the exceptions the select loop traps.
Reset(c) ==
  /\ server = "up" /\ status[c] \in {"open", "session"}
  /\ Exit("reset")

\* Before L there is no session, root or XAResource: p, r, i, t, T, S, /, s, m,
\* C and the end of a batch read an attribute of None.  Only ValueError,
\* KeyError and RepositoryException are trapped.
CommandBeforeLogin(c) ==
  /\ server = "up" /\ status[c] = "open"
  /\ Exit("misused")

\* An empty line where a batch has its next command: line[0] of nothing.
EmptyBatchLine(c) ==
  /\ server = "up" /\ status[c] \in {"open", "session"}
  /\ Exit("misused")

-----------------------------------------------------------------------------
(* Changes.  A client changes nothing between its prepare and its commit   *)
(* or rollback: Connection.commit, tpc_vote and abort send p, c and r.     *)

\* Mutant: a client goes on changing nodes after its prepare.
ChangingAlways(c) == InSession(c)

Changing(c) == InSession(c) /\ ~prepared[c]

\* processMultipleCommands: the commands change the nodes N, then root.save()
\* moves every unsaved change of the session into the transaction.
ProcessMultiple(c, N) ==
  /\ Changing(c)
  /\ Change(c, N)
  /\ written' = [written EXCEPT ![c] = @ \cup pending[c] \cup N]
  /\ pending' = [pending EXCEPT ![c] = {}]
  /\ UNCHANGED <<server, processor, assoc, txn, version>>

\* processMultipleCommands returning "!...": a command failed after those that
\* changed N, or the save did.  What was changed stays in the session.
ProcessMultipleFails(c, N) ==
  /\ Changing(c)
  /\ Change(c, N)
  /\ pending' = [pending EXCEPT ![c] = @ \cup N]
  /\ UNCHANGED <<server, processor, assoc, txn, written, version>>

\* cmdMove: session.move changes the moved node and both parents, unsaved.
Move(c, N) ==
  /\ Changing(c) /\ N # {}
  /\ Change(c, N)
  /\ pending' = [pending EXCEPT ![c] = @ \cup N]
  /\ UNCHANGED <<server, processor, assoc, txn, written, version>>

\* Mutant: a workspace operation takes effect outside of the transaction.
WorkspaceChangeAtOnce(c, N) ==
  /\ Changing(c) /\ N # {} /\ N \cap pending[c] = {}
  /\ version' = [n \in Nodes |-> IF n \in N THEN version[n] + 1 ELSE version[n]]
  /\ xid[c] + version[CHOOSE n \in N : TRUE] < MaxXid + 1   \* a bound on versions
  /\ UNCHANGED <<server, processor, assoc, txn, session>>

\* cmdCopy, cmdCheckpoint, cmdRestore: workspace operations, saved at once and
\* refused on a node with unsaved changes.
WorkspaceChange(c, N) ==
  /\ Changing(c) /\ N # {} /\ N \cap pending[c] = {}
  /\ Change(c, N)
  /\ written' = [written EXCEPT ![c] = @ \cup N]
  /\ UNCHANGED <<server, processor, assoc, txn, pending, version>>

-----------------------------------------------------------------------------
(* Transactions.                                                           *)

\* cmdPrepare, prepare succeeds.
Prepare(c) ==
  /\ InSession(c) /\ ~prepared[c] /\ Valid(c)
  /\ txn' = [txn EXCEPT ![c] = "prepared"]
  /\ prepared' = [prepared EXCEPT ![c] = TRUE]
  /\ UNCHANGED <<server, status, xid, assoc, session, version>>

\* Mutant: the failure path of cmdPrepare does not call new().
PrepareFailsNoNew(c) ==
  /\ InSession(c) /\ ~prepared[c]
  /\ Rollback(c)
  /\ assoc' = [assoc EXCEPT ![c] = 0]
  /\ UNCHANGED <<server, processor, txn>>

\* cmdPrepare, prepare raises, on a stale node or for a reason of the
\* repository's own: end(TMFAIL), rollback, new, "!...".
PrepareFails(c) ==
  /\ InSession(c) /\ ~prepared[c]
  /\ EndThen(c, Rollback(c))

\* xaresource.commit(xid) succeeds.  An unsaved change on top of a saved one
\* is from now on based on the version this commit makes.
CommitWritten(c) ==
  /\ version' = [n \in Nodes |-> IF n \in written[c] THEN version[n] + 1
                                                     ELSE version[n]]
  /\ written' = [written EXCEPT ![c] = {}]
  /\ seen' = [seen EXCEPT ![c] =
               [n \in Nodes |-> IF n \in written[c] THEN version[n] + 1 ELSE @[n]]]
  /\ UNCHANGED pending

\* Mutant: cmdCommit does not ask whether anything is prepared.
CommitUnprepared(c) ==
  /\ InSession(c)
  /\ EndThen(c, (txn[c] \in {"active", "prepared"} /\ CommitWritten(c)) \/ Rollback(c))

\* cmdCommit: end(TMSUCCESS), commit, or rollback if commit raises, then new.
Commit(c) ==
  /\ InSession(c) /\ prepared[c]
  /\ EndThen(c, (txn[c] = "prepared" /\ CommitWritten(c)) \/ Rollback(c))

\* cmdRollback: end(TMFAIL), rollback, new.
RollbackCmd(c) ==
  /\ InSession(c)
  /\ EndThen(c, Rollback(c))

\* The repository's timer rolls back a transaction left prepared for 5s.
Expire(c) ==
  /\ server = "up" /\ txn[c] = "prepared"
  /\ txn' = [txn EXCEPT ![c] = "expired"]
  /\ Rollback(c)
  /\ UNCHANGED <<server, processor, assoc>>

Next ==
  \/ Stop
  \/ \E c \in Conns :
       \/ Accept(c) \/ Login(c) \/ Close(c) \/ Reset(c)
       \/ CommandBeforeLogin(c) \/ EmptyBatchLine(c)
       \/ \E N \in SUBSET Nodes :
            \/ ProcessMultiple(c, N) \/ ProcessMultipleFails(c, N)
            \/ Move(c, N) \/ WorkspaceChange(c, N)
       \/ Prepare(c) \/ PrepareFails(c) \/ Commit(c) \/ RollbackCmd(c)
       \/ Expire(c)

Spec == Init /\ [][Next]_vars

-----------------------------------------------------------------------------
(* Properties.                                                             *)

\* Between two commands every session works inside the transaction its
\* Processor will prepare: the XAResource is associated with Processor.xid, so
\* that no path through cmdPrepare, cmdCommit, cmdRollback and their failures
\* leaves a session whose saves would take effect at once (server.py:223-283).
SessionInTransaction ==
  \A c \in Conns : InSession(c) => assoc[c] = xid[c] /\ txn[c] # "none"

\* Processor.prepared says what the repository knows of the transaction, its
\* timer included: cmdCommit is refused exactly when there is nothing prepared.
PreparedAgrees ==
  \A c \in Conns :
    InSession(c) => (prepared[c] <=> txn[c] \in {"prepared", "expired"})

\* A prepared transaction stays committable whatever the other connections do
\* between p and c (cmdPrepare, cmdCommit).
PreparedStaysValid ==
  \A c \in Conns : txn[c] = "prepared" => Valid(c)

\* A node is never overwritten by a transaction that worked on an older
\* version, and only a commit that was prepared makes versions (cmdCommit).
CommitsAreCurrent ==
  \A n \in Nodes :
    version'[n] # version[n] =>
      /\ version'[n] = version[n] + 1
      /\ \E c \in Conns : /\ prepared[c] /\ n \in written[c]
                          /\ seen[c][n] = version[n]
NoLostUpdate == [][CommitsAreCurrent]_vars

\* No path through p, c and r and their failures starts a transaction while the
\* session still is in another, which raises an XAException that nobody traps
\* and ends the server for every connection.  The one that does comes after the
\* repository's prepare timeout, the case the code names (server.py:248-250).
\* The server's other ends (Stop, Reset, CommandBeforeLogin, EmptyBatchLine)
\* need no such path, and this says nothing about them.
CrashIsTimeout ==
  server' = "crashed" /\ server # "crashed" =>
    \E c \in Conns : prepared[c] /\ txn[c] = "expired"
OnlyTimeoutCrashes == [][CrashIsTimeout]_vars

\* A connection without a session, and every one once the server is down,
\* leaves nothing behind: no transaction, no change, nothing prepared.
ClosedIsIdle ==
  \A c \in Conns :
    ~InSession(c) => /\ txn[c] = "none" /\ ~prepared[c]
                     /\ pending[c] = {} /\ written[c] = {}

\* A change is based on a version that was committed when it was made.
SeenInPast ==
  \A c \in Conns : \A n \in pending[c] \cup written[c] : seen[c][n] <= version[n]

\* The inductive invariant of the proofs.
IInv ==
  /\ TypeOK
  /\ SessionInTransaction
  /\ PreparedAgrees
  /\ PreparedStaysValid
  /\ ClosedIsIdle
  /\ SeenInPast

\* The server is an atomic optimistic transaction store.
Store == INSTANCE TxnStore WITH
           Clients <- Conns,
           writes <- written,
           base <- [c \in Conns |->
                     [n \in Nodes |-> IF n \in written[c] THEN seen[c][n] ELSE 0]]

\* Every step of the server, its failures and its crash included, is a step of
\* that store or leaves it alone.
ImplementsStore == Store!Spec
=============================================================================
