----------------------------- MODULE MCStores -----------------------------
(* The two transaction stores side by side: a behaviour is one of the      *)
(* factory's store (module FactoryTransaction, bounds in                   *)
(* MCFactoryTransaction) or one of a session (module HarnessSession: two   *)
(* processes and two releases, with two messages and one fault, or one     *)
(* message and two faults, so that a fault can hit the replay of what an   *)
(* earlier one left behind), or of solve commands (module HarnessSolve:    *)
(* one while releases change and are altered, or two that share a session). *)
EXTENDS MCFactoryTransaction, HarnessSolve

CONSTANTS c, d, n1, n2, w1, w2, NoNonce

VARIABLES which,
  session, manifest, sPrepares, sMessages, sCommits, sTorn, sLock, sPc, sOp,
  sRelease, sSeen, sMsg, sTodo, sAcked, sFaults

Session == INSTANCE HarnessSession WITH
  Releases <- {c, d}, Nonces <- {n1, n2}, MaxVersion <- 2, MaxFaults <- 1,
  prepares <- sPrepares, messages <- sMessages, commits <- sCommits,
  torn <- sTorn, lock <- sLock, pc <- sPc, op <- sOp, release <- sRelease,
  seen <- sSeen, msg <- sMsg, todo <- sTodo, acked <- sAcked, faults <- sFaults
Faulty == INSTANCE HarnessSession WITH
  Releases <- {c, d}, Nonces <- {n1, n2}, MaxVersion <- 1, MaxFaults <- 2,
  prepares <- sPrepares, messages <- sMessages, commits <- sCommits,
  torn <- sTorn, lock <- sLock, pc <- sPc, op <- sOp, release <- sRelease,
  seen <- sSeen, msg <- sMsg, todo <- sTodo, acked <- sAcked, faults <- sFaults

OneDeployment == [r \in {c, d} |-> Nothing]
Solves == INSTANCE HarnessSolve WITH Release <- {c},
  Deployment <- OneDeployment, Solver <- {p1, p2}, Workspace <- {w1, w2},
  MaxMoves <- 0, MaxEdits <- 0

ASSUME Session!SessionAssumption /\ Faulty!SessionAssumption

sVars == <<session, manifest, sPrepares, sMessages, sCommits, sTorn, sLock, sPc, sOp,
           sRelease, sSeen, sMsg, sTodo, sAcked, sFaults>>

StoresInit ==
  /\ which \in {"factory", "session", "faulty", "solve", "solves"}
  /\ Init /\ Session!Init
  /\ which \notin {"session", "faulty"} => sRelease = [p \in Procs |-> c]
  /\ IF which = "solve" THEN SolveInit ELSE Solves!SolveInit

StoresNext ==
  \/ which = "factory" /\ Next /\ UNCHANGED <<which, sVars, solveVars>>
  \/ which = "session" /\ Session!Next /\ UNCHANGED <<which, vars, solveVars>>
  \/ which = "faulty" /\ Faulty!Next /\ UNCHANGED <<which, vars, solveVars>>
  \/ which = "solve" /\ SolveNext /\ UNCHANGED <<which, vars, sVars>>
  \/ which = "solves" /\ Solves!SolveNext /\ UNCHANGED <<which, vars, sVars>>

StoresSpec == StoresInit /\ [][StoresNext]_<<which, vars, sVars, solveVars>>

StoresSymmetry == Symmetry \cup Permutations({n1, n2})

(* See the modules for the properties.                                     *)
StoresTypeOK ==
  CASE which = "factory" -> TypeOK
    [] which = "session" -> Session!TypeOK
    [] which = "faulty" -> Faulty!TypeOK
    [] which = "solve" -> SolveTypeOK
    [] OTHER -> Solves!SolveTypeOK
SessionIsSound ==
  /\ which \in {"session", "faulty"} => Session!SessionIsSound
  /\ which = "solves" => Solves!SolvesAreAccountable

(* Both stores implement an append-only log, and a session's manifest      *)
(* never goes back.                                                        *)
StoresAreLogs ==
  RefinesAppendLog /\ Session!RefinesAppendLog /\ Session!ManifestNeverRegresses
=============================================================================
