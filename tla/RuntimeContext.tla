--------------------------- MODULE RuntimeContext ---------------------------
(***************************************************************************)
(* The session state of the Client in src/client/client.go: the RPC       *)
(* connection c.C, and the chain identity c.SpecVersion and c.Meta that   *)
(* checkRuntimeVersion refreshes before every GetBlockByHash and           *)
(* GetAccountInfo.  Several goroutines may call these on one Client; the  *)
(* fields are written without a lock, so each RPC and each assignment is   *)
(* a step of its own.                                                     *)
(*                                                                         *)
(* Metadata is abstracted to the spec version it describes.  The chain's  *)
(* runtime is upgraded (spec version + 1) and its connection may close at *)
(* any time.  TransactionVersion and ChainName, which every check         *)
(* overwrites, are left out.                                              *)
(***************************************************************************)
EXTENDS Naturals

CONSTANTS
    Procs,      \* goroutines calling checkRuntimeVersion on one Client
    MaxSpec,    \* bound on the chain's spec version (number of upgrades + 1)
    MaxConns,   \* bound on the connections ever opened
    Nil         \* a nil *types.Metadata

ASSUME MaxSpec \in Nat \ {0} /\ MaxConns \in Nat \ {0}

Conns == 1..MaxConns

VARIABLES
    chainSpec,  \* the spec version of the chain's runtime
    connState,  \* connState[k]: "unused", "open" or "closed"
    conn,       \* c.C: the connection the Client uses
    cSpec,      \* c.SpecVersion
    cMeta,      \* c.Meta: the spec version of the metadata held, or Nil
    pc,         \* pc[p]: where goroutine p is in checkRuntimeVersion
    ver,        \* ver[p]: the spec version p's GetRuntimeVersionLatest returned
    fetched     \* fetched[p]: the metadata p's GetMetadataLatest returned

vars == <<chainSpec, connState, conn, cSpec, cMeta, pc, ver, fetched>>

Pcs == {"idle", "version", "reconnect", "retry", "compare", "assignMeta", "assignSpec",
        "checked", "failed"}

(***************************************************************************)
(* The chain.                                                             *)
(***************************************************************************)
Upgrade ==
    /\ chainSpec < MaxSpec
    /\ chainSpec' = chainSpec + 1
    /\ UNCHANGED <<connState, conn, cSpec, cMeta, pc, ver, fetched>>

\* "tls: use of closed connection": an open connection closes.  A close
\* needs a connection left for the reconnect, so MaxConns bounds closes.
ConnectionCloses ==
    /\ \E k \in Conns : connState[k] = "unused"
    /\ \E k \in Conns :
         /\ connState[k] = "open"
         /\ connState' = [connState EXCEPT ![k] = "closed"]
    /\ UNCHANGED <<chainSpec, conn, cSpec, cMeta, pc, ver, fetched>>

(***************************************************************************)
(* checkRuntimeVersion, one goroutine p.                                  *)
(***************************************************************************)
Goto(p, l) == pc' = [pc EXCEPT ![p] = l]

\* checkRuntimeVersion returns nil, or an error, to its caller.
ReturnOk(p)  == Goto(p, "checked")
ReturnErr(p) == Goto(p, "failed")

\* GetBlockByHash, GetAccountInfo or New calls checkRuntimeVersion.
Start(p) ==
    /\ pc[p] = "idle"
    /\ Goto(p, "version")
    /\ UNCHANGED <<chainSpec, connState, conn, cSpec, cMeta, ver, fetched>>

\* v, err := GetRuntimeVersionLatest() on c.C: a closed connection sends p
\* to reconnect; any other error is returned.
GetRuntimeVersion(p) ==
    /\ pc[p] = "version"
    /\ \/ /\ connState[conn] = "open"
          /\ ver' = [ver EXCEPT ![p] = chainSpec]
          /\ Goto(p, "compare")
       \/ /\ connState[conn] = "open"
          /\ ReturnErr(p)
          /\ UNCHANGED ver
       \/ /\ connState[conn] = "closed"
          /\ Goto(p, "reconnect")
          /\ UNCHANGED ver
    /\ UNCHANGED <<chainSpec, connState, conn, cSpec, cMeta, fetched>>

\* Mutant of reConnect: c.C = cl before err is checked, so a failed
\* connect leaves c.C nil.
reConnectAssignBeforeCheck(p) ==
    /\ pc[p] = "reconnect"
    /\ \/ /\ \E k \in Conns :
               /\ connState[k] = "unused"
               /\ connState' = [connState EXCEPT ![k] = "open"]
               /\ conn' = k
          /\ Goto(p, "retry")
       \/ /\ ReturnErr(p)
          /\ conn' = Nil
          /\ UNCHANGED connState
    /\ UNCHANGED <<chainSpec, cSpec, cMeta, ver, fetched>>

\* reConnectWs: gsClient.Connect(c.url) opens connection k.  A failed
\* Connect opens nothing.
reConnectWs(k) ==
    /\ connState[k] = "unused"
    /\ connState' = [connState EXCEPT ![k] = "open"]

\* cl, err := c.reConnectWs(); c.C = cl.  The old connection is dropped
\* without being closed.  An error is returned: a failed Connect, or a
\* Connect that succeeded followed by a failed rpc.NewRPC(cl), after which
\* the new connection stays open and nothing refers to it.  MaxConns
\* bounds the connections ever opened, so such a failure leaves one
\* unused for a later reconnect.
reConnect(p) ==
    /\ pc[p] = "reconnect"
    /\ \/ /\ \E k \in Conns : reConnectWs(k) /\ conn' = k
          /\ Goto(p, "retry")
       \/ /\ \E k \in Conns :
               /\ reConnectWs(k)
               /\ \E j \in Conns \ {k} : connState[j] = "unused"
          /\ ReturnErr(p)
          /\ UNCHANGED conn
       \/ /\ ReturnErr(p)
          /\ UNCHANGED <<connState, conn>>
    /\ UNCHANGED <<chainSpec, cSpec, cMeta, ver, fetched>>

\* The second GetRuntimeVersionLatest, on whatever c.C is now; an error is
\* returned.
RetryRuntimeVersion(p) ==
    /\ pc[p] = "retry"
    /\ \/ /\ connState[conn] = "open"
          /\ ver' = [ver EXCEPT ![p] = chainSpec]
          /\ Goto(p, "compare")
       \/ /\ ReturnErr(p)
          /\ UNCHANGED ver
    /\ UNCHANGED <<chainSpec, connState, conn, cSpec, cMeta, fetched>>

\* Mutant of CompareSpec: the metadata is fetched whatever the version.
CompareSpecAlwaysFetch(p) ==
    /\ pc[p] = "compare"
    /\ \E m \in IF connState[conn] = "open" THEN {chainSpec, Nil} ELSE {Nil} :
         fetched' = [fetched EXCEPT ![p] = m]
    /\ Goto(p, "assignMeta")
    /\ UNCHANGED <<chainSpec, connState, conn, cSpec, cMeta, ver>>

\* if specVersion != c.SpecVersion: c.Meta, err = GetMetadataLatest().
\* The RPC returns the metadata of the runtime at the time it is served.
CompareSpec(p) ==
    /\ pc[p] = "compare"
    /\ \/ /\ ver[p] = cSpec
          /\ ReturnOk(p)
          /\ UNCHANGED fetched
       \/ /\ ver[p] # cSpec
          /\ \E m \in IF connState[conn] = "open" THEN {chainSpec, Nil} ELSE {Nil} :
               fetched' = [fetched EXCEPT ![p] = m]
          /\ Goto(p, "assignMeta")
    /\ UNCHANGED <<chainSpec, connState, conn, cSpec, cMeta, ver>>

\* Mutant of AssignMeta: c.SpecVersion is set even when the metadata
\* request failed.
AssignMetaAlways(p) ==
    /\ pc[p] = "assignMeta"
    /\ cMeta' = fetched[p]
    /\ Goto(p, "assignSpec")
    /\ UNCHANGED <<chainSpec, connState, conn, cSpec, ver, fetched>>

\* The assignment c.Meta = ... happens whatever the error (a failed
\* request leaves c.Meta nil); on error the check returns.
AssignMeta(p) ==
    /\ pc[p] = "assignMeta"
    /\ cMeta' = fetched[p]
    /\ IF fetched[p] = Nil THEN ReturnErr(p) ELSE Goto(p, "assignSpec")
    /\ UNCHANGED <<chainSpec, connState, conn, cSpec, ver, fetched>>

\* The caller goes on with the result (New returns, GetBlockByHash and
\* GetAccountInfo continue or return the error); the goroutine is idle.
Done(p) ==
    /\ pc[p] \in {"checked", "failed"}
    /\ Goto(p, "idle")
    /\ UNCHANGED <<chainSpec, connState, conn, cSpec, cMeta, ver, fetched>>

\* Mutant of AssignSpec: c.SpecVersion is never updated.
AssignSpecMissing(p) ==
    /\ pc[p] = "assignSpec"
    /\ ReturnOk(p)
    /\ UNCHANGED <<chainSpec, connState, conn, cSpec, cMeta, ver, fetched>>

\* c.SpecVersion = specVersion; return nil.
AssignSpec(p) ==
    /\ pc[p] = "assignSpec"
    /\ cSpec' = ver[p]
    /\ ReturnOk(p)
    /\ UNCHANGED <<chainSpec, connState, conn, cMeta, ver, fetched>>

(***************************************************************************)
(* The state after New succeeded: its own check fetched the metadata of   *)
(* the running spec version over an open connection.                     *)
(***************************************************************************)
Init ==
    /\ chainSpec = 1
    /\ connState = [k \in Conns |-> IF k = 1 THEN "open" ELSE "unused"]
    /\ conn = 1
    /\ cSpec = 1
    /\ cMeta = 1
    /\ pc = [p \in Procs |-> "idle"]
    /\ ver = [p \in Procs |-> 0]
    /\ fetched = [p \in Procs |-> Nil]

Next ==
    \/ Upgrade
    \/ ConnectionCloses
    \/ \E p \in Procs :
         \/ Start(p)
         \/ GetRuntimeVersion(p)
         \/ reConnect(p)
         \/ RetryRuntimeVersion(p)
         \/ CompareSpec(p)
         \/ AssignMeta(p)
         \/ AssignSpec(p)
         \/ Done(p)

(***************************************************************************)
(* Fairness.  An RPC returns (spec.md 5: calls carry the caller's          *)
(* timeout), so a goroutine inside the check keeps stepping; the caller  *)
(* is a block scanner that calls again after each result.  The node      *)
(* answers in the end: a request that can succeed infinitely often       *)
(* does succeed.                                                          *)
(***************************************************************************)
\* The successful outcome of each RPC step.
VersionAnswered(p)   == GetRuntimeVersion(p) /\ pc'[p] = "compare"
Reconnected(p)       == reConnect(p) /\ pc'[p] = "retry"
RetryAnswered(p)     == RetryRuntimeVersion(p) /\ pc'[p] = "compare"
MetadataAnswered(p)  == CompareSpec(p) /\ fetched'[p] # Nil

Fairness ==
    \A p \in Procs :
        /\ WF_vars(Start(p) \/ Done(p))
        /\ WF_vars(GetRuntimeVersion(p) \/ reConnect(p) \/ RetryRuntimeVersion(p)
                   \/ CompareSpec(p) \/ AssignMeta(p) \/ AssignSpec(p))
        /\ SF_vars(VersionAnswered(p))
        /\ SF_vars(Reconnected(p))
        /\ SF_vars(RetryAnswered(p))
        /\ SF_vars(MetadataAnswered(p))

Spec == Init /\ [][Next]_vars

FairSpec == Spec /\ Fairness

(***************************************************************************)
(* Properties.                                                            *)
(***************************************************************************)
TypeOK ==
    /\ chainSpec \in 1..MaxSpec
    /\ connState \in [Conns -> {"unused", "open", "closed"}]
    /\ conn \in Conns
    /\ cSpec \in 0..MaxSpec
    /\ cMeta \in 1..MaxSpec \cup {Nil}
    /\ pc \in [Procs -> Pcs]
    /\ ver \in [Procs -> 0..MaxSpec]
    /\ fetched \in [Procs -> 1..MaxSpec \cup {Nil}]

Settled == \A p \in Procs : pc[p] = "idle"

\* The refresh rule (spec.md 5, 9): once no check is in flight and the
\* Client records the chain's spec version, it holds that version's
\* metadata, so no later check will refetch it and decoding uses the
\* right schema.
MetaSettled ==
    Settled /\ cSpec = chainSpec => cMeta = chainSpec

\* Every open connection is the Client's c.C: reconnecting never leaves a
\* connection open that nothing will close (reConnectWs's NewRPC error,
\* or two goroutines both replacing c.C).
NoLeakedConnection ==
    \A k \in Conns : connState[k] = "open" => k = conn

(***************************************************************************)
(* Refinement.  Between its two assignments a check has written c.Meta    *)
(* but not yet c.SpecVersion; the mapping counts the version as written   *)
(* with the metadata, so a successful refresh is one abstract step.  With *)
(* one goroutine at most one check is between the two.                   *)
(***************************************************************************)
MappedSpec ==
    IF \E p \in Procs : pc[p] = "assignSpec"
    THEN ver[CHOOSE p \in Procs : pc[p] = "assignSpec"]
    ELSE cSpec

Refresh == INSTANCE RuntimeRefresh WITH cSpec <- MappedSpec

\* The check implements the refresh rule of spec.md 9: the Client's spec
\* version changes only when the chain reports a different one, and then
\* together with metadata fetched after that report; a failed fetch
\* leaves the version and drops the metadata.
RefinesRefresh == Refresh!Spec

\* A Client that keeps being used converges: once the chain stops
\* upgrading, c.SpecVersion and c.Meta both come to describe the running
\* runtime and stay so.
MetaEventuallyCurrent == <>[](cSpec = chainSpec /\ cMeta = chainSpec)

=============================================================================
