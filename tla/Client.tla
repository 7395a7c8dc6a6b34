------------------------------- MODULE Client -------------------------------
(***************************************************************************)
(* The Client's queries composed with its runtime session                 *)
(* (src/client/client.go): GetBlockByNumber/GetBlockByHash and            *)
(* GetAccountInfo each run checkRuntimeVersion (RuntimeContext) and then  *)
(* read c.Meta, with no lock, while other goroutines may be refreshing it.*)
(*                                                                         *)
(* A block is abstracted to the spec version of the runtime that produced *)
(* it; the block decoder (BlockParser) is abstracted to the outcomes the  *)
(* query branches on, and to the metadata each of its reads of c.Meta     *)
(* saw: parseExtrinsicByDecode reads it for the extrinsics,               *)
(* parseExtrinsicByStorage once for the storage key and again, after the  *)
(* storage RPC, for the events.                                           *)
(*                                                                         *)
(* GetGenesisHash and GetPartialFeeDetail call the node over c.C without   *)
(* the runtime check.  The second has no recover, so a panic in it ends   *)
(* the process and with it every goroutine.                               *)
(***************************************************************************)
EXTENDS RuntimeContext, FiniteSets

CONSTANT NoResult   \* no result returned yet

VARIABLES
    query,      \* query[p]: "block" or "account", the call goroutine p is in
    blockSpec,  \* blockSpec[p]: the spec version of the block p fetches
    metaUsed,   \* metaUsed[p]: the metadata p's decoding has read so far
    result,     \* result[p]: what p's last call returned
    genesisHash, \* c.genesisHash: "" until a GetGenesisHash succeeds
    crashed     \* an unrecovered panic ended the process

clientVars == <<vars, query, blockSpec, metaUsed, result, genesisHash, crashed>>

ClientPcs == Pcs \cup {"storageKey", "decodeEvents"}

Results == {NoResult, "ok", "error", "account", "nilnil", "genesis", "empty", "feeDetail"}

\* The steps of checkRuntimeVersion leave the caller's state alone.
Check(p) ==
    /\ \/ GetRuntimeVersion(p)
       \/ reConnect(p)
       \/ RetryRuntimeVersion(p)
       \/ CompareSpec(p)
       \/ AssignMeta(p)
       \/ AssignSpec(p)
    /\ UNCHANGED <<query, blockSpec, metaUsed, result>>

Environment ==
    /\ Upgrade \/ ConnectionCloses
    /\ UNCHANGED <<query, blockSpec, metaUsed, result>>

\* GetBlockByNumber(height) / GetBlockByHash of a block at or below the
\* head, or GetAccountInfo; each begins with checkRuntimeVersion.  (A
\* caller with the hash calls GetBlockByHash directly.)
StartQuery(p) ==
    /\ Start(p)
    /\ \/ /\ query' = [query EXCEPT ![p] = "account"]
          /\ UNCHANGED blockSpec
       \/ /\ query' = [query EXCEPT ![p] = "block"]
          /\ \E b \in 1..chainSpec : blockSpec' = [blockSpec EXCEPT ![p] = b]
    /\ metaUsed' = [metaUsed EXCEPT ![p] = {}]
    /\ result' = [result EXCEPT ![p] = NoResult]

\* GetBlockByNumber: chain_getBlockHash(height) on c.C fails (always, on a
\* closed connection) and the error is returned before any check.
GetBlockHashFailed(p) ==
    /\ pc[p] = "idle"
    /\ result' = [result EXCEPT ![p] = "error"]
    /\ query' = [query EXCEPT ![p] = "block"]
    /\ UNCHANGED <<vars, blockSpec, metaUsed>>

Finish(p, r) ==
    /\ Goto(p, "idle")
    /\ result' = [result EXCEPT ![p] = r]

\* if err != nil { return nil, err } after checkRuntimeVersion.
CheckFailed(p) ==
    /\ pc[p] = "failed"
    /\ Finish(p, "error")
    /\ UNCHANGED <<chainSpec, connState, conn, cSpec, cMeta, ver, fetched,
                   query, blockSpec, metaUsed>>

\* What decoding a block's extrinsics with metadata m can give: an error,
\* no candidates (none in the block, or a panic recovered into an empty
\* block), or candidates.  With no metadata the decoder has no schema.
DecodeOutcomes(m) ==
    IF m = Nil THEN {"error", "noCandidates"} ELSE {"error", "noCandidates", "candidates"}

\* chain_getBlock (an error is returned), then parseExtrinsicByDecode with
\* expand.NewExtrinsicDecoder(c.Meta).  With no candidates the events are
\* never read.
GetBlock(p) ==
    /\ pc[p] = "checked"
    /\ query[p] = "block"
    /\ \/ /\ Finish(p, "error")
          /\ UNCHANGED metaUsed
       \/ \E o \in DecodeOutcomes(cMeta) :
            /\ metaUsed' = [metaUsed EXCEPT ![p] = @ \cup {cMeta}]
            /\ IF o = "candidates" THEN Goto(p, "storageKey") /\ UNCHANGED result
               ELSE Finish(p, IF o = "error" THEN "error" ELSE "ok")
    /\ UNCHANGED <<chainSpec, connState, conn, cSpec, cMeta, ver, fetched, query, blockSpec>>

\* types.CreateStorageKey(c.Meta, "System", "Events"): a nil c.Meta panics,
\* and the recovered panic returns nil: the block is reported as it was
\* decoded.
StorageKey(p) ==
    /\ pc[p] = "storageKey"
    /\ metaUsed' = [metaUsed EXCEPT ![p] = @ \cup {cMeta}]
    /\ IF cMeta = Nil THEN Finish(p, "ok")
       ELSE Goto(p, "decodeEvents") /\ UNCHANGED result
    /\ UNCHANGED <<chainSpec, connState, conn, cSpec, cMeta, ver, fetched, query, blockSpec>>

\* state_getStorageAt (an error is returned), then
\* expand.DecodeEventRecords(c.Meta, ...) and the correlation.
DecodeEvents(p) ==
    /\ pc[p] = "decodeEvents"
    /\ \/ /\ Finish(p, "error")
          /\ UNCHANGED metaUsed
       \/ /\ metaUsed' = [metaUsed EXCEPT ![p] = @ \cup {cMeta}]
          /\ \E r \in {"ok", "error"} : Finish(p, r)
    /\ UNCHANGED <<chainSpec, connState, conn, cSpec, cMeta, ver, fetched, query, blockSpec>>

\* GetAccountInfo after its check: CreateStorageKey(c.Meta, "System",
\* "Account", pub) panics on a nil c.Meta; the deferred recover sets only
\* the local err, so the call returns (nil, nil).  Otherwise
\* GetStorageLatest gives the account or an error.
GetAccountInfo(p) ==
    /\ pc[p] = "checked"
    /\ query[p] = "account"
    /\ IF cMeta = Nil THEN Finish(p, "nilnil")
       ELSE \E r \in {"account", "error"} : Finish(p, r)
    /\ UNCHANGED <<chainSpec, connState, conn, cSpec, cMeta, ver, fetched,
                   query, blockSpec, metaUsed>>

Answer(p, r) ==
    /\ result' = [result EXCEPT ![p] = r]
    /\ UNCHANGED <<vars, query, blockSpec, metaUsed>>

\* Mutant of GetGenesisHash: c.genesisHash = hash.Hex() before err is
\* checked, so a failed call caches the hex of the zero hash.
GetGenesisHashCachingError(p) ==
    /\ pc[p] = "idle"
    /\ IF genesisHash # ""
       THEN Answer(p, "genesis") /\ UNCHANGED genesisHash
       ELSE \/ /\ connState[conn] = "open"
               /\ genesisHash' = "genesis"
               /\ Answer(p, "genesis")
            \/ /\ Answer(p, "empty")
               /\ genesisHash' = "zeroHash"
    /\ UNCHANGED crashed

\* GetGenesisHash: the cached hash, or chain_getBlockHash(0) on c.C, cached
\* when it succeeds.  An RPC error (always, on a closed connection, which
\* only checkRuntimeVersion replaces) returns "" and no error.
GetGenesisHash(p) ==
    /\ pc[p] = "idle"
    /\ IF genesisHash # ""
       THEN Answer(p, "genesis") /\ UNCHANGED genesisHash
       ELSE \/ /\ connState[conn] = "open"
               /\ genesisHash' = "genesis"
               /\ Answer(p, "genesis")
            \/ /\ Answer(p, "empty")
               /\ UNCHANGED genesisHash
    /\ UNCHANGED crashed

\* GetPartialFeeDetail: payment_queryFeeDetails on c.C returns an error
\* (always, on a closed connection), or a result whose inclusionFee is a
\* map, or null (as for an unsigned extrinsic).  result["inclusionFee"].
\* (map[string]interface{}) on null panics, and nothing recovers.
GetPartialFeeDetail(p) ==
    /\ pc[p] = "idle"
    /\ \/ /\ Answer(p, "error")
          /\ UNCHANGED crashed
       \/ /\ connState[conn] = "open"
          /\ \/ Answer(p, "feeDetail") /\ UNCHANGED crashed
             \/ /\ crashed' = TRUE
                /\ UNCHANGED <<vars, query, blockSpec, metaUsed, result>>
    /\ UNCHANGED genesisHash

\* A stopped process takes no more steps.
Halted ==
    /\ crashed
    /\ UNCHANGED clientVars

ClientInit ==
    /\ Init
    /\ query = [p \in Procs |-> "block"]
    /\ blockSpec = [p \in Procs |-> 1]
    /\ metaUsed = [p \in Procs |-> {}]
    /\ result = [p \in Procs |-> NoResult]
    /\ genesisHash = ""
    /\ crashed = FALSE

\* The queries and the chain leave the genesis cache alone.
ClientNext ==
    \/ /\ ~crashed
       /\ \/ /\ \/ Environment
                \/ \E p \in Procs :
                     \/ StartQuery(p)
                     \/ GetBlockHashFailed(p)
                     \/ Check(p)
                     \/ CheckFailed(p)
                     \/ GetBlock(p)
                     \/ StorageKey(p)
                     \/ DecodeEvents(p)
                     \/ GetAccountInfo(p)
             /\ UNCHANGED <<genesisHash, crashed>>
          \/ \E p \in Procs : GetGenesisHash(p) \/ GetPartialFeeDetail(p)
    \/ Halted

ClientSpec == ClientInit /\ [][ClientNext]_clientVars

(***************************************************************************)
(* Properties.                                                            *)
(***************************************************************************)
ClientTypeOK ==
    /\ pc \in [Procs -> ClientPcs]
    /\ query \in [Procs -> {"block", "account"}]
    /\ blockSpec \in [Procs -> 1..MaxSpec]
    /\ metaUsed \in [Procs -> SUBSET (1..MaxSpec \cup {Nil})]
    /\ result \in [Procs -> Results]
    /\ genesisHash \in {"", "genesis"}
    /\ crashed \in BOOLEAN

BlockOk(p) == query[p] = "block" /\ result[p] = "ok"

\* spec.md 7: an account lookup fails atomically with its cause; it never
\* returns neither an account nor an error (the recovered panic of
\* GetAccountInfo after a check that left c.Meta nil).
AccountInfoAnswered == \A p \in Procs : result[p] # "nilnil"

\* A block reported without error was decoded with metadata: never with
\* the nil c.Meta a failed refresh leaves, which the decoder turns into a
\* block with no transfers.
BlockDecodedWithMetadata == \A p \in Procs : BlockOk(p) => Nil \notin metaUsed[p]

\* spec.md 5: decoding reads an immutable chain-identity context, so the
\* extrinsics and the events of one block are decoded with one metadata.
BlockReadOneMetadata == \A p \in Procs : BlockOk(p) => Cardinality(metaUsed[p]) <= 1

\* A block reported without error was decoded with the metadata of the
\* runtime that produced it.
BlockDecodedWithItsRuntime == \A p \in Procs : BlockOk(p) => metaUsed[p] \subseteq {blockSpec[p]}

\* spec.md 7: a fee query fails atomically and reports its cause:
\* GetPartialFeeDetail returns a fee breakdown or an error, and never ends
\* the process.
FeeDetailAnswered == ~crashed

=============================================================================
