---------------------------- MODULE BlockParser ----------------------------
(***************************************************************************)
(* The block parser of src/client/client.go: GetBlockByHash fetches a     *)
(* block, parseExtrinsicByDecode turns its extrinsics into transfer       *)
(* entries, and parseExtrinsicByStorage reads the block's System.Events   *)
(* and decides each entry's status by correlating it with the Balances    *)
(* Transfer and System ExtrinsicFailed events.                            *)
(*                                                                         *)
(* The chain is the environment: it includes extrinsics one at a time,    *)
(* executes each and appends the events the execution deposits.  The     *)
(* client then parses the block (once the block is fetched it is         *)
(* immutable) and the scanner moves on to the next block.                 *)
(*                                                                         *)
(* Data are abstracted: an account (public key, and the SS58 address the  *)
(* code derives from it with the client's fixed prefix, an injective      *)
(* map) is a model value; an amount is a small number; the signature,     *)
(* nonce, era and length that an entry copies verbatim from its extrinsic *)
(* are left out.  An entry's txid and fee are kept, as what they are      *)
(* computed from: the hex text of its extrinsic and the block it is       *)
(* quoted at.  Indices are 0-based, as in the code's                      *)
(* `for i, extrinsic := range extrinsics` and in Phase.AsApplyExtrinsic.  *)
(***************************************************************************)
EXTENDS Naturals, Sequences, SequencesExt, FiniteSets

CONSTANTS
    Accounts,        \* public keys that appear as transfer recipients
    Amounts,         \* transfer values
    Now,             \* the value of the Timestamp.set inherent
    MaxExtrinsics,   \* bound on the number of extrinsics in a block
    MaxBatch,        \* bound on the number of calls in a Utility.batch
    BatchFunctions,  \* Balances functions a batch call may use
    NoAmount,        \* the empty string an entry's Amount keeps when unset
    NoFee,           \* the "" GetPartialFee returns with its error
    MaxFeeFailures,  \* bound on the failed payment_queryInfo calls of one query
    NoReport         \* no GetBlockByHash result yet for the current block

ASSUME MaxExtrinsics \in Nat \ {0} /\ MaxBatch \in Nat \ {0}
ASSUME NoAmount \notin Amounts /\ NoFee # NoAmount
ASSUME BatchFunctions \subseteq {"transfer", "transfer_keep_alive", "transfer_all"}

VARIABLES
    block,      \* the chain's current block: a sequence of extrinsics
    events,     \* the block's System.Events storage entry, in deposit order
    report,     \* the *models.BlockResponse GetBlockByHash returned, or NoReport
    feeAnswers  \* how each payment_queryInfo call behind the report's
                \* entries ended, in call order (a history variable)

vars == <<block, events, report, feeAnswers>>

(***************************************************************************)
(* Calls and extrinsics.  A direct transfer carries the "dest" and        *)
(* "value" params; a batch carries its "calls" param, which the decoder   *)
(* gives either as a JSON list or as some other value.  "Malformed"       *)
(* stands for an extrinsic whose decoded params have an unexpected dynamic *)
(* type (a type assertion such as param.Value.(string) panics), and       *)
(* "Undecodable" for one the extrinsic decoder rejects with an error.     *)
(***************************************************************************)
TransferFunctions == {"transfer", "transfer_keep_alive"}
BalancesFunctions == TransferFunctions \cup {"transfer_all"}

\* transfer_all has no value argument: it moves the sender's whole free
\* balance, which the model fixes as the largest amount.
FreeBalance == CHOOSE v \in Amounts : \A w \in Amounts : w <= v

CallValues(f) == IF f = "transfer_all" THEN {FreeBalance} ELSE Amounts

BalancesCall == UNION {[module: {"Balances"}, function: {f}, dest: Accounts,
                        value: CallValues(f)] : f \in BatchFunctions}
\* A batch's calls are Balances calls.  A transfer_all is a sub-call the
\* parser does not recognise but whose Transfer event the correlator sees;
\* a call that deposits no event is a batch interrupted before it.
SubCall      == BalancesCall

\* The Timestamp.set inherent, the first extrinsic of a block.
TimestampExtrinsic == [module |-> "Timestamp", now |-> Now]

\* A batch whose "calls" param the decoder does not give as a list.
NonListBatch == [module |-> "Utility", calls |-> <<>>, callsIsList |-> FALSE,
                 ran |-> 0, ok |-> TRUE]

OtherExtrinsics == {[module |-> m] : m \in {"Staking", "Malformed", "Undecodable"}}

\* Whether the chain executed the extrinsic successfully (ok) and, for a
\* batch, how many of its calls ran before one failed (ran).
Extrinsic ==
         {TimestampExtrinsic}
    \cup [module: {"Balances"}, function: BalancesFunctions, dest: Accounts,
          value: Amounts, ok: BOOLEAN]
    \cup [module: {"Utility"}, calls: Seq(SubCall), callsIsList: BOOLEAN,
          ran: Nat, ok: BOOLEAN]
    \cup OtherExtrinsics

Event ==
         [kind: {"Transfer"}, isApply: BOOLEAN, index: Nat, to: Accounts,
          value: Amounts]
    \cup [kind: {"ExtrinsicFailed"}, isApply: {TRUE}, index: Nat]

(***************************************************************************)
(* Hex text, hashes and fees.  An extrinsic's hex text is its bytes and   *)
(* whether the text starts with "0x"; a hash and a quoted fee are         *)
(* injective in what they are computed from.                              *)
(***************************************************************************)
HexText(b, prefixed) == [bytes |-> b, prefixed |-> prefixed]

\* chain_getBlock returns every extrinsic as "0x"-prefixed hex.
ChainHex(x) == HexText(x, TRUE)

\* utils.Remove0X and utils.RemoveHex0x drop a leading "0x".
Remove0X(h) == HexText(h.bytes, FALSE)

\* hex.DecodeString stops at the 'x' of a text that still starts "0x",
\* having decoded nothing.
DecodeHex(h) == IF h.prefixed THEN <<>> ELSE h.bytes

Blake2(b) == [hashOf |-> b]

\* The state a fee is quoted at: blockResp.ParentHash.
ParentHash == "parent"

\* The partialFee the node quotes for extrinsic bytes b at block `at`.
FeeAt(b, at) == [feeOf |-> b, at |-> at]

FeeAnswers == {"answered", "failed"}

\* How the n fee calls of one query can end, within the bound.
FeeAnswerSeqs(n) ==
    {ans \in [1..n -> FeeAnswers] :
        Cardinality({k \in 1..n : ans[k] = "failed"}) <= MaxFeeFailures}

\* createTxHash: "0x" + hex of blake2b-256 over the decoded bytes (the
\* decode error is ignored).
createTxHash(h) == HexText(Blake2(DecodeHex(Remove0X(h))), TRUE)

\* Mutant of GetPartialFee: the extrinsic is sent as the decoder left it,
\* without its "0x".
GetPartialFeeUnprefixed(h, at, answer) ==
    IF answer = "answered" /\ h.prefixed THEN FeeAt(h.bytes, at) ELSE NoFee

\* GetPartialFee(extrinsic, parentHash): the "0x" is put back, then
\* payment_queryInfo, whose Bytes argument the node reads only from
\* "0x"-prefixed hex.  answer is how the call ended: "answered" with a
\* string partialFee, or "failed": a transport error, a nil partialFee or
\* one that is not a string, each returned as ("", err).  Both callers in
\* parseExtrinsicByDecode keep the "" and drop the error.
GetPartialFee(h, at, answer) ==
    LET arg == IF h.prefixed THEN h ELSE HexText(h.bytes, TRUE)
    IN  IF answer = "answered" /\ arg.prefixed THEN FeeAt(arg.bytes, at) ELSE NoFee

\* parseBlockExtrinsicParams, as far as the model keeps it.
Entry == [extrinsicIdx: 0..MaxExtrinsics - 1, to: Accounts, amount: Amounts \cup {NoAmount},
          status: {"", "fail", "success"},
          txid: [bytes: [hashOf: Extrinsic], prefixed: {TRUE}],
          fee: {NoFee} \cup [feeOf: Extrinsic, at: {ParentHash}]]

Report == [result: {"ok", "error"}, timestamp: {0, Now}, entries: Seq(Entry)]

(***************************************************************************)
(* The chain: what executing an extrinsic at index i deposits.            *)
(***************************************************************************)
TransferEvent(i, call) ==
    [kind |-> "Transfer", isApply |-> TRUE, index |-> i, to |-> call.dest,
     value |-> call.value]

FailedEvent(i) == [kind |-> "ExtrinsicFailed", isApply |-> TRUE, index |-> i]

\* The calls of a batch that ran, in order, and that move funds.
RanTransfers(x) == SelectSeq(SubSeq(x.calls, 1, x.ran),
                             LAMBDA c : c.module = "Balances")

DepositedEvents(i, x) ==
    IF x.module \in {"Balances", "Utility"} /\ ~x.ok THEN <<FailedEvent(i)>>
    ELSE IF x.module = "Balances" THEN <<TransferEvent(i, x)>>
    ELSE IF x.module = "Utility"
         THEN [k \in 1..Len(RanTransfers(x)) |-> TransferEvent(i, RanTransfers(x)[k])]
    ELSE <<>>

Include(x) ==
    /\ report = NoReport
    /\ Len(block) < MaxExtrinsics
    /\ block' = Append(block, x)
    /\ events' = events \o DepositedEvents(Len(block), x)
    /\ UNCHANGED <<report, feeAnswers>>

IncludeTimestamp ==
    /\ block = <<>>
    /\ Include(TimestampExtrinsic)

IncludeTransfer ==
    \E f \in BalancesFunctions, d \in Accounts, ok \in BOOLEAN : \E v \in CallValues(f) :
        Include([module |-> "Balances", function |-> f, dest |-> d,
                 value |-> v, ok |-> ok])

\* A batch that fails as a whole runs none of its calls; one that succeeds
\* runs its calls until the first failing one (Utility.BatchInterrupted).
\* A batch whose "calls" the decoder does not give as a list is one shape:
\* its calls are invisible to the parser whatever they did.
IncludeBatch ==
    \/ \E n \in 1..MaxBatch :
         \E cs \in [1..n -> SubCall], ok \in BOOLEAN :
           \E ran \in IF ok THEN 0..n ELSE {0} :
             Include([module |-> "Utility", calls |-> cs, callsIsList |-> TRUE,
                      ran |-> ran, ok |-> ok])
    \/ Include(NonListBatch)

IncludeOther ==
    \E x \in OtherExtrinsics : Include(x)

\* A transfer made outside any extrinsic (Phase Initialization/Finalization).
DepositFinalizationTransfer ==
    /\ report = NoReport
    /\ \A e \in ToSet(events) : e.isApply
    /\ \E d \in Accounts, v \in Amounts :
         events' = Append(events, [kind |-> "Transfer", isApply |-> FALSE,
                                   index |-> 0, to |-> d, value |-> v])
    /\ UNCHANGED <<block, report, feeAnswers>>

(***************************************************************************)
(* The client.  parseExtrinsicByDecode: the params one extrinsic at index *)
(* i contributes.  A direct Balances transfer gives one entry with its    *)
(* "dest" and "value"; a Utility.batch whose "calls" is a list gives one  *)
(* entry per "dest" argument of each Balances transfer in it, and leaves   *)
(* the amount unset; everything else gives none.                          *)
(***************************************************************************)
IsTransferCall(c) == c.module = "Balances" /\ c.function \in TransferFunctions

\* The txid is computed from the extrinsic text the loop stripped of "0x";
\* the fee is set once the call order is known (WithFees).
Param(x, i, to, amount) ==
    [extrinsicIdx |-> i, to |-> to, amount |-> amount, status |-> "",
     txid |-> createTxHash(Remove0X(ChainHex(x))), fee |-> NoFee]

ParamsOf(x, i) ==
    IF x.module = "Balances" /\ IsTransferCall(x)
    THEN <<Param(x, i, x.dest, x.value)>>
    ELSE IF x.module = "Utility" /\ x.callsIsList
    THEN LET subs == SelectSeq(x.calls, IsTransferCall)
         IN [k \in 1..Len(subs) |-> Param(x, i, subs[k].dest, NoAmount)]
    ELSE <<>>

\* Mutant of RangeIndex: the extrinsic index counted from 1.
RangeIndexFromOne(p) == p

\* `for i, extrinsic := range extrinsics`: the p-th extrinsic has index
\* p - 1.
RangeIndex(p) == p - 1

\* The loop stops at the first extrinsic that fails to decode (an error
\* the caller sees) or that panics (recovered: the block yields no entries
\* but keeps the timestamp decoded so far).
Stop(blk) == SelectInSeq(blk, LAMBDA x : x.module \in {"Malformed", "Undecodable"})

Decoded(blk) == IF Stop(blk) = 0 THEN blk ELSE SubSeq(blk, 1, Stop(blk) - 1)

\* The params of each decoded extrinsic, before their fees.
CandidateCalls(blk) ==
    [p \in 1..Len(Decoded(blk)) |-> ParamsOf(Decoded(blk)[p], RangeIndex(p))]

\* GetPartialFee is called once per param, in the order params are
\* appended; the k-th call ended as ans[k].
WithFees(blk, ans) ==
    LET calls     == CandidateCalls(blk)
        before(p) == Len(FlattenSeq(SubSeq(calls, 1, p - 1)))
        hex(p)    == Remove0X(ChainHex(Decoded(blk)[p]))
    IN  FlattenSeq([p \in 1..Len(calls) |->
          [j \in 1..Len(calls[p]) |->
             [calls[p][j] EXCEPT !.fee = GetPartialFee(hex(p), ParentHash, ans[before(p) + j])]]])

FeeCalls(blk) == Len(FlattenSeq(CandidateCalls(blk)))

parseExtrinsicByDecode(blk, ans) ==
    LET stop   == Stop(blk)
        ts     == IF \E p \in 1..Len(Decoded(blk)) : Decoded(blk)[p].module = "Timestamp"
                  THEN Now ELSE 0
        params == WithFees(blk, ans)
    IN  IF stop # 0 /\ blk[stop].module = "Undecodable"
        THEN [result |-> "error", timestamp |-> 0, entries |-> <<>>]
        ELSE IF stop # 0
        THEN [result |-> "ok", timestamp |-> ts, entries |-> <<>>]
        ELSE [result |-> "ok", timestamp |-> ts, entries |-> params]

(***************************************************************************)
(* parseExtrinsicByStorage: the indices of failed extrinsics (collected   *)
(* only when the block has Transfer events), the Transfer events attached *)
(* to an extrinsic, and the status of each entry: "fail" unless some      *)
(* event has the entry's index and recipient; the last such event sets    *)
(* the amount and recipient, and the status is "success" unless the       *)
(* extrinsic failed.                                                      *)
(***************************************************************************)
IsTransferEvent(e) == e.kind = "Transfer"

FailedIndices(evs) ==
    IF SelectSeq(evs, IsTransferEvent) = <<>> THEN {}
    ELSE {evs[k].index : k \in {k \in 1..Len(evs) :
                                  evs[k].kind = "ExtrinsicFailed" /\ evs[k].isApply}}

\* Mutant of TransferResults: the Phase.IsApplyExtrinsic check dropped.
TransferResultsAnyPhase(evs) == SelectSeq(evs, IsTransferEvent)

TransferResults(evs) ==
    SelectSeq(SelectSeq(evs, IsTransferEvent), LAMBDA e : e.isApply)

\* Mutant of Correlate: the `e.ToAddress == r.To` comparison dropped.
CorrelateIgnoringRecipient(e, res, failed) ==
    LET m == SelectLastInSeq(res, LAMBDA r : r.index = e.extrinsicIdx)
    IN  IF m = 0 THEN [e EXCEPT !.status = "fail"]
        ELSE [e EXCEPT !.status = IF e.extrinsicIdx \in failed THEN "fail" ELSE "success",
                       !.amount = res[m].value,
                       !.to     = res[m].to]

Correlate(e, res, failed) ==
    LET m == SelectLastInSeq(res, LAMBDA r : r.index = e.extrinsicIdx /\ r.to = e.to)
    IN  IF m = 0 THEN [e EXCEPT !.status = "fail"]
        ELSE [e EXCEPT !.status = IF e.extrinsicIdx \in failed THEN "fail" ELSE "success",
                       !.amount = res[m].value,
                       !.to     = res[m].to]

\* storage: "ok", "error" (storage key, state_getStorageAt or event decode
\* error) or "panic" (no storage value, or a panic inside event decoding,
\* recovered by the deferred recover()).
parseExtrinsicByStorage(resp, evs, storage) ==
    IF resp.entries = <<>> \/ storage = "panic" THEN resp
    ELSE IF storage = "error"
    THEN [result |-> "error", timestamp |-> 0, entries |-> <<>>]
    ELSE LET res == TransferResults(evs)
             failed == FailedIndices(evs)
         IN [resp EXCEPT !.entries =
                [k \in 1..Len(resp.entries) |-> Correlate(resp.entries[k], res, failed)]]

\* GetBlockByNumber/GetBlockByHash: fetch is the outcome of the runtime
\* version check and the chain_getBlock call.
GetBlockByHashResult(blk, evs, fetch, storage, ans) ==
    IF fetch = "error" THEN [result |-> "error", timestamp |-> 0, entries |-> <<>>]
    ELSE IF blk = <<>> THEN [result |-> "ok", timestamp |-> 0, entries |-> <<>>]
    ELSE LET decoded == parseExtrinsicByDecode(blk, ans)
         IN  IF decoded.result = "error" THEN decoded
             ELSE parseExtrinsicByStorage(decoded, evs, storage)

GetBlockByHash ==
    /\ report = NoReport
    /\ \E fetch \in {"ok", "error"}, storage \in {"ok", "error", "panic"} :
         LET n == IF fetch = "error" \/ block = <<>> THEN 0 ELSE FeeCalls(block)
         IN  \E ans \in FeeAnswerSeqs(n) :
               /\ report' = GetBlockByHashResult(block, events, fetch, storage, ans)
               /\ feeAnswers' = IF report'.entries = <<>> THEN <<>> ELSE ans
    /\ UNCHANGED <<block, events>>

\* The scanner moves on to the next height.
NextBlock ==
    /\ report # NoReport
    /\ block' = <<>>
    /\ events' = <<>>
    /\ report' = NoReport
    /\ feeAnswers' = <<>>

Init ==
    /\ block = <<>>
    /\ events = <<>>
    /\ report = NoReport
    /\ feeAnswers = <<>>

Next ==
    \/ IncludeTimestamp
    \/ IncludeTransfer
    \/ IncludeBatch
    \/ IncludeOther
    \/ DepositFinalizationTransfer
    \/ GetBlockByHash
    \/ NextBlock

Spec == Init /\ [][Next]_vars

(***************************************************************************)
(* What the chain really did, and what spec.md section 4.1 says the       *)
(* decoder recognises: a direct Balances transfer, and each Balances      *)
(* transfer inside a Utility.batch whose "calls" param is a list.         *)
(***************************************************************************)
Recognised(x) ==
    IF x.module = "Balances" /\ IsTransferCall(x) THEN <<x>>
    ELSE IF x.module = "Utility" /\ x.callsIsList
    THEN SelectSeq(x.calls, IsTransferCall)
    ELSE <<>>

\* The recognised transfers extrinsic x executed, as <<recipient, amount>>.
Executed(x) ==
    LET ran == IF x.module = "Utility" THEN SelectSeq(SubSeq(x.calls, 1, x.ran), IsTransferCall)
               ELSE Recognised(x)
        done == IF x.module = "Utility" /\ ~x.callsIsList THEN <<>> ELSE ran
    IN  IF x.module \in {"Balances", "Utility"} /\ x.ok
        THEN [k \in 1..Len(done) |-> <<done[k].dest, done[k].value>>]
        ELSE <<>>

\* The transfers the chain made in extrinsic x, by any Balances call that
\* ran (transfer_all included), as <<recipient, amount>>.
Paid(x) ==
    IF x.module = "Balances" /\ x.ok THEN {<<x.dest, x.value>>}
    ELSE IF x.module = "Utility" /\ x.ok
    THEN {<<c.dest, c.value>> : c \in ToSet(RanTransfers(x))}
    ELSE {}

\* The candidate list of section 4.1, extrinsic by extrinsic in index order.
RECURSIVE SpecCandidates(_, _)
SpecCandidates(blk, i) ==
    IF i >= Len(blk) THEN <<>>
    ELSE [k \in 1..Len(Recognised(blk[i + 1])) |-> <<i, Recognised(blk[i + 1])[k].dest>>]
         \o SpecCandidates(blk, i + 1)

Reported == report # NoReport /\ report.result = "ok"
Panics   == \E p \in 1..Len(block) : block[p].module = "Malformed"
Resolved == \A k \in 1..Len(report.entries) : report.entries[k].status # ""
SuccessAt(i) ==
    LET s == SelectSeq(report.entries,
                       LAMBDA e : e.extrinsicIdx = i /\ e.status = "success")
    IN  [k \in 1..Len(s) |-> <<s[k].to, s[k].amount>>]

(***************************************************************************)
(* Properties.                                                            *)
(***************************************************************************)
TypeOK ==
    /\ block \in Seq(Extrinsic)
    /\ events \in Seq(Event)
    /\ report \in Report \cup {NoReport}
    /\ feeAnswers \in Seq(FeeAnswers)

\* An entry is "success" only if the chain paid its recipient, in its own
\* extrinsic, the amount the entry reports, and "fail" only if the chain
\* paid that recipient nothing there: the (index, recipient) match of
\* parseExtrinsicByStorage against ApplyExtrinsic-phase Transfer events,
\* with the ExtrinsicFailed indices, must not credit a recipient with a
\* transfer made elsewhere (another extrinsic, block finalization).
SuccessBackedByTransfer ==
    Reported =>
      \A k \in 1..Len(report.entries) :
        LET e    == report.entries[k]
            paid == Paid(block[e.extrinsicIdx + 1])
        IN  /\ e.status = "success" => <<e.to, e.amount>> \in paid
            /\ e.status = "fail" => \A t \in paid : t[1] # e.to

\* A report of a block that decodes without a panic lists exactly the
\* recognised transfers of the block, in block order, each with the index
\* of its extrinsic and the call's recipient, even after
\* parseExtrinsicByStorage has rewritten amounts and recipients from the
\* events (client.go parseExtrinsicByDecode and parseExtrinsicByStorage).
DecodeFaithful ==
    Reported /\ ~Panics =>
        [k \in 1..Len(report.entries) |->
            <<report.entries[k].extrinsicIdx, report.entries[k].to>>]
        = SpecCandidates(block, 0)

\* An entry whose status was decided is "success" exactly when its
\* extrinsic executed a recognised transfer (a transfer or
\* transfer_keep_alive, the calls the entries come from) to its
\* recipient, and then it carries the amount of such a transfer.
StatusMatchesExecution ==
    Reported =>
      \A k \in 1..Len(report.entries) :
        LET e == report.entries[k]
            done == ToSet(Executed(block[e.extrinsicIdx + 1]))
        IN  e.status # "" =>
              /\ (e.status = "success") <=> (\E t \in done : t[1] = e.to)
              /\ e.status = "success" => <<e.to, e.amount>> \in done

\* spec.md 4.2: every entry carries the fee the node quotes for its own
\* extrinsic at the parent block, and the fee is NoFee ("") only when
\* that entry's own payment_queryInfo call failed: the fee calls, one per
\* param, follow the entries in order, and the extrinsic reaches the node
\* with the "0x" the decode loop stripped put back (GetPartialFee).
FeeOfOwnExtrinsic ==
    Reported =>
      \A k \in 1..Len(report.entries) :
        LET x == block[report.entries[k].extrinsicIdx + 1]
        IN  report.entries[k].fee =
              IF feeAnswers[k] = "answered" THEN FeeAt(x, ParentHash) ELSE NoFee

StatusResolved ==
    Reported => \A k \in 1..Len(report.entries) :
                  report.entries[k].status \in {"success", "fail"}

\* spec.md 8: a recognised transfer never yields a candidate without an
\* amount.
AmountPresent ==
    Reported => \A k \in 1..Len(report.entries) :
                  report.entries[k].amount # NoAmount

=============================================================================
