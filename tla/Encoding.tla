------------------------------ MODULE Encoding ------------------------------
(***************************************************************************)
(* How a solution becomes a block (block_builder.py): the coinbase, the    *)
(* merkle root the miners are sent, and the block that is submitted.       *)
(* A transaction is a sequence of bytes, with two simplifications that     *)
(* keep every position the parsers compute in step with the writers: a     *)
(* field of fixed width is its number and filler, and a digest is one cell *)
(* instead of 32.  Hashing is injective, and no hash is all zeros.         *)
(***************************************************************************)
EXTENDS Fees, Sequences, SequencesExt

sha256d(data) == [digest |-> data]
ZeroHash == [digest |-> <<>>]

Field(n, width) == <<n>> \o [i \in 1 .. width - 1 |-> 0]

\* A number without its last i digits.
Shifted(n, base, width) ==
    LET high[i \in 0 .. width] == IF i = 0 THEN n ELSE high[i - 1] \div base
    IN  high
LittleEndian(n, width) ==
    LET high == Shifted(n, 256, width)
    IN  [i \in 1 .. width |-> high[i - 1] % 256]
Number(data, pos, width) ==
    LET from[i \in 0 .. width] ==
            IF i = width THEN 0 ELSE data[pos + i] + 256 * from[i + 1]
    IN  from[0]

-----------------------------------------------------------------------------
(* Variable-length integers *)

\* A number of 64 bits.
Fits(n) == (((n \div 65536) \div 65536) \div 65536) < 65536

IsUpToMarker(n) == n <= 253
IsOneByte(n) == n < 253

varint(n) ==
    IF IsOneByte(n) THEN <<n>>
    ELSE IF n < 65536 THEN <<253>> \o LittleEndian(n, 2)
    ELSE IF n \div 65536 < 65536 THEN <<254>> \o LittleEndian(n, 4)
    ELSE <<255>> \o LittleEndian(n, 8)

\* At each position the number there, and the position behind it.
read_varint(data) ==
    [pos \in DOMAIN data |->
        LET width == CASE data[pos] < 253 -> 0 [] data[pos] = 253 -> 2
                       [] data[pos] = 254 -> 4 [] data[pos] = 255 -> 8
        IN  [value |-> IF width = 0 THEN data[pos]
                       ELSE Number(data, pos + 1, width),
             pos |-> pos + 1 + width]]

\* A counted list begins at pos; each item is a script with some bytes before
\* and behind it.  at[i] is where the rest begins after i items.
Items(data, pos, before, behind) ==
    LET count == read_varint(data)[pos]
        behindItem == [p \in DOMAIN data |->
            LET script == read_varint(data)[p + before]
            IN  script.pos + script.value + behind]
        at[i \in 0 .. count.value] == IF i = 0 THEN count.pos ELSE behindItem[at[i - 1]]
    IN  [count |-> count.value, at |-> at]
End(items) == items.at[items.count]

Inputs(tx) == Items(tx, 5, 36, 4)
Outputs(tx) == Items(tx, End(Inputs(tx)), 8, 0)

-----------------------------------------------------------------------------
(* Hashes of transactions *)

\* How many hashes the next layer has: the last of an odd number is paired
\* with itself.
PairsOnly(width) == width \div 2
Pairs(width) == (width + 1) \div 2
Neighbour(i, width) == IF i = width THEN i ELSE i + 1
Paired(layer) ==
    [i \in 1 .. Pairs(Len(layer)) |->
        sha256d(<<layer[2 * i - 1], layer[Neighbour(2 * i - 1, Len(layer))]>>)]

merkle_root(hashes) ==
    LET layer[k \in 0 .. Len(hashes)] == IF k = 0 THEN hashes ELSE Paired(layer[k - 1])
        top == CHOOSE k \in DOMAIN layer : Len(layer[k]) = 1 /\ \A l \in 0 .. k - 1 : Len(layer[l]) > 1
    IN  IF hashes = <<>> THEN ZeroHash ELSE layer[top][1]

\* With the marker of a witness in front, the hash is over what precedes the
\* witness and four more bytes.
txid_from_raw(tx) ==
    IF SubSeq(tx, 5, 6) # <<0, 1>> THEN sha256d(tx)
    ELSE LET stripped == SubSeq(tx, 1, 4) \o SubSeq(tx, 7, Len(tx))
         IN  sha256d(SubSeq(stripped, 1, End(Outputs(stripped)) + 3))
wtxid_from_raw(tx) == sha256d(tx)

-----------------------------------------------------------------------------
(* The coinbase *)

\* The bytes of the height, as long as anything is left of it.
encode_bip34_height(height) ==
    LET value == Shifted(height, 256, 4)
    IN  LittleEndian(height, CHOOSE w \in 0 .. 4 : value[w] = 0 /\ \A v \in 0 .. w - 1 : value[v] > 0)

\* 36 bytes of no outpoint, the script, the sequence number.
write_input(script_sig) ==
    Field(0, 36) \o varint(Len(script_sig)) \o script_sig \o Field(255, 4)
write_output(output) ==
    Field(output.value, 8) \o varint(Len(output.script)) \o output.script

\* The witness is behind the outputs, its marker with it.
serialize_segwit_tx(script_sig, outputs, stack) ==
    Field(2, 4) \o varint(1) \o write_input(script_sig)
        \o varint(Len(outputs))
        \o FlattenSeq([i \in DOMAIN outputs |-> write_output(outputs[i])])
        \o (IF stack = <<>> THEN <<>>
            ELSE <<0, 1>> \o varint(1) \o varint(Len(stack))
                   \o FlattenSeq([i \in DOMAIN stack |-> varint(1) \o <<stack[i]>>]))
        \o Field(0, 4)

\* Without a developer's address of its own, nothing goes to the developer.
coinbase_dev_fee_bps(cfg) == IF cfg.dev = <<>> THEN 0 ELSE pool_fee_bps(cfg.percent)

Output(value, script) == [value |-> value, script |-> script]

build_coinbase_tx(gbt, cfg) ==
    LET part == split_coinbase_value(gbt.coinbasevalue, coinbase_dev_fee_bps(cfg))
        outputs == <<Output(part.user, cfg.payout)>>
                     \o (IF part.dev > 0 THEN <<Output(part.dev, cfg.dev)>> ELSE <<>>)
                     \o (IF gbt.commitment = <<>> THEN <<>>
                         ELSE <<Output(0, gbt.commitment)>>)
    IN  serialize_segwit_tx(gbt.aux \o encode_bip34_height(gbt.height), outputs,
                            IF gbt.commitment = <<>> THEN <<>> ELSE <<ZeroHash>>)

\* OP_RETURN, a push of 36 bytes, WITNESS_COMMIT_HEADER, and the digest.
CommitmentHead == <<106, 36, 170, 33, 169, 237>>
CommitmentScript(commitment) == CommitmentHead \o <<commitment>>

\* The first and the last position of the script of the i-th output.
ScriptSpan(tx, i) ==
    LET script == read_varint(tx)[Outputs(tx).at[i - 1] + 8]
    IN  [from |-> script.pos, to |-> script.pos + script.value - 1]
Script(tx, i) == LET span == ScriptSpan(tx, i) IN SubSeq(tx, span.from, span.to)

\* The outputs that _find_witness_commitment_vout would stop at.
IsCommitment(script) ==
    Len(script) >= Len(CommitmentHead) + 1 /\ IsPrefix(CommitmentHead, script)
CommitmentOutputs(tx) == {i \in 1 .. Outputs(tx).count : IsCommitment(Script(tx, i))}

WitnessCommitment(raws) ==
    sha256d(<<merkle_root(<<ZeroHash>> \o [i \in DOMAIN raws |-> wtxid_from_raw(raws[i])]),
              ZeroHash>>)

\* The bytes of a span replaced.
SplicedOneOff(tx, span, bytes) ==
    SubSeq(tx, 1, span.from - 1) \o bytes \o SubSeq(tx, span.to, Len(tx))
Spliced(tx, span, bytes) ==
    SubSeq(tx, 1, span.from - 1) \o bytes \o SubSeq(tx, span.to + 1, Len(tx))

regenerate_witness_commitment(tx, raws) ==
    LET found == CommitmentOutputs(tx)
        span == ScriptSpan(tx, CHOOSE i \in found : \A j \in found : i <= j)
    IN  IF found = {} THEN tx
        ELSE Spliced(tx, span, CommitmentScript(WitnessCommitment(raws)))

-----------------------------------------------------------------------------
(* A job is made from one template, and a block from another: the steps that *)
(* compute_template_merkle_root and assemble_block_hex have in common, taken *)
(* side by side.                                                             *)

CONSTANTS Templates, Configurations

\* No script is as long as 65000 bytes, and an address is no commitment.
IsAddress(script) == script \in Seq(Nat) /\ Len(script) < 65000 /\ ~IsCommitment(script)

\* What btxd sends: transactions that have an input with an outpoint, each of
\* them once, and a commitment when one of them has a witness.  The auxiliary
\* data are its operator's.
ASSUME TemplatesAssumption ==
    /\ \A gbt \in Templates :
         /\ gbt.coinbasevalue \in Nat
         /\ gbt.height \in Nat /\ gbt.height \div 65536 < 65536
         /\ gbt.aux \in Seq(Nat) /\ Len(gbt.aux) < 65000
         /\ gbt.commitment # <<>> => gbt.commitment = CommitmentScript(Last(gbt.commitment))
         /\ gbt.transactions \in Seq(Range(gbt.transactions))
         /\ \A i \in DOMAIN gbt.transactions :
              LET raw == gbt.transactions[i]
                  id == txid_from_raw(raw)
              IN  /\ Len(raw) > 5 /\ Len(id.digest) > 5 /\ id.digest[6] # 0
                  /\ gbt.commitment = <<>> => id = wtxid_from_raw(raw)
                  /\ \A j \in DOMAIN gbt.transactions :
                        id = txid_from_raw(gbt.transactions[j]) => i = j
    /\ \A one, other \in Templates : one.aux = other.aux
    /\ \A config \in Configurations :
         config.percent \in Int /\ IsAddress(config.payout) /\ IsAddress(config.dev)


VARIABLES
    stage,      \* the next step, "done" behind the last
    cfg,
    template,   \* [job, block]: what each is made from
    coinbase,   \* [job, block]: the coinbase
    root        \* [job, block]: the root

Use == {"job", "block"}

Begin ==
    /\ stage = "begin" /\ stage' = "build"
    /\ cfg' \in Configurations
    /\ template' \in [Use -> Templates]
    /\ UNCHANGED <<coinbase, root>>

Build ==
    /\ stage = "build" /\ stage' = "commit"
    /\ coinbase' = [u \in Use |-> build_coinbase_tx(template[u], cfg)]
    /\ UNCHANGED <<cfg, template, root>>

\* Only where the template has a commitment.
Commit ==
    /\ stage = "commit" /\ stage' = "hash"
    /\ coinbase' = [u \in Use |->
                      IF template[u].commitment = <<>> THEN coinbase[u]
                      ELSE regenerate_witness_commitment(coinbase[u], template[u].transactions)]
    /\ UNCHANGED <<cfg, template, root>>

Transactions(u) == <<coinbase[u]>> \o template[u].transactions

Hash ==
    /\ stage = "hash" /\ stage' = "done"
    /\ root' = [u \in Use |-> merkle_root([i \in DOMAIN Transactions(u) |->
                                             txid_from_raw(Transactions(u)[i])])]
    /\ UNCHANGED <<cfg, template, coinbase>>

\* What assemble_block_hex demands, or else it raises.
Assembles == stage = "done" /\ root["block"] = root["job"]

=============================================================================
