---------------------------- MODULE MCArithmetic ----------------------------
(***************************************************************************)
(* What the pool computes, over bounded inputs: the fees, the encodings    *)
(* and the targets, one state for each input; a block built in steps; and  *)
(* the division of a reward while shares are recorded (Pplns).  The        *)
(* properties compare what several functions make of one input.  The three *)
(* do not interact: a behaviour takes the steps of one of them.            *)
(***************************************************************************)
EXTENDS Encoding, Targets, Pplns

CONSTANTS
    MaxReward,      \* rewards from 0 to MaxReward, where rounding shows most
    Percents,       \* values of pool_fee_percent, in thousandths
    Numbers,        \* lengths and counts
    Ratings,        \* difficulties of shares, in millionths
    Base, Width,    \* digits of a target and their number
    a1, a2          \* payout addresses

\* A target has room for every digest, and 64 bits for every number.
ASSUME ArithmeticAssumption ==
    /\ MaxReward \in Nat /\ Percents \subseteq Int
    /\ Numbers \subseteq Nat /\ \A n \in Numbers : Fits(n)
    /\ Ratings \subseteq Int
    /\ Width \in Nat /\ Base \in Nat /\ Base > 1
    /\ Shifted(MAX_TARGET, Base, Width)[Width] = 0

VARIABLE input

FeeInput == [kind : {"fee"}, reward : 0 .. MaxReward, percent : Percents]
VarintInput == [kind : {"varint"}, number : Numbers, pos : {1, 3}]
TargetInput == [kind : {"target"}, difficulty : Ratings,
                network : {NoTarget} \cup 0 .. MAX_TARGET]

block == <<stage, cfg, template, coinbase, root>>

ArithmeticInit ==
    /\ Init
    /\ input = [kind |-> "none"]
    /\ stage = "begin" /\ cfg = <<>> /\ template = <<>> /\ coinbase = <<>> /\ root = <<>>

Choose ==
    /\ input.kind = "none" /\ stage = "begin" /\ step = "idle" /\ shares = <<>>
    /\ input' \in FeeInput \cup VarintInput \cup TargetInput
    /\ UNCHANGED <<block, vars>>

BuildBlock ==
    /\ input.kind = "none" /\ step = "idle" /\ shares = <<>>
    /\ Begin \/ Build \/ Commit \/ Hash
    /\ UNCHANGED <<input, vars>>

DivideReward ==
    /\ input.kind = "none" /\ stage = "begin"
    /\ Next
    /\ UNCHANGED <<input, block>>

ArithmeticSpec ==
    ArithmeticInit /\ [][Choose \/ BuildBlock \/ DivideReward]_<<input, block, vars>>

-----------------------------------------------------------------------------
(* Fees *)

bps == pool_fee_bps(input.percent)
split == split_coinbase_value(input.reward, bps)
owed == distributable_reward(input.reward, bps)

\* What the pool's address receives from a coinbase that also pays the
\* developer covers what PPLNS distributes, although the two fees are
\* computed in different modules with a rounding of their own.
PoolCoversMiners == input.kind = "fee" => split.user >= owed

-----------------------------------------------------------------------------
(* Blocks *)

\* What varint writes, _read_varint reads, wherever it stands, and the parser
\* goes on behind it (block_builder.py:16-23 and 134-143).
VarintReadsBack ==
    input.kind = "varint" =>
        LET bytes == varint(input.number)
            data == [i \in 1 .. input.pos - 1 |-> 254] \o bytes \o <<253, 1, 1>>
        IN  read_varint(data)[input.pos] =
                [value |-> input.number, pos |-> input.pos + Len(bytes)]

OutputsOf(tx) ==
    [i \in 1 .. Outputs(tx).count |-> Output(tx[Outputs(tx).at[i - 1]], Script(tx, i))]

\* The coinbase in the block, read back, pays the pool and the developer all
\* of the template's value and then commits to the transactions: putting the
\* commitment in place disturbs neither another output nor what is behind them
\* (block_builder.py:258-279).
CoinbaseReadsBack ==
    stage \in {"hash", "done"} =>
        \A u \in Use :
            LET gbt == template[u]
                outputs == OutputsOf(coinbase[u])
                part == split_coinbase_value(gbt.coinbasevalue, coinbase_dev_fee_bps(cfg))
                pays == <<Output(part.user, cfg.payout)>>
                          \o (IF part.dev = 0 THEN <<>> ELSE <<Output(part.dev, cfg.dev)>>)
            IN  IF gbt.commitment = <<>> THEN outputs = pays
                ELSE /\ Len(coinbase[u]) = Len(build_coinbase_tx(gbt, cfg))
                     /\ IsPrefix(pays, outputs) /\ Len(outputs) = Len(pays) + 1
                     /\ Last(outputs) =
                            Output(0, CommitmentScript(WitnessCommitment(gbt.transactions)))

\* A block is assembled from the template that the job was made from, or from
\* one that differs in nothing a miner's header depends on: every transaction
\* and every field of the coinbase is in the root (block_builder.py:344).
RootBindsTemplate ==
    stage = "done" =>
        LET job == template["job"]
            other == template["block"]
        IN  Assembles <=>
                /\ other.transactions = job.transactions
                /\ other.coinbasevalue = job.coinbasevalue
                /\ other.height = job.height
                /\ other.commitment = <<>> <=> job.commitment = <<>>

-----------------------------------------------------------------------------
(* Targets *)

Digits(n) ==
    LET high == Shifted(n, Base, Width)
    IN  [i \in 1 .. Width |-> high[Width - i] % Base]
Reaches(digest, limit) == compare_digest_le(Digits(digest), Digits(limit))

ShareTarget == difficulty_to_share_target(input.difficulty, input.network)

\* "Pool shares must not be harder than the block target" (difficulty.py:39):
\* the solution of a block is never refused as a share (share_validator.py
\* asks for both).
BlockIsShare ==
    input.kind = "target" /\ input.network # NoTarget =>
        \A digest \in 0 .. MAX_TARGET :
            Reaches(digest, input.network) => Reaches(digest, ShareTarget)

-----------------------------------------------------------------------------
(* The instance.  The works of shares are difficulties vardiff produces    *)
(* (1.0, 0.7 and 0.49) and 0, which a vardiff_min of 0 leads to; the       *)
(* windows end after a share or two, or never.                             *)

\* Negative, none, the ties of the rounding, the documented 1 and 2.5
\* percent, all and more than all.
SomePercents == {-5, 0, 4, 5, 6, 15, 25, 1000, 1005, 1015, 2500, 33333, 50000,
                 99994, 99995, 100000, 100006, 150000}

\* Both sides of every change of the width.
SomeNumbers == {0, 1, 252, 253, 254, 255, 256, 65534, 65535, 65536, 65537,
                 16777216, 2147483647}

\* Transactions of btxd: two without a witness, two that differ in it only.
Plain(n) == Field(1, 4) \o varint(1) \o Field(n, 36) \o varint(2) \o <<n, n>>
              \o Field(255, 4) \o varint(1) \o Field(n, 8) \o varint(1) \o <<n>> \o Field(0, 4)
Witnessed(n) == Field(1, 4) \o <<0, 1>> \o varint(1) \o Field(7, 36) \o varint(0)
                  \o Field(255, 4) \o varint(1) \o Field(7, 8) \o varint(1) \o <<7>>
                  \o varint(1) \o varint(3) \o <<5, 5, n>> \o Field(0, 4)
PlainLists == {<<>>, <<Plain(3)>>, <<Plain(4)>>, <<Plain(3), Plain(4)>>, <<Plain(4), Plain(3)>>}
WitnessLists == {<<Witnessed(3)>>, <<Witnessed(4)>>, <<Plain(3), Witnessed(3), Plain(4)>>,
                 <<Plain(3), Witnessed(4), Plain(4)>>}

\* btxd commits to witnesses whenever there are some.
Commitment == CommitmentScript(sha256d(<<0>>))
Template(lists, commitments) ==
    [height : {255, 256}, coinbasevalue : {1, 50}, aux : {<<47>>},
     commitment : commitments, transactions : lists]
SomeTemplates == Template(PlainLists, {<<>>}) \cup Template(PlainLists \cup WitnessLists, {Commitment})

\* Scripts of different lengths; a developer, none, and one that gets all.
SomeConfigurations ==
    {[payout |-> <<1, 2, 3>>, dev |-> <<>>, percent |-> 2500],
     [payout |-> <<1>>, dev |-> <<4, 5, 6, 7, 8, 9, 10, 11>>, percent |-> 2500],
     [payout |-> <<106, 36, 1, 2, 3, 4, 5>>, dev |-> <<6>>, percent |-> 100000]}

SomeRatings == {-1, 0, 1, 500, 999, 1000, 1001, 2000, 10000, 1000000}
=============================================================================
