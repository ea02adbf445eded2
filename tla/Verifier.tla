------------------------------ MODULE Verifier ------------------------------
(***************************************************************************)
(* What miners and the pool rely on when a share is verified, without the  *)
(* threads, the lock, the pipes and the process: a submission gets the     *)
(* verdict of its own share, or an error.  Only once a call has given up   *)
(* is the verifier behind; then it may answer with what it found for       *)
(* another share it was asked about, until it is renewed.                  *)
(***************************************************************************)
CONSTANTS
    Session, WorkerOf, Share,
    Says            \* [y][x]: what the result of y is taken for when x was asked

VARIABLES
    stage,      \* of the submission of a session
    share,      \* its share
    verdict,    \* what the verifier said of it
    behind,     \* a call gave up on the solver that runs
    asked,      \* the shares that solver was asked about
    recorded,   \* who is paid for which share, and whether it was a block
    submitted   \* the blocks handed to the node

verifier == <<stage, share, verdict, behind, asked, recorded, submitted>>

Init ==
    /\ stage = [s \in Session |-> "idle"]
    /\ share \in [Session -> Share]
    /\ verdict = [s \in Session |-> "none"]
    /\ behind = FALSE /\ asked = {}
    /\ recorded = {} /\ submitted = {}

Move(s, from, to) == stage[s] \in from /\ stage' = [stage EXCEPT ![s] = to]

Submit(s, x) ==
    /\ Move(s, {"idle"}, "waiting")
    /\ share' = [share EXCEPT ![s] = x]
    /\ UNCHANGED <<verdict, behind, asked, recorded, submitted>>

\* A new solver has been asked about nothing else.
Ask(s) ==
    /\ Move(s, {"waiting"}, "asked")
    /\ \/ asked' = asked \cup {share[s]} /\ behind' = behind
       \/ asked' = {share[s]} /\ behind' = FALSE
    /\ UNCHANGED <<share, verdict, recorded, submitted>>

Answers(x) == {Says[y][x] : y \in IF behind THEN asked ELSE {x}}

Judge(s) ==
    /\ Move(s, {"asked"}, "judged")
    /\ \E says \in Answers(share[s]) : verdict' = [verdict EXCEPT ![s] = says]
    /\ UNCHANGED <<share, behind, asked, recorded, submitted>>

GiveUp(s) ==
    /\ Move(s, {"waiting", "asked"}, "judged")
    /\ verdict' = [verdict EXCEPT ![s] = "error"]
    /\ behind' \in {behind, TRUE}
    /\ UNCHANGED <<share, asked, recorded, submitted>>

Refuse(s) ==
    /\ Move(s, {"judged"}, "idle")
    /\ verdict[s] \in {"error", "miss"}
    /\ verdict' = [verdict EXCEPT ![s] = "none"]
    /\ UNCHANGED <<share, behind, asked, recorded, submitted>>

Paid(s) == {[worker |-> WorkerOf[s], share |-> share[s], block |-> verdict[s] = "block"]}

Record(s) ==
    /\ Move(s, {"judged"}, IF verdict[s] = "block" THEN "won" ELSE "idle")
    /\ verdict[s] \in {"share", "block"}
    /\ recorded' = recorded \cup Paid(s)
    /\ verdict' = [verdict EXCEPT ![s] = "none"]
    /\ UNCHANGED <<share, behind, asked, submitted>>

\* The connection of the miner ends before it has an answer.
HangUp(s) ==
    /\ Move(s, {"judged"}, "idle")
    /\ \/ recorded' = recorded
       \/ verdict[s] \in {"share", "block"} /\ recorded' = recorded \cup Paid(s)
    /\ verdict' = [verdict EXCEPT ![s] = "none"]
    /\ UNCHANGED <<share, behind, asked, submitted>>

SubmitBlock(s) ==
    /\ Move(s, {"won"}, "idle")
    /\ submitted' = submitted \cup {share[s]}
    /\ UNCHANGED <<share, verdict, behind, asked, recorded>>

Next ==
    \E s \in Session :
      \/ \E x \in Share : Submit(s, x)
      \/ Ask(s) \/ Judge(s) \/ GiveUp(s)
      \/ Refuse(s) \/ Record(s) \/ HangUp(s) \/ SubmitBlock(s)

Spec == Init /\ [][Next]_verifier

=============================================================================
