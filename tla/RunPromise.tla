----------------------------- MODULE RunPromise -----------------------------
(***************************************************************************)
(* What a run promises the studio and the CLI that read it: a status, moved*)
(* by one owner at a time.  While a process owns the run nobody else moves *)
(* the status; it is completed only by an owner that had it running; an    *)
(* orphaned running status is taken over only once its owner is gone.  A   *)
(* completed run reopens only on request or because the owner that         *)
(* completed it fails or is interrupted before it lets go.  An owner whose *)
(* claim could not be saved still leaves a failure or an interruption.     *)
(***************************************************************************)
CONSTANTS Procs, NoProc

VARIABLES status, owner

vars == <<status, owner>>

Init == status = "queued" /\ owner = NoProc

Claim(p) ==
    /\ owner = NoProc
    /\ status \in {"queued", "interrupted", "failed"}
    /\ status' \in {status, "running"}
    /\ owner' = p

Settle(p) ==
    /\ owner = p
    /\ \/ status = "running" /\ status' = "completed"
       \/ status' \in {"failed", "interrupted"}
    /\ UNCHANGED owner

LetGo(p) ==
    /\ owner = p
    /\ owner' = NoProc
    /\ UNCHANGED status

TakeOver ==
    /\ owner = NoProc
    /\ status = "running"
    /\ status' = "interrupted"
    /\ UNCHANGED owner

Reopen ==
    /\ owner = NoProc
    /\ status \in {"completed", "failed"}
    /\ status' = "interrupted"
    /\ UNCHANGED owner

Next ==
    \/ \E p \in Procs : Claim(p) \/ Settle(p) \/ LetGo(p)
    \/ TakeOver
    \/ Reopen

Spec == Init /\ [][Next]_vars

=============================================================================
