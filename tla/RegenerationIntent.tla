------------------------- MODULE RegenerationIntent -------------------------
(***************************************************************************)
(* The user's requests to regenerate a segment, remembered beside the run  *)
(* as a history variable: what the record, which keeps one request at a    *)
(* time and drops it at the next claim, is meant to guarantee.             *)
(***************************************************************************)
EXTENDS RunLifecycleProperties

VARIABLE due    \* per segment: attempts issued when its regeneration was
                \* orphaned, 0 when no request was

intentVars == <<vars, due>>

IntentInit == Init /\ due = [s \in Segments |-> 0]

\* The command dies between its preparation and its worker's claim.
Orphaned(p, s) ==
    /\ pc[p] = "ready" /\ pc'[p] = "idle"
    /\ worker[p].bypass = {s}

IntentNext ==
    /\ Next
    /\ due' = [s \in Segments |->
                 IF \E p \in Procs : Orphaned(p, s) THEN issued ELSE due[s]]

IntentSpec == IntentInit /\ [][IntentNext]_intentVars

\* A regeneration request that survived its command in the record is not a
\* silent no-op: when the run completes, the segment was synthesized by an
\* attempt that began after the request ("Persisted intent is authoritative
\* after a crash between regeneration preparation and worker launch").
IntentIsAuthoritative ==
    record.status = "completed" =>
        \A s \in Segments : due[s] # 0 => narration[s] > due[s]

=============================================================================
