----------------------------- MODULE Lifecycle -----------------------------
(***************************************************************************)
(* What the workflow engine promises of the workflow_state column of one   *)
(* manifest, whatever is called, refused, lost or restarted in between: it *)
(* never returns to queued, an approval is never taken back, a merge is    *)
(* followed by a deployment only, and deployed and cancelled are final.    *)
(***************************************************************************)
CONSTANT States

VARIABLE row

Successors(s) ==
  CASE s = "approved"                  -> {"merged", "deployed"}
    [] s = "merged"                    -> {"deployed"}
    [] s \in {"deployed", "cancelled"} -> {}
    [] OTHER                           -> States \ {"queued"}

Init == row = "queued"

Next == row' \in Successors(row)

Spec == Init /\ [][Next]_row
=============================================================================
