------------------------------ MODULE Delivery ------------------------------
(***************************************************************************)
(* What a file transfer promises its two ends (app/rtc/README.md): a file  *)
(* that was saved stays saved, and the sender is told of success only for  *)
(* a file that was saved whole.                                            *)
(***************************************************************************)
CONSTANT Files

VARIABLES
    saved,   \* files of which the receiver has a whole copy
    told     \* what the sender was told last: "nothing", "ok" or "failed"

Init ==
    /\ saved = {}
    /\ told = [f \in Files |-> "nothing"]

Save(f) ==
    /\ saved' = saved \cup {f}
    /\ UNCHANGED told

Tell(f) ==
    /\ told' \in {[told EXCEPT ![f] = r] : r \in {"ok", "failed"}}
    /\ told'[f] = "ok" => f \in saved
    /\ UNCHANGED saved

Next == \E f \in Files : Save(f) \/ Tell(f)

Spec == Init /\ [][Next]_<<saved, told>>

=============================================================================
