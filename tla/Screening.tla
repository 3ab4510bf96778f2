----------------------------- MODULE Screening ------------------------------
(***************************************************************************)
(* What the verification stage promises, whatever lenses it is made of.    *)
(* Items can only be withdrawn.  Binding ones (certain blockers) cannot be *)
(* argued away: they may not all leave unless a contested one stays, which *)
(* stands in for them but may itself be withdrawn on the merits.  The      *)
(* outcome is decided once, on the items still live, and either kind rules *)
(* out a clear one.                                                        *)
(***************************************************************************)
CONSTANT Item

VARIABLES live, binding, contested, outcome

screening == <<live, binding, contested, outcome>>

Init ==
    /\ live = Item
    /\ binding \subseteq Item
    /\ contested \subseteq Item \ binding
    /\ outcome = "open"

Withdraw ==
    /\ outcome = "open"
    /\ live' \in SUBSET live
    /\ live \cap binding # {} => live' \cap (binding \cup contested) # {}
    /\ UNCHANGED <<binding, contested, outcome>>

Close ==
    /\ outcome = "open"
    /\ outcome' \in {"clear", "gated", "aborted"}
    /\ live \cap (binding \cup contested) # {} => outcome' # "clear"
    /\ UNCHANGED <<live, binding, contested>>

Next == Withdraw \/ Close

Spec == Init /\ [][Next]_screening
=============================================================================
