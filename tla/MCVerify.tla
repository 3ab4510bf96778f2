------------------------------ MODULE MCVerify ------------------------------
(***************************************************************************)
(* Instances of Verify: an agent persona, config-guard, and a persona of   *)
(* the repository that runs config-guard's handler under verification;     *)
(* three findings, and the small sets of payloads the runs enumerate.      *)
(***************************************************************************)
EXTENDS Verify, TLC

logic == "logic"
guard == "config-guard"
local == "local-guard"

Roster   == {logic, guard, local}
KindOf   == (logic :> "agent") @@ (guard :> "deterministic") @@ (local :> "deterministic")
OptOut   == (logic :> FALSE) @@ (guard :> TRUE) @@ (local :> FALSE)
Tight    == (logic :> 1) @@ (guard :> 20) @@ (local :> 20)

\* A redacted claim of topic "u" reads like one of topic "t".
Redacted == [t \in {"t", "u", "v"} |-> IF t = "u" THEN "t" ELSE t]

\* Finding 1 is by logic, 2 by logic or the local guard, 3 by config-guard.
Emit(P1, P2, P3) == {1 :> p @@ 2 :> q @@ 3 :> r : p \in P1, q \in P2, r \in P3}

By(p, authored, severities, confidences, topics, quotes, lines, flags) ==
    [persona : {p}, modelAuthored : authored, severity : severities,
     confidence : confidences, topic : topics, quote : quotes,
     lines : lines, flag : flags]

\* One topic, so that any two may be duplicates, and chains of three through
\* a shared quote and shared lines; or a fact that joins it when redacted.
Overlapping ==
    LET first  == By(logic, {FALSE}, {Warning, Blocker}, {0}, {"t"}, {"q"}, {1}, {"none"})
        second == By(logic, {FALSE}, {Blocker}, {1}, {"t"}, {"q", "r"}, {2}, {"none"})
    IN  Emit(first, second,
             By(guard, BOOLEAN, {Blocker}, {0}, {"t"}, {"q", "r"}, {1}, {"none"}))
        \cup
        Emit(first, second,
             By(guard, {FALSE}, {Blocker}, {0}, {"u"}, {"q"}, {1}, {"prose"}))

\* Distinct topics, so that nothing merges, and every place the mechanical
\* screen may hit.
Suspicious ==
    Emit(By(logic, {FALSE}, {Nit, Error, Blocker}, {0}, {"t"}, {"q"}, {0, 1}, Flag),
         By(logic, {FALSE}, {Warning, Error, Blocker}, {0}, {"u"}, {"q"}, {1}, {"none", "prose"}),
         By(guard, BOOLEAN, {Blocker}, {0}, {"v"}, {"q"}, {0}, {"none", "prose"}))

\* config-guard's fact as another persona of the same handler reports it too,
\* surer or less sure, with a quote and lines of its own or the same ones.
Repeated ==
    Emit(By(logic, {FALSE}, {Blocker}, {1}, {"t"}, {"r"}, {1}, {"none"}),
         By(local, BOOLEAN, {Error, Blocker}, {0, 1}, {"t"}, {"q", "r"}, {0}, {"none", "prose"}),
         By(guard, {FALSE}, {Blocker}, {0}, {"t"}, {"q"}, {1}, {"none"}))

Emitted == Overlapping \cup Suspicious \cup Repeated

Run(fork, floor, failOn, touches) ==
    [isFork |-> fork, materialityFloor |-> floor,
     failOn |-> failOn, touchesReviewConfig |-> touches]

\* A gate that only an error trips, with the rule for configuration changes
\* on and off, and a fork.
Gates == {Run(FALSE, "downgrade", Error, FALSE),
          Run(TRUE, "downgrade", Unranked, TRUE)}
=============================================================================
