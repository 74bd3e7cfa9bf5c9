------------------------- MODULE CompletionService -------------------------
(***************************************************************************)
(* What interrupts, work queue and polling loop together promise: every    *)
(* completion that the card reports is handled, in whatever order the two  *)
(* kinds come.                                                             *)
(***************************************************************************)
EXTENDS Naturals

CONSTANTS Kinds, Cap

VARIABLE done    \* the completions of each kind reported and not yet handled

Init == done = [k \in Kinds |-> 0]

Report(k) == done[k] < Cap /\ done' = [done EXCEPT ![k] = @ + 1]

Handle(k) == done[k] > 0 /\ done' = [done EXCEPT ![k] = @ - 1]

Next == \E k \in Kinds : Report(k) \/ Handle(k)

SafetySpec == Init /\ [][Next]_done

(* What was reported is handled.                                           *)
Spec == SafetySpec /\ \A k \in Kinds : WF_done(Handle(k))
=============================================================================
