--------------------------- MODULE MCPlaybookGate ---------------------------
(* Two new workers and a person's session under a playbook of three stages. *)
EXTENDS PlaybookGate, TLC

CONSTANTS w1, w2, loose, c1, c2, plan, work, review

MCEdges == {[from |-> plan, to |-> work, on |-> "approve_plan"],
            [from |-> work, to |-> plan, on |-> "send_prompt"],
            [from |-> work, to |-> work, on |-> "send_prompt"]}
MCNeeds == [s \in Stage |->
              IF s = review
              THEN {[stage |-> work, liveness |-> "live", position |-> {work, plan}]} ELSE {}]
MCDenied == {<<review, "approve_plan">>}
MCSymmetry == Permutations({w1, w2}) \cup Permutations({c1, c2})
=============================================================================
