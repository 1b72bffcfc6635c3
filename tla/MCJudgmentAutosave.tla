------------------------- MODULE MCJudgmentAutosave -------------------------
(* JudgmentAutosave with the judgment a finding is created with.            *)
EXTENDS JudgmentAutosave
MCFirst == [status |-> "undecided", note |-> "empty"]
=============================================================================
