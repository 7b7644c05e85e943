----------------------------- MODULE SchemaUpgrade -----------------------------
(***************************************************************************)
(* What opening the database promises: a file of an older schema becomes a *)
(* v2 file in one step that changes nothing of what a program would find,  *)
(* and from then on only the program's own writes change what it finds.    *)
(***************************************************************************)
CONSTANT Rows      \* everything a file may hold

VARIABLES era,     \* "old" until the file has been upgraded
          visible  \* what the program would find in the file

UpgradeVars == <<era, visible>>

Init ==
  /\ era \in {"old", "new"}
  /\ visible \subseteq Rows

Upgrade ==
  /\ era = "old"
  /\ era' = "new"
  /\ UNCHANGED visible

Write ==
  /\ era = "new"
  /\ \E r \in Rows : visible' \in {visible \cup {r}, visible \ {r}}
  /\ UNCHANGED era

Spec == Init /\ [][Upgrade \/ Write]_UpgradeVars
=============================================================================
