-------------------------- MODULE MCHashMigration --------------------------
(***************************************************************************)
(* A small build with hash equivalence.                                    *)
(***************************************************************************)
EXTENDS HashMigration, TLC

\* z is made from a, and a from x and c; x, a and z may come from shared state,
\* z not without a.  c is built in any case.  When x has to be built, its output
\* may turn out to be known, and then a and z may be found after all, though c
\* may be running and is covered by a.
LibTasks    == {"x", "c", "a", "z", "img"}
LibDepends  == "x" :> {} @@ "c" :> {} @@ "a" :> {"x", "c"} @@ "z" :> {"a"} @@ "img" :> {"z", "c"}
LibSetscene == {"x", "a", "z"}
LibLeader   == [t \in LibSetscene |-> t]
LibHard     == [t \in LibSetscene |-> IF t = "z" THEN {"a"} ELSE {}]
LibTarget   == {"img"}
=============================================================================
