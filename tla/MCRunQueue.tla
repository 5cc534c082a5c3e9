----------------------------- MODULE MCRunQueue -----------------------------
(***************************************************************************)
(* Small task graphs for RunQueue.                                         *)
(***************************************************************************)
EXTENDS RunQueue, TLC

\* d (setscene) is compiled into c, which is packaged as p and as q, both
\* setscene; the image needs p and q.  c is below two setscene tasks, d may be
\* unneeded.
DiamondTasks    == {"d", "c", "p", "q", "img"}
DiamondDepends  == "d" :> {} @@ "c" :> {"d"} @@ "p" :> {"c"} @@ "q" :> {"c"}
                     @@ "img" :> {"p", "q"}
DiamondSetscene == {"d", "p", "q"}
DiamondLeader   == [t \in DiamondSetscene |-> t]
DiamondHard     == [t \in DiamondSetscene |-> IF t = "p" THEN {"d"} ELSE {}]
ImageTarget     == {"img"}

\* The same recipe built for three configurations: p1, p2 and p3 have one
\* hash; p1 is built from c.
TwinTasks    == {"c", "p1", "p2", "p3", "img"}
TwinDepends  == "c" :> {} @@ "p1" :> {"c"} @@ "p2" :> {} @@ "p3" :> {}
                  @@ "img" :> {"p1", "p2", "p3"}
TwinSetscene == {"c", "p1", "p2", "p3"}
TwinHard     == [t \in TwinSetscene |-> IF t = "p1" THEN {"c"} ELSE {}]
TwinLeader   == [t \in TwinSetscene |-> IF t = "c" THEN "c" ELSE "p1"]

\* An SDK that should come from shared state: f may not be built; a can be
\* unpacked or built from b; b has to be there in any case.
SdkTasks    == {"f", "a", "b", "c", "e", "img"}
SdkDepends  == "f" :> {} @@ "a" :> {"b"} @@ "b" :> {} @@ "c" :> {}
                 @@ "e" :> {} @@ "img" :> {"f", "a", "b", "c", "e"}
SdkSetscene == {"a"}
SdkHard     == [t \in SdkSetscene |-> {}]
SdkLeader   == [t \in SdkSetscene |-> t]
=============================================================================
