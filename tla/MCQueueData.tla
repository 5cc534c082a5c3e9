---------------------------- MODULE MCQueueData ----------------------------
(***************************************************************************)
(* Small task graphs for QueueData.                                        *)
(***************************************************************************)
EXTENDS QueueData, TLC

\* The builds of an image, a program and a library, and the deploy tasks of the
\* last two.
MCTasks  == 1..5
MCRecipe == 1 :> "image" @@ 2 :> "prog" @@ 3 :> "prog" @@ 4 :> "lib" @@ 5 :> "lib"
MCName   == 1 :> "build" @@ 2 :> "deploy" @@ 3 :> "build" @@ 4 :> "deploy" @@ 5 :> "build"

\* Tasks depend on later ones, the image on at least one.
Ordered == {1 :> a @@ 2 :> b @@ 3 :> c @@ 4 :> d @@ 5 :> {} :
              a \in SUBSET (2..5) \ {{}}, b \in SUBSET (3..5), c \in SUBSET {4, 5}, d \in SUBSET {5}}

\* One more dependency, which may close a loop of two tasks or of more.
Chain == [t \in MCTasks |-> {t + 1} \cap MCTasks]
Fork  == 1 :> {2, 3} @@ 2 :> {4} @@ 3 :> {4, 5} @@ 4 :> {} @@ 5 :> {}
Looping == {[g EXCEPT ![t] = @ \cup ({u} \ {t})] : g \in {Chain, Fork}, t \in MCTasks, u \in MCTasks}

\* Metadata without recursive tasks; and with them, one perhaps with a
\* recideptask.
Plain(g)     == [depends |-> g, recursive |-> [t \in {} |-> {}], recideps |-> [t \in {} |-> {}]]
Rec(g, R, I) == [depends |-> g, recursive |-> R,
                 recideps |-> [t \in DOMAIN R |-> IF t \in DOMAIN I THEN I[t] ELSE {}]]
Sparse == {g \in Ordered : \A t \in MCTasks : Cardinality(g[t]) <= 1}
MCMetadata == {Plain(g) : g \in Ordered \cup Looping} \cup
  {Rec(g, R, I) : g \in Sparse \cup Looping,
                  R \in {1 :> {"deploy"}, 1 :> {"deploy"} @@ 3 :> {"deploy"},
                         1 :> {"deploy", "build"} @@ 3 :> {"deploy", "build"} @@ 2 :> {"deploy"}},
                  I \in {[t \in {} |-> {}], 3 :> {2}}}

Ask(T, P, A, O) == [targets |-> T, parents |-> P, runall |-> A, runonly |-> O]
MCRequests == {Ask({1}, {}, {}, {}), Ask({1, 3}, {1}, {}, {}),
               Ask({1}, {}, {"deploy"}, {}), Ask({1}, {}, {}, {"build"})}
MCRestorable == SUBSET MCTasks
=============================================================================
