----------------------------- MODULE PRContract -----------------------------
(***************************************************************************)
(* What the PR server promises, without tables, requests or restarts: per  *)
(* package one highest revision and the checksums that own it.  A checksum *)
(* that owns the highest revision is told that revision again; any other   *)
(* checksum moves the package on by one.  The state goes back only to the  *)
(* last one that was saved.                                                *)
(***************************************************************************)
EXTENDS Integers

CONSTANTS Packages,    \* (version, architecture) pairs
          Checksums,   \* what a package was built from
          Values       \* revisions; -1 stands for none yet

VARIABLES now,    \* package -> its highest revision and the owners of it
          saved   \* what a loss of the server falls back to

Rank == [top : Values, owners : SUBSET Checksums]

TypeOK == now \in [Packages -> Rank] /\ saved \in [Packages -> Rank]

Init == now = [p \in Packages |-> [top |-> -1, owners |-> Checksums]] /\ saved = now

\* A checksum that does not own the highest revision gets the next one.
Advance(p, s) ==
  /\ s \notin now[p].owners \/ now[p].top = -1
  /\ now' = [now EXCEPT ![p] = [top |-> now[p].top + 1, owners |-> {s}]]
  /\ UNCHANGED saved

\* A revision from another server's export never lowers the highest one.
Import(p, s, v) ==
  /\ \/ /\ v > now[p].top
        /\ now' = [now EXCEPT ![p] = [top |-> v, owners |-> {s}]]
     \/ /\ v = now[p].top
        /\ now' = [now EXCEPT ![p].owners = @ \cup {s}]
  /\ UNCHANGED saved

Save == saved' = now /\ UNCHANGED now
Lose == now' = saved /\ UNCHANGED saved

Next ==
  \/ \E p \in Packages, s \in Checksums :
       Advance(p, s) \/ \E v \in Values \ {-1} : Import(p, s, v)
  \/ Save
  \/ Lose

Spec == Init /\ [][Next]_<<now, saved>>
=============================================================================
