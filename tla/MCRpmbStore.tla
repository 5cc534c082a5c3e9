---------------------------- MODULE MCRpmbStore ----------------------------
(***************************************************************************)
(* Small instances of RpmbStore.  One run covers several clients: each     *)
(* uses a few key identifiers, chosen for the classes and collisions they  *)
(* are about, and keeps to them.  The ranges and sizes are those of the    *)
(* code.                                                                   *)
(***************************************************************************)
EXTENDS RpmbStore

CONSTANT Uses      \* the clients of the run, see below

VARIABLE client

Bytes(n, v, used, valid) == [size |-> n, val |-> v, used |-> used, valid |-> valid]

\* Block 100, whose meters can be asked for; block 200, which no meter number
\* reaches; and the normal key 400, which shares its object with the backup of
\* block 200.
Blockwise ==
  [ids |-> {100, 200, 400}, faults |-> 1, bufs |-> {4096},
   loads |-> {Bytes(BatchSize, 1, {0}, TRUE), Bytes(BatchSize, 2, {0, 1}, TRUE),
              Bytes(40, 1, {}, TRUE)}]

\* A normal key, and the common key 600 that READ_TO_RAM takes for its backup.
FalseBackup ==
  [ids |-> {400, 600}, faults |-> 2, bufs |-> {4096},
   loads |-> {Bytes(CommonSize, 1, {}, TRUE), Bytes(16, 1, {}, TRUE)}]

\* One KUK, one ECC key, a normal key, and one outside the normal cache.
Plain ==
  [ids |-> {10, 2, 400, 410}, faults |-> 1, bufs |-> {4096},
   loads |-> {Bytes(KukSize, 1, {}, TRUE), Bytes(KukSize, 2, {}, FALSE),
              Bytes(EccSize, 1, {}, TRUE), Bytes(EccSize, 2, {}, TRUE),
              Bytes(0, 1, {}, TRUE)}]

\* Three common keys for two slots; 700 is where a backup of 500 is looked for.
Common ==
  [ids |-> {77, 500, 700}, faults |-> 1, bufs |-> {100, 4096},
   loads |-> {Bytes(CommonSize, v, {}, TRUE) : v \in Vals} \cup {Bytes(8, 1, {}, TRUE)}]

AllUses   == {Blockwise, FalseBackup, Plain, Common}
FalseUses == {FalseBackup}
AllIds    == UNION {u.ids : u \in Uses}
AllLoads  == UNION {u.loads : u \in Uses}
AllBufs   == UNION {u.bufs : u \in Uses}

\* Init and Next of RpmbStore, for one of the clients.
MCInit == client \in Uses /\ Init /\ faults = client.faults

ClientCommand ==
  \E k \in client.ids :
    \/ \E p \in client.loads : WriteRefused(k, p) \/ WriteCreate(k, p)
    \/ Delete(k)
    \/ \E buf \in client.bufs : ReadOnly(k, buf) \/ ReadToRam(k, buf) \/ FromRam(k, buf)

MCNext == (ClientCommand \/ Write \/ Environment) /\ UNCHANGED client

MCSpec == MCInit /\ [][MCNext]_<<vars, client>>
=============================================================================
