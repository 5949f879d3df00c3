---------------------------- MODULE DurableStore ----------------------------
(* The directory under both ledgers (internal/durablestore, and the stores *)
(* of the broker and the hosted gateway): who may create the ledger, who   *)
(* owns it, and what of it a power loss leaves.  LifecycleBroker and       *)
(* HostedLifetime take from here that one process at a time has the ledger *)
(* and that it finds what was acknowledged before.                         *)
(*                                                                         *)
(* A version of the ledger stands for its contents.  Its number counts the *)
(* attempts to write one, and its line is the number of the first version  *)
(* of the ledger it descends from.  A file is synced before it is renamed  *)
(* (saveBytes), so that state.json is never torn; the rename itself and the*)
(* creation of directories and of the lock are lost in a power loss unless *)
(* their directory was synced.                                             *)
EXTENDS Naturals

CONSTANTS
  Procs,     \* processes that open the store
  None,
  Depth,     \* directories on the path that may have to be made
  MaxSaves   \* bound: attempts to write a version

ASSUME DurableAssumption ==
  /\ Depth \in Nat \ {0}
  /\ MaxSaves \in Nat
  /\ None \notin Procs

VARIABLES
  made,      \* the directories 1..made of the path exist
  synced,    \* those of them whose entry in their parent is on disk
  witness,   \* the lock file: "absent", "volatile" or "durable"
  file,      \* the version that state.json is, or Missing
  disk,      \* what a power loss may leave of it
  holder,    \* the process that has the flock, or None
  at,        \* where each process is
  saves,     \* attempts to write a version so far
  acked,     \* history: the last version whose save returned success
  faulty     \* history: something failed or was killed

store == <<made, synced, witness, file, disk>>
vars  == <<store, holder, at, saves, acked, faulty>>

Missing  == [number |-> 0, line |-> 0]
Versions == [number : 0..MaxSaves, line : 0..MaxSaves]

Off     == [pc |-> "off", level |-> 0, created |-> FALSE, value |-> Missing]
Making  == {"stat", "sync", "mkdir"}
Opening == Making \cup {"open", "probe", "wait", "try", "read", "fresh", "freshSync"}
Owning  == {"own", "ownSync"}

Init ==
  /\ made \in 0..Depth /\ synced = 1..made
  /\ file \in {Missing} \cup (IF made = Depth /\ MaxSaves > 0 THEN {[number |-> 1, line |-> 1]} ELSE {})
  /\ witness \in IF file = Missing THEN {"absent"} ELSE {"absent", "durable"}
  /\ disk = {file} /\ acked = file /\ saves = file.number
  /\ holder = None /\ at = [p \in Procs |-> Off] /\ faulty = FALSE

Goto(p, pc)         == at' = [at EXCEPT ![p].pc = pc]
GotoLevel(p, pc, d) == at' = [at EXCEPT ![p].pc = pc, ![p].level = d]
Release(p)          == holder' = IF holder = p THEN None ELSE holder
Leave(p)            == at' = [at EXCEPT ![p] = Off] /\ Release(p)

-----------------------------------------------------------------------------
(* makeDirectory.                                                          *)

Start(p) ==
  /\ at[p].pc = "off" /\ GotoLevel(p, "stat", Depth)
  /\ UNCHANGED <<store, holder, saves, acked, faulty>>

\* The entry of level d is known to be on disk.
Below(p, d) == IF d = Depth THEN GotoLevel(p, "open", d) ELSE GotoLevel(p, "mkdir", d + 1)

\* Mutant: a directory that is there needs no sync.
Found_Trusted(p, d) == Below(p, d)
\* It may be left from a failed sync or be made by another process just now.
Found(p, d) == GotoLevel(p, "sync", d)

(* Upwards to the first directory that exists.                             *)
Stat(p) ==
  /\ at[p].pc = "stat"
  /\ LET d == at[p].level IN
       IF d <= made THEN Found(p, d) ELSE GotoLevel(p, "stat", d - 1)
  /\ UNCHANGED <<store, holder, saves, acked, faulty>>

SyncParent(p) ==
  /\ at[p].pc = "sync"
  /\ synced' = synced \cup ({at[p].level} \ {0})
  /\ Below(p, at[p].level)
  /\ UNCHANGED <<made, witness, file, disk, holder, saves, acked, faulty>>

\* Another process may have made it since.
MakeDirectory(p) ==
  /\ at[p].pc = "mkdir"
  /\ made' = IF made < at[p].level THEN at[p].level ELSE made
  /\ Goto(p, "sync")
  /\ UNCHANGED <<synced, witness, file, disk, holder, saves, acked, faulty>>

-----------------------------------------------------------------------------
(* OpenLock and LockFile: the lock file is created once and never removed; *)
(* only the process that created it may initialize an absent ledger, and it*)
(* waits for others that have to find out that they may not.               *)

CreateLock(p) ==
  /\ at[p].pc = "open"
  /\ IF witness = "absent"
       THEN /\ witness' = "volatile"
            /\ at' = [at EXCEPT ![p].pc = "probe", ![p].created = TRUE]
       ELSE Goto(p, "try") /\ UNCHANGED witness
  /\ UNCHANGED <<made, synced, file, disk, holder, saves, acked, faulty>>

\* Mutant: the creator gives up when another process has the lock.
Waits_Never(f) == FALSE
\* Mutant: the creator of a lock always waits for it.
Waits_Always(f) == TRUE
Waits(f) == f = Missing

Probe(p) ==
  /\ at[p].pc = "probe" /\ Goto(p, IF Waits(file) THEN "wait" ELSE "try")
  /\ UNCHANGED <<store, holder, saves, acked, faulty>>

Acquire(p) ==
  /\ at[p].pc \in {"wait", "try"} /\ holder = None
  /\ holder' = p /\ Goto(p, "read")
  /\ UNCHANGED <<store, saves, acked, faulty>>

WouldBlock(p) ==
  /\ at[p].pc = "try" /\ holder # None /\ Leave(p)
  /\ UNCHANGED <<store, saves, acked, faulty>>

-----------------------------------------------------------------------------
(* openBrokerStore, openHostedGatewayStore and their save.                 *)

Load(p) ==
  /\ at[p].pc = "read"
  /\ \/ /\ file # Missing
        /\ at' = [at EXCEPT ![p].pc = "own", ![p].value = file] /\ UNCHANGED holder
     \/ file = Missing /\ at[p].created /\ Goto(p, "fresh") /\ UNCHANGED holder
     \/ file = Missing /\ ~at[p].created /\ Leave(p)
  /\ UNCHANGED <<store, saves, acked, faulty>>

NewVersion(p) ==
  [number |-> saves + 1,
   line   |-> IF at[p].pc = "fresh" THEN saves + 1 ELSE at[p].value.line]

Rename(p) ==
  /\ at[p].pc \in {"fresh", "own"} /\ saves < MaxSaves
  /\ saves' = saves + 1
  /\ file' = NewVersion(p) /\ disk' = disk \cup {NewVersion(p)}
  /\ at' = [at EXCEPT ![p].pc = IF @ = "fresh" THEN "freshSync" ELSE "ownSync",
                      ![p].value = NewVersion(p)]
  /\ UNCHANGED <<made, synced, witness, holder, acked, faulty>>

\* The directory is synced: the save has succeeded.
SyncStore(p) ==
  /\ at[p].pc \in {"freshSync", "ownSync"} /\ Goto(p, "own")
  /\ disk' = {file} /\ witness' = "durable" /\ acked' = at[p].value
  /\ UNCHANGED <<made, synced, file, holder, saves, faulty>>

\* The rename has happened and may or may not be on disk.
SyncStoreFails(p) ==
  /\ at[p].pc = "ownSync" /\ Goto(p, "own") /\ faulty' = TRUE
  /\ UNCHANGED <<store, holder, saves, acked>>

Close(p) ==
  /\ at[p].pc = "own" /\ Leave(p)
  /\ UNCHANGED <<store, saves, acked, faulty>>

-----------------------------------------------------------------------------
(* Faults.                                                                 *)

(* A step of opening returns an error, which closes the store, or the      *)
(* process is killed.                                                      *)
Fails(p) ==
  /\ at[p].pc \in Opening \cup Owning /\ Leave(p) /\ faulty' = TRUE
  /\ UNCHANGED <<store, saves, acked>>

(* The machine loses power: entries that were not synced may be lost, and  *)
(* with a directory everything in it.                                      *)
PowerLoss ==
  /\ \E S \in SUBSET (1..made), m \in 0..made :
       /\ synced \subseteq S /\ 1..m \subseteq S /\ m + 1 \notin S
       /\ made' = m /\ synced' = 1..m
       /\ IF m < Depth
            THEN file' = Missing /\ witness' = "absent"
            ELSE /\ file' \in disk
                 /\ witness' \in IF witness = "volatile" THEN {"absent", "durable"} ELSE {witness}
  /\ disk' = {file'}
  /\ at' = [p \in Procs |-> Off] /\ holder' = None /\ faulty' = TRUE
  /\ UNCHANGED <<saves, acked>>

(* The ledger of a closed store disappears (MissingLedgerFailsClosed).     *)
LedgerVanishes ==
  /\ witness = "durable" /\ \A p \in Procs : at[p].pc = "off"
  /\ file' = Missing /\ disk' = {Missing} /\ faulty' = TRUE
  /\ UNCHANGED <<made, synced, witness, holder, at, saves, acked>>

-----------------------------------------------------------------------------
Open(p) ==
  \/ Start(p) \/ Stat(p) \/ SyncParent(p) \/ MakeDirectory(p)
  \/ CreateLock(p) \/ Probe(p) \/ Acquire(p) \/ WouldBlock(p) \/ Load(p)

Own(p) == Rename(p) \/ SyncStore(p) \/ SyncStoreFails(p) \/ Close(p)

Next == (\E p \in Procs : Open(p) \/ Own(p) \/ Fails(p)) \/ PowerLoss \/ LedgerVanishes

Spec == Init /\ [][Next]_vars

TypeOK ==
  /\ made \in 0..Depth /\ synced \subseteq 1..made
  /\ witness \in {"absent", "volatile", "durable"}
  /\ file \in Versions /\ disk \subseteq Versions /\ file \in disk
  /\ holder \in Procs \cup {None}
  /\ at \in [Procs -> [pc : {"off"} \cup Opening \cup Owning, level : 0..Depth,
                       created : BOOLEAN, value : Versions]]
  /\ saves \in 0..MaxSaves /\ acked \in Versions /\ faulty \in BOOLEAN

-----------------------------------------------------------------------------
(* What was acknowledged is never lost or started afresh: whoever owns the *)
(* store has the last acknowledged version or a later one of the same line,*)
(* and a new ledger is written only if none was acknowledged before, over  *)
(* races to make the directories, failed saves, power losses, a lock file  *)
(* that is missing and a ledger that is (OpenLock, makeDirectory).         *)
NothingAcknowledgedIsLost ==
  acked # Missing =>
    \A p \in Procs :
      /\ at[p].pc \notin {"fresh", "freshSync"}
      /\ at[p].pc \in Owning =>
           at[p].value.line = acked.line /\ at[p].value.number >= acked.number

(* A store that nobody may initialize any more comes from a fault: the     *)
(* creator of the lock does not lose its right to another process that has *)
(* the lock for a moment (LockFile).                                       *)
CreatorKeepsItsRight ==
  witness # "absent" /\ file = Missing /\ (\A p \in Procs : ~at[p].created) => faulty

(* A creator waits for the lock only while its holder is about to find that*)
(* it may not initialize the ledger, never for the owner of one (LockFile).*)
NobodyWaitsForAnOwner ==
  \A p \in Procs : at[p].pc = "wait" /\ holder # None =>
    at[holder].pc = "read" /\ ~at[holder].created /\ file = Missing

(* A lock file is taken by whom it should be, when it should be.           *)
LockIsFair == CreatorKeepsItsRight /\ NobodyWaitsForAnOwner
=============================================================================
