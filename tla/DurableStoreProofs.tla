------------------------- MODULE DurableStoreProofs -------------------------
(* What the two ledgers rely on in their directory, for any number of      *)
(* processes, directories and saves.                                       *)
EXTENDS DurableStore, TLAPS

Places    == [pc : {"off"} \cup Opening \cup Owning, level : 0..Depth, created : BOOLEAN, value : Versions]
Locking   == {"open", "probe", "wait", "try"}
Holding   == {"read", "fresh", "freshSync", "own", "ownSync"}
Whole     == 1..Depth \subseteq synced

(* Directories are made from the top, each after the one above is synced;  *)
(* whoever has gone past them finds the whole path on disk.                *)
Path ==
  /\ \A d \in 1..Depth : d < made => d \in synced
  /\ \A p \in Procs :
       LET d == at[p].level IN
       /\ at[p].pc \in {"sync", "mkdir"} => \A e \in 1..Depth : e < d => e \in synced
       /\ at[p].pc = "sync" => d <= made
       /\ at[p].pc = "mkdir" => d > 0 /\ d - 1 <= made
       /\ at[p].pc \in Locking \cup Holding => Whole
  /\ file # Missing \/ acked # Missing \/ witness # "absent" => Whole

(* The lock has one holder, the lock file one creator.                     *)
Rights ==
  /\ \A p \in Procs : at[p].pc \in Holding <=> holder = p
  /\ \A p, q \in Procs : at[p].created /\ at[q].created => p = q
  /\ \A p \in Procs :
       /\ at[p].created => witness # "absent" /\ at[p].pc \in (Locking \ {"open"}) \cup Holding
       /\ at[p].pc \in {"probe", "wait", "fresh", "freshSync"} => at[p].created

(* What the file is while somebody has a right to it or waits for one.     *)
Contents ==
  /\ \A p \in Procs :
       /\ at[p].pc \in {"wait", "fresh"} => file = Missing
       /\ at[p].pc = "try" /\ at[p].created => file # Missing
       /\ at[p].pc \in {"freshSync", "own", "ownSync"} => file # Missing /\ at[p].value = file
       /\ at[p].pc \in {"fresh", "freshSync"} => acked = Missing
  /\ \A v \in disk : v.number <= saves /\ (v # Missing => v.number > 0)
  /\ acked # Missing => acked.number > 0

(* What was acknowledged is on disk in every version that a power loss may *)
(* leave, or the ledger vanished and nobody may begin another.             *)
Intact == \A v \in disk : v.line = acked.line /\ v.number >= acked.number
Gone   == file = Missing /\ disk = {Missing} /\ witness = "durable" /\ \A p \in Procs : ~at[p].created
Kept   == acked # Missing => Intact \/ Gone

StoreInv == TypeOK /\ Path /\ Rights /\ Contents /\ Kept /\ CreatorKeepsItsRight

-----------------------------------------------------------------------------
LEMMA InitHolds == ASSUME Init PROVE StoreInv
<1> USE DurableAssumption
<1>1. TypeOK
  <2>1. made \in 0..Depth /\ synced \subseteq 1..made BY DEF Init
  <2>2. file \in Versions /\ file.number \in 0..MaxSaves /\ witness \in {"absent", "volatile", "durable"}
    <3>1. Missing \in Versions /\ Missing.number = 0 BY DEF Missing, Versions
    <3>2. CASE file = Missing BY <3>1, <3>2 DEF Init
    <3>3. CASE file # Missing
      <4>1. MaxSaves > 0 /\ file = [number |-> 1, line |-> 1] BY <3>3 DEF Init
      <4>2. QED BY <4>1 DEF Init, Versions
    <3>4. QED BY <3>2, <3>3
  <2>3. Off \in Places BY DEF Places, Off, Versions, Missing, Opening, Making, Owning
  <2>4. at \in [Procs -> Places] BY <2>3 DEF Init
  <2>5. QED BY <2>1, <2>2, <2>4 DEF Init, TypeOK, Places
<1>2. Path BY DEF Init, Path, Whole, Off, Missing, Locking, Holding
<1>3. Rights BY DEF Init, Rights, Off, Holding, Locking
<1>4. Contents BY DEF Init, Contents, Off, Missing
<1>5. Kept BY DEF Init, Kept, Intact
<1>6. CreatorKeepsItsRight BY DEF Init, CreatorKeepsItsRight, Off
<1>7. QED BY <1>1, <1>2, <1>3, <1>4, <1>5, <1>6 DEF StoreInv

LEMMA StartHolds == ASSUME StoreInv, NEW p \in Procs, Start(p) PROVE StoreInv'
<1> USE DurableAssumption DEF Start, Goto, GotoLevel, Release, Leave, Below, Found, Waits, NewVersion, Missing, Off, store
<1>1. TypeOK'
  <2>1. at \in [Procs -> Places] /\ at[p] \in Places BY DEF StoreInv, TypeOK, Places
  <2>2. Depth \in 0..Depth /\ "stat" \in Opening BY DEF Opening, Making
  <2>3. at' \in [Procs -> Places] BY <2>1, <2>2 DEF Places
  <2>4. QED BY <2>3 DEF StoreInv, TypeOK, Places
<1>2. Path' BY DEF StoreInv, TypeOK, Path, Rights, Whole, Locking, Holding, Opening, Making, Owning
<1>3. Rights' BY DEF StoreInv, TypeOK, Rights, Holding, Locking, Opening, Making, Owning
<1>4. Contents' BY DEF StoreInv, TypeOK, Contents, Rights, Holding, Locking, Versions
<1>5. Kept' BY DEF StoreInv, TypeOK, Kept, Intact, Gone, Contents, Rights, Holding, Locking, Versions
<1>6. CreatorKeepsItsRight' BY DEF StoreInv, TypeOK, CreatorKeepsItsRight, Rights, Contents, Holding, Locking
<1>7. QED BY <1>1, <1>2, <1>3, <1>4, <1>5, <1>6 DEF StoreInv

LEMMA StatHolds == ASSUME StoreInv, NEW p \in Procs, Stat(p) PROVE StoreInv'
<1> USE DurableAssumption DEF Stat, Goto, GotoLevel, Release, Leave, Below, Found, Waits, NewVersion, Missing, Off, store
<1>1. TypeOK' BY DEF StoreInv, TypeOK, Versions, Opening, Making, Owning
<1>2. Path' BY DEF StoreInv, TypeOK, Path, Rights, Whole, Locking, Holding, Opening, Making, Owning
<1>3. Rights' BY DEF StoreInv, TypeOK, Rights, Holding, Locking, Opening, Making, Owning
<1>4. Contents' BY DEF StoreInv, TypeOK, Contents, Rights, Holding, Locking, Versions
<1>5. Kept' BY DEF StoreInv, TypeOK, Kept, Intact, Gone, Contents, Rights, Holding, Locking, Versions
<1>6. CreatorKeepsItsRight' BY DEF StoreInv, TypeOK, CreatorKeepsItsRight, Rights, Contents, Holding, Locking
<1>7. QED BY <1>1, <1>2, <1>3, <1>4, <1>5, <1>6 DEF StoreInv

LEMMA SyncParentHolds == ASSUME StoreInv, NEW p \in Procs, SyncParent(p) PROVE StoreInv'
<1> USE DurableAssumption DEF SyncParent, Goto, GotoLevel, Release, Leave, Below, Found, Waits, NewVersion, Missing, Off, store
<1>1. TypeOK'
  <2>1. at \in [Procs -> Places] /\ at[p] \in Places BY DEF StoreInv, TypeOK, Places
  <2>2. at[p].level \in 0..Depth /\ {"open", "mkdir"} \subseteq Opening BY <2>1 DEF Places, Opening, Making
  <2>3. at[p].level # Depth => at[p].level + 1 \in 0..Depth BY <2>2
  <2>4. at' \in [Procs -> Places] BY <2>1, <2>2, <2>3 DEF Places
  <2>5. at[p].level <= made BY DEF StoreInv, Path
  <2>6. synced' \subseteq 1..made BY <2>2, <2>5 DEF StoreInv, TypeOK
  <2>7. QED BY <2>4, <2>6 DEF StoreInv, TypeOK, Places
<1>2. Path' BY DEF StoreInv, TypeOK, Path, Rights, Whole, Locking, Holding, Opening, Making, Owning
<1>3. Rights' BY DEF StoreInv, TypeOK, Rights, Holding, Locking, Opening, Making, Owning
<1>4. Contents' BY DEF StoreInv, TypeOK, Contents, Rights, Holding, Locking, Versions
<1>5. Kept' BY DEF StoreInv, TypeOK, Kept, Intact, Gone, Contents, Rights, Holding, Locking, Versions
<1>6. CreatorKeepsItsRight' BY DEF StoreInv, TypeOK, CreatorKeepsItsRight, Rights, Contents, Holding, Locking
<1>7. QED BY <1>1, <1>2, <1>3, <1>4, <1>5, <1>6 DEF StoreInv

LEMMA MakeDirectoryHolds == ASSUME StoreInv, NEW p \in Procs, MakeDirectory(p) PROVE StoreInv'
<1> USE DurableAssumption DEF MakeDirectory, Goto, GotoLevel, Release, Leave, Below, Found, Waits, NewVersion, Missing, Off, store
<1>1. TypeOK' BY DEF StoreInv, TypeOK, Versions, Opening, Making, Owning
<1>2. Path' BY DEF StoreInv, TypeOK, Path, Rights, Whole, Locking, Holding, Opening, Making, Owning
<1>3. Rights' BY DEF StoreInv, TypeOK, Rights, Holding, Locking, Opening, Making, Owning
<1>4. Contents' BY DEF StoreInv, TypeOK, Contents, Rights, Holding, Locking, Versions
<1>5. Kept' BY DEF StoreInv, TypeOK, Kept, Intact, Gone, Contents, Rights, Holding, Locking, Versions
<1>6. CreatorKeepsItsRight' BY DEF StoreInv, TypeOK, CreatorKeepsItsRight, Rights, Contents, Holding, Locking
<1>7. QED BY <1>1, <1>2, <1>3, <1>4, <1>5, <1>6 DEF StoreInv

LEMMA CreateLockHolds == ASSUME StoreInv, NEW p \in Procs, CreateLock(p) PROVE StoreInv'
<1> USE DurableAssumption DEF CreateLock, Goto, GotoLevel, Release, Leave, Below, Found, Waits, NewVersion, Missing, Off, store
<1>1. TypeOK' BY DEF StoreInv, TypeOK, Versions, Opening, Making, Owning
<1>2. Path' BY DEF StoreInv, TypeOK, Path, Rights, Whole, Locking, Holding, Opening, Making, Owning
<1>3. Rights' BY DEF StoreInv, TypeOK, Rights, Holding, Locking, Opening, Making, Owning
<1>4. Contents' BY DEF StoreInv, TypeOK, Contents, Rights, Holding, Locking, Versions
<1>5. Kept'
  <2>1. CASE witness = "absent" BY <2>1 DEF StoreInv, TypeOK, Kept, Intact, Gone
  <2>2. CASE witness # "absent"
    <3>1. \A q \in Procs : at'[q].created = at[q].created BY <2>2 DEF StoreInv, TypeOK
    <3>2. QED BY <2>2, <3>1 DEF StoreInv, Kept, Intact, Gone
  <2>3. QED BY <2>1, <2>2
<1>6. CreatorKeepsItsRight' BY DEF StoreInv, TypeOK, CreatorKeepsItsRight, Rights, Contents, Holding, Locking
<1>7. QED BY <1>1, <1>2, <1>3, <1>4, <1>5, <1>6 DEF StoreInv

LEMMA ProbeHolds == ASSUME StoreInv, NEW p \in Procs, Probe(p) PROVE StoreInv'
<1> USE DurableAssumption DEF Probe, Goto, GotoLevel, Release, Leave, Below, Found, Waits, NewVersion, Missing, Off, store
<1>1. TypeOK' BY DEF StoreInv, TypeOK, Versions, Opening, Making, Owning
<1>2. Path' BY DEF StoreInv, TypeOK, Path, Rights, Whole, Locking, Holding, Opening, Making, Owning
<1>3. Rights' BY DEF StoreInv, TypeOK, Rights, Holding, Locking, Opening, Making, Owning
<1>4. Contents' BY DEF StoreInv, TypeOK, Contents, Rights, Holding, Locking, Versions
<1>5. Kept' BY DEF StoreInv, TypeOK, Kept, Intact, Gone, Contents, Rights, Holding, Locking, Versions
<1>6. CreatorKeepsItsRight' BY DEF StoreInv, TypeOK, CreatorKeepsItsRight, Rights, Contents, Holding, Locking
<1>7. QED BY <1>1, <1>2, <1>3, <1>4, <1>5, <1>6 DEF StoreInv

LEMMA AcquireHolds == ASSUME StoreInv, NEW p \in Procs, Acquire(p) PROVE StoreInv'
<1> USE DurableAssumption DEF Acquire, Goto, GotoLevel, Release, Leave, Below, Found, Waits, NewVersion, Missing, Off, store
<1>1. TypeOK' BY DEF StoreInv, TypeOK, Versions, Opening, Making, Owning
<1>2. Path' BY DEF StoreInv, TypeOK, Path, Rights, Whole, Locking, Holding, Opening, Making, Owning
<1>3. Rights' BY DEF StoreInv, TypeOK, Rights, Holding, Locking, Opening, Making, Owning
<1>4. Contents' BY DEF StoreInv, TypeOK, Contents, Rights, Holding, Locking, Versions
<1>5. Kept' BY DEF StoreInv, TypeOK, Kept, Intact, Gone, Contents, Rights, Holding, Locking, Versions
<1>6. CreatorKeepsItsRight' BY DEF StoreInv, TypeOK, CreatorKeepsItsRight, Rights, Contents, Holding, Locking
<1>7. QED BY <1>1, <1>2, <1>3, <1>4, <1>5, <1>6 DEF StoreInv

LEMMA WouldBlockHolds == ASSUME StoreInv, NEW p \in Procs, WouldBlock(p) PROVE StoreInv'
<1> USE DurableAssumption DEF WouldBlock, Goto, GotoLevel, Release, Leave, Below, Found, Waits, NewVersion, Missing, Off, store
<1>1. TypeOK' BY DEF StoreInv, TypeOK, Versions, Opening, Making, Owning
<1>2. Path' BY DEF StoreInv, TypeOK, Path, Rights, Whole, Locking, Holding, Opening, Making, Owning
<1>3. Rights' BY DEF StoreInv, TypeOK, Rights, Holding, Locking, Opening, Making, Owning
<1>4. Contents' BY DEF StoreInv, TypeOK, Contents, Rights, Holding, Locking, Versions
<1>5. Kept' BY DEF StoreInv, TypeOK, Kept, Intact, Gone, Contents, Rights, Holding, Locking, Versions
<1>6. CreatorKeepsItsRight' BY DEF StoreInv, TypeOK, CreatorKeepsItsRight, Rights, Contents, Holding, Locking
<1>7. QED BY <1>1, <1>2, <1>3, <1>4, <1>5, <1>6 DEF StoreInv

LEMMA LoadHolds == ASSUME StoreInv, NEW p \in Procs, Load(p) PROVE StoreInv'
<1> USE DurableAssumption DEF Load, Goto, GotoLevel, Release, Leave, Below, Found, Waits, NewVersion, Missing, Off, store
<1>1. TypeOK'
  <2>1. at \in [Procs -> Places] /\ at[p] \in Places BY DEF StoreInv, TypeOK, Places
  <2>2. {"own", "fresh"} \subseteq Opening \cup Owning BY DEF Opening, Owning
  <2>3. Off \in Places BY DEF Places, Versions
  <2>4. at' = [at EXCEPT ![p].pc = "own", ![p].value = file] => at' \in [Procs -> Places]
    <3>1. file \in Versions BY DEF StoreInv, TypeOK
    <3>2. QED BY <2>1, <2>2, <3>1 DEF Places
  <2>5. at' = [at EXCEPT ![p].pc = "fresh"] => at' \in [Procs -> Places] BY <2>1, <2>2 DEF Places
  <2>6. at' = [at EXCEPT ![p] = Off] => at' \in [Procs -> Places] BY <2>1, <2>3
  <2>7. at' \in [Procs -> Places] BY <2>4, <2>5, <2>6
  <2>8. QED BY <2>7 DEF StoreInv, TypeOK, Places
<1>2. Path' BY DEF StoreInv, TypeOK, Path, Rights, Whole, Locking, Holding, Opening, Making, Owning
<1>3. Rights' BY DEF StoreInv, TypeOK, Rights, Holding, Locking, Opening, Making, Owning
<1>4. Contents'
  <2>1. at[p].pc = "read" /\ holder = p /\ \A q \in Procs \ {p} : at[q].pc \notin Holding
    BY DEF StoreInv, TypeOK, Rights, Holding
  <2>2. file = Missing /\ at[p].created => acked = Missing
    <3>1. SUFFICES ASSUME file = Missing, at[p].created, acked # Missing PROVE FALSE OBVIOUS
    <3>2. file \in disk /\ acked.number \in 0..MaxSaves /\ acked.number > 0
      BY <3>1 DEF StoreInv, TypeOK, Versions, Contents
    <3>3. Intact BY <3>1 DEF StoreInv, Kept, Gone
    <3>4. file.number = 0 BY <3>1
    <3>5. file.number >= acked.number BY <3>2, <3>3 DEF Intact
    <3>6. QED BY <3>2, <3>4, <3>5
  <2>3. \A q \in Procs :
          /\ at'[q].pc \in {"wait", "fresh"} => file = Missing
          /\ at'[q].pc = "try" /\ at'[q].created => file # Missing
          /\ at'[q].pc \in {"freshSync", "own", "ownSync"} => file # Missing /\ at'[q].value = file
          /\ at'[q].pc \in {"fresh", "freshSync"} => acked = Missing
    <3>1. \A q \in Procs \ {p} : at'[q] = at[q] BY DEF StoreInv, TypeOK
    <3>2. \/ file # Missing /\ at'[p].pc = "own" /\ at'[p].value = file
          \/ file = Missing /\ at[p].created /\ at'[p].pc = "fresh"
          \/ at'[p].pc = "off"
      BY DEF StoreInv, TypeOK
    <3>3. QED BY <2>1, <2>2, <3>1, <3>2 DEF StoreInv, Contents
  <2>4. QED BY <2>3 DEF StoreInv, Contents
<1>5. Kept' BY DEF StoreInv, TypeOK, Kept, Intact, Gone, Contents, Rights, Holding, Locking, Versions
<1>6. CreatorKeepsItsRight' BY DEF StoreInv, TypeOK, CreatorKeepsItsRight, Rights, Contents, Holding, Locking
<1>7. QED BY <1>1, <1>2, <1>3, <1>4, <1>5, <1>6 DEF StoreInv

LEMMA RenameHolds == ASSUME StoreInv, NEW p \in Procs, Rename(p) PROVE StoreInv'
<1> USE DurableAssumption DEF Rename, Goto, GotoLevel, Release, Leave, Below, Found, Waits, NewVersion, Missing, Off, store
<1>1. TypeOK'
  <2>1. at \in [Procs -> Places] /\ at[p] \in Places BY DEF StoreInv, TypeOK, Places
  <2>2. saves + 1 \in 0..MaxSaves BY DEF StoreInv, TypeOK
  <2>3. at[p].value.line \in 0..MaxSaves BY <2>1 DEF Places, Versions
  <2>4. [number |-> saves + 1, line |-> IF at[p].pc = "fresh" THEN saves + 1 ELSE at[p].value.line] \in Versions
    BY <2>2, <2>3 DEF Versions
  <2>5. {"freshSync", "ownSync"} \subseteq Opening \cup Owning BY DEF Opening, Owning
  <2>6. at' \in [Procs -> Places] BY <2>1, <2>4, <2>5 DEF Places
  <2>7. QED BY <2>2, <2>4, <2>6 DEF StoreInv, TypeOK, Places
<1>2. Path' BY DEF StoreInv, TypeOK, Path, Rights, Whole, Locking, Holding, Opening, Making, Owning
<1>3. Rights' BY DEF StoreInv, TypeOK, Rights, Holding, Locking, Opening, Making, Owning
<1>4. Contents' BY DEF StoreInv, TypeOK, Contents, Rights, Holding, Locking, Versions
<1>5. Kept' BY DEF StoreInv, TypeOK, Kept, Intact, Gone, Contents, Rights, Holding, Locking, Versions
<1>6. CreatorKeepsItsRight' BY DEF StoreInv, TypeOK, CreatorKeepsItsRight, Rights, Contents, Holding, Locking
<1>7. QED BY <1>1, <1>2, <1>3, <1>4, <1>5, <1>6 DEF StoreInv

LEMMA SyncStoreHolds == ASSUME StoreInv, NEW p \in Procs, SyncStore(p) PROVE StoreInv'
<1> USE DurableAssumption DEF SyncStore, Goto, GotoLevel, Release, Leave, Below, Found, Waits, NewVersion, Missing, Off, store
<1>1. TypeOK' BY DEF StoreInv, TypeOK, Versions, Opening, Making, Owning
<1>2. Path' BY DEF StoreInv, TypeOK, Path, Rights, Whole, Locking, Holding, Opening, Making, Owning
<1>3. Rights' BY DEF StoreInv, TypeOK, Rights, Holding, Locking, Opening, Making, Owning
<1>4. Contents' BY DEF StoreInv, TypeOK, Contents, Rights, Holding, Locking, Versions
<1>5. Kept' BY DEF StoreInv, TypeOK, Kept, Intact, Gone, Contents, Rights, Holding, Locking, Versions
<1>6. CreatorKeepsItsRight' BY DEF StoreInv, TypeOK, CreatorKeepsItsRight, Rights, Contents, Holding, Locking
<1>7. QED BY <1>1, <1>2, <1>3, <1>4, <1>5, <1>6 DEF StoreInv

LEMMA SyncStoreFailsHolds == ASSUME StoreInv, NEW p \in Procs, SyncStoreFails(p) PROVE StoreInv'
<1> USE DurableAssumption DEF SyncStoreFails, Goto, GotoLevel, Release, Leave, Below, Found, Waits, NewVersion, Missing, Off, store
<1>1. TypeOK' BY DEF StoreInv, TypeOK, Versions, Opening, Making, Owning
<1>2. Path' BY DEF StoreInv, TypeOK, Path, Rights, Whole, Locking, Holding, Opening, Making, Owning
<1>3. Rights' BY DEF StoreInv, TypeOK, Rights, Holding, Locking, Opening, Making, Owning
<1>4. Contents' BY DEF StoreInv, TypeOK, Contents, Rights, Holding, Locking, Versions
<1>5. Kept' BY DEF StoreInv, TypeOK, Kept, Intact, Gone, Contents, Rights, Holding, Locking, Versions
<1>6. CreatorKeepsItsRight' BY DEF StoreInv, TypeOK, CreatorKeepsItsRight, Rights, Contents, Holding, Locking
<1>7. QED BY <1>1, <1>2, <1>3, <1>4, <1>5, <1>6 DEF StoreInv

LEMMA CloseHolds == ASSUME StoreInv, NEW p \in Procs, Close(p) PROVE StoreInv'
<1> USE DurableAssumption DEF Close, Goto, GotoLevel, Release, Leave, Below, Found, Waits, NewVersion, Missing, Off, store
<1>1. TypeOK' BY DEF StoreInv, TypeOK, Versions, Opening, Making, Owning
<1>2. Path' BY DEF StoreInv, TypeOK, Path, Rights, Whole, Locking, Holding, Opening, Making, Owning
<1>3. Rights' BY DEF StoreInv, TypeOK, Rights, Holding, Locking, Opening, Making, Owning
<1>4. Contents' BY DEF StoreInv, TypeOK, Contents, Rights, Holding, Locking, Versions
<1>5. Kept' BY DEF StoreInv, TypeOK, Kept, Intact, Gone, Contents, Rights, Holding, Locking, Versions
<1>6. CreatorKeepsItsRight' BY DEF StoreInv, TypeOK, CreatorKeepsItsRight, Rights, Contents, Holding, Locking
<1>7. QED BY <1>1, <1>2, <1>3, <1>4, <1>5, <1>6 DEF StoreInv

LEMMA FailsHolds == ASSUME StoreInv, NEW p \in Procs, Fails(p) PROVE StoreInv'
<1> USE DurableAssumption DEF Fails, Goto, GotoLevel, Release, Leave, Below, Found, Waits, NewVersion, Missing, Off, store
<1>1. TypeOK' BY DEF StoreInv, TypeOK, Versions, Opening, Making, Owning
<1>2. Path' BY DEF StoreInv, TypeOK, Path, Rights, Whole, Locking, Holding, Opening, Making, Owning
<1>3. Rights' BY DEF StoreInv, TypeOK, Rights, Holding, Locking, Opening, Making, Owning
<1>4. Contents' BY DEF StoreInv, TypeOK, Contents, Rights, Holding, Locking, Versions
<1>5. Kept' BY DEF StoreInv, TypeOK, Kept, Intact, Gone, Contents, Rights, Holding, Locking, Versions
<1>6. CreatorKeepsItsRight' BY DEF StoreInv, TypeOK, CreatorKeepsItsRight, Rights, Contents, Holding, Locking
<1>7. QED BY <1>1, <1>2, <1>3, <1>4, <1>5, <1>6 DEF StoreInv

LEMMA PowerLossHolds == ASSUME StoreInv, PowerLoss PROVE StoreInv'
<1> USE DurableAssumption
<1>1. PICK S \in SUBSET (1..made), m \in 0..made :
        /\ synced \subseteq S /\ 1..m \subseteq S /\ m + 1 \notin S
        /\ made' = m /\ synced' = 1..m
        /\ IF m < Depth
             THEN file' = Missing /\ witness' = "absent"
             ELSE /\ file' \in disk
                  /\ witness' \in IF witness = "volatile" THEN {"absent", "durable"} ELSE {witness}
  BY DEF PowerLoss
<1>2. /\ disk' = {file'} /\ at' = [p \in Procs |-> Off] /\ holder' = None /\ faulty' = TRUE
      /\ saves' = saves /\ acked' = acked
  BY DEF PowerLoss
<1>3. made \in 0..Depth /\ m \in 0..Depth BY DEF StoreInv, TypeOK
<1>4. Whole => m = Depth
  <2>1. SUFFICES ASSUME Whole, m < Depth PROVE FALSE BY <1>3
  <2>2. m + 1 \in 1..Depth BY <1>3, <2>1
  <2>3. QED BY <1>1, <2>1, <2>2 DEF Whole
<1>5. acked # Missing => m = Depth BY <1>4 DEF StoreInv, Path
<1>6. TypeOK'
  BY <1>1, <1>2, <1>3 DEF StoreInv, TypeOK, Versions, Missing, Off
<1>7. Path'
  <2>1. \A d \in 1..Depth : d < made' => d \in synced' BY <1>1, <1>3
  <2>2. file' # Missing \/ acked' # Missing \/ witness' # "absent" => 1..Depth \subseteq synced'
    BY <1>1, <1>2, <1>3, <1>5
  <2>3. QED BY <1>2, <2>1, <2>2 DEF Path, Whole, Off, Locking, Holding
<1>8. Rights' BY <1>2 DEF Rights, Off, Holding, Locking
<1>9. \A v \in disk' : v.number <= saves' /\ (v # Missing => v.number > 0)
  BY <1>1, <1>2 DEF StoreInv, Contents, TypeOK, Versions, Missing
<1>10. Contents'
  BY <1>1, <1>2, <1>9 DEF StoreInv, Contents, Off
<1>11. Kept'
  BY <1>1, <1>2, <1>5, <1>3 DEF StoreInv, Kept, Intact, Gone, Off
<1>12. QED BY <1>2, <1>6, <1>7, <1>8, <1>10, <1>11 DEF StoreInv, CreatorKeepsItsRight

LEMMA LedgerVanishesHolds == ASSUME StoreInv, LedgerVanishes PROVE StoreInv'
<1> USE DurableAssumption DEF LedgerVanishes
<1>1. TypeOK' BY DEF StoreInv, TypeOK, Versions, Missing
<1>2. Path' BY DEF StoreInv, TypeOK, Path, Whole, Locking, Holding
<1>3. Rights' BY DEF StoreInv, Rights
<1>4. Contents' BY DEF StoreInv, TypeOK, Contents, Rights, Locking, Holding, Missing
<1>5. Kept' BY DEF StoreInv, Kept, Gone, Rights, Locking, Holding
<1>6. QED BY <1>1, <1>2, <1>3, <1>4, <1>5 DEF StoreInv, CreatorKeepsItsRight

LEMMA StepHolds == ASSUME StoreInv, [Next]_vars PROVE StoreInv'
<1>1. CASE UNCHANGED vars
  BY <1>1 DEF vars, store, StoreInv, TypeOK, Path, Rights, Contents, Kept, Intact, Gone, Whole, CreatorKeepsItsRight
<1>2. ASSUME NEW p \in Procs, Open(p) PROVE StoreInv'
  BY <1>2, StartHolds, StatHolds, SyncParentHolds, MakeDirectoryHolds, CreateLockHolds,
     ProbeHolds, AcquireHolds, WouldBlockHolds, LoadHolds DEF Open
<1>3. ASSUME NEW p \in Procs, Own(p) PROVE StoreInv'
  BY <1>3, RenameHolds, SyncStoreHolds, SyncStoreFailsHolds, CloseHolds DEF Own
<1>4. QED
  BY <1>1, <1>2, <1>3, FailsHolds, PowerLossHolds, LedgerVanishesHolds DEF Next

(* The path, the rights to the lock file and what is on disk fit together. *)
THEOREM StoreInvariant == Spec => []StoreInv
BY InitHolds, StepHolds, PTL DEF Spec

(* An owner has the last acknowledged version of the ledger or a later one *)
(* of the same line, over power losses, failed syncs and vanished ledgers. *)
THEOREM AcknowledgedIsKept == Spec => []NothingAcknowledgedIsLost
<1>1. StoreInv => NothingAcknowledgedIsLost
  <2> SUFFICES ASSUME StoreInv, acked # Missing, NEW p \in Procs
               PROVE  /\ at[p].pc \notin {"fresh", "freshSync"}
                      /\ at[p].pc \in Owning =>
                           at[p].value.line = acked.line /\ at[p].value.number >= acked.number
    BY DEF NothingAcknowledgedIsLost
  <2>1. at[p].pc \notin {"fresh", "freshSync"} BY DEF StoreInv, Contents
  <2>2. ASSUME at[p].pc \in Owning
        PROVE  at[p].value.line = acked.line /\ at[p].value.number >= acked.number
    <3>1. file # Missing /\ at[p].value = file /\ file \in disk
      BY <2>2 DEF StoreInv, Contents, Owning, TypeOK
    <3>2. Intact BY <3>1 DEF StoreInv, Kept, Gone
    <3>3. QED BY <3>1, <3>2 DEF Intact
  <2>3. QED BY <2>1, <2>2
<1>2. QED BY <1>1, StoreInvariant, PTL

(* The creator of the lock file keeps its right to initialize, and never   *)
(* waits behind the owner of a ledger.                                     *)
THEOREM LockStaysFair == Spec => []LockIsFair
<1>1. StoreInv => LockIsFair
  <2>1. SUFFICES ASSUME StoreInv, NEW p \in Procs, at[p].pc = "wait", holder # None
                 PROVE  at[holder].pc = "read" /\ ~at[holder].created /\ file = Missing
    BY DEF LockIsFair, NobodyWaitsForAnOwner, StoreInv
  <2>2. file = Missing /\ at[p].created BY <2>1 DEF StoreInv, Contents, Rights
  <2>3. holder \in Procs /\ at[holder].pc \in Holding /\ holder # p
    BY <2>1 DEF StoreInv, TypeOK, Rights, Holding
  <2>4. ~at[holder].created
    <3>1. \A a, b \in Procs : at[a].created /\ at[b].created => a = b BY <2>1 DEF StoreInv, Rights
    <3>2. QED BY <2>1, <2>2, <2>3, <3>1
  <2>5. at[holder].pc = "read"
    <3>1. at[holder].pc \notin {"fresh", "freshSync"} BY <2>1, <2>3, <2>4 DEF StoreInv, Rights
    <3>2. at[holder].pc \notin {"own", "ownSync"} BY <2>1, <2>2, <2>3 DEF StoreInv, Contents
    <3>3. QED BY <2>3, <3>1, <3>2 DEF Holding
  <2>6. QED BY <2>2, <2>4, <2>5
<1>2. QED BY <1>1, StoreInvariant, PTL
=============================================================================
