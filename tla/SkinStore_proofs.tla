--------------------------- MODULE SkinStore_proofs ---------------------------
(***************************************************************************)
(* Proof that whatever is imported by whom, fails, or is cut off by a      *)
(* crash, no two skins come to differ by case only, no installed skin is   *)
(* lost, and no reader of the catalogue finds a skin half replaced.        *)
(*                                                                         *)
(* The inductive invariant says what an import knows at each place: the    *)
(* import lock makes it the only one that works, the catalogue lock the    *)
(* only one that changes the disk, and the directory it found for its skin *)
(* has had no rival since, although it looked without the catalogue lock.  *)
(***************************************************************************)
EXTENDS SkinStore, TLAPS

InCatalog == {"move aside", "install", "verify", "roll back", "clean up"}
Working == {"validate", "staged"} \cup InCatalog
Places == {"none", "queued"} \cup Working \cup Ended

Directory == [name : Names, version : SUBSET Versions]

JobRecord ==
    [at : Places, archive : SUBSET Archives, replace : BOOLEAN, storage : SUBSET Names,
     backup : SUBSET Directory, window : SUBSET Windows]

WindowRecord ==
    [open : BOOLEAN, listed : SUBSET Names,
     at : {"none", "ready", "textures", "prompt"}, prompt : SUBSET Archives]

DiskTyped == target \in [Names -> SUBSET Versions] /\ backups \subseteq Directory
JobsTyped ==
    /\ job \in [Jobs -> JobRecord]
    /\ \A j \in Jobs : /\ job[j].at \in {"queued", "exists"} \cup Working => job[j].archive # {}
                       /\ job[j].at = "imported" => job[j].storage # {}
WindowsTyped ==
    /\ window \in [Windows -> WindowRecord]
    /\ \A w \in Windows : window[w].at = "prompt" => window[w].prompt # {}
ActiveTyped ==
    /\ active \in [name : SUBSET Names, version : SUBSET Versions, textures : SUBSET Versions]
    /\ \A w \in Windows : window[w].at = "textures" => active.name # {}
    /\ persisted \subseteq Names
FailuresTyped == failures \in Nat

Typed == DiskTyped /\ JobsTyped /\ WindowsTyped /\ ActiveTyped /\ FailuresTyped

\* Who works holds the import lock, who changes the disk the catalogue's.
Locked(j) ==
    /\ job[j].at \in Working => importMutex = {j}
    /\ job[j].at \in InCatalog => catalogMutex = {j}

\* Nothing is installed whose name rivals n.
Unrivalled(n) == \A s \in SameName : n \in s => \A m \in s : Installed(m) => m = n

\* What an import knows of its directory and of what it moved aside.
Knows(j) ==
    /\ job[j].at \in {"staged"} \cup InCatalog =>
           job[j].storage # {} /\ Unrivalled(Storage(j))
    /\ job[j].at \in {"move aside", "verify", "clean up"} => Installed(Storage(j))
    /\ job[j].at = "install" \/ job[j].at = "roll back" => ~Installed(Storage(j))
    /\ job[j].at \in InCatalog \ {"move aside"} =>
           /\ \A b \in job[j].backup : b \in backups /\ b.name = Storage(j) /\ b.version # {}
           /\ \A b, c \in job[j].backup : b = c
    /\ job[j].at \notin InCatalog \ {"move aside"} => job[j].backup = {}

\* A directory that was moved aside and that no import will move back or remove.
Orphan(n) == \E b \in backups : b.name = n /\ \A j \in Jobs : b \notin job[j].backup

\* A directory that an import has moved aside and will replace or move back.
InTransit(n) ==
    \E j \in Jobs : /\ job[j].at \in {"install", "verify", "roll back"}
                    /\ job[j].backup # {} /\ Storage(j) = n

\* A skin in its place, and not one that is still to pass its verification.
Settled(n) == Installed(n) /\ \A j \in Jobs : job[j].at = "verify" => Storage(j) # n

Found(n) == Settled(n) \/ Orphan(n) \/ InTransit(n)

AllListedFound == \A w \in Windows : \A n \in window[w].listed : Found(n)

SkinInv ==
    /\ Typed
    /\ \A j \in Jobs : Locked(j) /\ Knows(j)
    /\ OneSkinPerName
    /\ AllListedFound

-----------------------------------------------------------------------------
(* What the parts of the invariant say of one import. *)

\* The directory an import found is one of the names, and what it brings has a name
\* and a version.
LEMMA ImportTyped ==
    ASSUME JobsTyped, NEW j \in Jobs
    PROVE  /\ job[j].storage # {} => Storage(j) \in Names /\ Storage(j) \in job[j].storage
           /\ job[j].archive # {} => /\ Version(j) \in Versions
                                    /\ (CHOOSE a \in job[j].archive : TRUE).name \in Names
<1>1. job[j].storage \subseteq Names /\ job[j].archive \subseteq Archives
  BY DEF JobsTyped, JobRecord
<1>2. job[j].storage # {} => Storage(j) \in job[j].storage
  BY DEF Storage
<1>3. job[j].archive # {} => (CHOOSE a \in job[j].archive : TRUE) \in job[j].archive
  OBVIOUS
<1> QED
  BY <1>1, <1>2, <1>3 DEF Version, Archives

\* The import lock: while one import works no other does (skinImportMutex).
LEMMA OneWorks ==
    ASSUME SkinInv, NEW j \in Jobs, job[j].at \in Working, NEW k \in Jobs, k # j
    PROVE  job[k].at \notin Working
BY DEF SkinInv, Locked

\* A step of one import while no other works: what is left to show is about that
\* import and about the disk.
LEMMA JobStepKeeps ==
    ASSUME SkinInv, NEW j \in Jobs, NEW r \in JobRecord, job' = [job EXCEPT ![j] = r],
           \A k \in Jobs : k # j => job[k].at \notin Working,
           r.at \in {"queued", "exists"} \cup Working => r.archive # {},
           r.at = "imported" => r.storage # {},
           DiskTyped', failures' \in Nat, UNCHANGED <<window, active, persisted>>,
           job'[j] = r => (Locked(j) /\ Knows(j))', OneSkinPerName',
           \A n \in Names : Found(n) => (job'[j] = r => Found(n)')
    PROVE  SkinInv'
<1>1. job \in [Jobs -> JobRecord]
  BY DEF SkinInv, Typed, JobsTyped
<1>2. job'[j] = r /\ \A k \in Jobs : k # j => job'[k] = job[k]
  BY <1>1
<1>3. Typed'
  <2>1. JobsTyped'
    BY <1>1, <1>2 DEF SkinInv, Typed, JobsTyped
  <2>2. WindowsTyped' /\ ActiveTyped'
    BY DEF SkinInv, Typed, WindowsTyped, ActiveTyped
  <2> QED
    BY <2>1, <2>2 DEF Typed, FailuresTyped
<1>4. \A k \in Jobs : (Locked(k) /\ Knows(k))'
  <2> SUFFICES ASSUME NEW k \in Jobs, k # j PROVE (Locked(k) /\ Knows(k))'
    BY <1>2
  <2>1. job[k].backup = {} /\ job[k].at \notin Working
    BY DEF SkinInv, Knows, Working
  <2>2. job'[k].backup = {} /\ job'[k].at \notin Working
    BY <1>2, <2>1
  <2> QED
    BY <2>2 DEF Locked, Knows, Working, InCatalog
<1>5. AllListedFound'
  <2>1. \A w \in Windows : window[w].listed \subseteq Names
    BY DEF SkinInv, Typed, WindowsTyped, WindowRecord
  <2> QED
    BY <1>2, <2>1 DEF SkinInv, AllListedFound
<1> QED
  BY <1>3, <1>4, <1>5 DEF SkinInv

\* As long as no import is in the catalogue, a step that leaves the disk alone and
\* moves nothing aside takes nothing from a reader.
LEMMA DiskAloneFinds ==
    ASSUME SkinInv, NEW j \in Jobs, job[j].at \in {"queued", "validate", "staged", "move aside"},
           UNCHANGED disk, \A k \in Jobs : k # j => job[k].at \notin Working,
           \A k \in Jobs : k # j => job'[k] = job[k], job'[j].backup = {},
           job'[j].at # "verify", NEW n \in Names, Found(n)
    PROVE  Found(n)'
<1>1. \A k \in Jobs : job'[k].backup = job[k].backup
  BY DEF SkinInv, Knows, Working, InCatalog
<1>2. \A k \in Jobs : job[k].at \notin {"install", "verify", "roll back"} /\ job'[k].at # "verify"
  BY DEF Working, InCatalog
<1> QED
  BY <1>1, <1>2 DEF Found, Settled, Orphan, InTransit, Installed, disk

\* The record of an import that returns has given up its backup.
LEMMA ReturnTyped ==
    ASSUME SkinInv, NEW j \in Jobs, NEW result \in Ended, Return(j, result)
    PROVE  \E r \in JobRecord :
              /\ job' = [job EXCEPT ![j] = r]
              /\ r.at = result /\ r.backup = {}
              /\ r.archive = job[j].archive /\ r.storage = job[j].storage
<1> DEFINE r == [at |-> result, archive |-> job[j].archive, replace |-> FALSE,
                 storage |-> job[j].storage, backup |-> {}, window |-> job[j].window]
<1>1. job[j] \in JobRecord
  BY DEF SkinInv, Typed, JobsTyped
<1>2. /\ r \in JobRecord /\ r.at = result /\ r.backup = {}
      /\ r.archive = job[j].archive /\ r.storage = job[j].storage
  BY <1>1 DEF JobRecord, Places
<1>3. job' = [job EXCEPT ![j] = r]
  BY DEF Return
<1> QED
  BY <1>2, <1>3

-----------------------------------------------------------------------------
(* The steps of an import. *)

\* An import takes the import lock (the start of importArchiveDetailed).
LEMMA AcquireImportKeeps ==
    ASSUME SkinInv, NEW j \in Jobs, AcquireImport(j) PROVE SkinInv'
<1> DEFINE r == [job[j] EXCEPT !.at = "validate"]
<1>1. /\ job[j] \in JobRecord /\ job[j].archive # {} /\ job[j].backup = {}
      /\ DiskTyped /\ failures \in Nat
  BY DEF SkinInv, Typed, JobsTyped, AcquireImport, Knows, InCatalog, FailuresTyped
<1>2. /\ job' = [job EXCEPT ![j] = r] /\ UNCHANGED <<target, backups, failures>>
      /\ UNCHANGED <<window, active, persisted>> /\ importMutex = {} /\ importMutex' = {j}
  BY DEF AcquireImport, Move, disk
<1>3. /\ r \in JobRecord /\ r.at = "validate" /\ r.archive # {} /\ r.backup = {}
  BY <1>1 DEF JobRecord, Places, Working
<1>4. \A k \in Jobs : k # j => job[k].at \notin Working
  BY <1>2 DEF SkinInv, Locked
<1>5. job'[j] = r => (Locked(j) /\ Knows(j))'
  BY <1>2, <1>3 DEF Locked, Knows, InCatalog
<1>6. DiskTyped' /\ OneSkinPerName'
  BY <1>1, <1>2 DEF SkinInv, OneSkinPerName, Installed, DiskTyped
<1>7. \A n \in Names : Found(n) => (job'[j] = r => Found(n)')
  <2>1. \A k \in Jobs : k # j => job'[k] = job[k]
    BY <1>2 DEF SkinInv, Typed, JobsTyped
  <2> QED
    BY <1>2, <1>3, <1>4, <2>1, DiskAloneFinds DEF AcquireImport
<1> HIDE DEF r
<1> QED
  BY <1>1, <1>2, <1>3, <1>4, <1>5, <1>6, <1>7, JobStepKeeps

\* The archive is checked and its directory found, outside the catalogue lock: no
\* other import can install a rival afterwards.
LEMMA StageKeeps ==
    ASSUME SkinInv, NEW j \in Jobs, Stage(j) PROVE SkinInv'
<1> DEFINE name == (CHOOSE a \in job[j].archive : TRUE).name
           matches == {n \in Listed : \E s \in SameName : {n, name} \subseteq s}
           found == IF matches = {} THEN {name} ELSE matches
<1>1. /\ job[j] \in JobRecord /\ job[j].archive # {} /\ job[j].backup = {} /\ DiskTyped
      /\ job \in [Jobs -> JobRecord]
  BY DEF SkinInv, Typed, JobsTyped, Stage, Knows, InCatalog, Working
<1>2. name \in Names
  BY <1>1, ImportTyped DEF SkinInv, Typed
<1>3. UNCHANGED <<target, backups, window, active, persisted>> /\ failures' \in Nat
  BY DEF Stage, Outcome, disk, SkinInv, Typed, FailuresTyped
<1>4. \A k \in Jobs : k # j => job[k].at \notin Working
  BY OneWorks DEF Stage, Working
<1>5. DiskTyped' /\ OneSkinPerName'
  BY <1>1, <1>3 DEF SkinInv, OneSkinPerName, Installed, DiskTyped
<1>6. ASSUME NEW r \in JobRecord, job' = [job EXCEPT ![j] = r], r.backup = {}, r.at # "verify"
      PROVE  \A n \in Names : Found(n) => (job'[j] = r => Found(n)')
  <2>1. \A k \in Jobs : k # j => job'[k] = job[k]
    BY <1>1, <1>6
  <2> QED
    BY <1>3, <1>4, <1>6, <2>1, DiskAloneFinds DEF Stage, disk
<1>7. CASE Return(j, "failed")
  <2>1. PICK r \in JobRecord : /\ job' = [job EXCEPT ![j] = r]
                              /\ r.at = "failed" /\ r.backup = {}
    BY <1>7, ReturnTyped DEF Ended
  <2>2. job'[j] = r => (Locked(j) /\ Knows(j))'
    BY <2>1 DEF Locked, Knows, Working, InCatalog
  <2> QED
    BY <1>3, <1>4, <1>5, <1>6, <2>1, <2>2, JobStepKeeps DEF Working, InCatalog
<1>8. CASE /\ job' = [job EXCEPT ![j].at = "staged", ![j].storage = found]
           /\ UNCHANGED locks
  <2> DEFINE r == [job[j] EXCEPT !.at = "staged", !.storage = found]
  <2>1. /\ r \in JobRecord /\ r.at = "staged" /\ r.archive # {} /\ r.backup = {}
        /\ r.storage = found /\ found # {} /\ job' = [job EXCEPT ![j] = r]
    <3>1. found \in SUBSET Names
      BY <1>2 DEF Listed
    <3> QED
      BY <1>1, <1>8, <3>1 DEF JobRecord, Places, Working
  <2>2. PICK n \in found : n = CHOOSE m \in found : TRUE
    BY <2>1
  <2>3. Unrivalled(n)
    <3>1. CASE matches = {}
      <4>1. n = name
        BY <2>2, <3>1
      <4>2. \A s \in SameName : name \in s => \A m \in s : ~Installed(m)
        <5> SUFFICES ASSUME NEW s \in SameName, name \in s, NEW m \in s, Installed(m) PROVE FALSE
          OBVIOUS
        <5>1. m \in Listed /\ {m, name} \subseteq s
          BY SkinStoreAssumption DEF Listed
        <5>2. m \in matches
          BY <5>1
        <5> QED
          BY <3>1, <5>2
      <4> QED
        BY <4>1, <4>2 DEF Unrivalled
    <3>2. CASE matches # {}
      <4>1. Installed(n)
        BY <2>2, <3>2 DEF Listed
      <4> QED
        BY <4>1 DEF SkinInv, OneSkinPerName, Unrivalled
    <3> QED
      BY <3>1, <3>2
  <2>4. Unrivalled(n)'
    BY <1>3, <2>3 DEF Unrivalled, Installed
  <2> HIDE DEF r, found
  <2>5. job'[j] = r => Storage(j)' = n
    BY <2>1, <2>2 DEF Storage
  <2>6. importMutex' = {j}
    BY <1>8 DEF SkinInv, Locked, Stage, Working, locks
  <2>7. job'[j] = r => (Locked(j) /\ Knows(j))'
    <3> SUFFICES ASSUME job'[j] = r PROVE (Locked(j) /\ Knows(j))'
      OBVIOUS
    <3>1. Unrivalled(Storage(j))'
      BY <2>4, <2>5 DEF Unrivalled
    <3>2. job'[j].at = "staged" /\ job'[j].storage # {} /\ job'[j].backup = {}
      BY <2>1
    <3> QED
      BY <2>6, <3>1, <3>2 DEF Locked, Knows, InCatalog
  <2> QED
    BY <1>3, <1>4, <1>5, <1>6, <2>1, <2>7, JobStepKeeps
<1> QED
  BY <1>7, <1>8 DEF Stage

\* What holds while an import works.
LEMMA AtWork ==
    ASSUME SkinInv, NEW j \in Jobs, job[j].at \in Working
    PROVE  /\ job \in [Jobs -> JobRecord] /\ job[j] \in JobRecord /\ job[j].archive # {}
           /\ DiskTyped /\ failures \in Nat /\ importMutex = {j} /\ Version(j) \in Versions
           /\ \A k \in Jobs : k # j => job[k].at \notin Working /\ job[k].backup = {}
           /\ job[j].at \in InCatalog => catalogMutex = {j}
           /\ job[j].at \in {"staged"} \cup InCatalog =>
                  Storage(j) \in Names /\ job[j].storage # {} /\ Unrivalled(Storage(j))
<1>1. JobsTyped /\ job[j].archive # {}
  BY DEF SkinInv, Typed, JobsTyped
<1>2. \A k \in Jobs : k # j => job[k].at \notin Working /\ job[k].backup = {}
  BY OneWorks DEF SkinInv, Knows, Working
<1> QED
  BY <1>1, <1>2, ImportTyped DEF SkinInv, Typed, JobsTyped, FailuresTyped, Locked, Knows

\* The import that returns leaves nothing moved aside that it may still touch, and
\* gives back its locks.
LEMMA ReturnKeeps ==
    ASSUME SkinInv, NEW j \in Jobs, job[j].at \in Working, NEW result \in Ended,
           Return(j, result), result = "imported" => job[j].storage # {},
           UNCHANGED <<window, active, persisted>>, failures' \in Nat,
           DiskTyped', OneSkinPerName',
           \A n \in Names : Found(n) =>
               \/ Installed(n)'
               \/ \E b \in backups' : b.name = n
    PROVE  SkinInv'
<1>1. PICK r \in JobRecord : /\ job' = [job EXCEPT ![j] = r] /\ r.at = result /\ r.backup = {}
                            /\ r.archive = job[j].archive /\ r.storage = job[j].storage
  BY ReturnTyped
<1>2. job'[j] = r => (Locked(j) /\ Knows(j))'
  BY <1>1 DEF Ended, Locked, Knows, Working, InCatalog
<1>3. \A n \in Names : Found(n) => (job'[j] = r => Found(n)')
  <2>1. \A k \in Jobs : job'[k].backup = {} /\ job'[k].at # "verify"
    <3>1. \A k \in Jobs : k # j => job'[k] = job[k] /\ job[k].at # "verify"
      BY <1>1, AtWork DEF Working, InCatalog
    <3> QED
      BY <1>1, <3>1, AtWork DEF Ended
  <2> QED
    BY <2>1 DEF Found, Settled, Orphan
<1> QED
  BY <1>1, <1>2, <1>3, AtWork, JobStepKeeps DEF Ended, Working, InCatalog

\* The catalogue lock is taken, unless there is a skin that is not to be replaced.
LEMMA AcquireCatalogKeeps ==
    ASSUME SkinInv, NEW j \in Jobs, AcquireCatalog(j) PROVE SkinInv'
<1>1. job[j].at = "staged" /\ job[j].at \in Working /\ job[j].backup = {}
  BY DEF AcquireCatalog, Working, InCatalog, SkinInv, Knows
<1>2. UNCHANGED <<target, backups, window, active, persisted, failures>>
  BY DEF AcquireCatalog, disk
<1>3. DiskTyped' /\ OneSkinPerName' /\ failures' \in Nat
  BY <1>1, <1>2, AtWork DEF SkinInv, DiskTyped, OneSkinPerName, Installed
<1>4. CASE Return(j, "exists")
  <2>1. \A n \in Names : Found(n) => Installed(n)' \/ \E b \in backups' : b.name = n
    <3>1. \A k \in Jobs : job[k].at \notin {"install", "verify", "roll back"}
      BY <1>1, AtWork DEF Working, InCatalog
    <3> QED
      BY <1>2, <3>1 DEF Found, Settled, Orphan, InTransit, Installed
  <2> QED
    BY <1>1, <1>2, <1>3, <1>4, <2>1, ReturnKeeps DEF Ended
<1>5. ASSUME NEW at \in {"move aside", "install"}, Move(j, at), catalogMutex' = {j},
             UNCHANGED importMutex, at = "move aside" <=> Installed(Storage(j))
      PROVE  SkinInv'
  <2> DEFINE r == [job[j] EXCEPT !.at = at]
  <2>1. /\ job' = [job EXCEPT ![j] = r] /\ r \in JobRecord /\ r.at = at /\ r.archive # {}
        /\ r.backup = {} /\ r.storage = job[j].storage
    BY <1>1, <1>5, AtWork DEF Move, JobRecord, Places, Working, InCatalog
  <2> HIDE DEF r
  <2>2. job'[j] = r => (Locked(j) /\ Knows(j))'
    <3> SUFFICES ASSUME job'[j] = r PROVE (Locked(j) /\ Knows(j))'
      OBVIOUS
    <3>1. Storage(j)' = Storage(j)
      BY <2>1 DEF Storage
    <3>2. Unrivalled(Storage(j))' /\ (Installed(Storage(j))' <=> at = "move aside")
      BY <1>1, <1>2, <1>5, <3>1, AtWork DEF Unrivalled, Installed
    <3>3. importMutex' = {j}
      BY <1>1, <1>5, AtWork
    <3> QED
      BY <1>1, <1>5, <2>1, <3>1, <3>2, <3>3, AtWork DEF Locked, Knows, InCatalog
  <2>3. \A n \in Names : Found(n) => (job'[j] = r => Found(n)')
    <3>1. \A k \in Jobs : k # j => job'[k] = job[k]
      BY <1>1, <2>1, AtWork
    <3> QED
      BY <1>1, <1>2, <2>1, <3>1, AtWork, DiskAloneFinds DEF disk
  <2> QED
    BY <1>1, <1>2, <1>3, <2>1, <2>2, <2>3, AtWork, JobStepKeeps
<1>6. CASE ~(Installed(Storage(j)) /\ ~job[j].replace)
  BY <1>5, <1>6 DEF AcquireCatalog
<1> QED
  BY <1>4, <1>6 DEF AcquireCatalog

\* Writing or emptying a directory without a rival makes no rivals.
LEMMA DirectoryChanges ==
    ASSUME SkinInv, NEW n \in Names, Unrivalled(n), NEW v \in SUBSET Versions,
           target' = [target EXCEPT ![n] = v]
    PROVE  /\ OneSkinPerName' /\ target' \in [Names -> SUBSET Versions]
           /\ \A s \in SameName : n \in s => \A m \in s : target'[m] # {} => m = n
           /\ Installed(n)' <=> v # {}
           /\ \A m \in Names : m # n => (Installed(m)' <=> Installed(m))
<1>1. target \in [Names -> SUBSET Versions]
  BY DEF SkinInv, Typed, DiskTyped
<1>2. target'[n] = v /\ \A m \in Names : m # n => target'[m] = target[m]
  BY <1>1
<1>3. \A s \in SameName : \A m \in s : m \in Names
  BY SkinStoreAssumption
<1>4. \A s \in SameName : n \in s => \A m \in s : target'[m] # {} => m = n
  BY <1>2, <1>3 DEF Unrivalled, Installed
<1>5. OneSkinPerName'
  <2> SUFFICES ASSUME NEW s \in SameName, NEW l \in s, NEW m \in s,
                      target'[l] # {}, target'[m] # {}
               PROVE  l = m
    BY DEF OneSkinPerName, Installed
  <2>1. CASE l = n \/ m = n
    BY <1>4, <2>1
  <2>2. CASE l # n /\ m # n
    BY <1>2, <1>3, <2>2 DEF SkinInv, OneSkinPerName, Installed
  <2> QED
    BY <2>1, <2>2
<1> QED
  BY <1>1, <1>2, <1>4, <1>5 DEF Installed

\* The old skin is moved aside, or the import gives up.
LEMMA MoveAsideKeeps ==
    ASSUME SkinInv, NEW j \in Jobs, MoveAside(j) PROVE SkinInv'
<1>0. PICK n \in Names : n = Storage(j)
  BY AtWork DEF MoveAside, Working, InCatalog
<1>1. /\ job[j].at = "move aside" /\ job[j].at \in Working /\ job[j].backup = {}
      /\ job[j].storage # {} /\ target[n] # {} /\ Unrivalled(n)
  BY <1>0, AtWork DEF MoveAside, Working, InCatalog, SkinInv, Knows, Installed
<1>2. UNCHANGED <<window, active, persisted>> /\ failures' \in Nat
  <2>1. UNCHANGED <<window, active, persisted>> /\ \E ok \in BOOLEAN : Outcome(ok)
    BY DEF MoveAside
  <2>2. failures \in Nat
    BY <1>1, AtWork
  <2> QED
    BY <2>1, <2>2 DEF Outcome
<1>3. \A k \in Jobs : k # j => job[k].at \notin {"install", "verify", "roll back"}
  BY <1>1, OneWorks DEF Working, InCatalog
<1>4. CASE Return(j, "failed") /\ UNCHANGED disk
  <2>1. DiskTyped' /\ OneSkinPerName'
    BY <1>1, <1>4, AtWork DEF SkinInv, DiskTyped, OneSkinPerName, Installed, disk
  <2>2. \A m \in Names : Found(m) => Installed(m)' \/ \E b \in backups' : b.name = m
    BY <1>1, <1>3, <1>4 DEF Found, Settled, Orphan, InTransit, Installed, disk
  <2> QED
    BY <1>1, <1>2, <1>4, <2>1, <2>2, ReturnKeeps DEF Ended
<1>5. ASSUME NEW old \in Directory, old = [name |-> n, version |-> target[n]],
             target' = [target EXCEPT ![n] = {}], backups' = backups \cup {old},
             job' = [job EXCEPT ![j].at = "install", ![j].backup = {old}], UNCHANGED locks
      PROVE  SkinInv'
  <2> DEFINE r == [job[j] EXCEPT !.at = "install", !.backup = {old}]
  <2>1. /\ job' = [job EXCEPT ![j] = r] /\ r \in JobRecord /\ r.at = "install"
        /\ r.archive # {} /\ r.backup = {old} /\ r.storage = job[j].storage
    BY <1>1, <1>5, AtWork DEF JobRecord, Places, Working, InCatalog
  <2> HIDE DEF r
  <2>2. /\ OneSkinPerName' /\ DiskTyped' /\ ~Installed(n)'
        /\ \A s \in SameName : n \in s => \A m \in s : target'[m] # {} => m = n
        /\ \A m \in Names : m # n => (Installed(m)' <=> Installed(m))
    BY <1>1, <1>5, AtWork, DirectoryChanges DEF DiskTyped
  <2>3. job'[j] = r => Storage(j)' = n
    BY <1>0, <2>1 DEF Storage
  <2>4. job'[j] = r => (Locked(j) /\ Knows(j))'
    <3> SUFFICES ASSUME job'[j] = r PROVE (Locked(j) /\ Knows(j))'
      OBVIOUS
    <3>1. Unrivalled(Storage(j))' /\ ~Installed(Storage(j))'
      BY <2>2, <2>3 DEF Unrivalled, Installed
    <3>2. importMutex' = {j} /\ catalogMutex' = {j}
      BY <1>1, <1>5, AtWork DEF locks, InCatalog
    <3>3. old \in backups' /\ old.name = Storage(j)' /\ old.version # {}
      <4>1. old.name = n /\ old.version = target[n]
        BY <1>5
      <4> QED
        BY <1>1, <1>5, <2>3, <4>1
    <3>4. /\ job'[j].at = "install" /\ job'[j].storage # {} /\ job'[j].backup = {old}
      BY <1>1, <2>1
    <3> QED
      BY <3>1, <3>2, <3>3, <3>4 DEF Locked, Knows, InCatalog
  <2>5. \A m \in Names : Found(m) => (job'[j] = r => Found(m)')
    <3> SUFFICES ASSUME NEW m \in Names, Found(m), job'[j] = r PROVE Found(m)'
      OBVIOUS
    <3>1. CASE m = n
      <4>1. Storage(j)' = m /\ job'[j].at = "install" /\ job'[j].backup # {}
        BY <2>1, <2>3, <3>1
      <4> QED
        BY <4>1 DEF Found, InTransit
    <3>2. CASE m # n
      <4>1. ~InTransit(m)
        BY <1>1, <1>3 DEF InTransit
      <4>2. Orphan(m) => Orphan(m)'
        <5> SUFFICES ASSUME NEW b \in backups, b.name = m, \A k \in Jobs : b \notin job[k].backup
                     PROVE  Orphan(m)'
          BY DEF Orphan
        <5>1. \A k \in Jobs : k # j => job'[k] = job[k]
          BY <1>1, <2>1, AtWork
        <5>2. b # old
          BY <1>5, <3>2
        <5>3. \A k \in Jobs : b \notin job'[k].backup
          BY <2>1, <5>1, <5>2
        <5> QED
          BY <1>5, <5>3 DEF Orphan
      <4>3. Installed(m) => Settled(m)'
        <5>1. \A k \in Jobs : job'[k].at # "verify"
          BY <1>3, <2>1, AtWork, <1>1
        <5> QED
          BY <2>2, <3>2, <5>1 DEF Settled
      <4> QED
        BY <4>1, <4>2, <4>3 DEF Found, Settled
    <3> QED
      BY <3>1, <3>2
  <2> QED
    BY <1>1, <1>2, <2>1, <2>2, <2>4, <2>5, AtWork, JobStepKeeps
<1>6. [name |-> n, version |-> target[n]] \in Directory
  BY <1>0, <1>1, AtWork DEF Directory, DiskTyped
<1> QED
  BY <1>0, <1>4, <1>5, <1>6 DEF MoveAside

\* The directory is written, or what was written is accepted or removed again.
LEMMA WrittenKeeps ==
    ASSUME SkinInv, NEW j \in Jobs, job[j].at \in {"install", "verify"},
           NEW n \in Names, n = Storage(j), NEW v \in SUBSET Versions,
           NEW at \in {"verify", "clean up", "roll back"}, at = "roll back" <=> v = {},
           at = "clean up" => job[j].at = "verify", at = "verify" => job[j].at = "install",
           target' = [target EXCEPT ![n] = v], Move(j, at), failures' \in Nat,
           UNCHANGED <<backups, importMutex, catalogMutex, window, active, persisted>>
    PROVE  SkinInv'
<1>1. /\ job[j].at \in Working /\ job[j].at \in InCatalog /\ job[j].storage # {}
      /\ Unrivalled(n)
  BY AtWork DEF Working, InCatalog
<1> DEFINE r == [job[j] EXCEPT !.at = at]
<1>2. /\ job' = [job EXCEPT ![j] = r] /\ r \in JobRecord /\ r.at = at /\ r.archive # {}
      /\ r.backup = job[j].backup /\ r.storage = job[j].storage
  BY <1>1, AtWork DEF Move, JobRecord, Places, Working, InCatalog
<1> HIDE DEF r
<1>3. /\ OneSkinPerName' /\ DiskTyped' /\ (Installed(n)' <=> at # "roll back")
      /\ \A s \in SameName : n \in s => \A m \in s : target'[m] # {} => m = n
      /\ \A m \in Names : m # n => (Installed(m)' <=> Installed(m))
  BY <1>1, AtWork, DirectoryChanges DEF DiskTyped
<1>4. job'[j] = r => Storage(j)' = n
  BY <1>2 DEF Storage
<1>5. /\ \A b \in job[j].backup : b \in backups /\ b.name = n /\ b.version # {}
      /\ \A b, c \in job[j].backup : b = c
      /\ job[j].at = "install" => ~Installed(n)
  BY DEF SkinInv, Knows, InCatalog
<1>6. job'[j] = r => (Locked(j) /\ Knows(j))'
  <2> SUFFICES ASSUME job'[j] = r PROVE (Locked(j) /\ Knows(j))'
    OBVIOUS
  <2>1. Unrivalled(Storage(j))' /\ (Installed(Storage(j))' <=> at # "roll back")
    BY <1>3, <1>4 DEF Unrivalled, Installed
  <2>2. importMutex' = {j} /\ catalogMutex' = {j}
    BY <1>1, AtWork
  <2>3. job'[j].at = at /\ job'[j].storage # {} /\ job'[j].backup = job[j].backup
    BY <1>1, <1>2
  <2> QED
    BY <1>4, <1>5, <2>1, <2>2, <2>3 DEF Locked, Knows, InCatalog
<1>7. \A m \in Names : Found(m) => (job'[j] = r => Found(m)')
  <2> SUFFICES ASSUME NEW m \in Names, Found(m), job'[j] = r PROVE Found(m)'
    OBVIOUS
  <2>1. /\ \A k \in Jobs : job'[k].backup = job[k].backup
        /\ \A k \in Jobs : k # j => job'[k].at # "verify" /\ job[k].at \notin {"install", "verify", "roll back"}
    BY <1>1, <1>2, AtWork DEF Working, InCatalog
  <2>2. Orphan(m) => Orphan(m)'
    BY <2>1 DEF Orphan
  <2>3. CASE m # n
    <3>1. ~InTransit(m)
      BY <2>1, <2>3 DEF InTransit
    <3>2. Installed(m) => Settled(m)'
      BY <1>3, <1>4, <2>1, <2>3 DEF Settled
    <3> QED
      BY <2>2, <3>1, <3>2 DEF Found, Settled
  <2>4. CASE m = n
    <3>1. ~Settled(m)
      BY <1>5, <2>4 DEF Settled
    <3>2. CASE at = "clean up"
      <4>1. \A k \in Jobs : job'[k].at # "verify"
        BY <1>2, <2>1, <3>2
      <4> QED
        BY <1>3, <2>4, <3>2, <4>1 DEF Found, Settled
    <3>3. CASE at # "clean up"
      <4>1. InTransit(m) => job[j].backup # {}
        BY <2>1 DEF InTransit
      <4>2. job'[j].at \in {"verify", "roll back"} /\ job'[j].backup = job[j].backup
        BY <1>2, <3>3
      <4>3. InTransit(m) => InTransit(m)'
        BY <1>4, <2>4, <4>1, <4>2 DEF InTransit
      <4> QED
        BY <2>2, <3>1, <4>3 DEF Found
    <3> QED
      BY <3>2, <3>3
  <2> QED
    BY <2>3, <2>4
<1> QED
  BY <1>1, <1>2, <1>3, <1>6, <1>7, AtWork, JobStepKeeps

\* The skin is written in place of the old one, if there is one, or that fails.
LEMMA InstallKeeps ==
    ASSUME SkinInv, NEW j \in Jobs, Install(j) PROVE SkinInv'
<1>1. /\ job[j].at = "install" /\ failures \in Nat /\ target \in [Names -> SUBSET Versions]
      /\ Version(j) \in Versions /\ Storage(j) \in Names /\ target[Storage(j)] = {}
  BY AtWork DEF Install, Working, InCatalog, SkinInv, Knows, Installed, DiskTyped
<1>2. PICK ok \in BOOLEAN :
        /\ failures' = IF ok THEN failures ELSE failures + 1
        /\ target' = IF ok THEN [target EXCEPT ![Storage(j)] = {Version(j)}] ELSE target
        /\ Move(j, IF ok THEN "verify" ELSE "roll back")
  BY DEF Install, Outcome
<1>3. UNCHANGED <<backups, importMutex, catalogMutex, window, active, persisted>>
  BY DEF Install, locks
<1>4. failures' \in Nat
  <2>1. failures' = failures \/ failures' = failures + 1
    BY <1>2, Zenon
  <2> QED
    BY <1>1, <2>1
<1>5. PICK n \in Names : n = Storage(j)
  BY <1>1
<1>6. PICK v \in Versions : v = Version(j)
  BY <1>1
<1>7. CASE ok
  BY <1>1, <1>2, <1>3, <1>4, <1>5, <1>6, <1>7, WrittenKeeps
<1>8. CASE ~ok
  <2>1. target' = [target EXCEPT ![n] = {}]
    BY <1>1, <1>2, <1>5, <1>8
  <2> QED
    BY <1>1, <1>2, <1>3, <1>4, <1>5, <1>8, <2>1, WrittenKeeps
<1> QED
  BY <1>7, <1>8

\* What was installed is read back, and removed if that fails.
LEMMA VerifyKeeps ==
    ASSUME SkinInv, NEW j \in Jobs, Verify(j) PROVE SkinInv'
<1>1. /\ job[j].at = "verify" /\ failures \in Nat /\ target \in [Names -> SUBSET Versions]
      /\ Storage(j) \in Names /\ target[Storage(j)] # {}
  BY AtWork DEF Verify, Working, InCatalog, SkinInv, Knows, Installed, DiskTyped
<1>2. PICK ok \in BOOLEAN :
        /\ failures' = IF ok THEN failures ELSE failures + 1
        /\ target' = IF ok THEN target ELSE [target EXCEPT ![Storage(j)] = {}]
        /\ Move(j, IF ok THEN "clean up" ELSE "roll back")
  BY DEF Verify, Outcome
<1>3. UNCHANGED <<backups, importMutex, catalogMutex, window, active, persisted>>
  BY DEF Verify, locks
<1>4. failures' \in Nat
  <2>1. failures' = failures \/ failures' = failures + 1
    BY <1>2, Zenon
  <2> QED
    BY <1>1, <2>1
<1>5. PICK n \in Names : n = Storage(j)
  BY <1>1
<1>6. PICK v \in SUBSET Versions : v = target[n]
  BY <1>1
<1>7. CASE ok
  <2>1. target' = [target EXCEPT ![n] = v] /\ v # {}
    BY <1>1, <1>2, <1>5, <1>6, <1>7
  <2> QED
    BY <1>1, <1>2, <1>3, <1>4, <1>5, <1>7, <2>1, WrittenKeeps
<1>8. CASE ~ok
  BY <1>1, <1>2, <1>3, <1>4, <1>5, <1>8, WrittenKeeps
<1> QED
  BY <1>7, <1>8

\* The backup is moved back; if that fails it stays, and no import knows it.
LEMMA RollBackKeeps ==
    ASSUME SkinInv, NEW j \in Jobs, RollBack(j) PROVE SkinInv'
<1>0. PICK n \in Names : n = Storage(j)
  BY AtWork DEF RollBack, Working, InCatalog
<1>1. /\ job[j].at = "roll back" /\ job[j].at \in Working /\ failures \in Nat
      /\ DiskTyped /\ Unrivalled(n) /\ target[n] = {}
      /\ \A k \in Jobs : k # j => job[k].at \notin Working
  BY <1>0, AtWork DEF RollBack, Working, InCatalog, SkinInv, Knows, Installed
<1>2. \A b \in job[j].backup : b \in backups /\ b.name = n /\ b.version # {}
  BY <1>0, <1>1 DEF SkinInv, Knows, InCatalog
<1>3. Return(j, "failed") /\ UNCHANGED <<window, active, persisted>>
  BY DEF RollBack
<1>4. failures' \in Nat
  <2>1. UNCHANGED failures \/ \E ok \in BOOLEAN : Outcome(ok)
    BY DEF RollBack
  <2>2. failures' = failures \/ failures' = failures + 1
    BY <2>1 DEF Outcome
  <2>3. failures \in Nat
    BY <1>1
  <2> QED
    BY <2>2, <2>3
<1>5. CASE UNCHANGED disk
  <2>1. DiskTyped' /\ OneSkinPerName'
    BY <1>1, <1>5 DEF SkinInv, DiskTyped, OneSkinPerName, Installed, disk
  <2>2. ASSUME NEW m \in Names, Found(m) PROVE Installed(m)' \/ \E b \in backups' : b.name = m
    <3>1. InTransit(m) => m = n /\ job[j].backup # {}
      BY <1>0, <1>1 DEF InTransit, Working, InCatalog
    <3> QED
      BY <1>2, <1>5, <2>2, <3>1 DEF Found, Settled, Orphan, Installed, disk
  <2> QED
    BY <1>1, <1>3, <1>4, <2>1, <2>2, ReturnKeeps DEF Ended
<1>6. CASE /\ job[j].backup # {}
           /\ target' = [target EXCEPT ![n] = (CHOOSE b \in job[j].backup : TRUE).version]
           /\ backups' = backups \ job[j].backup
  <2>1. PICK c \in job[j].backup : c = CHOOSE b \in job[j].backup : TRUE
    BY <1>6
  <2>2. c.version \in SUBSET Versions /\ c.version # {}
    BY <1>1, <1>2, <2>1 DEF DiskTyped, Directory
  <2>3. target' = [target EXCEPT ![n] = c.version]
    BY <1>6, <2>1
  <2>4. /\ DiskTyped' /\ OneSkinPerName' /\ Installed(n)'
        /\ \A m \in Names : m # n => (Installed(m)' <=> Installed(m))
    BY <1>1, <1>6, <2>2, <2>3, DirectoryChanges DEF DiskTyped
  <2>5. ASSUME NEW m \in Names, Found(m) PROVE Installed(m)' \/ \E b \in backups' : b.name = m
    <3>1. CASE m # n
      <4>1. ~InTransit(m)
        BY <1>0, <1>1, <3>1 DEF InTransit, Working, InCatalog
      <4>2. \A b \in backups : b.name = m => b \in backups'
        BY <1>2, <1>6, <3>1
      <4> QED
        BY <2>4, <2>5, <3>1, <4>1, <4>2 DEF Found, Settled, Orphan
    <3> QED
      BY <2>4, <3>1
  <2> QED
    BY <1>1, <1>3, <1>4, <2>4, <2>5, ReturnKeeps DEF Ended
<1> QED
  BY <1>0, <1>5, <1>6 DEF RollBack

\* The backup of a skin that was replaced is removed, or left behind.
LEMMA CleanUpKeeps ==
    ASSUME SkinInv, NEW j \in Jobs, CleanUp(j) PROVE SkinInv'
<1>0. PICK n \in Names : n = Storage(j)
  BY AtWork DEF CleanUp, Working, InCatalog
<1>1. /\ job[j].at = "clean up" /\ job[j].at \in Working /\ failures \in Nat
      /\ DiskTyped /\ Installed(n) /\ job[j].storage # {}
      /\ \A k \in Jobs : k # j => job[k].at \notin Working
  BY <1>0, AtWork DEF CleanUp, Working, InCatalog, SkinInv, Knows
<1>2. \A b \in job[j].backup : b \in backups /\ b.name = n
  BY <1>0, <1>1 DEF SkinInv, Knows, InCatalog
<1>3. /\ Return(j, "imported") /\ UNCHANGED <<target, window, active, persisted>>
      /\ backups' = backups \ job[j].backup \/ backups' = backups
  BY DEF CleanUp
<1>4. failures' \in Nat
  <2>1. UNCHANGED failures \/ \E ok \in BOOLEAN : Outcome(ok)
    BY DEF CleanUp
  <2>2. failures' = failures \/ failures' = failures + 1
    BY <2>1 DEF Outcome
  <2>3. failures \in Nat
    BY <1>1
  <2> QED
    BY <2>2, <2>3
<1>5. DiskTyped' /\ OneSkinPerName'
  BY <1>1, <1>3 DEF SkinInv, DiskTyped, OneSkinPerName, Installed
<1>6. ASSUME NEW m \in Names, Found(m) PROVE Installed(m)' \/ \E b \in backups' : b.name = m
  <2>1. CASE m # n
    <3>1. ~InTransit(m)
      BY <1>1 DEF InTransit, Working, InCatalog
    <3>2. \A b \in backups : b.name = m => b \in backups'
      BY <1>2, <1>3, <2>1
    <3> QED
      BY <1>3, <1>6, <3>1, <3>2 DEF Found, Settled, Orphan, Installed
  <2> QED
    BY <1>1, <1>3, <2>1 DEF Installed
<1> QED
  BY <1>1, <1>3, <1>4, <1>5, <1>6, ReturnKeeps DEF Ended

-----------------------------------------------------------------------------
(* The steps of the windows, and the crash. *)

\* What a window lists after a step: what it did, what is installed while no import
\* is in the catalogue, or nothing if it is closed.
Lists(w) ==
    \/ window'[w].listed = window[w].listed
    \/ window'[w].listed = Listed /\ CatalogFree
    \/ window'[w].listed = {} /\ ~window'[w].open

\* A step of the GUI thread, or a crash, that leaves the disk alone: the records of
\* imports that work stay, or stop for good with the windows.
LEMMA WindowStepKeeps ==
    ASSUME SkinInv, UNCHANGED <<disk, failures>>, JobsTyped', WindowsTyped', ActiveTyped',
           \A k \in Jobs :
              \/ /\ job'[k].at \notin Working /\ job'[k].backup = {}
              \/ /\ job'[k].at = job[k].at /\ job'[k].storage = job[k].storage
                 /\ job'[k].backup = job[k].backup /\ UNCHANGED locks,
           \A k \in Jobs : job[k].at \in Working /\ job'[k].at \notin Working =>
                             \A w \in Windows : window'[w].listed = {},
           \A w \in Windows : Lists(w)
    PROVE  SkinInv'
<1>0. Typed'
  BY DEF SkinInv, Typed, DiskTyped, FailuresTyped, disk
<1>1. OneSkinPerName'
  BY DEF SkinInv, OneSkinPerName, Installed, disk
<1>2. ASSUME NEW k \in Jobs PROVE (Locked(k) /\ Knows(k))'
  <2>1. CASE job'[k].at \notin Working /\ job'[k].backup = {}
    BY <2>1 DEF Locked, Knows, Working, InCatalog
  <2>2. CASE /\ job'[k].at = job[k].at /\ job'[k].storage = job[k].storage
             /\ job'[k].backup = job[k].backup /\ UNCHANGED locks
    <3>1. Storage(k)' = Storage(k)
      BY <2>2 DEF Storage
    <3>2. Unrivalled(Storage(k)) => Unrivalled(Storage(k))'
      BY <3>1 DEF Unrivalled, Installed, disk
    <3>3. Installed(Storage(k))' <=> Installed(Storage(k))
      BY <3>1 DEF Installed, disk
    <3>4. Locked(k) /\ Knows(k)
      BY DEF SkinInv
    <3>5. Locked(k)'
      BY <2>2, <3>4 DEF Locked, locks
    <3> QED
      BY <2>2, <3>1, <3>2, <3>3, <3>4, <3>5 DEF Knows, disk
  <2> QED
    BY <2>1, <2>2
<1>3. AllListedFound'
  <2> SUFFICES ASSUME NEW w \in Windows, NEW n \in window'[w].listed PROVE Found(n)'
    BY DEF AllListedFound
  <2>1. \A k \in Jobs :
           \/ /\ job[k].at \notin Working /\ job'[k].at \notin Working
              /\ job'[k].backup = {}
           \/ /\ job'[k].at = job[k].at /\ job'[k].storage = job[k].storage
              /\ job'[k].backup = job[k].backup
    OBVIOUS
  <2>2. n \in window[w].listed \/ (n \in Listed /\ CatalogFree)
    BY DEF Lists
  <2>3. CatalogFree => \A k \in Jobs : job[k].at \notin InCatalog
    BY DEF CatalogFree, SkinInv, Locked
  <2>4. n \in Listed /\ CatalogFree => Found(n)
    BY <2>3 DEF Listed, Found, Settled, InCatalog
  <2>5. Found(n)
    BY <2>2, <2>4 DEF SkinInv, AllListedFound
  <2>6. Settled(n) => Settled(n)'
    BY <2>1 DEF Settled, Installed, Storage, disk, Working, InCatalog
  <2>7. Orphan(n) => Orphan(n)'
    <3>1. \A k \in Jobs : job'[k].backup \subseteq job[k].backup
      BY <2>1
    <3> QED
      BY <3>1 DEF Orphan, disk
  <2>8. InTransit(n) => InTransit(n)'
    <3> SUFFICES ASSUME NEW k \in Jobs, job[k].at \in {"install", "verify", "roll back"},
                        job[k].backup # {}, Storage(k) = n
                 PROVE  InTransit(n)'
      BY DEF InTransit
    <3>1. /\ job'[k].at = job[k].at /\ job'[k].storage = job[k].storage
          /\ job'[k].backup = job[k].backup
      BY <2>1 DEF Working, InCatalog
    <3>2. Storage(k)' = n
      BY <3>1 DEF Storage
    <3> QED
      BY <3>1, <3>2 DEF InTransit
  <2> QED
    BY <2>5, <2>6, <2>7, <2>8 DEF Found
<1> QED
  BY <1>0, <1>1, <1>2, <1>3 DEF SkinInv

\* A step of a window that leaves the imports alone.
LEMMA ViewStepKeeps ==
    ASSUME SkinInv, UNCHANGED <<disk, locks, job, failures>>, WindowsTyped', ActiveTyped',
           \A w \in Windows : Lists(w)
    PROVE  SkinInv'
<1>1. JobsTyped'
  BY DEF SkinInv, Typed, JobsTyped
<1> QED
  BY <1>1, WindowStepKeeps

\* The parts of the type invariant, by name.
LEMMA Parts ==
    ASSUME SkinInv
    PROVE  /\ target \in [Names -> SUBSET Versions] /\ job \in [Jobs -> JobRecord]
           /\ window \in [Windows -> WindowRecord] /\ Listed \subseteq Names
           /\ active \in [name : SUBSET Names, version : SUBSET Versions,
                          textures : SUBSET Versions]
           /\ JobsTyped /\ WindowsTyped /\ ActiveTyped
BY DEF SkinInv, Typed, DiskTyped, JobsTyped, WindowsTyped, ActiveTyped, Listed

\* The textures of the active skin are read (rebuildTextureCache).
LEMMA rebuildTextureCacheKeeps ==
    ASSUME SkinInv, NEW w \in Windows, rebuildTextureCache(w) PROVE SkinInv'
<1>1. window[w].at = "textures" /\ active.name # {} /\ active.name \subseteq Names
  BY Parts DEF rebuildTextureCache, ActiveTyped
<1>2. PICK n \in Names : n = CHOOSE m \in active.name : TRUE
  BY <1>1
<1>3. /\ active' = [active EXCEPT !.textures = target[n]] /\ persisted' = active.name
      /\ window' = [window EXCEPT ![w].at = "ready"]
      /\ UNCHANGED <<disk, locks, job, failures>>
  BY <1>2 DEF rebuildTextureCache
<1>4. WindowsTyped' /\ \A v \in Windows : Lists(v)
  BY <1>3, Parts DEF WindowsTyped, WindowRecord, Lists
<1>5. ActiveTyped'
  BY <1>1, <1>3, Parts DEF ActiveTyped
<1> QED
  BY <1>3, <1>4, <1>5, ViewStepKeeps

\* A settings window is opened and lists the skins.
LEMMA OpenWindowKeeps ==
    ASSUME SkinInv, NEW w \in Windows, OpenWindow(w) PROVE SkinInv'
<1>1. /\ window' = [window EXCEPT ![w] = [open |-> TRUE, listed |-> Listed, at |-> "ready",
                                         prompt |-> {}]]
      /\ UNCHANGED <<disk, locks, job, active, persisted, failures>> /\ CatalogFree
  BY DEF OpenWindow
<1>2. WindowsTyped' /\ ActiveTyped' /\ \A v \in Windows : Lists(v)
  BY <1>1, Parts DEF WindowsTyped, WindowRecord, Lists, ActiveTyped
<1> QED
  BY <1>1, <1>2, ViewStepKeeps

\* A window is closed: an import it started goes on.
LEMMA CloseWindowKeeps ==
    ASSUME SkinInv, NEW w \in Windows, CloseWindow(w) PROVE SkinInv'
<1>1. /\ window' = [window EXCEPT ![w] = Closed]
      /\ job' = [k \in Jobs |-> IF job[k].at \in Ended THEN Idle ELSE [job[k] EXCEPT !.window = @ \ {w}]]
      /\ UNCHANGED <<disk, locks, active, persisted, failures>>
  BY DEF CloseWindow
<1>2. WindowsTyped' /\ ActiveTyped' /\ \A v \in Windows : Lists(v)
  BY <1>1, Parts DEF WindowsTyped, WindowRecord, Lists, ActiveTyped, Closed
<1>3. ASSUME NEW k \in Jobs
      PROVE  /\ job'[k] \in JobRecord
             /\ job'[k].at \in {"queued", "exists"} \cup Working => job'[k].archive # {}
             /\ job'[k].at = "imported" => job'[k].storage # {}
             /\ \/ job'[k].at \notin Working /\ job'[k].backup = {}
                \/ /\ job'[k].at = job[k].at /\ job'[k].storage = job[k].storage
                   /\ job'[k].backup = job[k].backup
             /\ job[k].at \in Working => job'[k].at \in Working
  <2>1. /\ job[k] \in JobRecord
        /\ job[k].at \in {"queued", "exists"} \cup Working => job[k].archive # {}
        /\ job[k].at = "imported" => job[k].storage # {}
    BY Parts DEF JobsTyped
  <2>2. CASE job[k].at \in Ended
    <3>1. job'[k] = Idle /\ Idle \in JobRecord
      BY <1>1, <2>2 DEF Idle, JobRecord, Places
    <3>2. job'[k].at = "none" /\ job'[k].backup = {}
      BY <3>1 DEF Idle
    <3> QED
      BY <2>2, <3>1, <3>2 DEF Working, InCatalog, Ended
  <2>3. CASE job[k].at \notin Ended
    <3>1. job'[k] = [job[k] EXCEPT !.window = @ \ {w}]
      BY <1>1, <2>3
    <3> QED
      BY <2>1, <3>1 DEF JobRecord
  <2> QED
    BY <2>2, <2>3
<1>4. JobsTyped'
  BY <1>1, <1>3 DEF JobsTyped
<1> QED
  BY <1>1, <1>2, <1>3, <1>4, WindowStepKeeps

\* What a window starts is an import that holds nothing.
LEMMA StartKeeps ==
    ASSUME SkinInv, NEW w \in Windows, NEW j \in Jobs, NEW archive \in Archives,
           NEW replace \in BOOLEAN, Startable(j), Start(j, w, archive, replace),
           UNCHANGED <<disk, locks, failures>>, WindowsTyped', ActiveTyped',
           \A v \in Windows : Lists(v)
    PROVE  SkinInv'
<1>1. /\ job'[j] = [at |-> "queued", archive |-> {archive}, replace |-> replace,
                    storage |-> {}, backup |-> {}, window |-> {w}]
      /\ \A k \in Jobs : k # j => job'[k] = job[k]
      /\ job' \in [Jobs -> JobRecord]
  BY Parts DEF Start, JobRecord, Places
<1>2. job[j].at \notin Working
  BY DEF Startable, Ended, Working, InCatalog
<1>3. JobsTyped'
  BY <1>1, Parts DEF JobsTyped
<1>4. job'[j].at \notin Working /\ job'[j].backup = {}
  BY <1>1 DEF Working, InCatalog
<1> QED
  BY <1>1, <1>2, <1>3, <1>4, WindowStepKeeps

\* An archive is chosen.
LEMMA onImportSkinKeeps ==
    ASSUME SkinInv, NEW w \in Windows, NEW j \in Jobs, NEW a \in Archives, onImportSkin(w, j, a)
    PROVE  SkinInv'
<1>1. WindowsTyped' /\ ActiveTyped' /\ \A v \in Windows : Lists(v)
  BY Parts DEF onImportSkin, WindowsTyped, ActiveTyped, Lists
<1> QED
  BY <1>1, StartKeeps DEF onImportSkin

\* The answer that the skin is to be replaced.
LEMMA ReplaceKeeps ==
    ASSUME SkinInv, NEW w \in Windows, NEW j \in Jobs, Replace(w, j) PROVE SkinInv'
<1>1. window[w].prompt # {} /\ window[w].prompt \subseteq Archives
  BY Parts DEF Replace, WindowsTyped, WindowRecord
<1>2. PICK a \in Archives : a = CHOOSE b \in window[w].prompt : TRUE
  BY <1>1
<1>3. WindowsTyped' /\ ActiveTyped' /\ \A v \in Windows : Lists(v)
  BY Parts DEF Replace, WindowsTyped, WindowRecord, ActiveTyped, Lists
<1> QED
  BY <1>2, <1>3, StartKeeps DEF Replace

\* The answer that it is not.
LEMMA KeepInstalledKeeps ==
    ASSUME SkinInv, NEW w \in Windows, KeepInstalled(w) PROVE SkinInv'
<1>1. WindowsTyped' /\ ActiveTyped' /\ \A v \in Windows : Lists(v)
  BY Parts DEF KeepInstalled, WindowsTyped, WindowRecord, ActiveTyped, Lists
<1> QED
  BY <1>1, ViewStepKeeps DEF KeepInstalled

\* A skin that is installed is made active, or the window's list is read again.
LEMMA Chosen ==
    ASSUME SkinInv, NEW w \in Windows, NEW n \in Names, CatalogFree, ThreadFree,
           \/ setActiveSkin(w, n)
           \/ window' = [window EXCEPT ![w].listed = Listed] /\ UNCHANGED active,
           UNCHANGED persisted
    PROVE  WindowsTyped' /\ ActiveTyped' /\ \A v \in Windows : Lists(v)
<1>1. CASE setActiveSkin(w, n)
  <2>1. /\ active' = [name |-> {n}, version |-> target[n], textures |-> {}]
        /\ window' = [window EXCEPT ![w].at = "textures", ![w].listed = Listed, ![w].prompt = {}]
    BY <1>1 DEF setActiveSkin
  <2>2. WindowsTyped' /\ \A v \in Windows : Lists(v)
    BY <2>1, Parts DEF WindowsTyped, WindowRecord, Lists
  <2> QED
    BY <2>1, <2>2, Parts DEF ActiveTyped
<1>2. CASE window' = [window EXCEPT ![w].listed = Listed] /\ UNCHANGED active
  BY <1>2, Parts DEF WindowsTyped, WindowRecord, Lists, ActiveTyped
<1> QED
  BY <1>1, <1>2

\* An import's answer reaches its window.
LEMMA ImportFinishedKeeps ==
    ASSUME SkinInv, NEW w \in Windows, NEW j \in Jobs, ImportFinished(w, j) PROVE SkinInv'
<1>1. /\ job[j].at \in Ended /\ job' = [job EXCEPT ![j] = Idle]
      /\ UNCHANGED <<disk, locks, persisted, failures>> /\ ThreadFree
  BY DEF ImportFinished, Ended
<1>2. WindowsTyped' /\ ActiveTyped' /\ \A v \in Windows : Lists(v)
  <2>1. CASE job[j].at = "exists"
    <3>1. /\ window' = [window EXCEPT ![w].at = "prompt", ![w].prompt = job[j].archive]
          /\ UNCHANGED active
      BY <2>1 DEF ImportFinished
    <3>2. job[j].archive \subseteq Archives /\ job[j].archive # {}
      BY <2>1, Parts DEF JobsTyped, JobRecord, ImportFinished
    <3>3. WindowsTyped' /\ \A v \in Windows : Lists(v)
      BY <3>1, <3>2, Parts DEF WindowsTyped, WindowRecord, Lists
    <3> QED
      BY <1>1, <3>1, <3>3, Parts DEF ActiveTyped
  <2>2. CASE job[j].at = "failed"
    <3>1. UNCHANGED <<window, active, persisted>>
      BY <2>2 DEF ImportFinished
    <3> QED
      BY <3>1, Parts DEF WindowsTyped, ActiveTyped, Lists
  <2>3. CASE job[j].at = "imported"
    <3>1. Storage(j) \in Names
      BY <2>3, Parts, ImportTyped DEF JobsTyped
    <3> QED
      BY <1>1, <2>3, <3>1, Chosen DEF ImportFinished
  <2> QED
    BY <2>1, <2>2, <2>3 DEF ImportFinished
<1>3. job'[j] = Idle /\ Idle \in JobRecord /\ \A k \in Jobs : k # j => job'[k] = job[k]
  BY <1>1, Parts DEF Idle, JobRecord, Places
<1>4. JobsTyped'
  <2>1. job'[j].at = "none"
    BY <1>3 DEF Idle
  <2>2. job' \in [Jobs -> JobRecord]
    BY <1>1, <1>3, Parts
  <2> QED
    BY <1>3, <2>1, <2>2, Parts DEF JobsTyped, Working, InCatalog
<1>5. job[j].at \notin Working /\ job'[j].at \notin Working /\ job'[j].backup = {}
  <2>1. job'[j].at = "none" /\ job'[j].backup = {}
    BY <1>3 DEF Idle
  <2> QED
    BY <1>1, <2>1 DEF Working, InCatalog, Ended
<1> QED
  BY <1>1, <1>2, <1>3, <1>4, <1>5, WindowStepKeeps

\* A skin of the list is chosen.
LEMMA onSkinChangedKeeps ==
    ASSUME SkinInv, NEW w \in Windows, NEW n \in Names, onSkinChanged(w, n) PROVE SkinInv'
<1>1. WindowsTyped' /\ ActiveTyped' /\ \A v \in Windows : Lists(v)
  BY Chosen DEF onSkinChanged
<1> QED
  BY <1>1, ViewStepKeeps DEF onSkinChanged

\* A built-in skin is chosen.
LEMMA ChooseBuiltinKeeps ==
    ASSUME SkinInv, NEW w \in Windows, ChooseBuiltin(w) PROVE SkinInv'
<1>1. WindowsTyped' /\ \A v \in Windows : Lists(v)
  BY Parts DEF ChooseBuiltin, WindowsTyped, Lists
<1>2. ActiveTyped'
  BY Parts DEF ChooseBuiltin, ThreadFree, Busy, Builtin, ActiveTyped
<1> QED
  BY <1>1, <1>2, ViewStepKeeps DEF ChooseBuiltin

\* The process ends and is started again.
LEMMA CrashKeeps ==
    ASSUME SkinInv, Crash PROVE SkinInv'
<1>1. /\ job' = [k \in Jobs |-> IF job[k].at = "none" THEN Idle ELSE [Idle EXCEPT !.at = "dead"]]
      /\ window' = [w \in Windows |-> Closed] /\ UNCHANGED <<disk, persisted, failures>>
  BY DEF Crash
<1>2. WindowsTyped' /\ \A v \in Windows : Lists(v)
  BY <1>1 DEF WindowsTyped, WindowRecord, Closed, Lists
<1>3. ASSUME NEW k \in Jobs
      PROVE  job'[k] \in JobRecord /\ job'[k].at \in {"none", "dead"} /\ job'[k].backup = {}
  BY <1>1 DEF Idle, JobRecord, Places, Ended
<1>4. JobsTyped'
  BY <1>1, <1>3 DEF JobsTyped, Working, InCatalog
<1>5. ActiveTyped'
  <2>1. active' \in [name : SUBSET Names, version : SUBSET Versions, textures : SUBSET Versions]
    <3>1. CASE \E n \in persisted : Installed(n)
      <4>1. PICK n \in Names : n = CHOOSE m \in persisted : TRUE
        BY <3>1, Parts DEF ActiveTyped
      <4>2. active' = [name |-> {n}, version |-> target[n], textures |-> target[n]]
        BY <3>1, <4>1 DEF Crash
      <4> QED
        BY <4>2, Parts
    <3>2. CASE ~\E n \in persisted : Installed(n)
      BY <3>2 DEF Crash, Builtin
    <3> QED
      BY <3>1, <3>2
  <2> QED
    BY <1>1, <2>1, Parts DEF ActiveTyped, Closed
<1> QED
  BY <1>1, <1>2, <1>3, <1>4, <1>5, WindowStepKeeps DEF Closed, Working, InCatalog

-----------------------------------------------------------------------------
(* The theorems. *)

\* The program starts with skins on the disk, no two of them rivals.
LEMMA SkinInvInit == Init => SkinInv
<1> SUFFICES ASSUME Init PROVE SkinInv
  OBVIOUS
<1>1. DiskTyped
  BY DEF Init, DiskTyped
<1>2. /\ job = [j \in Jobs |-> Idle] /\ window = [w \in Windows |-> Closed]
      /\ active = Builtin /\ persisted = {} /\ failures = 0
  BY DEF Init
<1>3. \A j \in Jobs : job[j].at = "none" /\ job[j].backup = {}
  BY <1>2 DEF Idle
<1>4. \A w \in Windows : window[w].at = "none" /\ window[w].listed = {}
  BY <1>2 DEF Closed
<1>5. JobsTyped
  <2>1. Idle \in JobRecord
    BY DEF Idle, JobRecord, Places
  <2> QED
    BY <1>2, <1>3, <2>1 DEF JobsTyped, Working, InCatalog
<1>6. WindowsTyped
  <2>1. Closed \in WindowRecord
    BY DEF Closed, WindowRecord
  <2> QED
    BY <1>2, <1>4, <2>1 DEF WindowsTyped
<1>7. ActiveTyped /\ FailuresTyped
  BY <1>2, <1>4 DEF ActiveTyped, Builtin, FailuresTyped
<1>8. OneSkinPerName
  BY DEF Init, OneSkinPerName, Installed
<1>9. \A j \in Jobs : Locked(j) /\ Knows(j)
  BY <1>3 DEF Locked, Knows, Working, InCatalog
<1> QED
  BY <1>1, <1>4, <1>5, <1>6, <1>7, <1>8, <1>9 DEF SkinInv, Typed, AllListedFound

\* Every step keeps the invariant.
LEMMA SkinInvStep == SkinInv /\ [Next]_vars => SkinInv'
<1> SUFFICES ASSUME SkinInv, [Next]_vars PROVE SkinInv'
  OBVIOUS
<1>1. ASSUME NEW j \in Jobs, JobStep(j) PROVE SkinInv'
  BY <1>1, AcquireImportKeeps, StageKeeps, AcquireCatalogKeeps, MoveAsideKeeps, InstallKeeps,
     VerifyKeeps, RollBackKeeps, CleanUpKeeps DEF JobStep
<1>2. CASE GuiStep
  BY <1>2, rebuildTextureCacheKeeps, OpenWindowKeeps, CloseWindowKeeps, KeepInstalledKeeps,
     ChooseBuiltinKeeps, onSkinChangedKeeps, ImportFinishedKeeps, ReplaceKeeps,
     onImportSkinKeeps DEF GuiStep
<1>3. CASE Crash
  BY <1>3, CrashKeeps
<1>4. CASE UNCHANGED vars
  <2>1. UNCHANGED <<disk, locks, job, window, active, persisted, failures>>
    BY <1>4 DEF vars, disk, locks
  <2>2. WindowsTyped' /\ ActiveTyped' /\ \A w \in Windows : Lists(w)
    BY <2>1, Parts DEF WindowsTyped, ActiveTyped, Lists
  <2> QED
    BY <2>1, <2>2, ViewStepKeeps
<1> QED
  BY <1>1, <1>2, <1>3, <1>4 DEF Next

\* The invariant of all behaviours.
LEMMA SkinInvAlways == Spec => []SkinInv
<1> QED
  BY SkinInvInit, SkinInvStep, PTL DEF Spec

\* No two imports make two skins whose names differ by case only, although each
\* looks for its directory before it has the catalogue lock (importArchiveDetailed).
THEOREM NoRivals == Spec => []OneSkinPerName
<1>1. SkinInv => OneSkinPerName
  BY DEF SkinInv
<1> QED
  BY <1>1, SkinInvAlways, PTL

\* A window that lists the skins again misses one it listed only if a roll back
\* failed: no import is half way through replacing it.
LEMMA MissingIsOrphan ==
    ASSUME SkinInv, CatalogFree, NEW w \in Windows, NEW n \in window[w].listed, n \notin Listed
    PROVE  Orphan(n)
<1>1. \A k \in Jobs : job[k].at \notin InCatalog
  BY DEF SkinInv, Locked, CatalogFree
<1>2. ~InTransit(n)
  BY <1>1 DEF InTransit, InCatalog
<1>3. ~Settled(n)
  <2>1. n \in Names
    BY Parts DEF WindowRecord
  <2> QED
    BY <2>1 DEF Listed, Settled
<1> QED
  BY <1>2, <1>3 DEF SkinInv, AllListedFound, Found

\* What every step does to the list of a window (discoverAll's callers).
LEMMA Relisted == ASSUME SkinInv, [Next]_vars PROVE \A w \in Windows : Lists(w)
<1>1. ASSUME UNCHANGED window PROVE \A w \in Windows : Lists(w)
  BY <1>1 DEF Lists
<1>2. ASSUME NEW j \in Jobs, JobStep(j) PROVE UNCHANGED window
  BY <1>2 DEF JobStep, AcquireImport, Stage, AcquireCatalog, MoveAside, Install, Verify,
     RollBack, CleanUp
<1>3. CASE Crash
  BY <1>3 DEF Crash, Closed, Lists
<1>5. ASSUME NEW w \in Windows, NEW n \in Names, setActiveSkin(w, n), CatalogFree
      PROVE  \A v \in Windows : Lists(v)
  BY <1>5, Parts DEF setActiveSkin, WindowRecord, Lists
<1>6. ASSUME NEW w \in Windows, rebuildTextureCache(w) \/ KeepInstalled(w)
      PROVE  \A v \in Windows : Lists(v)
  BY <1>6, Parts DEF rebuildTextureCache, KeepInstalled, WindowRecord, Lists
<1>7. ASSUME NEW w \in Windows, OpenWindow(w) \/ CloseWindow(w)
      PROVE  \A v \in Windows : Lists(v)
  BY <1>7, Parts DEF OpenWindow, CloseWindow, WindowRecord, Lists, Closed
<1>8. ASSUME NEW w \in Windows, NEW n \in Names, onSkinChanged(w, n)
      PROVE  \A v \in Windows : Lists(v)
  BY <1>5, <1>8, Parts DEF onSkinChanged, WindowRecord, Lists
<1>9. ASSUME NEW w \in Windows, NEW j \in Jobs, Replace(w, j)
      PROVE  \A v \in Windows : Lists(v)
  BY <1>9, Parts DEF Replace, WindowRecord, Lists
<1>10. ASSUME NEW w \in Windows, NEW j \in Jobs, ImportFinished(w, j)
       PROVE  \A v \in Windows : Lists(v)
  <2>1. CASE job[j].at = "imported"
    <3>1. Storage(j) \in Names
      BY <2>1, Parts, ImportTyped DEF JobsTyped
    <3> QED
      BY <1>5, <1>10, <2>1, <3>1, Parts DEF ImportFinished, WindowRecord, Lists
  <2>2. CASE job[j].at \in {"exists", "failed"}
    BY <1>10, <2>2, Parts DEF ImportFinished, WindowRecord, Lists
  <2> QED
    BY <1>10, <2>1, <2>2 DEF ImportFinished
<1>11. ASSUME NEW w \in Windows, ChooseBuiltin(w) PROVE UNCHANGED window
  BY <1>11 DEF ChooseBuiltin
<1>12. ASSUME NEW w \in Windows, NEW j \in Jobs, NEW a \in Archives, onImportSkin(w, j, a)
       PROVE  UNCHANGED window
  BY <1>12 DEF onImportSkin
<1>13. CASE UNCHANGED vars
  BY <1>1, <1>13 DEF vars
<1>14. CASE GuiStep
  BY <1>1, <1>6, <1>7, <1>8, <1>9, <1>10, <1>11, <1>12, <1>14 DEF GuiStep
<1> QED
  BY <1>1, <1>2, <1>3, <1>13, <1>14 DEF Next

\* A reader of the catalogue, whatever imports do meanwhile, misses a skin it listed
\* before only if moving it back failed (skinCatalogMutex).
THEOREM NeverHalfReplaced == Spec => ReadersSeeWhole
<1> DEFINE Whole ==
      \A w \in Windows :
          (window[w].listed \ window'[w].listed # {} /\ window'[w].open) =>
              \A n \in window[w].listed \ window'[w].listed : Orphan(n)
<1>1. SkinInv /\ [Next]_vars => Whole
  <2> SUFFICES ASSUME SkinInv, [Next]_vars, NEW w \in Windows, window'[w].open,
                      NEW n \in window[w].listed \ window'[w].listed
               PROVE  Orphan(n)
    OBVIOUS
  <2>1. window'[w].listed = Listed /\ CatalogFree
    BY Relisted DEF Lists
  <2> QED
    BY <2>1, MissingIsOrphan
<1>2. [][Whole]_vars <=> ReadersSeeWhole
  BY DEF ReadersSeeWhole, Orphan
<1> QED
  BY <1>1, <1>2, SkinInvAlways, PTL DEF Spec

\* A version is held in a backup or in its place.
LEMMA InHeld ==
    ASSUME NEW n, NEW v
    PROVE  /\ v \in Held(n) <=>
                  \/ \E b \in backups : b.name = n /\ v \in b.version
                  \/ v \in target[n] /\ \A j \in Jobs : job[j].at = "verify" => Storage(j) # n
           /\ v \in Held(n)' <=>
                  \/ \E b \in backups' : b.name = n /\ v \in b.version
                  \/ v \in target'[n] /\ \A j \in Jobs : job'[j].at = "verify" => Storage(j)' # n
<1>1. v \in UNION {b.version : b \in {c \in backups : c.name = n}} <=>
         \E b \in backups : b.name = n /\ v \in b.version
  BY Zenon
<1>2. v \in UNION {b.version : b \in {c \in backups' : c.name = n}} <=>
         \E b \in backups' : b.name = n /\ v \in b.version
  BY Zenon
<1> QED
  BY <1>1, <1>2 DEF Held

\* What the disk holds of a name stays where backups of the name stay, and the skin
\* in place too unless it was not verified.
LEMMA KeptIsHeld ==
    ASSUME NEW n, \A b \in backups : b.name = n => b \in backups',
           (\A j \in Jobs : job[j].at = "verify" => Storage(j) # n) =>
               /\ target[n] \subseteq target'[n]
               /\ target[n] # {} => \A j \in Jobs : job'[j].at = "verify" => Storage(j)' # n
    PROVE  Held(n) \ Held(n)' = {}
<1> SUFFICES ASSUME NEW v \in Held(n) PROVE v \in Held(n)'
  OBVIOUS
<1>1. CASE \E b \in backups : b.name = n /\ v \in b.version
  BY <1>1, InHeld
<1>2. CASE v \in target[n] /\ \A j \in Jobs : job[j].at = "verify" => Storage(j) # n
  <2>1. v \in target'[n] /\ \A j \in Jobs : job'[j].at = "verify" => Storage(j)' # n
    BY <1>2
  <2> QED
    BY <2>1, InHeld
<1> QED
  BY <1>1, <1>2, InHeld

\* A step that leaves the disk alone, and after which no import verifies that did not,
\* loses nothing.
LEMMA DiskAloneHolds ==
    ASSUME UNCHANGED disk, NEW n \in Names,
           \A j \in Jobs : job'[j].at = "verify" => job[j].at = "verify" /\ Storage(j)' = Storage(j)
    PROVE  Held(n) \ Held(n)' = {}
BY KeptIsHeld DEF disk

\* An import's record after a step of its own.
LEMMA Moved ==
    ASSUME job \in [Jobs -> JobRecord], NEW j \in Jobs, NEW at, Move(j, at)
    PROVE  job'[j].at = at /\ job'[j].storage = job[j].storage
<1>1. job[j] \in JobRecord
  OBVIOUS
<1> QED
  BY <1>1 DEF Move, JobRecord

\* An import's record after its return.
LEMMA Returned ==
    ASSUME job \in [Jobs -> JobRecord], NEW j \in Jobs, NEW result, Return(j, result)
    PROVE  job'[j].at = result
BY DEF Return

\* An import's step loses what stood at a name only when what replaces it is verified.
LEMMA JobStepHolds ==
    ASSUME SkinInv, NEW j \in Jobs, JobStep(j), NEW n \in Names, Held(n) \ Held(n)' # {}
    PROVE  target'[n] # {} /\ target'[n] \subseteq Held(n)'
<1>1. job \in [Jobs -> JobRecord] /\ target \in [Names -> SUBSET Versions]
  BY Parts
<1>2. \A k \in Jobs : k # j => job'[k] = job[k]
  BY <1>1 DEF JobStep, AcquireImport, Stage, AcquireCatalog, MoveAside, Install, Verify,
     RollBack, CleanUp, Move, Return
<1>3. job[j].at # "queued" => \A k \in Jobs : k # j => job[k].at # "verify" /\ job'[k].at # "verify"
  <2>1. job[j].at # "queued" => job[j].at \in Working
    BY DEF JobStep, AcquireImport, Stage, AcquireCatalog, MoveAside, Install, Verify,
       RollBack, CleanUp, Working, InCatalog
  <2> QED
    BY <1>2, <2>1, OneWorks DEF Working, InCatalog
<1>4. CASE AcquireImport(j) \/ Stage(j) \/ AcquireCatalog(j)
  <2>1. UNCHANGED disk
    BY <1>4 DEF AcquireImport, Stage, AcquireCatalog
  <2>2. job'[j].at # "verify"
    <3>1. CASE AcquireImport(j)
      BY <1>1, <3>1, Moved DEF AcquireImport
    <3>2. CASE Stage(j)
      <4>1. job[j] \in JobRecord
        BY <1>1
      <4>2. job'[j].at = "staged" \/ job'[j].at = "failed"
        BY <1>1, <3>2, <4>1, Returned DEF Stage, JobRecord
      <4> QED
        BY <4>2
    <3>3. CASE AcquireCatalog(j)
      <4>1. Return(j, "exists") \/ Move(j, "move aside") \/ Move(j, "install")
        BY <3>3 DEF AcquireCatalog
      <4>2. job'[j].at \in {"exists", "move aside", "install"}
        BY <1>1, <4>1, Moved, Returned
      <4> QED
        BY <4>2
    <3> QED
      BY <1>4, <3>1, <3>2, <3>3
  <2>3. \A k \in Jobs : job'[k].at = "verify" => job[k].at = "verify" /\ Storage(k)' = Storage(k)
    BY <1>2, <2>2 DEF Storage
  <2> QED
    BY <2>1, <2>3, DiskAloneHolds
<1>5. CASE MoveAside(j)
  <2>1. job[j].at = "move aside" /\ job'[j].at # "verify"
    <3>1. job[j] \in JobRecord
      BY <1>1
    <3>2. job'[j].at = "install" \/ job'[j].at = "failed"
      BY <1>1, <1>5, <3>1, Returned DEF MoveAside, JobRecord
    <3> QED
      BY <1>5, <3>2 DEF MoveAside
  <2>2. \A k \in Jobs : job[k].at # "verify" /\ job'[k].at # "verify"
    BY <1>3, <2>1
  <2>3. CASE UNCHANGED disk
    BY <2>2, <2>3, DiskAloneHolds
  <2>4. CASE /\ target' = [target EXCEPT ![Storage(j)] = {}]
             /\ backups' = backups \cup {[name |-> Storage(j), version |-> target[Storage(j)]]}
    <3>1. CASE n # Storage(j)
      BY <1>1, <2>2, <2>4, <3>1, KeptIsHeld
    <3>2. CASE n = Storage(j)
      <4> DEFINE old == [name |-> n, version |-> target[n]]
      <4>1. old \in backups' /\ old.name = n /\ old.version = target[n]
        BY <2>4, <3>2
      <4> HIDE DEF old
      <4>2. \A b \in backups : b \in backups'
        BY <2>4
      <4>3. \A v \in Held(n) : v \in Held(n)'
        BY <4>1, <4>2, InHeld
      <4> QED
        BY <4>3
    <3> QED
      BY <3>1, <3>2
  <2> QED
    BY <1>5, <2>3, <2>4 DEF MoveAside
<1>6. CASE Install(j)
  <2>1. /\ job[j].at = "install" /\ UNCHANGED backups
        /\ Move(j, "verify") \/ Move(j, "roll back")
        /\ target' = target \/ target' = [target EXCEPT ![Storage(j)] = {Version(j)}]
    BY <1>6 DEF Install
  <2>2. target[Storage(j)] = {} /\ \A m \in Names : m # Storage(j) => target'[m] = target[m]
    BY <1>1, <2>1 DEF SkinInv, Knows, Installed
  <2>3. \A k \in Jobs : job'[k].at = "verify" => Storage(k)' = Storage(j)
    <3>1. Storage(j)' = Storage(j)
      BY <1>1, <2>1, Moved DEF Storage
    <3> QED
      BY <1>3, <2>1, <3>1
  <2>4. target[n] \subseteq target'[n] /\ (target[n] # {} => n # Storage(j))
    BY <2>2
  <2> QED
    BY <2>1, <2>3, <2>4, KeptIsHeld
<1>7. CASE Verify(j)
  <2>1. /\ job[j].at = "verify" /\ UNCHANGED backups /\ job'[j].at # "verify"
        /\ \A m \in Names : m # Storage(j) => target'[m] = target[m]
    <3>1. /\ job[j].at = "verify" /\ UNCHANGED backups
          /\ Move(j, "clean up") \/ Move(j, "roll back")
          /\ target' = target \/ target' = [target EXCEPT ![Storage(j)] = {}]
      BY <1>7 DEF Verify
    <3>2. job'[j].at = "clean up" \/ job'[j].at = "roll back"
      BY <1>1, <3>1, Moved
    <3> QED
      BY <1>1, <3>1, <3>2
  <2>2. \A k \in Jobs : job'[k].at # "verify"
    BY <1>3, <2>1
  <2> QED
    BY <2>1, <2>2, KeptIsHeld
<1>8. CASE RollBack(j)
  <2>1. /\ job[j].at = "roll back" /\ target[Storage(j)] = {} /\ job'[j].at # "verify"
        /\ \A b \in job[j].backup : b \in backups /\ b.name = Storage(j)
        /\ \A b, c \in job[j].backup : b = c
    BY <1>1, <1>8 DEF RollBack, Return, SkinInv, Knows, Installed, InCatalog
  <2>2. \A k \in Jobs : job[k].at # "verify" /\ job'[k].at # "verify"
    BY <1>3, <2>1
  <2>3. CASE UNCHANGED disk
    BY <2>2, <2>3, DiskAloneHolds
  <2>4. CASE /\ job[j].backup # {}
             /\ target' = [target EXCEPT ![Storage(j)] = (CHOOSE b \in job[j].backup : TRUE).version]
             /\ backups' = backups \ job[j].backup
    <3>1. PICK c \in job[j].backup : c = CHOOSE b \in job[j].backup : TRUE
      BY <2>4
    <3>2. CASE n # Storage(j)
      <4>1. target'[n] = target[n] /\ \A b \in backups : b.name = n => b \in backups'
        BY <1>1, <2>1, <2>4, <3>2
      <4> QED
        BY <2>2, <4>1, KeptIsHeld
    <3>3. CASE n = Storage(j)
      <4>1. target'[n] = c.version /\ target[n] = {}
        BY <1>1, <2>1, <2>4, <3>1, <3>3
      <4>2. \A b \in backups : b \in backups' \/ b = c
        BY <2>1, <2>4
      <4>3. \A v \in Held(n) : v \in Held(n)'
        BY <2>2, <4>1, <4>2, InHeld
      <4> QED
        BY <4>3
    <3> QED
      BY <3>2, <3>3
  <2> QED
    BY <1>8, <2>3, <2>4 DEF RollBack
<1>9. CASE CleanUp(j)
  <2>1. /\ job[j].at = "clean up" /\ target' = target /\ job'[j].at # "verify"
        /\ backups' = backups \ job[j].backup \/ backups' = backups
        /\ Installed(Storage(j))
        /\ \A b \in job[j].backup : b.name = Storage(j)
    BY <1>1, <1>9 DEF CleanUp, Return, SkinInv, Knows, InCatalog
  <2>2. \A k \in Jobs : job'[k].at # "verify"
    BY <1>3, <2>1
  <2>3. CASE n # Storage(j)
    BY <2>1, <2>2, <2>3, KeptIsHeld
  <2>4. CASE n = Storage(j)
    <3>1. target'[n] \subseteq Held(n)'
      BY <2>2, InHeld
    <3> QED
      BY <2>1, <2>4, <3>1 DEF Installed
  <2> QED
    BY <2>3, <2>4
<1> QED
  BY <1>4, <1>5, <1>6, <1>7, <1>8, <1>9 DEF JobStep

\* Whatever fails and wherever the process ends, what was installed under a name
\* stays on the disk until another skin that was verified stands in its place
\* (importArchiveDetailed's backup and its roll back).
THEOREM BackupHolds == Spec => NothingIsLost
<1> DEFINE Kept == \A n \in Names : Held(n) \ Held(n)' # {} =>
                                       target'[n] # {} /\ target'[n] \subseteq Held(n)'
<1>1. SkinInv /\ [Next]_vars => Kept
  <2> SUFFICES ASSUME SkinInv, [Next]_vars, NEW n \in Names, Held(n) \ Held(n)' # {}
               PROVE  target'[n] # {} /\ target'[n] \subseteq Held(n)'
    OBVIOUS
  <2>1. ASSUME NEW j \in Jobs, JobStep(j) PROVE target'[n] # {} /\ target'[n] \subseteq Held(n)'
    BY <2>1, JobStepHolds
  <2>2. ASSUME UNCHANGED <<disk, job>> PROVE FALSE
    BY <2>2, DiskAloneHolds DEF Storage
  <2>3. ASSUME UNCHANGED disk, \A k \in Jobs : job'[k].at # "verify" \/ job'[k] = job[k] PROVE FALSE
    BY <2>3, DiskAloneHolds DEF Storage
  <2>4. CASE Crash
    <3>1. \A k \in Jobs : job'[k].at \in {"none", "dead"}
      BY <2>4 DEF Crash, Idle
    <3> QED
      BY <2>3, <2>4, <3>1 DEF Crash
  <2>5. ASSUME NEW w \in Windows, CloseWindow(w) PROVE FALSE
    <3>1. \A k \in Jobs : /\ job'[k].at = "verify" => job[k].at = "verify"
                          /\ job'[k].at = "verify" => job'[k].storage = job[k].storage
      <4> SUFFICES ASSUME NEW k \in Jobs
                   PROVE  job'[k].at = "verify" => job[k].at = "verify" /\ job'[k].storage = job[k].storage
        OBVIOUS
      <4>1. job[k] \in JobRecord
        BY Parts
      <4> QED
        BY <2>5, <4>1 DEF CloseWindow, Idle, JobRecord
    <3> QED
      BY <2>5, <3>1, DiskAloneHolds DEF CloseWindow, Storage
  <2>6. ASSUME NEW w \in Windows, NEW j \in Jobs, ImportFinished(w, j) PROVE FALSE
    <3>1. \A k \in Jobs : job'[k].at # "verify" \/ job'[k] = job[k]
      BY <2>6, Parts DEF ImportFinished, Idle
    <3> QED
      BY <2>3, <2>6, <3>1 DEF ImportFinished
  <2>7. ASSUME NEW w \in Windows, NEW j \in Jobs, NEW a, NEW replace, Start(j, w, a, replace),
               UNCHANGED disk
        PROVE  FALSE
    <3>1. \A k \in Jobs : job'[k].at # "verify" \/ job'[k] = job[k]
      BY <2>7, Parts DEF Start
    <3> QED
      BY <2>3, <2>7, <3>1
  <2>8. CASE GuiStep
    <3>1. ASSUME NEW w \in Windows,
                 rebuildTextureCache(w) \/ OpenWindow(w) \/ KeepInstalled(w) \/ ChooseBuiltin(w)
                     \/ \E m \in Names : onSkinChanged(w, m)
          PROVE  FALSE
      BY <2>2, <3>1 DEF rebuildTextureCache, OpenWindow, KeepInstalled, ChooseBuiltin, onSkinChanged
    <3>2. ASSUME NEW w \in Windows, NEW j \in Jobs, Replace(w, j) PROVE FALSE
      BY <2>7, <3>2 DEF Replace
    <3>3. ASSUME NEW w \in Windows, NEW j \in Jobs, NEW a \in Archives, onImportSkin(w, j, a)
          PROVE  FALSE
      BY <2>7, <3>3 DEF onImportSkin
    <3> QED
      BY <2>5, <2>6, <2>8, <3>1, <3>2, <3>3 DEF GuiStep
  <2>9. CASE UNCHANGED vars
    BY <2>2, <2>9 DEF vars, disk
  <2> QED
    BY <2>1, <2>4, <2>8, <2>9 DEF Next
<1>2. [][Kept]_vars <=> NothingIsLost
  BY DEF NothingIsLost
<1> QED
  BY <1>1, <1>2, SkinInvAlways, PTL DEF Spec

=============================================================================
