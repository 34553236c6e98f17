----------------------------- MODULE SkinStore -----------------------------
(***************************************************************************)
(* SkinLoader::importArchiveDetailed and discoverAll, ThemeManager's       *)
(* active skin and SettingsPage's import of one: the custom skins on the   *)
(* disk, replaced by background jobs while windows read them.              *)
(*                                                                         *)
(* An archive has a name and a version; an installed skin is a directory   *)
(* that holds one version whole, for a skin is written beside its place    *)
(* and renamed into it.  Any file operation may fail, and the process may  *)
(* end between any two steps.                                              *)
(***************************************************************************)
EXTENDS Naturals, FiniteSets

CONSTANTS
    Jobs,            \* bound: the imports there are at a time
    Names,           \* what archives are called
    SameName,        \* the names that differ by case only, a set of sets of names
    Versions,        \* what archives hold
    Windows,         \* the settings windows
    MaxFailures,     \* bound: file operations that fail
    MaxCrashes       \* bound: crashes

ASSUME SkinStoreAssumption == UNION SameName = Names /\ MaxFailures \in Nat /\ MaxCrashes \in Nat

VARIABLES
    target,          \* function: the directory at a name, the versions in it, at most one
    backups,         \* the directories a replacement moved aside: [name, version]; what
                     \* makes their names unique is left out, so equal ones are one
    importMutex,     \* the job that holds skinImportMutex, at most one
    catalogMutex,    \* the job that holds skinCatalogMutex, at most one
    job,             \* function: what each import is doing
    window,          \* function: what each window is doing
    active,          \* the active skin and the textures it is drawn with
    persisted,       \* the name settings hold, at most one; none is a built-in skin
    failures, crashes

disk == <<target, backups>>
locks == <<importMutex, catalogMutex>>
vars == <<target, backups, importMutex, catalogMutex, job, window, active, persisted,
          failures, crashes>>

Builtin == [name |-> {}, version |-> {}, textures |-> {}]

Idle == [at |-> "none", archive |-> {}, replace |-> FALSE, storage |-> {}, backup |-> {},
         window |-> {}]

Closed == [open |-> FALSE, listed |-> {}, at |-> "none", prompt |-> {}]

Installed(name) == target[name] # {}

Listed == {n \in Names : Installed(n)}

Archives == [name : Names, version : Versions]

Init ==
    /\ \E installed \in [Names -> {{}} \cup {{v} : v \in Versions}] :
          /\ \A s \in SameName : \A m, n \in s : installed[m] # {} /\ installed[n] # {} => m = n
          /\ target = installed
    /\ backups = {}
    /\ importMutex = {} /\ catalogMutex = {}
    /\ job = [j \in Jobs |-> Idle]
    /\ window = [w \in Windows |-> Closed]
    /\ active = Builtin /\ persisted = {}
    /\ failures = 0 /\ crashes = 0

\* A file operation of a job that may fail.
Outcome(ok) == failures' = (IF ok THEN failures ELSE failures + 1) /\ failures' <= MaxFailures

Ended == {"imported", "exists", "failed", "dead"}

Startable(j) == job[j].window = {} /\ job[j].at \in Ended \cup {"none"}

Move(j, at) == job' = [job EXCEPT ![j].at = at]

-----------------------------------------------------------------------------
\* SkinLoader::importArchiveDetailed, on a thread of the pool.

\* Mutant: imports do not wait for each other.
Bug_AcquireImport(j) ==
    /\ job[j].at = "queued"
    /\ importMutex' = {j}
    /\ Move(j, "validate")
    /\ UNCHANGED <<disk, catalogMutex, window, active, persisted, failures, crashes>>

AcquireImport(j) ==
    /\ job[j].at = "queued" /\ importMutex = {}
    /\ importMutex' = {j}
    /\ Move(j, "validate")
    /\ UNCHANGED <<disk, catalogMutex, window, active, persisted, failures, crashes>>

\* The end of the function: every lock it holds is given back, and its answer is
\* kept for the window.
Return(j, result) ==
    /\ importMutex' = importMutex \ {j} /\ catalogMutex' = catalogMutex \ {j}
    /\ job' = [job EXCEPT ![j] = [at |-> result, archive |-> @.archive, replace |-> FALSE,
                                  storage |-> @.storage, backup |-> {}, window |-> @.window]]

\* Reading and checking the archive, finding the directory it is to be stored in
\* and staging its files: outside the catalogue lock.
Stage(j) ==
    LET name == (CHOOSE a \in job[j].archive : TRUE).name
        matches == {n \in Listed : \E s \in SameName : {n, name} \subseteq s}
    IN  /\ job[j].at = "validate"
        /\ \E ok \in BOOLEAN :
              /\ Outcome(ok)
              /\ IF ok /\ Cardinality(matches) <= 1
                 THEN /\ job' = [job EXCEPT ![j].at = "staged",
                                            ![j].storage = IF matches = {} THEN {name} ELSE matches]
                      /\ UNCHANGED locks
                 ELSE Return(j, "failed")
        /\ UNCHANGED <<disk, window, active, persisted, crashes>>

Storage(j) == CHOOSE n \in job[j].storage : TRUE

Version(j) == (CHOOSE a \in job[j].archive : TRUE).version

AcquireCatalog(j) ==
    /\ job[j].at = "staged" /\ catalogMutex = {}
    /\ IF Installed(Storage(j)) /\ ~job[j].replace
       THEN Return(j, "exists")
       ELSE /\ catalogMutex' = {j} /\ UNCHANGED importMutex
            /\ Move(j, IF Installed(Storage(j)) THEN "move aside" ELSE "install")
    /\ UNCHANGED <<disk, window, active, persisted, failures, crashes>>

\* Mutant: the old skin is removed instead of moved aside.
Bug_MoveAside(j) ==
    /\ job[j].at = "move aside"
    /\ target' = [target EXCEPT ![Storage(j)] = {}]
    /\ Move(j, "install")
    /\ UNCHANGED <<backups, locks, window, active, persisted, failures, crashes>>

MoveAside(j) ==
    LET old == [name |-> Storage(j), version |-> target[Storage(j)]]
    IN  /\ job[j].at = "move aside"
        /\ \E ok \in BOOLEAN :
              /\ Outcome(ok)
              /\ IF ok
                 THEN /\ target' = [target EXCEPT ![Storage(j)] = {}]
                      /\ backups' = backups \cup {old}
                      /\ job' = [job EXCEPT ![j].at = "install", ![j].backup = {old}]
                      /\ UNCHANGED locks
                 ELSE Return(j, "failed") /\ UNCHANGED disk
        /\ UNCHANGED <<window, active, persisted, crashes>>

Install(j) ==
    /\ job[j].at = "install"
    /\ \E ok \in BOOLEAN :
          /\ Outcome(ok)
          /\ target' = IF ok THEN [target EXCEPT ![Storage(j)] = {Version(j)}] ELSE target
          /\ Move(j, IF ok THEN "verify" ELSE "roll back")
    /\ UNCHANGED <<backups, locks, window, active, persisted, crashes>>

\* loadFromDirectory on what was installed; a skin that fails it is removed.
Verify(j) ==
    /\ job[j].at = "verify"
    /\ \E ok \in BOOLEAN :
          /\ Outcome(ok)
          /\ target' = IF ok THEN target ELSE [target EXCEPT ![Storage(j)] = {}]
          /\ Move(j, IF ok THEN "clean up" ELSE "roll back")
    /\ UNCHANGED <<backups, locks, window, active, persisted, crashes>>

\* Moving the backup back; if that fails too the backup is all there is.
RollBack(j) ==
    /\ job[j].at = "roll back"
    /\ \E ok \in BOOLEAN :
          /\ IF job[j].backup = {} THEN ok /\ UNCHANGED failures ELSE Outcome(ok)
          /\ IF ok /\ job[j].backup # {}
             THEN /\ target' = [target EXCEPT ![Storage(j)] = (CHOOSE b \in job[j].backup : TRUE).version]
                  /\ backups' = backups \ job[j].backup
             ELSE UNCHANGED disk
    /\ Return(j, "failed")
    /\ UNCHANGED <<window, active, persisted, crashes>>

CleanUp(j) ==
    /\ job[j].at = "clean up"
    /\ \E ok \in BOOLEAN :
          /\ IF job[j].backup = {} THEN ok /\ UNCHANGED failures ELSE Outcome(ok)
          /\ backups' = IF ok THEN backups \ job[j].backup ELSE backups
    /\ Return(j, "imported")
    /\ UNCHANGED <<target, window, active, persisted, crashes>>

JobStep(j) ==
    \/ AcquireImport(j) \/ Stage(j) \/ AcquireCatalog(j) \/ MoveAside(j)
    \/ Install(j) \/ Verify(j) \/ RollBack(j) \/ CleanUp(j)

-----------------------------------------------------------------------------
\* The GUI thread.  A skin is made active and only then are its textures read,
\* so between the two the thread does nothing else.

Busy == \E w \in Windows : window[w].at = "textures"

ThreadFree == ~Busy

\* Mutant: readers do not take the catalogue lock.
Bug_CatalogFree == TRUE

\* A reader of the catalogue waits for its lock.
CatalogFree == catalogMutex = {}

\* ThemeManager::setActiveSkin, up to the cache of textures.
setActiveSkin(w, name) ==
    /\ active' = [name |-> {name}, version |-> target[name], textures |-> {}]
    /\ window' = [window EXCEPT ![w].at = "textures", ![w].listed = Listed, ![w].prompt = {}]

\* rebuildTextureCache and the rest of setActiveSkin: the files are read where
\* the skin was found, without the catalogue lock.
rebuildTextureCache(w) ==
    LET name == CHOOSE n \in active.name : TRUE
    IN  /\ window[w].at = "textures"
        /\ active' = [active EXCEPT !.textures = target[name]]
        /\ persisted' = active.name
        /\ window' = [window EXCEPT ![w].at = "ready"]
        /\ UNCHANGED <<disk, locks, job, failures, crashes>>

OpenWindow(w) ==
    /\ ThreadFree /\ CatalogFree /\ ~window[w].open
    /\ window' = [window EXCEPT ![w] = [open |-> TRUE, listed |-> Listed, at |-> "ready",
                                         prompt |-> {}]]
    /\ UNCHANGED <<disk, locks, job, active, persisted, failures, crashes>>

\* The window is deleted; an import it started goes on and nobody hears of it.
CloseWindow(w) ==
    /\ ThreadFree /\ window[w].open
    /\ window' = [window EXCEPT ![w] = Closed]
    /\ job' = [j \in Jobs |-> IF job[j].at \in Ended THEN Idle ELSE [job[j] EXCEPT !.window = @ \ {w}]]
    /\ UNCHANGED <<disk, locks, active, persisted, failures, crashes>>

\* startSkinImport: the button is disabled until the answer is in, the list of
\* skins is not.
Importing(w) == \E j \in Jobs : job[j].window = {w}

Start(j, w, archive, replace) ==
    job' = [job EXCEPT ![j] = [at |-> "queued", archive |-> {archive}, replace |-> replace,
                              storage |-> {}, backup |-> {}, window |-> {w}]]

onImportSkin(w, j, archive) ==
    /\ ThreadFree /\ window[w].at = "ready" /\ ~Importing(w) /\ Startable(j)
    /\ Start(j, w, archive, FALSE)
    /\ UNCHANGED <<disk, locks, window, active, persisted, failures, crashes>>

\* The import's answer, where its window is still there to hear it: of a skin that
\* was installed the window shows what it finds then, which a later import may have
\* replaced.
ImportFinished(w, j) ==
    /\ ThreadFree /\ job[j].window = {w} /\ window[w].at = "ready"
    /\ \/ /\ job[j].at = "exists"
          /\ window' = [window EXCEPT ![w].at = "prompt", ![w].prompt = job[j].archive]
          /\ UNCHANGED active
       \/ /\ job[j].at = "failed"
          /\ UNCHANGED <<window, active>>
       \/ /\ job[j].at = "imported" /\ CatalogFree
          /\ IF Installed(Storage(j)) THEN setActiveSkin(w, Storage(j))
             ELSE /\ window' = [window EXCEPT ![w].listed = Listed]
                  /\ UNCHANGED active
    /\ job' = [job EXCEPT ![j] = Idle]
    /\ UNCHANGED <<disk, locks, persisted, failures, crashes>>

\* The question whether to replace the skin: answered with yes, or with no.
Replace(w, j) ==
    /\ ThreadFree /\ window[w].at = "prompt" /\ Startable(j)
    /\ Start(j, w, CHOOSE a \in window[w].prompt : TRUE, TRUE)
    /\ window' = [window EXCEPT ![w].at = "ready", ![w].prompt = {}]
    /\ UNCHANGED <<disk, locks, active, persisted, failures, crashes>>

KeepInstalled(w) ==
    /\ ThreadFree /\ window[w].at = "prompt"
    /\ window' = [window EXCEPT ![w].at = "ready", ![w].prompt = {}]
    /\ UNCHANGED <<disk, locks, job, active, persisted, failures, crashes>>

\* A skin of the list is chosen: it is read again, and if it is gone the list is.
onSkinChanged(w, name) ==
    /\ ThreadFree /\ CatalogFree /\ window[w].at = "ready" /\ name \in window[w].listed
    /\ IF Installed(name) THEN setActiveSkin(w, name)
       ELSE /\ window' = [window EXCEPT ![w].listed = Listed]
            /\ UNCHANGED active
    /\ UNCHANGED <<disk, locks, job, persisted, failures, crashes>>

\* The choice of a built-in skin.
ChooseBuiltin(w) ==
    /\ ThreadFree /\ window[w].at = "ready"
    /\ active' = Builtin /\ persisted' = {}
    /\ UNCHANGED <<disk, locks, job, window, failures, crashes>>

\* The process ends at any point and is started again: loadPersistedSkin takes the
\* persisted skin if it can be read and else a built-in one, which it does not
\* persist.
Crash ==
    /\ crashes < MaxCrashes
    /\ crashes' = crashes + 1
    /\ importMutex' = {} /\ catalogMutex' = {}
    /\ job' = [j \in Jobs |-> IF job[j].at = "none" THEN Idle ELSE [Idle EXCEPT !.at = "dead"]]
    /\ window' = [w \in Windows |-> Closed]
    /\ active' = IF \E n \in persisted : Installed(n)
                 THEN LET n == CHOOSE m \in persisted : TRUE
                      IN  [name |-> {n}, version |-> target[n], textures |-> target[n]]
                 ELSE Builtin
    /\ UNCHANGED <<disk, persisted, failures>>

GuiStep ==
    \E w \in Windows :
        \/ rebuildTextureCache(w) \/ OpenWindow(w) \/ CloseWindow(w) \/ KeepInstalled(w)
        \/ ChooseBuiltin(w)
        \/ \E n \in Names : onSkinChanged(w, n)
        \/ \E j \in Jobs : ImportFinished(w, j) \/ Replace(w, j)
        \/ \E j \in Jobs, a \in Archives : onImportSkin(w, j, a)

Next == GuiStep \/ (\E j \in Jobs : JobStep(j)) \/ Crash

Spec == Init /\ [][Next]_vars

-----------------------------------------------------------------------------

\* What the disk holds of a skin, in its place or in a backup; a version that is
\* still to pass its verification does not count.
Held(n) ==
    (UNION {b.version : b \in {c \in backups : c.name = n}})
        \cup (IF \E j \in Jobs : job[j].at = "verify" /\ Storage(j) = n THEN {} ELSE target[n])

\* QDir::rename, the backup and its roll back: whatever fails, and wherever the
\* process ends, a version that was installed stays on the disk, in its place or in
\* a backup, until another that was verified stands in its place.
NothingIsLost ==
    [][\A n \in Names : Held(n) \ Held(n)' # {} => target'[n] # {} /\ target'[n] \subseteq Held(n)']_vars

\* skinImportMutex: the directory to store a skin in is looked for outside the
\* catalogue lock, and yet no two imports make two skins whose names differ by
\* case only, which no later import could replace.
OneSkinPerName ==
    \A s \in SameName : \A m, n \in s : Installed(m) /\ Installed(n) => m = n

\* skinCatalogMutex: a reader of the catalogue, on the GUI thread while imports
\* replace skins, finds every skin that is installed and not being given up: one
\* it listed before is missing only after a failed roll back.
ReadersSeeWhole ==
    [][\A w \in Windows :
          (window[w].listed \ window'[w].listed # {} /\ window'[w].open) =>
              \A n \in window[w].listed \ window'[w].listed :
                  \E b \in backups : b.name = n /\ \A j \in Jobs : b \notin job[j].backup]_vars

\* The comment on the catalogue lock (SkinLoader.cpp:1179) promises a reader the
\* complete old installation or the complete replacement: the images in the cache
\* are those of the version whose palette is in use.
DrawnWithItsTextures == active.textures \in {{}, active.version}

=============================================================================
