---------------------------- MODULE BackendCache ----------------------------
(***************************************************************************)
(* The local backend cache as the "topo backend" commands change it        *)
(* (lib/Distribution/BackendCache.cpp, BackendCli.cpp): install, remove,   *)
(* default.  Every command is a process of its own, the only state is the  *)
(* directory tree, no lock is taken, and one action is one file-system     *)
(* call.  The model follows one backend: its directory, the version        *)
(* directories in it and the "default" link; staging directories have      *)
(* unique names, so each belongs to its process.                           *)
(***************************************************************************)
EXTENDS Naturals, FiniteSets

CONSTANTS
  Procs,         \* command processes
  Versions,      \* versions of the backend
  NoVersion,     \* no version: an absent link
  Races,         \* may commands on one version, or a remove command and any
                 \* other, run at the same time?
  CrossDevice,   \* may a rename into the cache fail (another file system)?
  CopyFails,     \* may a copy fail half-way (disk full)?
  Crashes,       \* may a process die, or a removal fail, between two calls?
  MaxCmds        \* bound: commands issued in all

ASSUME CommandAssumption ==
  /\ NoVersion \notin Versions
  /\ MaxCmds \in Nat

VARIABLES
  bdir,      \* the backend's directory exists
  dir,       \* version -> "absent", "partial", "full", or a regular "file"
  link,      \* what the "default" link names, or NoVersion
  staging,   \* processes whose staging directory exists
  bpc,        \* process -> where it is
  cmd,       \* process -> the version its command names
  cmds,      \* commands issued so far
  crashed    \* a command died or gave up half-way (history)

cacheVars == <<bdir, dir, link, staging, bpc, cmd, cmds, crashed>>

-----------------------------------------------------------------------------
CacheInit ==
  /\ bdir = FALSE
  /\ dir = [v \in Versions |-> "absent"]
  /\ link = NoVersion
  /\ staging = {}
  /\ bpc = [p \in Procs |-> "idle"]
  /\ cmd = [p \in Procs |-> NoVersion]
  /\ cmds = 0
  /\ crashed = FALSE

Proceed(p, l) == bpc' = [bpc EXCEPT ![p] = l]
Present(v) == dir[v] # "absent"
IsDir(v) == dir[v] \in {"partial", "full"}
SetDir(v, c) == dir' = [dir EXCEPT ![v] = c]

\* The command of p ends.
Done(p) == Proceed(p, "idle")

\* Where a remove command is.
Removing == {"isDir", "remove", "fixLink", "dropLink", "rmdir", "removeAll"}

\* Process p begins a command on version v at label l.
Begin(p, v, l) ==
  /\ bpc[p] = "idle" /\ cmds < MaxCmds
  /\ \A q \in Procs \ {p} :
       bpc[q] # "idle" => Races \/ (cmd[q] # v /\ {l, bpc[q]} \cap Removing = {})
  /\ Proceed(p, l)
  /\ cmd' = [cmd EXCEPT ![p] = v]
  /\ cmds' = cmds + 1
  /\ UNCHANGED <<bdir, dir, link, staging, crashed>>

(* ------------------------------- install ------------------------------- *)
InstallCall(p, v) == Begin(p, v, "exists")

\* Refused before anything is touched: archive, digest, manifest, path
\* segment, core_compat, signature or payload.
InstallRefused(p) ==
  /\ bpc[p] = "exists"
  /\ Done(p)
  /\ UNCHANGED <<bdir, dir, link, staging, cmd, cmds, crashed>>

\* Mutant: an existing version is installed over.
MutInstallExists(p) ==
  /\ bpc[p] = "exists"
  /\ Proceed(p, "mkdir")
  /\ UNCHANGED <<bdir, dir, link, staging, cmd, cmds, crashed>>

\* A version directory that exists is never written again: success.
InstallExists(p) ==
  /\ bpc[p] = "exists"
  /\ Proceed(p, IF Present(cmd[p]) THEN "first" ELSE "mkdir")
  /\ UNCHANGED <<bdir, dir, link, staging, cmd, cmds, crashed>>

InstallMkdir(p) ==
  /\ bpc[p] = "mkdir"
  /\ \/ bdir' = TRUE /\ Proceed(p, "stage")
     \/ CopyFails /\ Done(p) /\ UNCHANGED bdir
  /\ UNCHANGED <<dir, link, staging, cmd, cmds, crashed>>

\* The package is copied into the staging directory, or the copy fails and
\* the directory is removed.
InstallStage(p) ==
  /\ bpc[p] = "stage"
  /\ \/ /\ staging' = staging \cup {p}
        /\ Proceed(p, "rename")
     \/ /\ CopyFails
        /\ Done(p)
        /\ UNCHANGED staging
  /\ UNCHANGED <<bdir, dir, link, cmd, cmds, crashed>>

\* rename() publishes the version at once; it fails across devices, without
\* a parent directory, and onto a directory that has entries.
InstallRename(p) ==
  /\ bpc[p] = "rename"
  /\ bdir /\ ~Present(cmd[p])
  /\ SetDir(cmd[p], "full")
  /\ staging' = staging \ {p}
  /\ Proceed(p, "first")
  /\ UNCHANGED <<bdir, link, cmd, cmds, crashed>>

RenameFails(p) ==
  /\ bpc[p] = "rename"
  /\ CrossDevice \/ ~bdir \/ Present(cmd[p])
  /\ Proceed(p, "copy")
  /\ UNCHANGED <<bdir, dir, link, staging, cmd, cmds, crashed>>

\* The fallback copy begins: it creates the version directory.
CopyBegin(p) ==
  /\ bpc[p] = "copy"
  /\ bdir /\ dir[cmd[p]] \in {"absent", "partial"}
  /\ SetDir(cmd[p], "partial")
  /\ Proceed(p, "copying")
  /\ UNCHANGED <<bdir, link, staging, cmd, cmds, crashed>>

CopyEnd(p) ==
  /\ bpc[p] = "copying"
  /\ dir[cmd[p]] = "partial"
  /\ SetDir(cmd[p], "full")
  /\ staging' = staging \ {p}
  /\ Proceed(p, "first")
  /\ UNCHANGED <<bdir, link, cmd, cmds, crashed>>

\* What the copy of p counts on finding at the version's path.
Found(p) == IF bpc[p] = "copy" THEN "absent" ELSE "partial"

\* The copy can fail: on the disk, because the parent is gone, or because
\* others wrote or removed the same tree.
CopyMayFail(p) ==
  /\ bpc[p] \in {"copy", "copying"}
  /\ CopyFails \/ ~bdir \/ dir[cmd[p]] # Found(p)

CopyStops(p) ==
  /\ CopyMayFail(p)
  /\ Proceed(p, "undo")
  /\ UNCHANGED <<bdir, dir, link, staging, cmd, cmds, crashed>>

\* Mutant: a failed fallback copy is not undone.
MutUndo(p) ==
  /\ bpc[p] = "undo"
  /\ staging' = staging \ {p}
  /\ Done(p)
  /\ UNCHANGED <<bdir, dir, link, cmd, cmds, crashed>>

\* After a failed fallback the staging directory and the version directory
\* are removed.
Undo(p) ==
  /\ bpc[p] = "undo"
  /\ staging' = staging \ {p}
  /\ SetDir(cmd[p], "absent")
  /\ Done(p)
  /\ UNCHANGED <<bdir, link, cmd, cmds, crashed>>

\* cmdInstall(): the first install of a backend becomes its default.
FirstDefault(p) ==
  /\ bpc[p] = "first"
  /\ Proceed(p, IF link = NoVersion THEN "setCheck" ELSE "idle")
  /\ UNCHANGED <<bdir, dir, link, staging, cmd, cmds, crashed>>

(* ------------------------------- default ------------------------------- *)
\* cmdDefault(): the version is named, or is the newest one listed.
DefaultCall(p, v) == Begin(p, v, "setCheck")

\* Mutant: any version may become the default.
MutSetCheck(p) ==
  /\ bpc[p] = "setCheck"
  /\ Proceed(p, "unlink")
  /\ UNCHANGED <<bdir, dir, link, staging, cmd, cmds, crashed>>

\* setDefault() wants the version installed ...
SetCheck(p) ==
  /\ bpc[p] = "setCheck"
  /\ Proceed(p, IF IsDir(cmd[p]) THEN "unlink" ELSE "idle")
  /\ UNCHANGED <<bdir, dir, link, staging, cmd, cmds, crashed>>

\* ... removes the link ...
SetUnlink(p) ==
  /\ bpc[p] = "unlink"
  /\ link' = NoVersion
  /\ Proceed(p, "symlink")
  /\ UNCHANGED <<bdir, dir, staging, cmd, cmds, crashed>>

\* ... and makes it anew.  That fails when the directory is gone or another
\* process made the link first: then the plain-file fallback is opened through
\* that link, fails on the directory it names, and creates a file of that
\* name when the link dangles.
SetLink(p) ==
  /\ bpc[p] = "symlink"
  /\ link' = IF bdir /\ link = NoVersion THEN cmd[p] ELSE link
  /\ dir' = [v \in Versions |-> IF v = link /\ ~Present(v) THEN "file" ELSE dir[v]]
  /\ Done(p)
  /\ UNCHANGED <<bdir, staging, cmd, cmds, crashed>>

(* -------------------------------- remove ------------------------------- *)
RemoveCall(p, v) == Begin(p, v, "isDir")

RemoveCheck(p) ==
  /\ bpc[p] = "isDir"
  /\ Proceed(p, IF IsDir(cmd[p]) THEN "remove" ELSE "idle")
  /\ UNCHANGED <<bdir, dir, link, staging, cmd, cmds, crashed>>

\* remove_all() deletes the files one by one, then the directory.
RemoveSome(p) ==
  /\ bpc[p] = "remove"
  /\ dir[cmd[p]] = "full"
  /\ SetDir(cmd[p], "partial")
  /\ UNCHANGED <<bdir, link, staging, bpc, cmd, cmds, crashed>>

RemoveRest(p) ==
  /\ bpc[p] = "remove"
  /\ dir[cmd[p]] # "full"
  /\ SetDir(cmd[p], "absent")
  /\ Proceed(p, "fixLink")
  /\ UNCHANGED <<bdir, link, staging, cmd, cmds, crashed>>

\* remove_all() fails with files left: the command ends there.
RemoveFails(p) ==
  /\ Crashes
  /\ bpc[p] \in {"remove", "removeAll"}
  /\ Done(p)
  /\ crashed' = TRUE
  /\ UNCHANGED <<bdir, dir, link, staging, cmd, cmds>>

\* A link that names the removed version is dropped.
ReadLink(p) ==
  /\ bpc[p] = "fixLink"
  /\ Proceed(p, IF link = cmd[p] THEN "dropLink" ELSE "rmdir")
  /\ UNCHANGED <<bdir, dir, link, staging, cmd, cmds, crashed>>

DropLink(p) ==
  /\ bpc[p] = "dropLink"
  /\ link' = NoVersion
  /\ Proceed(p, "rmdir")
  /\ UNCHANGED <<bdir, dir, staging, cmd, cmds, crashed>>

\* The backend's directory goes once it is empty.
RemoveDir(p) ==
  /\ bpc[p] = "rmdir"
  /\ bdir' = (bdir /\ (link # NoVersion \/ \E v \in Versions : Present(v)))
  /\ Done(p)
  /\ UNCHANGED <<dir, link, staging, cmd, cmds, crashed>>

\* cmdRemove() without a version: remove_all() of the whole backend, entry
\* by entry, then the directory, unless something new appeared in it.
RemoveAllCall(p) ==
  /\ bdir /\ \E v \in Versions : Present(v)
  /\ Begin(p, NoVersion, "removeAll")

RemoveEntry(p) ==
  /\ bpc[p] = "removeAll"
  /\ \/ /\ \E v \in Versions : Present(v)
           /\ SetDir(v, IF dir[v] = "full" THEN "partial" ELSE "absent")
        /\ UNCHANGED link
     \/ /\ link # NoVersion
        /\ link' = NoVersion
        /\ UNCHANGED dir
  /\ UNCHANGED <<bdir, staging, bpc, cmd, cmds, crashed>>

RemoveAllDir(p) ==
  /\ bpc[p] = "removeAll"
  /\ link = NoVersion /\ \A v \in Versions : ~Present(v)
  /\ bdir' = FALSE
  /\ Done(p)
  /\ UNCHANGED <<dir, link, staging, cmd, cmds, crashed>>

\* A process dies between two calls; what it left on disk stays.
Crash(p) ==
  /\ Crashes
  /\ bpc[p] # "idle"
  /\ Done(p)
  /\ crashed' = TRUE
  /\ UNCHANGED <<bdir, dir, link, staging, cmd, cmds>>

-----------------------------------------------------------------------------
Install(p) ==
  \/ \E v \in Versions : InstallCall(p, v)
  \/ InstallRefused(p) \/ InstallExists(p) \/ InstallMkdir(p) \/ InstallStage(p)
  \/ InstallRename(p) \/ RenameFails(p)
  \/ CopyBegin(p) \/ CopyEnd(p) \/ CopyStops(p) \/ Undo(p)
  \/ FirstDefault(p)

Default(p) ==
  \/ \E v \in Versions : DefaultCall(p, v)
  \/ SetCheck(p) \/ SetUnlink(p) \/ SetLink(p)

Remove(p) ==
  \/ \E v \in Versions : RemoveCall(p, v)
  \/ RemoveCheck(p) \/ RemoveSome(p) \/ RemoveRest(p) \/ RemoveFails(p)
  \/ ReadLink(p) \/ DropLink(p) \/ RemoveDir(p)
  \/ RemoveAllCall(p) \/ RemoveEntry(p) \/ RemoveAllDir(p)

CacheNext == \E p \in Procs : Install(p) \/ Default(p) \/ Remove(p) \/ Crash(p)

CacheSpec == CacheInit /\ [][CacheNext]_cacheVars

-----------------------------------------------------------------------------
\* Between commands, none of which died.
Quiet == ~crashed /\ \A p \in Procs : bpc[p] = "idle"

\* "Any failure leaves the cache clean", "fixes up the `default` symlink if it
\* dangled" (BackendCache.h), "still never leaving a half-installed final dir"
\* (BackendCache.cpp:248): between commands no staging directory and no
\* half-written version is left and the default names an installed version; and
\* an install that reported success left the complete version behind.  Unless a
\* command died in its copy.
CacheClean ==
  /\ Quiet => /\ staging = {} /\ \A v \in Versions : dir[v] # "partial"
              /\ link # NoVersion => Present(link)
  /\ ~crashed => \A p \in Procs : bpc[p] = "first" => dir[cmd[p]] = "full"

\* "<version> directories are immutable once installed" (BackendCache.h): a
\* complete version changes only by a remove command.
Immutable ==
  [][\A v \in Versions :
       dir[v] = "full" /\ dir'[v] # "full" =>
         \E p \in Procs : bpc[p] \in {"remove", "removeAll"}]_cacheVars

-----------------------------------------------------------------------------
installed == {v \in Versions : dir[v] = "full"}

resolved == IF link \in installed THEN link ELSE NoVersion

Store == INSTANCE VersionStore WITH default <- resolved

\* The tree implements the store of immutable versions: each version comes
\* and goes as a whole, and the default follows it, although every command
\* takes several calls that may fail half-way -- until a command dies.
StoreSpec ==
  Store!Init /\ [][Store!Next \/ crashed']_<<installed, resolved>>
=============================================================================
