-------------------------- MODULE ProjectBootstrap --------------------------
(***************************************************************************)
(* How a directory becomes a project: `ces init`, and `ces build` and      *)
(* `ces scan` where there is none yet, create .ces with its signing keys,  *)
(* its audit secret and at last its config, one file after the other.      *)
(* Every other command takes a directory for a project as soon as it has a *)
(* .ces, and loads what it finds there.  Nothing locks .ces, so commands   *)
(* of several processes interleave, and one may die half way.              *)
(*                                                                         *)
(* One directory without symbolic links, and no secret in the environment. *)
(* Keys, secret and project id are abstracted to the process that drew     *)
(* them.                                                                   *)
(***************************************************************************)
EXTENDS Naturals

CONSTANTS
  Starters,      \* processes, each of which runs one command
  NoStarter,
  MaxRemovals    \* times the user removes .ces

ASSUME BootstrapConstants == NoStarter \notin Starters /\ MaxRemovals \in Nat

VARIABLES
  folder,     \* .ces: is it there, the directory of the keys, other entries
  files,      \* the files an initialization writes
  doing,      \* of each process: its command, and what it has read
  removals

bootVars == <<folder, files, doing, removals>>

Files == {"private", "public", "secret", "config"}

NoFile == [by |-> NoStarter, whole |-> FALSE]

(* profile: the verification profile; stray: anything else, such as a      *)
(* baseline; drafts: the temporary files of profiles being written.        *)
NoFolder == [exists |-> FALSE, keys |-> FALSE, profile |-> FALSE, stray |-> FALSE, drafts |-> {}]

Idle == [step |-> "idle", command |-> "none", only |-> FALSE, late |-> FALSE,
         id |-> NoStarter, keys |-> {}]

Initializers == {"mkdir", "keys"} \cup Files

Ended == {"idle", "done", "refused", "dead"}

BootInit ==
  /\ folder = NoFolder
  /\ files = [f \in Files |-> NoFile]
  /\ doing = [p \in Starters |-> Idle]
  /\ removals = 0

Go(p, step) == doing' = [doing EXCEPT ![p].step = step]

-----------------------------------------------------------------------------

(* late is history: the config was there before the command began.         *)
Start(p) ==
  /\ doing[p].step = "idle"
  /\ \E command \in {"init", "build", "scan", "open", "profile", "baseline"} :
       doing' = [doing EXCEPT ![p].command = command,
                   ![p].late = files["config"].whole,
                   ![p].step = CASE command \in {"init", "build", "scan"} -> "look"
                                 [] command = "open"                      -> "root"
                                 [] OTHER                                 -> "write"]
  /\ UNCHANGED <<folder, files, removals>>

(* A .ces that holds a verification profile and nothing else does not make *)
(* a project.                                                              *)
OnlyProfile ==
  /\ folder.profile /\ ~folder.stray /\ ~folder.keys /\ folder.drafts = {}

Taken == folder.exists /\ ~OnlyProfile

(* build works in what is there, init and scan refuse; scan asks for the   *)
(* config file.                                                            *)
Look(p) ==
  /\ doing[p].step = "look"
  /\ Go(p, CASE doing[p].command = "build" /\ Taken         -> "root"
             [] doing[p].command = "init" /\ Taken          -> "refused"
             [] doing[p].command = "scan" /\ folder.exists  ->
                  IF files["config"] = NoFile THEN "refused" ELSE "done"
             [] OTHER                                       -> "create")
  /\ UNCHANGED <<folder, files, removals>>

(* initialize_local_project looks again ...                                *)
Create(p) ==
  /\ doing[p].step = "create"
  /\ doing' = [doing EXCEPT ![p].step = IF Taken THEN "refused" ELSE "mkdir",
                            ![p].only = OnlyProfile]
  /\ UNCHANGED <<folder, files, removals>>

(* ... and makes .ces, which may be there when it held a profile only ...  *)
MakeFolder(p) ==
  /\ doing[p].step = "mkdir"
  /\ IF folder.exists /\ ~doing[p].only
     THEN Go(p, "refused") /\ UNCHANGED folder
     ELSE Go(p, "keys") /\ folder' = [folder EXCEPT !.exists = TRUE]
  /\ UNCHANGED <<files, removals>>

(* ... and the directory of the keys, which may not.                       *)
MakeKeys(p) ==
  /\ doing[p].step = "keys"
  /\ IF folder.keys
     THEN Go(p, "refused") /\ UNCHANGED folder
     ELSE Go(p, "private") /\ folder' = [folder EXCEPT !.keys = TRUE, !.stray = TRUE]
  /\ UNCHANGED <<files, removals>>

NextFile(p) ==
  CASE doing[p].step = "private" -> "public"
    [] doing[p].step = "public"  -> "secret"
    [] doing[p].step = "secret"  -> "config"
    [] doing[p].step = "config"  -> IF doing[p].command = "build" THEN "root" ELSE "done"

(* A key or secret file is created exclusively, the config file is         *)
(* truncated.                                                              *)
CreateFile(p) ==
  /\ doing[p].step \in Files
  /\ LET f == doing[p].step
     IN  /\ files[f].by # p
         /\ IF f # "config" /\ files[f] # NoFile
            THEN Go(p, "refused") /\ UNCHANGED files
            ELSE files' = [files EXCEPT ![f] = [by |-> p, whole |-> FALSE]] /\ UNCHANGED doing
  /\ UNCHANGED <<folder, removals>>

WriteFile(p) ==
  /\ doing[p].step \in Files /\ files[doing[p].step].by = p
  /\ files' = [files EXCEPT ![doing[p].step].whole = TRUE]
  /\ Go(p, NextFile(p))
  /\ UNCHANGED <<folder, removals>>

-----------------------------------------------------------------------------

(* get_services: without a .ces, or with a config that is missing or not   *)
(* written yet, the project is called "default" (NoStarter).               *)
ReadConfig(p) ==
  /\ doing[p].step = "root"
  /\ doing' = [doing EXCEPT ![p].step = "load_keys",
                 ![p].id = IF files["config"].whole THEN files["config"].by ELSE NoStarter]
  /\ UNCHANGED <<folder, files, removals>>

(* Faulty variant, used by a mutant of PROJECT.json only: a file that is   *)
(* there is taken for a key, whatever its length.                          *)
UsableIfPresent(f) == files[f] # NoFile

Usable(f) == files[f].whole

LoadKeys(p) ==
  /\ doing[p].step = "load_keys"
  /\ IF Usable("private") /\ Usable("public")
     THEN doing' = [doing EXCEPT ![p].step = "load_secret",
                      ![p].keys = {files["private"], files["public"]}]
     ELSE Go(p, "refused")
  /\ UNCHANGED <<folder, files, removals>>

LoadSecret(p) ==
  /\ doing[p].step = "load_secret"
  /\ IF Usable("secret")
     THEN doing' = [doing EXCEPT ![p].step = "store", ![p].keys = @ \cup {files["secret"]}]
     ELSE Go(p, "refused")
  /\ UNCHANGED <<folder, files, removals>>

(* The store is opened, and what the command writes belongs to that id.    *)
OpenStore(p) ==
  /\ doing[p].step = "store"
  /\ Go(p, "done")
  /\ UNCHANGED <<folder, files, removals>>

-----------------------------------------------------------------------------

(* profile detect --write: .ces and a temporary file, then a rename.       *)
DraftProfile(p) ==
  /\ doing[p].step = "write" /\ doing[p].command = "profile"
  /\ folder' = [folder EXCEPT !.exists = TRUE, !.drafts = @ \cup {p}]
  /\ Go(p, "rename")
  /\ UNCHANGED <<files, removals>>

RenameProfile(p) ==
  /\ doing[p].step = "rename"
  /\ folder' = [folder EXCEPT !.profile = TRUE, !.drafts = @ \ {p}]
  /\ Go(p, "done")
  /\ UNCHANGED <<files, removals>>

(* baseline writes under .ces whether or not there is a project.           *)
WriteBaseline(p) ==
  /\ doing[p].step = "write" /\ doing[p].command = "baseline"
  /\ folder' = [folder EXCEPT !.exists = TRUE, !.stray = TRUE]
  /\ Go(p, "done")
  /\ UNCHANGED <<files, removals>>

StarterDies(p) ==
  /\ doing[p].step \notin Ended
  /\ Go(p, "dead")
  /\ UNCHANGED <<folder, files, removals>>

(* The user does what the refusal of init says, when no command is at      *)
(* work.                                                                   *)
RemoveFolder ==
  /\ folder.exists /\ removals < MaxRemovals
  /\ \A p \in Starters : doing[p].step \in Ended
  /\ removals' = removals + 1
  /\ folder' = NoFolder /\ files' = [f \in Files |-> NoFile]
  /\ doing' = [p \in Starters |-> IF doing[p].step = "idle" THEN Idle
                                  ELSE [Idle EXCEPT !.step = "refused"]]

BootNext ==
  \/ \E p \in Starters :
       \/ Start(p) \/ Look(p) \/ Create(p) \/ MakeFolder(p) \/ MakeKeys(p)
       \/ CreateFile(p) \/ WriteFile(p)
       \/ ReadConfig(p) \/ LoadKeys(p) \/ LoadSecret(p) \/ OpenStore(p)
       \/ DraftProfile(p) \/ RenameProfile(p) \/ WriteBaseline(p)
       \/ StarterDies(p)
  \/ RemoveFolder

BootSpec == BootInit /\ [][BootNext]_bootVars

-----------------------------------------------------------------------------

(* However many commands initialize a directory at once, all its keys, its *)
(* secret and its config are those of one of them ...                      *)
OneOwner ==
  \A f, g \in Files : files[f] # NoFile /\ files[g] # NoFile => files[f].by = files[g].by

(* ... none of the others has left it half done: unless one has died, the  *)
(* project is whole when no initialization is under way ...                *)
QuietIsWhole ==
  (folder.keys /\ \A p \in Starters : doing[p].step \notin Initializers \cup {"dead"})
    => \A f \in Files : files[f].whole

(* ... and a command that gets its services holds whole keys, of one pair  *)
(* and with the secret of that pair, though it may have begun at any time. *)
(* Only a command that began before the config was there may work for      *)
(* another project than the one the config names.                          *)
OpenedWhole ==
  \A p \in Starters : doing[p].step = "store" \/ (doing[p].step = "done" /\ doing[p].keys # {}) =>
    /\ \E o \in Starters : doing[p].keys = {[by |-> o, whole |-> TRUE]}
    /\ doing[p].id = NoStarter \/ doing[p].keys = {[by |-> doing[p].id, whole |-> TRUE]}
    /\ doing[p].late => doing[p].id # NoStarter

(* However commands meet in a fresh directory, they end up working for one *)
(* project with one key pair.                                              *)
BootstrapSound == OneOwner /\ QuietIsWhole /\ OpenedWhole
=============================================================================
