----------------------------- MODULE SkillLibrary -----------------------------
(***************************************************************************)
(* The skills of a user (src/internal/agent/skill_management.go and the    *)
(* loader of skills_runtime.go): a directory each under ~/.nalvin/skills,  *)
(* with a SKILL.md, resources and a manifest.  Commands, of any number of  *)
(* processes at once, install skills from a source, create and modify them.*)
(* Nothing locks the directory, and a process may end at any step.  Every  *)
(* agent run loads the whole directory when it starts.                     *)
(***************************************************************************)
EXTENDS Integers, Sequences, FiniteSets

CONSTANTS
  Clients,      \* who changes the library
  SkillNames, Slugs, Slug,  \* managedSkillDirNameFor: [SkillNames -> Slugs]
  SlugOrder,    \* os.ReadDir's order of the directories
  SkillSources, \* what sources hold: a sequence of skills each
  MaxLibraryOps,    \* bound: operations begun
  MaxLibraryFaults, \* bound: processes that end at any step
  NoSkill

ASSUME SkillLibraryAssumption ==
  /\ Slug \in [SkillNames -> Slugs] /\ SlugOrder \in [Slugs -> Nat]
  /\ SkillSources \subseteq Seq([name : SkillNames, below : STRING])
  /\ NoSkill \notin SkillNames \cup Slugs
  /\ MaxLibraryOps \in Nat /\ MaxLibraryFaults \in Nat

VARIABLES
  skillDirs,      \* [Slugs -> SkillDir]
  clients,        \* [Clients -> Client]: the operation each is in
  halfMade,       \* history: where a process ended inside a write
  libraryOps, libraryFaults

libraryVars == <<skillDirs, clients, halfMade, libraryOps, libraryFaults>>

\* A file that is written in place is torn until the write has ended.
FileStates == {"none", "torn", "whole"}

\* SKILL.md, the name in it and who writes it; the manifest .nalvin-skill.json.
SkillDir == [there : BOOLEAN,
             md : FileStates, name : SkillNames \cup {NoSkill},
             manifest : FileStates, third : BOOLEAN, modified : BOOLEAN,
             writer : Clients \cup {NoSkill}]

NoDir == [there |-> FALSE, md |-> "none", name |-> NoSkill,
          manifest |-> "none", third |-> FALSE, modified |-> FALSE, writer |-> NoSkill]

LibraryPCs == {"idle", "stat", "clear", "copy", "copying", "resources", "manifest",
               "edit", "mark", "write", "writing"}

Client == [pc : LibraryPCs, dir : Slugs \cup {NoSkill}, name : SkillNames \cup {NoSkill},
           replace : BOOLEAN, third : BOOLEAN, modified : BOOLEAN]

AtRest == [pc |-> "idle", dir |-> NoSkill, name |-> NoSkill, replace |-> FALSE,
           third |-> FALSE, modified |-> FALSE]

LibraryInit ==
  /\ skillDirs = [d \in Slugs |-> NoDir]
  /\ clients = [c \in Clients |-> AtRest]
  /\ halfMade = {}
  /\ libraryOps = 0
  /\ libraryFaults = 0

(***************************************************************************)
(* Reading the library.                                                    *)
(***************************************************************************)
\* loadSkillDirectory: a directory without SKILL.md is passed over ...
Listed(d) == skillDirs[d].there /\ skillDirs[d].md # "none"

\* ... one whose SKILL.md or manifest does not parse is a warning.
Warned(d) == Listed(d) /\ (skillDirs[d].md = "torn" \/ skillDirs[d].manifest = "torn")

\* loadManagedSkillByName: one warning fails the search for any name, and the
\* first directory that has the name is taken.
Named(n) == {d \in Slugs : Listed(d) /\ skillDirs[d].name = n}
LoadManagedSkillByName(n) ==
  IF Named(n) = {} \/ \E d \in Slugs : Warned(d) THEN NoSkill
  ELSE CHOOSE d \in Named(n) : \A e \in Named(n) : SlugOrder[d] <= SlugOrder[e]

\* selectDiscoveredSkill: the first skill of that name below the subpath, or
\* the only one there when no name is given.  [name, below]
SelectDiscoveredSkill(source, subpath, n) ==
  LET found == {i \in DOMAIN source : /\ subpath = "" \/ source[i].below = subpath
                                      /\ n = NoSkill \/ source[i].name = n}
  IN  IF found = {} \/ (n = NoSkill /\ Cardinality(found) > 1) THEN NoSkill
      ELSE source[CHOOSE i \in found : \A j \in found : i <= j].name

(***************************************************************************)
(* Operations.                                                             *)
(***************************************************************************)
ClientGoes(c, pc) == clients' = [clients EXCEPT ![c].pc = pc]
Done(c) == clients' = [clients EXCEPT ![c] = AtRest]

BeginOp(c, begun) ==
  /\ clients[c].pc = "idle" /\ libraryOps < MaxLibraryOps
  /\ clients' = [clients EXCEPT ![c] = begun]
  /\ libraryOps' = libraryOps + 1
  /\ UNCHANGED <<skillDirs, halfMade, libraryFaults>>

\* InstallManagedSkill: the source is materialized and searched first.
InstallManagedSkill(c) ==
  \E source \in SkillSources, subpath \in {"", "a"}, wanted \in SkillNames \cup {NoSkill},
     replace \in BOOLEAN :
    LET n == SelectDiscoveredSkill(source, subpath, wanted)
    IN  /\ n # NoSkill
        /\ BeginOp(c, [AtRest EXCEPT !.pc = "stat", !.dir = Slug[n], !.name = n,
                                      !.replace = replace, !.third = TRUE])

\* CreateManagedSkill: the name, which is a slug, is the directory's.
CreateManagedSkill(c) ==
  \E n \in SkillNames \cap Slugs, replace \in BOOLEAN :
    BeginOp(c, [AtRest EXCEPT !.pc = "stat", !.dir = n, !.name = n, !.replace = replace])

\* The directory is there already, or not.
StatDestination(c) ==
  /\ clients[c].pc = "stat"
  /\ IF ~skillDirs[clients[c].dir].there THEN ClientGoes(c, "copy")
     ELSE IF clients[c].replace THEN ClientGoes(c, "clear")
     ELSE Done(c)
  /\ UNCHANGED <<skillDirs, halfMade, libraryOps, libraryFaults>>

ClearDestination(c) ==
  /\ clients[c].pc = "clear"
  /\ skillDirs' = [skillDirs EXCEPT ![clients[c].dir] = NoDir]
  /\ halfMade' = halfMade \ {clients[c].dir}
  /\ ClientGoes(c, "copy")
  /\ UNCHANGED <<libraryOps, libraryFaults>>

\* copySkillPayload, or os.WriteFile: the directory is made, SKILL.md is
\* written in place ...
CopyMarkdown(c) ==
  LET d == clients[c].dir IN
  /\ clients[c].pc = "copy"
  /\ skillDirs' = [skillDirs EXCEPT ![d].there = TRUE, ![d].md = "torn", ![d].writer = c]
  /\ ClientGoes(c, "copying")
  /\ UNCHANGED <<halfMade, libraryOps, libraryFaults>>

\* ... and whole, if nobody has written another one since; the resources
\* make the directory again ...
CopyResources(c) ==
  LET d == clients[c].dir IN
  /\ clients[c].pc = "copying"
  /\ \E resources \in BOOLEAN :
        skillDirs' = [skillDirs EXCEPT ![d].there = @ \/ resources,
                        ![d].md = IF skillDirs[d].writer = c THEN "whole" ELSE @,
                        ![d].name = IF skillDirs[d].writer = c THEN clients[c].name ELSE @]
  /\ ClientGoes(c, "write")
  /\ UNCHANGED <<halfMade, libraryOps, libraryFaults>>

\* ... and the manifest comes last.
WriteManifest(c) ==
  LET d == clients[c].dir IN
  /\ clients[c].pc = "write"
  /\ IF skillDirs[d].there
     THEN /\ skillDirs' = [skillDirs EXCEPT ![d].manifest = "torn"]
          /\ ClientGoes(c, "writing")
     ELSE UNCHANGED skillDirs /\ Done(c)
  /\ UNCHANGED <<halfMade, libraryOps, libraryFaults>>

FinishManifest(c) ==
  LET d == clients[c].dir IN
  /\ clients[c].pc = "writing"
  /\ skillDirs' = IF skillDirs[d].manifest = "none" THEN skillDirs
                  ELSE [skillDirs EXCEPT ![d].manifest = "whole", ![d].third = clients[c].third,
                                         ![d].modified = clients[c].modified]
  /\ Done(c)
  /\ UNCHANGED <<halfMade, libraryOps, libraryFaults>>

\* ModifyManagedSkill: the skill is looked up; the new content is made from
\* what the file holds, and that of SKILL.md may give the skill another name.
ModifyManagedSkill(c) ==
  \E n \in SkillNames, to \in SkillNames \cup {NoSkill} :
    LET d == LoadManagedSkillByName(n)
    IN  /\ d # NoSkill
        /\ BeginOp(c, [AtRest EXCEPT !.pc = "edit", !.dir = d, !.name = to])

\* Mutant: SKILL.md is written without validation.
WriteUnvalidated(c) ==
  LET d == clients[c].dir IN
  /\ clients[c].pc = "edit"
  /\ skillDirs' = IF clients[c].name = NoSkill THEN [skillDirs EXCEPT ![d].there = TRUE]
                  ELSE [skillDirs EXCEPT ![d].there = TRUE, ![d].md = "torn", ![d].writer = c]
  /\ ClientGoes(c, "mark")
  /\ UNCHANGED <<halfMade, libraryOps, libraryFaults>>

\* writeManagedSkillFile: the directory is made again if it is gone; SKILL.md,
\* validated, is renamed into its place; another file is written as it is.
WriteManagedSkillFile(c) ==
  LET d == clients[c].dir IN
  /\ clients[c].pc = "edit"
  /\ skillDirs' = IF clients[c].name = NoSkill THEN [skillDirs EXCEPT ![d].there = TRUE]
                  ELSE [skillDirs EXCEPT ![d].there = TRUE, ![d].md = "whole",
                                         ![d].name = clients[c].name, ![d].writer = c]
  /\ ClientGoes(c, "mark")
  /\ UNCHANGED <<halfMade, libraryOps, libraryFaults>>

\* markManagedSkillLocallyModified: no manifest is as good as one, and one
\* that does not parse ends the call.
ReadManifest(c) ==
  LET d == clients[c].dir IN
  /\ clients[c].pc = "mark"
  /\ IF skillDirs[d].manifest = "torn" THEN Done(c)
     ELSE clients' = [clients EXCEPT ![c].pc = "write", ![c].third = skillDirs[d].third,
                                     ![c].modified = TRUE]
  /\ UNCHANGED <<skillDirs, halfMade, libraryOps, libraryFaults>>

\* The process ends, or the disk refuses, at any step.
EndsEarly(c) ==
  /\ clients[c].pc # "idle" /\ libraryFaults < MaxLibraryFaults
  /\ libraryFaults' = libraryFaults + 1
  /\ halfMade' = IF clients[c].pc \in {"copying", "writing"} THEN halfMade \cup {clients[c].dir}
                 ELSE halfMade
  /\ Done(c)
  /\ UNCHANGED <<skillDirs, libraryOps>>

LibraryNext ==
  \E c \in Clients :
    \/ InstallManagedSkill(c) \/ CreateManagedSkill(c)
    \/ StatDestination(c) \/ ClearDestination(c) \/ CopyMarkdown(c) \/ CopyResources(c)
    \/ ModifyManagedSkill(c) \/ WriteManagedSkillFile(c) \/ ReadManifest(c)
    \/ WriteManifest(c) \/ FinishManifest(c)
    \/ EndsEarly(c)

LibrarySpec == LibraryInit /\ [][LibraryNext]_libraryVars

(***************************************************************************)
(* Properties.                                                             *)
(***************************************************************************)
\* The types of the directories and of the operations.
LibraryTypeOK ==
  /\ skillDirs \in [Slugs -> SkillDir]
  /\ clients \in [Clients -> Client]
  /\ halfMade \subseteq Slugs
  /\ libraryOps \in 0..MaxLibraryOps
  /\ libraryFaults \in 0..MaxLibraryFaults

\* A directory that does not load stops every later modification, of any skill
\* (skill_management.go:1228-1243).  Only a write in place can leave one: of an
\* install, of a create or of a manifest, that goes on or was cut off.  The
\* modification of a SKILL.md never does, wherever it is interrupted and
\* whatever the other commands do to the directory meanwhile.
OnlyUnfinishedIsBroken ==
  \A d \in Slugs : Warned(d) =>
    \/ d \in halfMade
    \/ \E c \in Clients : clients[c].dir = d /\ clients[c].pc \in {"copying", "writing"}
=============================================================================
