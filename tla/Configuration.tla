----------------------------- MODULE Configuration -----------------------------
(***************************************************************************)
(* The configuration document, the workspaces and the Git identity, as the *)
(* commands of the command line (and the HTTP handler that switches the    *)
(* workspace) share them: internal/config/config.go,                       *)
(* internal/workspace/workspace.go, cmd/workspace.go, cmd/provider.go,     *)
(* cmd/mcp.go, cmd/slack.go.  Commands are processes.  Each loads the      *)
(* configuration when it starts; one that saves a setting reads the whole  *)
(* document, changes its own entry and writes the document back, and       *)
(* os.WriteFile empties the file before it fills it.                       *)
(***************************************************************************)
EXTENDS Naturals, FiniteSets

CONSTANTS
  Commands,        \* processes that may run at the same time
  Workspaces,      \* workspace names; "default" is used when none is set
  Providers, Servers,  \* names of providers and of MCP servers
  ProviderInputs,  \* what "provider add" is called with
  DefaultServers,  \* the servers of the embedded configuration
  GoBackend,       \* provider type of each supported OpenCode Go model
  GoModels,        \* model ids with the OpenCode Go prefix
  Efforts,         \* reasoning efforts each supported provider type allows
  None, Garbage,   \* no value; a file whose text does not parse
  MaxJobs, MaxCrashes  \* bounds

Entries == {"current", "slack"} \cup Providers \cup Servers
Settings == [type : STRING, base : STRING, key : STRING, model : STRING, project : STRING,
             location : STRING, effort : STRING]
ServerEntries == [enabled : BOOLEAN, env : BOOLEAN]

\* An entry is named by its section of the document and its name there.
ASSUME ConfigurationAssumption ==
  /\ "default" \in Workspaces /\ None \notin Workspaces
  /\ DefaultServers \subseteq Servers /\ DOMAIN GoBackend \subseteq GoModels
  /\ Providers \cap Servers = {} /\ {"current", "slack"} \cap (Providers \cup Servers) = {}
  /\ ProviderInputs \subseteq Settings /\ GoBackend \in [DOMAIN GoBackend -> STRING]
  /\ DOMAIN Efforts \subseteq {"openai", "openai_compat", "anthropic", "vertex"}
  /\ {None, Garbage} \cap Commands = {} /\ None # Garbage
  /\ MaxJobs \in Nat /\ MaxCrashes \in Nat

NoDocument == [e \in Entries |-> None]

Jobs ==
  [kind : {"switch", "create", "delete", "open"}, name : Workspaces]
    \cup [kind : {"slack"}, name : {"slack"}]
    \cup [kind : {"provider"}, name : Providers, input : ProviderInputs, overwrite : BOOLEAN]
    \cup [kind : {"mcp add"}, name : Servers, overwrite : BOOLEAN]
    \cup [kind : {"mcp remove", "mcp auth"}, name : Servers]

VARIABLES
  file,    \* the configuration document on disk, or Garbage
  db, dirs,  \* workspaces that have a database and a files directory
  key,     \* the Git client's private key and the public key beside it
  cmd,     \* each command: where it is, what it was called for, the document
           \* it loaded, the one it will write, what it found of a workspace,
           \* and the entries others saved since it read the document
  saved,   \* the value of each entry that a command last reported saved
  lost,    \* entries undone by an overlapping save, or by a cut-off write
  raced,   \* workspaces deleted by a command that overlapped another use
  misled,  \* workspaces the document named as current when a deletion was
           \* started that the environment told of another one
  keyRace, \* two first starts both generated a key
  started, crashes

configVars == <<file, db, dirs, key, cmd, saved, lost, raced, misled, keyRace, started, crashes>>
docVars == <<file, saved, lost>>
placeVars == <<db, dirs, raced, misled>>
keyVars == <<key, keyRace>>
boundVars == <<started, crashes>>

Idle == [at |-> "idle", job |-> None, cfg |-> NoDocument, draft |-> NoDocument,
         seen |-> {}, stale |-> {}]

ConfigurationInit ==
  /\ file = NoDocument /\ saved = NoDocument /\ lost = {}
  /\ db = {} /\ dirs = {} /\ raced = {} /\ misled = {}
  /\ key = [private |-> None, public |-> None] /\ keyRace = FALSE
  /\ cmd = [c \in Commands |-> Idle]
  /\ started = 0 /\ crashes = 0

Running(c) == cmd[c] # Idle
At(c, where) == cmd[c].at = where
Job(c) == cmd[c].job
Writing == \E c \in Commands : At(c, "write")

Go(c, where) == cmd' = [cmd EXCEPT ![c] = IF where = "idle" THEN Idle ELSE [@ EXCEPT !.at = where]]

-----------------------------------------------------------------------------
(* The inputs of "provider add".                                           *)

\* NormalizeProviderType: mistral is an alias.
ProviderType(t) == IF t \in {"unset", "", "mistral"} THEN "openai_compat" ELSE t

\* The base URL and the model that the mistral alias fills in.
NormalizeProviderConfig(in) ==
  [in EXCEPT !.type = ProviderType(in.type),
             !.base = IF in.type = "mistral" /\ in.base = "" THEN "mistral url" ELSE in.base,
             !.model = IF in.type = "mistral" /\ in.model = "" THEN "mistral model" ELSE in.model]

\* The base URL an OpenCode Go model is served from.
OpenCodeGoRouteForModel(model) ==
  [type |-> GoBackend[model],
   base |-> IF GoBackend[model] = "anthropic" THEN "go anthropic url" ELSE "go url"]

ValidEffort(p) == p.effort = "" \/ p.effort \in Efforts[p.type]

\* The settings "provider add" hands on, or None: it is refused.
ProviderAdd(in) ==
  LET p == NormalizeProviderConfig(in)
      route == OpenCodeGoRouteForModel(p.model)
      routed == p.model \in GoModels
      q == IF routed /\ p.model \in DOMAIN GoBackend
           THEN [p EXCEPT !.type = route.type, !.base = route.base] ELSE p
  IN IF \/ routed /\ \/ p.model \notin DOMAIN GoBackend
                     \/ in.type # "unset" /\ p.type # route.type
                     \/ p.base \notin {"", route.base}
        \/ q.type \notin DOMAIN Efforts
        \/ q.type = "openai_compat" /\ q.base = ""
        \/ q.type = "vertex" /\ (q.project = "" \/ q.location = "")
        \/ q.model = "" \/ ~ValidEffort(q)
        \/ q.type # "vertex" /\ q.key = ""
     THEN None ELSE IF q.type = "vertex" THEN [q EXCEPT !.key = ""] ELSE q

\* What an entry may hold, and that a text which does not parse is no document.
Contents == {None, "token"} \cup Workspaces \cup ServerEntries
              \cup {ProviderAdd(in) : in \in ProviderInputs}
ASSUME DocumentsAssumption == Garbage \notin [Entries -> Contents]

\* What "provider list" calls ready.
ProviderIsComplete(p) ==
  /\ p.model # ""
  /\ CASE p.type = "vertex" -> p.project # "" /\ p.location # ""
       [] p.type \in {"anthropic", "openai"} -> p.key # ""
       [] OTHER -> p.key # "" /\ p.base # ""

-----------------------------------------------------------------------------
(* The document each saving command makes of document d; None: it fails.   *)

SaveWorkspaceCurrent(j, d) ==
  IF j.name \in db THEN [d EXCEPT !["current"] = j.name] ELSE None

\* Mutant: the token is saved in a document of its own.
SaveSlackAlone(j, d) == [NoDocument EXCEPT !["slack"] = "token"]

SaveSlackUserToken(j, d) == [d EXCEPT !["slack"] = "token"]

SaveProvider(j, d) ==
  IF ProviderAdd(j.input) = None \/ (d[j.name] # None /\ ~j.overwrite) THEN None
  ELSE [d EXCEPT ![j.name] = ProviderAdd(j.input)]

SaveMCPServer(j, d) ==
  IF d[j.name] # None /\ ~j.overwrite THEN None
  ELSE [d EXCEPT ![j.name] = [enabled |-> FALSE, env |-> TRUE]]

DeleteMCPServer(j, d) == IF d[j.name] = None THEN None ELSE [d EXCEPT ![j.name] = None]

\* A server that only the loaded configuration has is written out with its
\* transport, its address and its OAuth client: env, headers, directory,
\* timeout and client secret are left behind.
EnableMCPServer(j, d, live) ==
  CASE d[j.name] # None -> [d EXCEPT ![j.name].enabled = TRUE]
    [] d[j.name] = None /\ (live[j.name] # None \/ j.name \in DefaultServers) ->
         [d EXCEPT ![j.name] = [enabled |-> TRUE, env |-> FALSE]]
    [] OTHER -> None

\* "mcp auth" enables a server it found in the loaded configuration and that
\* is not enabled there.
AuthMCPServer(j, d, live) ==
  IF live[j.name] = None
  THEN IF j.name \in DefaultServers THEN EnableMCPServer(j, d, live) ELSE None
  ELSE IF live[j.name].enabled THEN None ELSE EnableMCPServer(j, d, live)

Edited(j, d, live) ==
  CASE j.kind = "switch" -> SaveWorkspaceCurrent(j, d)
    [] j.kind = "slack" -> SaveSlackUserToken(j, d)
    [] j.kind = "provider" -> SaveProvider(j, d)
    [] j.kind = "mcp add" -> SaveMCPServer(j, d)
    [] j.kind = "mcp remove" -> DeleteMCPServer(j, d)
    [] j.kind = "mcp auth" -> AuthMCPServer(j, d, live)

Entry(j) == IF j.kind = "switch" THEN "current" ELSE j.name
Saving(c) == Job(c).kind \in {"switch", "slack", "provider", "mcp add", "mcp remove", "mcp auth"}

-----------------------------------------------------------------------------
(* A command.                                                              *)

\* Two commands on one workspace, one of which deletes it.
DeletedMeanwhile(j) ==
  \E o \in Commands : Running(o) /\ "delete" \in {j.kind, Job(o).kind} /\ Job(o).name = j.name

\* Init: a document that does not parse only causes a warning.
Loaded == IF file = Garbage THEN NoDocument ELSE file

\* bindEnv: NALVIN_WORKSPACE_CURRENT goes before the document.
LoadedWith(env) == IF env = None THEN Loaded ELSE [Loaded EXCEPT !["current"] = env]

CurrentOf(d) == IF d["current"] = None THEN "default" ELSE d["current"]

\* ensureDefaultGitClientIdentity: the key pair is made if there is none.
FirstStep == IF key.private = None THEN "key" ELSE "run"

\* Load: a private key that does not parse fails the command.  Only a deletion
\* looks at the current workspace of what it loaded.
Start(c) ==
  /\ At(c, "idle") /\ started < MaxJobs /\ started' = started + 1
  /\ key.private # Garbage
  /\ \E j \in Jobs, env \in Workspaces \cup {None} :
       /\ j.kind # "delete" => env = None
       /\ raced' = IF DeletedMeanwhile(j) \/ (j.kind = "delete" /\ Writing)
                   THEN raced \cup {j.name} ELSE raced
       /\ misled' = IF j.kind = "delete" /\ CurrentOf(Loaded) = j.name
                         /\ CurrentOf(LoadedWith(env)) # j.name
                    THEN misled \cup {j.name} ELSE misled
       /\ cmd' = [cmd EXCEPT ![c] =
                    [Idle EXCEPT !.at = FirstStep, !.job = j, !.cfg = LoadedWith(env)]]
  /\ UNCHANGED <<docVars, db, dirs, keyVars, crashes>>

\* ensureGitClientKeyPair: the private key file is created and then filled.
CreateKey(c) ==
  /\ At(c, "key") /\ Go(c, "fill key")
  /\ keyRace' = (keyRace \/ key.private # None)
  /\ key' = [key EXCEPT !.private = Garbage]
  /\ UNCHANGED <<docVars, placeVars, boundVars>>

FillKey(c) ==
  /\ At(c, "fill key") /\ Go(c, "public key")
  /\ key' = [key EXCEPT !.private = c]
  /\ UNCHANGED <<docVars, placeVars, keyRace, boundVars>>

WritePublicKey(c) ==
  /\ At(c, "public key") /\ Go(c, "run")
  /\ key' = [key EXCEPT !.public = c]
  /\ UNCHANGED <<docVars, placeVars, keyRace, boundVars>>

\* loadConfigDocument and the change: a file being written reads as empty.
ReadDocument(c) ==
  /\ At(c, "run") /\ Saving(c)
  /\ LET new == IF file = Garbage THEN None ELSE Edited(Job(c), file, cmd[c].cfg)
     IN cmd' = [cmd EXCEPT ![c] =
                  IF new = None THEN Idle
                  ELSE [@ EXCEPT !.at = "truncate", !.draft = new,
                                 !.stale = IF Writing THEN Entries ELSE {}]]
  /\ UNCHANGED <<docVars, placeVars, keyVars, boundVars>>

\* writeConfigDocument: os.WriteFile empties the file ...
Truncate(c) ==
  /\ At(c, "truncate") /\ Go(c, "write")
  /\ file' = NoDocument
  /\ UNCHANGED <<saved, lost, placeVars, keyVars, boundVars>>

\* ... and fills it.  If another command filled it in between, the longer of
\* the two texts shows behind the shorter one.
Write(c) ==
  /\ At(c, "write")
  /\ LET e == Entry(Job(c))
     IN /\ saved' = [saved EXCEPT ![e] = cmd[c].draft[e]]
        /\ cmd' = [o \in Commands |->
                     IF o = c THEN Idle
                     ELSE IF cmd[o].at \in {"truncate", "write"}
                     THEN [cmd[o] EXCEPT !.stale = @ \cup {e}] ELSE cmd[o]]
        /\ \/ file' = cmd[c].draft /\ lost' = (lost \cup cmd[c].stale) \ {e}
           \/ file # NoDocument /\ file' = Garbage /\ lost' = Entries
  /\ UNCHANGED <<placeVars, keyVars, boundVars>>

-----------------------------------------------------------------------------
(* Workspaces.                                                             *)

\* Create makes a workspace of which nothing exists; OpenDB makes what is
\* missing.  Both make the directory before the database.
MakeDirectory(c) ==
  /\ At(c, "run")
  /\ LET w == Job(c).name
     IN \/ Job(c).kind = "open" /\ dirs' = dirs \cup {w} /\ Go(c, "database")
        \/ /\ Job(c).kind = "create" /\ w \notin db \cup dirs
           /\ dirs' = dirs \cup {w} /\ Go(c, "database")
        \/ Job(c).kind = "create" /\ w \in db \cup dirs /\ Go(c, "idle") /\ UNCHANGED dirs
  /\ UNCHANGED <<docVars, db, raced, misled, keyVars, boundVars>>

MakeDatabase(c) ==
  /\ At(c, "database") /\ Go(c, "idle")
  /\ db' = db \cup {Job(c).name}
  /\ UNCHANGED <<docVars, dirs, raced, misled, keyVars, boundVars>>

\* Mutant: "workspace delete" does not look at the current workspace.
InspectAnyway(c) ==
  /\ At(c, "run") /\ Job(c).kind = "delete"
  /\ LET w == Job(c).name
         found == {what \in {"db", "dir"} : w \in IF what = "db" THEN db ELSE dirs}
     IN cmd' = [cmd EXCEPT ![c] =
                  IF found = {} THEN Idle
                  ELSE [@ EXCEPT !.seen = found,
                                 !.at = IF "db" \in found THEN "remove db" ELSE "remove dir"]]
  /\ UNCHANGED <<docVars, placeVars, keyVars, boundVars>>

Inspect(c) ==
  /\ At(c, "run") /\ Job(c).kind = "delete"
  /\ LET w == Job(c).name
         found == IF w = CurrentOf(cmd[c].cfg) THEN {}
                  ELSE {what \in {"db", "dir"} : w \in IF what = "db" THEN db ELSE dirs}
     IN cmd' = [cmd EXCEPT ![c] =
                  IF found = {} THEN Idle
                  ELSE [@ EXCEPT !.seen = found,
                                 !.at = IF "db" \in found THEN "remove db" ELSE "remove dir"]]
  /\ UNCHANGED <<docVars, placeVars, keyVars, boundVars>>

\* os.Remove fails for a database that another command removed.
RemoveDatabase(c) ==
  /\ At(c, "remove db")
  /\ Go(c, IF Job(c).name \in db /\ "dir" \in cmd[c].seen THEN "remove dir" ELSE "idle")
  /\ db' = db \ {Job(c).name}
  /\ UNCHANGED <<docVars, dirs, raced, misled, keyVars, boundVars>>

RemoveDirectory(c) ==
  /\ At(c, "remove dir") /\ Go(c, "idle")
  /\ dirs' = dirs \ {Job(c).name}
  /\ UNCHANGED <<docVars, db, raced, misled, keyVars, boundVars>>

\* The process dies: an emptied file stays empty.
CommandCrash(c) ==
  /\ Running(c) /\ crashes < MaxCrashes /\ crashes' = crashes + 1
  /\ Go(c, "idle")
  /\ lost' = IF At(c, "write") /\ file = NoDocument THEN Entries ELSE lost
  /\ UNCHANGED <<file, saved, placeVars, keyVars, started>>

ConfigurationNext ==
  \E c \in Commands :
    \/ Start(c) \/ CreateKey(c) \/ FillKey(c) \/ WritePublicKey(c)
    \/ ReadDocument(c) \/ Truncate(c) \/ Write(c)
    \/ MakeDirectory(c) \/ MakeDatabase(c)
    \/ Inspect(c) \/ RemoveDatabase(c) \/ RemoveDirectory(c)
    \/ CommandCrash(c)

ConfigurationSpec == ConfigurationInit /\ [][ConfigurationNext]_configVars

-----------------------------------------------------------------------------
(* Correctness.                                                            *)

ConfigurationTypeOK ==
  /\ file = Garbage \/ DOMAIN file = Entries
  /\ db \subseteq Workspaces /\ dirs \subseteq Workspaces /\ raced \subseteq Workspaces
  /\ misled \subseteq Workspaces
  /\ key.private \in Commands \cup {None, Garbage} /\ key.public \in Commands \cup {None}
  /\ \A c \in Commands :
       /\ cmd[c].at \in {"idle", "key", "fill key", "public key", "run", "truncate", "write",
                        "database", "remove db", "remove dir"}
       /\ cmd[c].job = None \/ cmd[c].job \in Jobs
       /\ cmd[c].seen \subseteq {"db", "dir"} /\ cmd[c].stale \subseteq Entries
  /\ lost \subseteq Entries
  /\ started \in 0..MaxJobs /\ crashes \in 0..MaxCrashes

\* What a command reported saved stays in the document, whatever other entries
\* are saved by other commands, except when two commands overlapped or one was
\* cut off while it wrote (SaveProvider, SaveMCPServer, loadConfigDocument).
SavesSurvive ==
  ~Writing => \A e \in Entries \ lost : file # Garbage /\ file[e] = saved[e]

\* Every provider that "provider add" saved is one that "provider list" calls
\* ready: two validations written apart agree.
SavedProvidersAreReady ==
  file # Garbage => \A p \in Providers : file[p] # None => ProviderIsComplete(file[p])

\* A workspace that is listed has its files directory, and the one the
\* document names as current is listed, unless a deletion overlapped another
\* command on that workspace or started while the document was being written, or
\* the environment told it of another current workspace than the document's
\* (workspace.Delete, workspaceDeleteCmd).
WorkspacesAreWhole ==
  /\ \A w \in db : w \in dirs \cup raced
  /\ file # Garbage /\ file["current"] # None /\ "current" \notin lost
       => file["current"] \in db \cup raced \cup misled

\* The public key beside the Git client's private key belongs to it, unless
\* two commands made the first key at the same time (ensureGitClientKeyPair).
KeyPairMatches ==
  key.private \in Commands /\ key.public \in Commands /\ ~keyRace => key.private = key.public
================================================================================
