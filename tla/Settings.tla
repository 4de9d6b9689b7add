------------------------------ MODULE Settings ------------------------------
(***************************************************************************)
(* The configuration (config.py): the file, the environment over it, the   *)
(* copy of it that the launcher keeps (run.py), and the copy of the server *)
(* with the pages that read and save it (api/settings.py).                 *)
(*                                                                         *)
(* Launcher and server are two processes on one file; after an update the  *)
(* server exits and the launcher starts another.  A save writes a          *)
(* temporary file and moves it over the old one: it may fail before the    *)
(* move, and all processes may end at any step.  The server does nothing   *)
(* else during a save, in which it awaits nothing.                         *)
(*                                                                         *)
(* A configuration is a function on Keys.  The secret stands for           *)
(* secret_key and api_key, which are made together; the other keys are the *)
(* port, which the launcher uses, and a setting that the server uses.      *)
(* Module DownloadClient adds the downloads that the server works for.     *)
(***************************************************************************)
EXTENDS Naturals, Sequences

CONSTANTS
  Pages,     \* open pages of settings
  Values,    \* what the keys other than the secret may be set to
  Chosen,    \* secrets a user may choose
  Tokens,    \* what token_urlsafe returns, one call after the other
  Envs,      \* environments: functions from Keys to values, Unset or Bad
  Defaults,  \* the settings of the models in config.py
  MaxBoots,  \* bound: starts of the launcher
  MaxSaves   \* bound: saves begun

Keys == {"secret", "port", "download_client"}
None == "none"
Empty == ""
Redacted == "***"
Unset == "unset"   \* a variable that is not there, or empty
Bad == "bad"       \* one that is not of the type of its key
NoConfig == [k \in Keys |-> "none"]
Torn == [k \in Keys |-> "torn"]   \* a file cut short

ASSUME EnvsAreOfKeys == \A e \in Envs : DOMAIN e = Keys
ASSUME DefaultsHaveNoSecret == DOMAIN Defaults = Keys /\ Defaults["secret"] = Empty
ASSUME ValuesOfOtherKeys == DOMAIN Values \subseteq Keys \ {"secret"}
(* An empty secret asks for a new one.                                     *)
ASSUME SecretsAreChosen ==
  {Empty, None} \cap (Chosen \cup {e["secret"] : e \in Envs} \cup {Tokens[i] : i \in 1..MaxSaves}) = {}
ASSUME SettingsAreBounded == MaxBoots \in Nat /\ MaxSaves \in Nat /\ MaxSaves <= Len(Tokens)

VARIABLES
  env,       \* the environment of launcher and server
  file,      \* config.yaml: NoConfig or a configuration
  launcher,  \* pc, and the configuration it has read
  server,    \* _config of the server: NoConfig while it does not run
  saving,    \* the save under way: pc and the configuration
  page,      \* the settings a page has loaded: NoConfig or a configuration
  generated, \* secrets generated so far
  started,   \* the port the server was started with, and the one then configured
  used,      \* the last secret of a server (history)
  due,       \* configurations the file may hold (history)
  boots, saves   \* counts of the bounded steps

settings == <<env, file, launcher, server, saving, page, generated, started, used, due, boots, saves>>
processes == <<env, launcher, boots>>
history == <<started, used>>

Down == [pc |-> "down", cfg |-> NoConfig]
NoSave == [pc |-> None, cfg |-> NoConfig]

NothingSaved ==
  /\ env = [k \in Keys |-> Unset]
  /\ file = NoConfig /\ launcher = Down /\ server = NoConfig /\ saving = NoSave
  /\ page = [p \in Pages |-> NoConfig]
  /\ generated = 0 /\ started = [port |-> None, configured |-> None]
  /\ used = None /\ due = {} /\ boots = 0 /\ saves = 0

---------------------------------------------------------------------------
(* config.py                                                               *)

(* load_config: a variable that cannot be read leaves what the file has.   *)
Loaded(f, e) ==
  [k \in Keys |-> IF e[k] \notin {Unset, Bad} THEN e[k]
                  ELSE IF f = NoConfig THEN Defaults[k] ELSE f[k]]

(* save_config begins: the new settings are in a temporary file.           *)
WrittenInPlace(c) == file' = Torn
Written(c) == UNCHANGED file

Begin(by, c) ==
  /\ saves < MaxSaves /\ saves' = saves + 1
  /\ saving' = [pc |-> by, cfg |-> c]
  /\ due' = due \cup {c}
  /\ Written(c)

(* os.replace                                                              *)
Replace ==
  /\ saving.pc \in {"launcher", "server"}
  /\ file' = saving.cfg
  /\ saving' = IF saving.pc = "server" THEN [saving EXCEPT !.pc = "replaced"] ELSE NoSave
  /\ launcher' = IF saving.pc = "launcher" THEN [launcher EXCEPT !.pc = "read"] ELSE launcher
  /\ UNCHANGED <<env, server, page, generated, started, used, due, boots, saves>>

(* The temporary file is removed and the error raised: the launcher ends,  *)
(* the request of the server fails.                                        *)
SaveFails ==
  /\ saving.pc \in {"launcher", "server"}
  /\ saving' = NoSave
  /\ launcher' = IF saving.pc = "launcher" THEN Down ELSE launcher
  /\ UNCHANGED <<env, file, server, page, generated, started, used, due, boots, saves>>

---------------------------------------------------------------------------
(* run.py                                                                  *)

(* ensure_secrets                                                          *)
WithSecrets(c) == [c EXCEPT !["secret"] = Tokens[generated + 1]]

(* The launcher starts in an environment: it loads the file and gives it   *)
(* the secrets that are missing.                                           *)
Boot ==
  /\ launcher.pc = "down" /\ boots < MaxBoots
  /\ boots' = boots + 1
  /\ env' \in Envs
  /\ LET c == Loaded(file, env') IN
     IF c["secret"] = Empty
     THEN /\ Begin("launcher", WithSecrets(c))
          /\ generated' = generated + 1
          /\ launcher' = [Down EXCEPT !.pc = "secrets"]
     ELSE /\ launcher' = [Down EXCEPT !.pc = "read"]
          /\ UNCHANGED <<file, saving, generated, due, saves>>
  /\ UNCHANGED <<server, page, started, used>>

(* get_config at the start of run_headless reads the file; later calls     *)
(* return what it has read.                                                *)
Read ==
  /\ launcher.pc = "read"
  /\ launcher' = [pc |-> "launch", cfg |-> Loaded(file, env)]
  /\ UNCHANGED <<env, file, server, saving, page, generated, history, due, boots, saves>>

(* The server is started on the port the launcher knows, and reads the     *)
(* file itself.                                                            *)
Launch ==
  /\ launcher.pc = "launch"
  /\ launcher' = [launcher EXCEPT !.pc = "run"]
  /\ server' = Loaded(file, env)
  /\ used' = server'["secret"]
  /\ started' = [port |-> launcher.cfg["port"], configured |-> server'["port"]]
  /\ UNCHANGED <<env, file, saving, page, generated, due, boots, saves>>

(* The server has updated itself (api/system.py) and exits with 42.        *)
Update ==
  /\ server # NoConfig /\ saving = NoSave
  /\ server' = NoConfig
  /\ launcher' = [launcher EXCEPT !.pc = "updated"]
  /\ UNCHANGED <<env, file, saving, page, generated, history, due, boots, saves>>

(* The launcher calls get_config, which returns what it has read before.   *)
Relaunch ==
  /\ launcher.pc = "updated"
  /\ launcher' = [launcher EXCEPT !.pc = "launch"]
  /\ UNCHANGED <<env, file, server, saving, page, generated, history, due, boots, saves>>

(* The processes end.                                                      *)
Die ==
  /\ launcher.pc # "down"
  /\ launcher' = Down /\ server' = NoConfig /\ saving' = NoSave
  /\ UNCHANGED <<env, file, page, generated, history, due, boots, saves>>

---------------------------------------------------------------------------
(* api/settings.py                                                         *)

GetSettings(p) ==
  /\ server # NoConfig /\ saving = NoSave
  /\ page' = [page EXCEPT ![p] = [server EXCEPT !["secret"] = Redacted]]
  /\ UNCHANGED <<processes, file, server, saving, generated, history, due, saves>>

(* The bodies of a page: all that it has loaded, with one key edited.      *)
Edited(p) ==
  (UNION {{[page[p] EXCEPT ![k] = v] : v \in Values[k]} : k \in DOMAIN Values})
  \cup {[page[p] EXCEPT !["secret"] = s] : s \in Chosen}

(* _deep_merge, and the secret that the page was not told.                 *)
MergedPlainly(body) == body
Merged(body) == IF body["secret"] = Redacted THEN [body EXCEPT !["secret"] = server["secret"]] ELSE body

UpdateSettings(p) ==
  /\ server # NoConfig /\ saving = NoSave /\ page[p] # NoConfig
  /\ \E body \in Edited(p) : Begin("server", Merged(body)) /\ page' = [page EXCEPT ![p] = body]
  /\ UNCHANGED <<processes, server, generated, history>>

(* reload_config, and the answer "saved".                                  *)
Reloaded == Loaded(file, env)

SettingsSaved ==
  /\ saving.pc = "replaced"
  /\ server' = Reloaded
  /\ used' = server'["secret"]
  /\ due' = {saving.cfg}
  /\ saving' = NoSave
  /\ UNCHANGED <<processes, file, page, generated, started, saves>>

Configure ==
  \/ Boot \/ Read \/ Launch \/ Relaunch
  \/ Replace \/ SaveFails
  \/ \E p \in Pages : GetSettings(p) \/ UpdateSettings(p)
  \/ SettingsSaved

---------------------------------------------------------------------------
(* Between saves the server works with what it would load from the file:   *)
(* saved settings are in force, those that could not be saved are not, and *)
(* the environment stands over both (README.md:462, docs/DOCKER.md:91).    *)
MemoryIsFile == server # NoConfig /\ saving = NoSave => server = Loaded(file, env)

(* The file holds the settings last answered as saved, or ones whose save  *)
(* began since: whole, however a save or a process ended.                  *)
FileIsDue == file # NoConfig => file \in due

(* What is saved is kept, in memory and in the file.                       *)
SettingsKept == MemoryIsFile /\ FileIsDue

(* The secret that signs the users' tokens stays when pages save what they *)
(* were shown of it, and over every restart: it changes only where a user  *)
(* chose one or the environment gives it.                                  *)
FromEnv == {e["secret"] : e \in Envs} \ {Unset}
SecretKept ==
  [][used' # used => used \in {None} \cup FromEnv \/ used' \in FromEnv \cup Chosen]_used

(* run.py:69: "Reload config in case it changed".  A server is started on  *)
(* the port that is configured then, after an update too.  It is not so:   *)
(* the launcher starts it on the port it once read; with a Values that     *)
(* changes the port TLC shows it.                                          *)
StartedAsConfigured == started.port = started.configured
=============================================================================
