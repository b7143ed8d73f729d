------------------------------- MODULE Plugins -------------------------------
(***************************************************************************)
(* The plugins of a node: their folders, which of them the configuration   *)
(* enables, and the commands of the plugin manager, which installs them    *)
(* from blocks and remembers in its key store what it has installed, whom  *)
(* each plugin comes from and which repositories name distributors.        *)
(*                                                                         *)
(* An update of the key store, which is read, changed and written by one   *)
(* call, is one step.                                                      *)
(***************************************************************************)
EXTENDS Settings

CONSTANTS
  Names,    \* of plugins
  Default,  \* the plugins that come with the program
  Signers   \* keys that sign blocks with plugins

\* A plugin in work, and who its code comes from if it is installed.
Jobs == [plugin : Names, from : Signers \cup {None}]
Shipped == "shipped"

ASSUME PluginConstants ==
  /\ Default \subseteq Names /\ Signers # {}
  /\ None # Shipped /\ None \notin Signers /\ None \notin Jobs
  /\ \A S \in SUBSET Names : None # S

VARIABLES
  pluginsFolder,  \* the folder for all plugins exists
  code,     \* who the code in the folder of each plugin is from, None if there is no folder
  keystore, \* keystore.json
  archive,  \* plugin.zip: who the code in it is from
  \* each process: the plugins it still has to enable, and the one it installs or removes
  todo, job,
  half,     \* history: an installation has not been completed, or a command was begun during
            \* another
  crossed   \* history: a plugin was removed while others changed the configuration

folders == <<pluginsFolder, code, archive>>
settings == <<config, keys, id, history>>
own == <<todo, job>>
past == <<half, crossed>>
vars == <<settings, pc, conf, saving, folders, keystore, own, past>>

\* A repository is known by a plugin and the distributor it names for that.
Repositories == Names \X Signers
Folders == {x \in Names : code[x] # None}

Init ==
  /\ SettingsInit
  /\ pluginsFolder = FALSE
  /\ code = [x \in Names |-> None] /\ archive = None
  /\ keystore = [keys |-> [x \in Names |-> None], plugins |-> {}, repositories |-> {}]
  /\ todo = [p \in Runs |-> {}] /\ job = [p \in Runs |-> None]
  /\ half = FALSE /\ crossed = FALSE

Enabled(p) == conf[p].plugins
SetEnabled(p, S) == Set(p, [conf[p] EXCEPT !.plugins = S])

-----------------------------------------------------------------------------
(* Onionr.__init__: the default plugins, and a check of those that are enabled. *)

\* The folder is made, and then filled.
MakeFolder(p) ==
  /\ ~pluginsFolder
  /\ Goto(p, "plugins", "copy")
  /\ pluginsFolder' = TRUE
  /\ UNCHANGED <<settings, conf, saving, code, archive, keystore, own, past>>

CopyPlugins(p) ==
  /\ Goto(p, "copy", "enable")
  /\ code' = [x \in Names |-> IF x \in Default THEN Shipped ELSE code[x]]
  /\ todo' = [todo EXCEPT ![p] = Default]
  /\ UNCHANGED <<settings, conf, saving, pluginsFolder, archive, keystore, job, past>>

NoCopy(p) ==
  /\ pluginsFolder
  /\ Goto(p, "plugins", "enable")
  /\ UNCHANGED <<settings, conf, saving, folders, keystore, own, past>>

\* check: the section of the configuration is made if it is missing.
MakeSection(p) ==
  /\ Goto(p, "enable", "enable")
  /\ Enabled(p) = None
  /\ SetEnabled(p, {})
  /\ UNCHANGED <<settings, folders, keystore, own, past>>

\* disable.
Disable(p, x) ==
  \/ x \in Enabled(p) /\ SetEnabled(p, Enabled(p) \ {x})
  \/ x \notin Enabled(p) /\ UNCHANGED <<conf, saving>>

\* enable: nothing changes if the module cannot be imported; a plugin that does not exist
\* is disabled.
Enable(p, x) ==
  \/ x \in Folders \ Enabled(p) /\ SetEnabled(p, Enabled(p) \cup {x})
  \/ x \in Folders /\ UNCHANGED <<conf, saving>>
  \/ x \notin Folders /\ Disable(p, x)

EnableDefault(p, x) ==
  /\ Goto(p, "enable", "enable")
  /\ Enabled(p) # None /\ x \in todo[p]
  /\ Enable(p, x)
  /\ todo' = [todo EXCEPT ![p] = @ \ {x}]
  /\ UNCHANGED <<settings, folders, keystore, job, past>>

\* The plugins whose data folder cannot be made are disabled; the check of all is one step.
Check(p) ==
  /\ Goto(p, "enable", "crypto")
  /\ Enabled(p) # None /\ todo[p] = {}
  /\ \/ ~(Enabled(p) \subseteq Folders) /\ SetEnabled(p, Enabled(p) \cap Folders)
     \/ Enabled(p) \subseteq Folders /\ UNCHANGED <<conf, saving>>
  /\ UNCHANGED <<settings, folders, keystore, own, past>>

\* An event is announced to the plugins; one that lacks a module is disabled.
Announce(p, x) ==
  /\ pc[p] \in {"command", "serve"}
  /\ Goto(p, pc[p], pc[p])
  /\ x \in Enabled(p)
  /\ Disable(p, x)
  /\ UNCHANGED <<settings, folders, keystore, own, past>>

-----------------------------------------------------------------------------
(* The commands enable-plugin and disable-plugin. *)

EnablePlugin(c, x) ==
  /\ c \in Clients
  /\ Goto(c, "command", "over")
  /\ Enable(c, x)
  /\ UNCHANGED <<settings, folders, keystore, own, past>>

DisablePlugin(c, x) ==
  /\ c \in Clients
  /\ Goto(c, "command", "over")
  /\ Disable(c, x)
  /\ UNCHANGED <<settings, folders, keystore, own, past>>

-----------------------------------------------------------------------------
(* The commands of the plugin manager. *)

\* The processes that are about to change a plugin.
Changers == {c \in Clients : job[c] # None}

Begin(c, x, s, next) ==
  /\ c \in Clients
  /\ Goto(c, "command", next)
  /\ job' = [job EXCEPT ![c] = [plugin |-> x, from |-> s]]
  /\ half' = (half \/ Changers # {})
  /\ UNCHANGED <<settings, conf, saving, folders, todo, crossed>>

Done(c) == job' = [job EXCEPT ![c] = None]

\* keystore.json.
SaveKey(x, s) == keystore' = [keystore EXCEPT !.keys[x] = s]
AddPlugin(x) == keystore' = [keystore EXCEPT !.plugins = @ \cup {x}]
RemovePlugin(x) == keystore' = [keystore EXCEPT !.plugins = @ \ {x}]

AddRepository(c, r) ==
  /\ c \in Clients
  /\ Goto(c, "command", "over")
  /\ keystore' = [keystore EXCEPT !.repositories = @ \cup {r}]
  /\ UNCHANGED <<settings, conf, saving, folders, own, past>>

RemoveRepository(c, r) ==
  /\ c \in Clients /\ r \in keystore.repositories
  /\ Goto(c, "command", "over")
  /\ keystore' = [keystore EXCEPT !.repositories = @ \ {r}]
  /\ UNCHANGED <<settings, conf, saving, folders, own, past>>

\* The distributors that repositories name for a plugin, in the order of their blocks.
Distributors(x) == SetToSeqs({s \in Signers : <<x, s>> \in keystore.repositories})

\* pluginToBlock uses the same archive as an installation.
Publish(c, x) ==
  /\ c \in Clients /\ x \in Folders
  /\ Goto(c, "command", "over")
  /\ archive' = code[x]
  /\ half' = (half \/ Changers # {})
  /\ UNCHANGED <<settings, conf, saving, pluginsFolder, code, keystore, own, crossed>>

\* The user names a block.
InstallBlock(c, x, s) ==
  /\ Begin(c, x, s, "confirm")
  /\ UNCHANGED keystore

\* The user names a key, ...
InstallKey(c, x, s) ==
  /\ Begin(c, x, s, "confirm")
  /\ SaveKey(x, s)

\* ... or it is the key of the last time, ...
InstallKnown(c, x) ==
  /\ keystore.keys[x] # None
  /\ Begin(c, x, keystore.keys[x], "confirm")
  /\ UNCHANGED keystore

\* ... or that of a distributor: the only one, or the one after the one that the user
\* chooses, which cannot be the last.
InstallFound(c, x) ==
  /\ keystore.keys[x] = None
  /\ \E ds \in Distributors(x) :
       \E n \in DOMAIN ds :
         /\ Len(ds) = 1 \/ n > 1
         /\ Begin(c, x, ds[n], "confirm")
         /\ SaveKey(x, ds[n])

Stay(c, from, to) ==
  /\ c \in Clients
  /\ Goto(c, from, to)
  /\ UNCHANGED <<settings, todo>>

\* The user refuses, or there is no such block.
Decline(c) ==
  /\ Stay(c, "confirm", "over")
  /\ Done(c)
  /\ UNCHANGED <<conf, saving, folders, keystore, past>>

\* blockToPlugin: the archive is written to the one file there is for that, ...
WriteArchive(c) ==
  /\ Stay(c, "confirm", "clear")
  /\ archive' = job[c].from
  /\ UNCHANGED <<conf, saving, pluginsFolder, code, keystore, job, past>>

\* ... an older version is removed, ...
RemoveOld(c) ==
  /\ Stay(c, "clear", "unpack")
  /\ code' = [code EXCEPT ![job[c].plugin] = None]
  /\ UNCHANGED <<conf, saving, pluginsFolder, archive, keystore, job, past>>

\* ... the archive is unpacked, if it can be, ...
Unpack(c) ==
  /\ Stay(c, "unpack", "switchOn")
  /\ code' = [code EXCEPT ![job[c].plugin] = archive]
  /\ UNCHANGED <<conf, saving, pluginsFolder, archive, keystore, job, past>>

UnpackFails(c) ==
  /\ Stay(c, "unpack", "record")
  /\ half' = TRUE
  /\ UNCHANGED <<conf, saving, folders, keystore, job, crossed>>

\* ... and the plugin is enabled.
SwitchOn(c) ==
  /\ Stay(c, "switchOn", "record")
  /\ Enable(c, job[c].plugin)
  /\ UNCHANGED <<folders, keystore, job, past>>

\* installBlock records the plugin whatever blockToPlugin returns.
Record(c) ==
  /\ Stay(c, "record", "over")
  /\ AddPlugin(job[c].plugin)
  /\ Done(c)
  /\ UNCHANGED <<conf, saving, folders, past>>

\* Fault: the record is kept until the plugin has gone.
UninstallFirst(c, x) ==
  /\ x \in Folders
  /\ Begin(c, x, None, "switchOff")
  /\ UNCHANGED keystore

\* uninstallPlugin: the record goes first, ...
Uninstall(c, x) ==
  /\ x \in Folders
  /\ Begin(c, x, None, "switchOff")
  /\ RemovePlugin(x)

\* Others have changed the configuration, or are about to.
Meanwhile(c) == c \notin fresh \/ \E q \in Runs \ {c} : saving[q] # "no"

\* Fault: the plugin stays enabled.
SwitchOffNot(c) ==
  /\ Stay(c, "switchOff", "delete")
  /\ crossed' = (crossed \/ Meanwhile(c))
  /\ UNCHANGED <<conf, saving, folders, keystore, job, half>>

\* ... then the plugin is disabled, ...
SwitchOff(c) ==
  /\ Stay(c, "switchOff", "delete")
  /\ Disable(c, job[c].plugin)
  /\ crossed' = (crossed \/ Meanwhile(c))
  /\ UNCHANGED <<folders, keystore, job, half>>

\* ... and its folder removed.
Delete(c) ==
  /\ Stay(c, "delete", "over")
  /\ code' = [code EXCEPT ![job[c].plugin] = None]
  /\ Done(c)
  /\ crossed' = (crossed \/ Meanwhile(c))
  /\ UNCHANGED <<conf, saving, pluginsFolder, archive, keystore, half>>

-----------------------------------------------------------------------------

\* A killed process leaves its plugin as it is then.
KillJob(p) ==
  /\ Crash(p)
  /\ job' = [job EXCEPT ![p] = None]
  /\ todo' = [todo EXCEPT ![p] = {}]
  /\ half' = (half \/ pc[p] \in {"unpack", "switchOn", "record"})
  /\ UNCHANGED <<folders, keystore, crossed>>

StartStep(p) ==
  \/ MakeFolder(p) \/ CopyPlugins(p) \/ NoCopy(p) \/ MakeSection(p)
  \/ Check(p)
  \/ \E x \in Names : EnableDefault(p, x) \/ Announce(p, x)

PluginCommand(c) ==
  \/ /\ pc[c] = "command"
     /\ \/ \E x \in Names :
             \/ EnablePlugin(c, x) \/ DisablePlugin(c, x)
             \/ InstallKnown(c, x) \/ InstallFound(c, x) \/ Uninstall(c, x) \/ Publish(c, x)
             \/ \E s \in Signers : InstallBlock(c, x, s) \/ InstallKey(c, x, s)
        \/ \E r \in Repositories : AddRepository(c, r) \/ RemoveRepository(c, r)
  \/ Decline(c) \/ WriteArchive(c) \/ RemoveOld(c) \/ Unpack(c) \/ UnpackFails(c)
  \/ SwitchOn(c) \/ Record(c) \/ SwitchOff(c) \/ Delete(c)

Next ==
  \E p \in Runs :
    \/ SettingsStep(p) /\ UNCHANGED <<folders, keystore, own, past>>
    \/ StartStep(p) \/ PluginCommand(p) \/ KillJob(p)

Spec == Init /\ [][Next]_vars

-----------------------------------------------------------------------------
(* Properties. *)

Changing == {job[c].plugin : c \in Changers}

\* What the plugin manager has recorded as installed is there, as long as no installation
\* failed half-way and no two commands overlapped; a removal may be killed at any moment
\* (installBlock, uninstallPlugin).
RecordedAreThere ==
  ~half => keystore.plugins \subseteq Folders \cup Changing

\* A plugin that was removed does not stay enabled (uninstallPlugin, enable, disable).
EnabledAreThere ==
  ~half /\ ~crossed /\ ~stale /\ readable = "whole"
    => file.plugins = None \/ file.plugins \subseteq Folders \cup Changing

\* Clients differ only in what they do, signers only in their names.
ClientSymmetry == Permutations(Clients) \cup Permutations(Signers)
=============================================================================
