------------------------------ MODULE Settings ------------------------------
(***************************************************************************)
(* The configuration file and the file of key pairs, and the processes of  *)
(* the program that share them.  Each run of the program loads the whole   *)
(* configuration when it starts, changes its copy, and writes the whole    *)
(* copy back; a daemon keeps its copy for as long as it runs.  Nothing is  *)
(* locked.                                                                 *)
(*                                                                         *)
(* A step goes from one access to a file to the next; what commands do     *)
(* with plugins is in module Plugins, which extends this one.              *)
(***************************************************************************)
EXTENDS Naturals, FiniteSets, Sequences, SequencesExt

CONSTANTS
  Daemons,  \* the runs of the program that start a daemon
  Clients,  \* the runs that execute another command and end
  AtOnce,   \* bound: how many run at the same time
  None

Runs == Daemons \cup Clients

\* A pair is known by the process that generated it, when it first started or later.
Pairs == [by : Runs, added : BOOLEAN]

ASSUME SettingsConstants ==
  /\ Daemons \cap Clients = {} /\ AtOnce \in Nat \ {0}
  /\ None \notin Runs /\ None \notin Pairs /\ None \notin Seq(Pairs)

VARIABLES
  \* config.json: its last whole content, and whether it can be read
  file, readable,
  \* keys.txt: None if it does not exist
  keys,
  \* each process: where it is, _config, whether it has a save to make or under way, and
  \* crypto.pubKey
  pc, conf, saving, id,
  \* history
  stale,    \* one has written its copy without having seen the last write, or has started
            \* when the file could not be read
  fresh,    \* until then, the processes that have seen the last write
  several,  \* the identity has been changed, or two have made a first key pair at once
  last      \* until stale, who has written a setting of the user's last

config == <<file, readable>>
history == <<stale, fresh, several, last>>

\* Of the configuration: whether there is a password for the API server, the enabled plugins,
\* the public key in use, and a setting, which is known by the process that set it.
Empty == [password |-> FALSE, plugins |-> None, publicKey |-> None, setting |-> None]
Defaults == [Empty EXCEPT !.plugins = {}]

SettingsInit ==
  /\ file = Empty /\ readable = "missing" /\ keys = None
  /\ pc = [p \in Runs |-> "new"] /\ conf = [p \in Runs |-> Empty]
  /\ saving = [p \in Runs |-> "no"] /\ id = [p \in Runs |-> None]
  /\ stale = FALSE /\ fresh = {} /\ several = FALSE
  /\ last = None

-----------------------------------------------------------------------------
(* config.py. *)

\* A process goes on when what it saves is written.
Goto(p, from, to) ==
  /\ pc[p] = from /\ saving[p] = "no"
  /\ pc' = [pc EXCEPT ![p] = to]

\* set, with savefile=True.
Set(p, c) ==
  /\ conf' = [conf EXCEPT ![p] = c]
  /\ saving' = [saving EXCEPT ![p] = "due"]

\* reload: the copy stays as it is if the file cannot be read.
Reload(p) == IF readable = "whole" THEN file ELSE conf[p]
Seen(p) == IF ~stale /\ readable \in {"whole", "missing"} THEN fresh \cup {p} ELSE fresh

\* save: the file is opened, which empties it, and written.
OpenConfig(p) ==
  /\ saving[p] = "due"
  /\ saving' = [saving EXCEPT ![p] = "open"]
  /\ readable' = "empty"
  /\ UNCHANGED <<file, keys, pc, conf, id, history>>

\* If another process has written in between, what is longer of it remains at the end.
WriteConfig(p) ==
  /\ saving[p] = "open"
  /\ saving' = [saving EXCEPT ![p] = "no"]
  /\ readable' \in (IF readable = "empty" THEN {"whole"} ELSE {"whole", "garbled"})
  /\ file' = conf[p]
  /\ stale' = (stale \/ p \notin fresh)
  /\ fresh' = IF stale' THEN {} ELSE {p}
  /\ last' = CASE stale' -> None [] conf[p].setting = p -> p [] OTHER -> last
  /\ UNCHANGED <<keys, pc, conf, id, several>>

-----------------------------------------------------------------------------
(* The start of the program. *)

Load(p) ==
  /\ Goto(p, "new", "setup")
  /\ Cardinality({q \in Runs : pc[q] \notin {"new", "gone"}}) < AtOnce
  /\ conf' = [conf EXCEPT ![p] = Reload(p)]
  /\ stale' = (stale \/ readable \in {"empty", "garbled"})
  /\ fresh' = IF stale' THEN {} ELSE Seen(p)
  /\ last' = IF stale' THEN None ELSE last
  /\ UNCHANGED <<config, keys, saving, id, several>>

\* Fault: the default configuration is taken whenever the program starts.
SetupAlways(p) ==
  /\ Goto(p, "setup", "plugins")
  /\ Set(p, Defaults)
  /\ UNCHANGED <<config, keys, id, history>>

\* setup_config: the default configuration, if there is no file.
Setup(p) ==
  /\ Goto(p, "setup", "plugins")
  /\ \/ readable = "missing" /\ Set(p, Defaults)
     \/ readable # "missing" /\ UNCHANGED <<conf, saving>>
  /\ UNCHANGED <<config, keys, id, history>>

\* Fault: the pair that was added last is used.
ActiveLast(p) ==
  IF conf[p].publicKey # None THEN conf[p].publicKey ELSE Last(keys)

\* The identity: what is configured, or else the first pair.
Active(p) ==
  IF conf[p].publicKey # None THEN conf[p].publicKey ELSE Head(keys)

\* OnionrCrypto.__init__, when there is a file of key pairs.
UseKey(p) ==
  /\ keys # None /\ keys # <<>>
  /\ Goto(p, "crypto", "password")
  /\ id' = [id EXCEPT ![p] = Active(p)]
  /\ UNCHANGED <<config, keys, conf, saving, history>>

\* The file is there and empty: the program ends.
NoKey(p) ==
  /\ keys = <<>>
  /\ Goto(p, "crypto", "over")
  /\ UNCHANGED <<config, keys, conf, saving, id, history>>

MakeKey(p) ==
  /\ keys = None
  /\ Goto(p, "crypto", "addFirst")
  /\ id' = [id EXCEPT ![p] = [by |-> p, added |-> FALSE]]
  /\ several' = (several \/ \E q \in Runs : pc[q] = "addFirst")
  /\ UNCHANGED <<config, keys, conf, saving, stale, fresh, last>>

\* addKey opens the file to append, which creates it, ...
OpenKeys(p) ==
  /\ pc[p] \in {"addFirst", "addID"}
  /\ pc' = [pc EXCEPT ![p] = IF @ = "addFirst" THEN "appendFirst" ELSE "appendID"]
  /\ keys' = IF keys = None THEN <<>> ELSE keys
  /\ UNCHANGED <<config, conf, saving, id, history>>

NewPair(p) == [by |-> p, added |-> pc[p] = "appendID"]

\* Fault: the file is opened to be written.
AppendKeyAlone(p) ==
  /\ pc[p] \in {"appendFirst", "appendID"}
  /\ pc' = [pc EXCEPT ![p] = IF @ = "appendFirst" THEN "password" ELSE "over"]
  /\ keys' = <<NewPair(p)>>
  /\ UNCHANGED <<config, conf, saving, id, history>>

\* ... and then writes the pair.
AppendKey(p) ==
  /\ pc[p] \in {"appendFirst", "appendID"}
  /\ pc' = [pc EXCEPT ![p] = IF @ = "appendFirst" THEN "password" ELSE "over"]
  /\ keys' = Append(keys, NewPair(p))
  /\ UNCHANGED <<config, conf, saving, id, history>>

\* The password and the ports of the servers, which are kept in the configuration.
Password(p) ==
  /\ Goto(p, "password", "command")
  /\ \/ ~conf[p].password /\ Set(p, [conf[p] EXCEPT !.password = TRUE])
     \/ conf[p].password /\ UNCHANGED <<conf, saving>>
  /\ UNCHANGED <<config, keys, id, history>>

-----------------------------------------------------------------------------
(* The daemon, and the commands about settings and identities. *)

\* generateTorrc: the ports and the password of Tor, with all other settings.
TorSettings(d) ==
  /\ d \in Daemons
  /\ Goto(d, "command", "tor")
  /\ Set(d, conf[d])
  /\ UNCHANGED <<config, keys, id, history>>

\* The communicator calls setup_config again.
Communicate(d) ==
  /\ Goto(d, "tor", "serve")
  /\ \/ readable = "missing" /\ Set(d, Defaults)
     \/ readable # "missing" /\ conf' = [conf EXCEPT ![d] = Reload(d)] /\ UNCHANGED saving
  /\ fresh' = Seen(d)
  /\ UNCHANGED <<config, keys, id, stale, several, last>>

\* set_by_key of the API.
WebSet(d) ==
  /\ pc[d] = "serve" /\ saving[d] = "no"
  /\ Set(d, [conf[d] EXCEPT !.setting = d])
  /\ UNCHANGED <<config, keys, pc, id, history>>

\* The command config.
Configure(c) ==
  /\ c \in Clients
  /\ Goto(c, "command", "over")
  /\ Set(c, [Reload(c) EXCEPT !.setting = c])
  /\ fresh' = Seen(c)
  /\ UNCHANGED <<config, keys, id, stale, several, last>>

\* The command change-id, with a pair of the file.
ChangeID(c, k) ==
  /\ c \in Clients /\ keys # None /\ k \in ToSet(keys)
  /\ Goto(c, "command", "over")
  /\ Set(c, [conf[c] EXCEPT !.publicKey = k])
  /\ several' = TRUE
  /\ UNCHANGED <<config, keys, id, fresh, stale, last>>

\* The command add-id.
AddID(c) ==
  /\ c \in Clients
  /\ Goto(c, "command", "addID")
  /\ UNCHANGED <<config, keys, conf, saving, id, history>>

\* A process ends when its command is done, or is killed (a daemon also stopped) before.
Leave(p) ==
  /\ pc' = [pc EXCEPT ![p] = "gone"]
  /\ conf' = [conf EXCEPT ![p] = Empty]
  /\ saving' = [saving EXCEPT ![p] = "no"]
  /\ id' = [id EXCEPT ![p] = None]
  /\ fresh' = fresh \ {p}
  /\ UNCHANGED <<config, keys, stale, several, last>>

End(p) == pc[p] = "over" /\ saving[p] = "no" /\ Leave(p)

Crash(p) == pc[p] \notin {"new", "gone"} /\ Leave(p)

SettingsStep(p) ==
  \/ OpenConfig(p) \/ WriteConfig(p) \/ Load(p) \/ Setup(p)
  \/ UseKey(p) \/ NoKey(p) \/ MakeKey(p) \/ OpenKeys(p) \/ AppendKey(p) \/ Password(p)
  \/ TorSettings(p) \/ Communicate(p) \/ WebSet(p) \/ Configure(p) \/ AddID(p)
  \/ End(p)
  \/ pc[p] = "command" /\ \E k \in Pairs : ChangeID(p, k)

-----------------------------------------------------------------------------
(* Properties. *)

\* The identity a process works with is in the file, with its private key, whatever other
\* processes add at the same time (addKey, changeActiveKey).
IdentityIsStored ==
  \A p \in Runs :
    id[p] # None => \/ pc[p] \in {"addFirst", "appendFirst"}
                    \/ id[p] \in ToSet(keys)

\* All processes work with the same identity until it is changed, also when identities are
\* added, configurations are lost and processes killed: two first starts at once are the
\* exception (OnionrCrypto.__init__, add_ID).
SameIdentity ==
  ~several => \A p, q \in Runs : id[p] # None /\ id[q] # None => id[p] = id[q]

\* A setting is lost only if a process that had not seen it writes its own copy, or starts
\* while the file cannot be read (config.set, reload, setup_config).
SettingIsKept ==
  ~stale /\ readable = "whole" => file.setting = last
=============================================================================
