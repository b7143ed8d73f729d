-------------------------- MODULE SharedFilesProofs --------------------------
(***************************************************************************)
(* The files that processes rewrite without a lock, for every set of       *)
(* processes: the usage record stays within the allocation and is exact    *)
(* until two updates overlap; the configuration, the key pairs and the     *)
(* key store of the plugin manager keep what was written, until what the   *)
(* history variables note has happened.                                    *)
(***************************************************************************)
EXTENDS StorageLedger, Plugins, SequenceTheorems, TLAPS

-----------------------------------------------------------------------------
(* The usage record. *)

(***************************************************************************)
(* While no updates have overlapped, at most one process is in one, and    *)
(* the ledger is in the record, on its way in that process's amount, or    *)
(* both.                                                                   *)
(***************************************************************************)
Alone(p) == \A q \in Procs : Busy(q) => q = p

Exact ==
  /\ ledger \in Int /\ ledger <= Allocation
  /\ \/ usage = << >> \/ \E n \in Int : usage = <<n>>
  /\ Recorded \in Int /\ Recorded <= Allocation
  /\ \A p \in Procs :
       /\ Busy(p) => Alone(p) /\ amount[p] = ledger
       /\ phase[p] = "write" => usage = << >>
  /\ (\A p \in Procs : ~Busy(p)) => Recorded = ledger

LedgerInv ==
  /\ phase \in [Procs -> Phases]
  /\ DOMAIN amount = Procs
  /\ overlapped \in BOOLEAN
  /\ ~overlapped => Exact

-----------------------------------------------------------------------------

\* What is read back after a single write is what was written.
LEMMA ReadBack == ASSUME NEW n \in Int, usage = <<n>> PROVE Recorded = n
  BY DEF Recorded

LEMMA ReadEmpty == ASSUME usage = << >> PROVE Recorded = 0
  BY DEF Recorded

LEMMA InitInv == LedgerInit => LedgerInv
<1> SUFFICES ASSUME LedgerInit PROVE LedgerInv
  OBVIOUS
<1>1. Recorded = 0
  BY ReadEmpty DEF LedgerInit, CounterInit
<1>2. Exact
  BY <1>1, CounterConstants DEF LedgerInit, CounterInit, Exact, Busy
<1> QED
  BY <1>2 DEF LedgerInit, CounterInit, LedgerInv, Phases

\* An update of n that starts while every process is idle.
LEMMA EnterInv ==
  ASSUME LedgerInv, NEW p \in Procs, NEW n \in Int, phase[p] = "idle",
         phase' = [phase EXCEPT ![p] = "open"],
         amount' = [amount EXCEPT ![p] = Recorded + n],
         UNCHANGED usage,
         ~overlapped => Recorded + n <= Allocation,
         Enter(n)
  PROVE  LedgerInv'
<1>1. phase' \in [Procs -> Phases] /\ DOMAIN amount' = Procs
  BY DEF LedgerInv, Phases
<1>2. overlapped' \in BOOLEAN
  BY DEF LedgerInv, Enter
<1>3. ASSUME ~overlapped' PROVE Exact'
  <2>1. ~overlapped /\ \A q \in Procs : ~Busy(q)
    BY <1>3 DEF Enter, LedgerInv
  <2>2. Exact /\ Recorded = ledger
    BY <2>1 DEF LedgerInv, Exact
  <2>3. ledger' = ledger + n
    BY <1>3 DEF Enter
  <2>4. Recorded' = Recorded
    BY DEF Recorded
  <2>5. \A q \in Procs : Busy(q)' => q = p
    BY <2>1 DEF Busy, LedgerInv
  <2>6. phase'[p] = "open" /\ amount'[p] = ledger'
    BY <2>2, <2>3 DEF LedgerInv
  <2>7. ledger' \in Int /\ ledger' <= Allocation
    BY <2>1, <2>2, <2>3 DEF Exact
  <2> QED
    BY <2>2, <2>4, <2>5, <2>6, <2>7 DEF Exact, Busy, Alone
<1> QED
  BY <1>1, <1>2, <1>3 DEF LedgerInv

\* The file is emptied: the process keeps what the record should say.
LEMMA TruncateInv ==
  ASSUME LedgerInv, NEW p \in Procs, Truncate(p), UNCHANGED <<ledger, overlapped>>
  PROVE  LedgerInv'
<1>1. phase' \in [Procs -> Phases] /\ DOMAIN amount' = Procs
  BY DEF LedgerInv, Truncate, Phases
<1>2. ASSUME ~overlapped' PROVE Exact'
  <2>1. Exact
    BY <1>2 DEF LedgerInv
  <2>2. Busy(p) /\ Alone(p) /\ Busy(p)'
    BY <2>1 DEF Exact, Busy, Truncate, LedgerInv
  <2>3. Recorded' = 0 /\ usage' = << >>
    BY DEF Truncate, Recorded
  <2>4. \A q \in Procs : (Busy(q) <=> Busy(q)') /\ amount'[q] = amount[q]
    BY <2>2 DEF Truncate, Busy, LedgerInv
  <2> QED
    BY <2>1, <2>2, <2>3, <2>4, CounterConstants DEF Exact, Alone
<1> QED
  BY <1>1, <1>2 DEF LedgerInv

\* The amount reaches an empty file: it becomes the record.
LEMMA WriteInv ==
  ASSUME LedgerInv, NEW p \in Procs, Write(p), UNCHANGED <<ledger, overlapped>>
  PROVE  LedgerInv'
<1>1. phase' \in [Procs -> Phases] /\ DOMAIN amount' = Procs
  BY DEF LedgerInv, Write, Phases
<1>2. ASSUME ~overlapped' PROVE Exact'
  <2>1. Exact
    BY <1>2 DEF LedgerInv
  <2>2. usage = << >> /\ Alone(p) /\ amount[p] = ledger /\ ledger \in Int
    BY <2>1 DEF Exact, Busy, Write
  <2>3. usage' = <<ledger>>
    BY <2>2 DEF Write
  <2>4. Recorded' = ledger
    BY <2>3 DEF Recorded
  <2>5. \A q \in Procs : ~Busy(q)'
    BY <2>2 DEF Write, Busy, Alone, LedgerInv
  <2>6. \A q \in Procs : phase'[q] # "write"
    BY <2>5 DEF Busy
  <2> QED
    BY <2>1, <2>2, <2>3, <2>4, <2>5, <2>6 DEF Exact, Busy
<1> QED
  BY <1>1, <1>2 DEF LedgerInv

LEMMA StepInv == LedgerInv /\ [LedgerNext]_ledgerVars => LedgerInv'
<1> SUFFICES ASSUME LedgerInv, [LedgerNext]_ledgerVars PROVE LedgerInv'
  OBVIOUS
<1>1. ASSUME NEW p \in Procs, NEW n \in Amounts, Grant(p, n) PROVE LedgerInv'
  <2>1. n \in Int
    BY LedgerConstants
  <2> QED
    BY <1>1, <2>1, EnterInv DEF Grant, GrantBytes
<1>2. ASSUME NEW p \in Procs, NEW n \in Amounts, Refuse(p, n) PROVE LedgerInv'
  BY <1>2 DEF Refuse, RefuseBytes, counterVars, LedgerInv, Exact, Busy, Alone, Recorded
<1>3. ASSUME NEW p \in Procs, NEW n \in Amounts, TakeOff(p, n) PROVE LedgerInv'
  <2>1. n \in Nat /\ -n \in Int
    BY LedgerConstants
  <2>2. ASSUME ~overlapped PROVE Recorded - n = Recorded + (-n) /\ Recorded + (-n) <= Allocation
    BY <2>1, <2>2, CounterConstants DEF LedgerInv, Exact
  <2> QED
    BY <1>3, <2>1, <2>2, EnterInv DEF TakeOff, RemoveBytes
<1>4. ASSUME NEW p \in Procs, Truncate(p), UNCHANGED <<ledger, overlapped>>
      PROVE  LedgerInv'
  BY <1>4, TruncateInv
<1>5. ASSUME NEW p \in Procs, Write(p), UNCHANGED <<ledger, overlapped>>
      PROVE  LedgerInv'
  BY <1>5, WriteInv
<1>6. CASE UNCHANGED ledgerVars
  BY <1>6 DEF ledgerVars, LedgerInv, Exact, Busy, Alone, Recorded
<1> QED
  BY <1>1, <1>2, <1>3, <1>4, <1>5, <1>6 DEF LedgerNext, Update

-----------------------------------------------------------------------------

(***************************************************************************)
(* addBytes keeps the record of any number of processes within any         *)
(* allocation until two updates of the file overlap.                       *)
(***************************************************************************)
THEOREM RecordBounded == LedgerSpec => []BoundedUntilOverlap
<1>1. LedgerInv => BoundedUntilOverlap
  BY DEF LedgerInv, Exact, BoundedUntilOverlap
<1> QED
  BY InitInv, StepInv, <1>1, PTL DEF LedgerSpec

(***************************************************************************)
(* Until two updates overlap, the record between updates is the sum of     *)
(* what addBytes granted less what removeBytes took off.                   *)
(***************************************************************************)
THEOREM RecordExact == LedgerSpec => []ExactUntilOverlap
<1>1. LedgerInv => ExactUntilOverlap
  BY DEF LedgerInv, Exact, ExactUntilOverlap
<1> QED
  BY InitInv, StepInv, <1>1, PTL DEF LedgerSpec

-----------------------------------------------------------------------------
(***************************************************************************)
(* The configuration, the keys and the plugins.  A step of a process is    *)
(* one of Settings or, for what it does to those files, of a shape that    *)
(* all steps about plugins have (PluginFrame).                             *)
(***************************************************************************)

\* Where a process is: on a job with a plugin, starting, making the first key pair, at work.
Steps == {"confirm", "clear", "unpack", "switchOn", "record", "switchOff", "delete"}
Starting == {"new", "setup", "plugins", "copy", "enable", "crypto"}
First == {"addFirst", "appendFirst"}
Working == {"password", "command", "tor", "serve", "addID", "appendID"} \cup Steps

Configurations ==
  [password : BOOLEAN, plugins : (SUBSET Names) \cup {None},
   publicKey : Pairs \cup {None}, setting : Runs \cup {None}]

\* Whom the code of a plugin can be from.
Coders == Signers \cup {Shipped, None}

SettingsTypeOK ==
  /\ file \in Configurations /\ readable \in {"missing", "empty", "whole", "garbled"}
  /\ keys \in Seq(Pairs) \cup {None}
  /\ pc \in [Runs -> Starting \cup First \cup Working \cup {"over", "gone"}]
  /\ conf \in [Runs -> Configurations] /\ saving \in [Runs -> {"no", "due", "open"}]
  /\ id \in [Runs -> Pairs \cup {None}]
  /\ stale \in BOOLEAN /\ several \in BOOLEAN
  /\ fresh \in SUBSET Runs /\ last \in Runs \cup {None}

PluginsTypeOK ==
  /\ pluginsFolder \in BOOLEAN /\ half \in BOOLEAN /\ crossed \in BOOLEAN
  /\ code \in [Names -> Coders] /\ archive \in Coders
  /\ keystore \in [keys : [Names -> Signers \cup {None}], plugins : SUBSET Names,
                   repositories : SUBSET Repositories]
  /\ todo \in [Runs -> SUBSET Names] /\ job \in [Runs -> Jobs \cup {None}]

\* The list of enabled plugins is there after the check, and in what is written.
Sections ==
  /\ \A p \in Runs :
       \/ pc[p] \in {"crypto", "over"} \cup First \cup Working
       \/ saving[p] # "no"
       => conf[p].plugins \in SUBSET Names
  /\ readable \in {"whole", "garbled"} => file.plugins \in SUBSET Names

Types == SettingsTypeOK /\ PluginsTypeOK /\ Sections

\* A key is in the file of key pairs.
Stored(k) == k # None => keys \in Seq(Pairs) /\ k \in ToSet(keys)

(***************************************************************************)
(* What a configuration names is in the file of key pairs, and so is the   *)
(* identity of a process, except of one that is about to add it.           *)
(***************************************************************************)
KeysStored ==
  /\ Stored(file.publicKey)
  /\ \A p \in Runs :
       /\ Stored(conf[p].publicKey)
       /\ pc[p] \in First => id[p] = [by |-> p, added |-> FALSE]
       /\ pc[p] \notin First => Stored(id[p])
       /\ pc[p] \in Working => keys # None /\ keys # <<>>
       /\ pc[p] = "appendFirst" => keys # None

(***************************************************************************)
(* Until the identity is changed, only one process makes a first pair, no  *)
(* configuration names a key, and the identity is the head of the file.    *)
(***************************************************************************)
OneIdentity ==
  ~several =>
    /\ file.publicKey = None
    /\ \A p \in Runs :
         /\ conf[p].publicKey = None
         /\ pc[p] \in First => \A q \in Runs : pc[q] \in First => q = p
         /\ pc[p] = "addFirst" => keys = None
         /\ pc[p] = "appendFirst" => keys = <<>>
         /\ pc[p] \notin First /\ id[p] # None => keys # <<>> /\ id[p] = Head(keys)

(***************************************************************************)
(* Until a copy is stale, the file has the setting that was written last,  *)
(* and who has seen the last write has the file, except for what it is     *)
(* about to save.                                                          *)
(***************************************************************************)
Copies ==
  /\ \A p \in Runs : pc[p] = "new" => conf[p] = Empty
  /\ \A p \in Runs :
       pc[p] \notin {"new", "setup", "gone"} /\ saving[p] = "no" => readable # "missing"
  /\ readable = "missing" => file = Empty /\ last = None
  /\ ~stale => /\ file.setting = last
               /\ \A p \in fresh : /\ conf[p].setting \in {last, p}
                                   /\ saving[p] = "no" => conf[p] = file

\* A process has a job exactly while it is in the steps of one.
JobOK(p) ==
  /\ job[p] # None => p \in Clients
  /\ pc[p] \in Steps <=> job[p] # None
  /\ pc[p] = "confirm" => job[p].from # None
  /\ pc[p] = "delete" => job[p].plugin \notin conf[p].plugins

\* How far a job has come that no other one has disturbed.
Undisturbed(p) ==
  /\ pc[p] \in {"clear", "unpack"} => archive # None
  /\ pc[p] \in {"switchOn", "record"} => job[p].plugin \in Folders
  /\ pc[p] \in {"switchOff", "delete"} => job[p].plugin \notin keystore.plugins

\* Until an installation is not completed, there is one job at a time.
OneJob == \A p, q \in Runs : job[p] # None /\ job[q] # None => p = q

JobsAlone ==
  /\ \A p \in Runs : JobOK(p)
  /\ ~half => OneJob /\ \A p \in Runs : Undisturbed(p)

\* What is there, or will be when its archive is unpacked.
Present == Folders \cup {job[p].plugin : p \in {q \in Runs : pc[q] = "unpack"}}
There(S) == S = None \/ S \subseteq Present

\* The enabled plugins are there, in the file and for who has seen the last write.
ListsThere == There(file.plugins) /\ \A p \in fresh : There(conf[p].plugins)

PluginsThere ==
  ~half => /\ keystore.plugins \subseteq Present
           /\ ~crossed /\ ~stale => ListsThere

\* The inductive invariant.
SharedInv == Types /\ KeysStored /\ OneIdentity /\ Copies /\ JobsAlone /\ PluginsThere

-----------------------------------------------------------------------------

\* A copy that is loaded again is a configuration, with a list if there was one.
LEMMA ReloadType ==
  ASSUME Types, NEW p \in Runs
  PROVE  /\ Reload(p) \in Configurations
         /\ conf[p].plugins \in SUBSET Names => Reload(p).plugins \in SUBSET Names
  BY DEF Types, SettingsTypeOK, Sections, Reload

LEMMA EmptyType == Empty \in Configurations /\ Defaults \in Configurations
  BY DEF Empty, Defaults, Configurations

\* A save that is to be made is of a configuration with a list of enabled plugins.
LEMMA SetTypes ==
  ASSUME Types, NEW p \in Runs, NEW c \in Configurations, c.plugins \in SUBSET Names,
         Set(p, c), UNCHANGED config
  PROVE  /\ conf' \in [Runs -> Configurations] /\ saving' \in [Runs -> {"no", "due", "open"}]
         /\ \A q \in Runs :
              q # p => conf'[q] = conf[q] /\ saving'[q] = saving[q]
         /\ conf'[p] = c /\ saving'[p] = "due"
         /\ readable' \in {"whole", "garbled"} => file'.plugins \in SUBSET Names
<1>1. /\ conf' = [conf EXCEPT ![p] = c] /\ saving' = [saving EXCEPT ![p] = "due"]
      /\ readable' = readable /\ file' = file
  BY DEF Set, config
<1> QED
  BY <1>1 DEF Types, SettingsTypeOK, Sections

\* Where a process may go with a plugin step.
PluginPlaces == {"command", "serve", "over"} \cup Steps

PluginGoto(p) ==
  \/ /\ pc[p] \in {"plugins", "copy", "enable"}
     /\ \E to \in {"copy", "enable", "crypto"} : pc' = [pc EXCEPT ![p] = to]
  \/ /\ pc[p] \in {"command", "serve"} \cup Steps
     /\ \E to \in PluginPlaces : pc' = [pc EXCEPT ![p] = to]

\* The list of enabled plugins changes: a plugin is added that is there, or some go.
Switch(p) ==
  \E S \in SUBSET Names :
    /\ SetEnabled(p, S)
    /\ \/ S \subseteq Folders
       \/ conf[p].plugins \in SUBSET Names /\ S \subseteq conf[p].plugins \cup Folders

\* What the steps that are about plugins do to the configuration and the keys.
PluginFrame(p) ==
  /\ UNCHANGED settings
  /\ saving[p] = "no" /\ PluginGoto(p)
  /\ UNCHANGED <<conf, saving>> \/ Switch(p)
  /\ pc'[p] \in {"crypto", "over"} => conf'[p].plugins \in SUBSET Names

\* Enabling and disabling change the list in that way and leave one.
LEMMA EnableFrame ==
  ASSUME Types, NEW p \in Runs, NEW x \in Names, conf[p].plugins \in SUBSET Names,
         Enable(p, x) \/ Disable(p, x)
  PROVE  /\ UNCHANGED <<conf, saving>> \/ Switch(p)
         /\ conf'[p].plugins \in SUBSET Names
<1>1. CASE UNCHANGED <<conf, saving>>
  BY <1>1
<1>2. ASSUME NEW S \in SUBSET Names, SetEnabled(p, S)
      PROVE  conf'[p].plugins \in SUBSET Names
  BY <1>2 DEF SetEnabled, Set, Types, SettingsTypeOK, Configurations
<1>3. CASE ~ UNCHANGED <<conf, saving>>
  <2>1. Switch(p)
    BY <1>3 DEF Enable, Disable, Enabled, Switch
  <2> QED
    BY <1>2, <2>1 DEF Switch
<1> QED
  BY <1>1, <1>3

\* The steps about plugins have that shape: when the program starts, ...
LEMMA StartFrame ==
  ASSUME Types, NEW p \in Runs, StartStep(p)
  PROVE  PluginFrame(p)
<1> USE DEF Goto
<1> DEFINE Sets == UNCHANGED <<conf, saving>> \/ Switch(p)
<1>1. ASSUME UNCHANGED settings, saving[p] = "no", Sets,
             pc[p] \in {"plugins", "copy", "enable"},
             NEW to \in {"copy", "enable", "crypto"}, pc' = [pc EXCEPT ![p] = to],
             to = "crypto" => conf'[p].plugins \in SUBSET Names
      PROVE  PluginFrame(p)
  <2>1. pc'[p] = to
    BY <1>1 DEF Types, SettingsTypeOK
  <2> QED
    BY <1>1, <2>1 DEF PluginFrame, PluginGoto
<1>2. CASE MakeFolder(p)
  BY <1>1, <1>2 DEF MakeFolder
<1>3. CASE CopyPlugins(p)
  BY <1>1, <1>3 DEF CopyPlugins
<1>4. CASE NoCopy(p)
  BY <1>1, <1>4 DEF NoCopy
<1>5. CASE MakeSection(p)
  <2>1. {} \in SUBSET Names
    OBVIOUS
  <2> QED
    BY <1>1, <1>5, <2>1 DEF MakeSection, Switch
<1>6. CASE Check(p)
  <2>1. conf[p].plugins \in SUBSET Names
    BY <1>6 DEF Check, Enabled, Types, SettingsTypeOK, Configurations
  <2>2. Sets /\ conf'[p].plugins \in SUBSET Names
    <3> DEFINE there == conf[p].plugins \cap Folders
    <3>1. there \in SUBSET Names
      BY <2>1
    <3>2. UNCHANGED <<conf, saving>> \/ SetEnabled(p, there)
      BY <1>6 DEF Check, Enabled
    <3> HIDE DEF there
    <3>3. SetEnabled(p, there) => conf'[p].plugins = there
      BY DEF SetEnabled, Set, Types, SettingsTypeOK, Configurations
    <3>4. there \subseteq Folders
      BY DEF there
    <3> QED
      BY <2>1, <3>1, <3>2, <3>3, <3>4 DEF Switch
  <2> HIDE DEF Sets
  <2> QED
    BY <1>1, <1>6, <2>2 DEF Check
<1>7. ASSUME NEW x \in Names, EnableDefault(p, x) PROVE PluginFrame(p)
  <2>1. conf[p].plugins \in SUBSET Names
    BY <1>7 DEF EnableDefault, Enabled, Types, SettingsTypeOK, Configurations
  <2>2. Sets
    BY <1>7, <2>1, EnableFrame DEF EnableDefault
  <2> HIDE DEF Sets
  <2> QED
    BY <1>1, <1>7, <2>2 DEF EnableDefault
<1>8. ASSUME NEW x \in Names, Announce(p, x) PROVE PluginFrame(p)
  <2>1. pc[p] \in {"command", "serve"}
    BY <1>8 DEF Announce
  <2>2. conf[p].plugins \in SUBSET Names
    BY <2>1 DEF Types, Sections, Working
  <2>3. Sets /\ conf'[p].plugins \in SUBSET Names
    BY <1>8, <2>2, EnableFrame DEF Announce
  <2>4. UNCHANGED settings /\ saving[p] = "no" /\ pc' = [pc EXCEPT ![p] = pc[p]]
    BY <1>8 DEF Announce
  <2>5. PluginGoto(p)
    BY <2>1, <2>4 DEF PluginGoto, PluginPlaces
  <2> QED
    BY <2>3, <2>4, <2>5 DEF PluginFrame
<1> QED
  BY <1>2, <1>3, <1>4, <1>5, <1>6, <1>7, <1>8 DEF StartStep

\* ... and in the commands.
LEMMA CommandFrame ==
  ASSUME Types, JobsAlone, NEW c \in Runs, PluginCommand(c)
  PROVE  PluginFrame(c)
<1> USE DEF Goto, PluginPlaces, Steps
<1>1. ASSUME UNCHANGED settings, saving[c] = "no", UNCHANGED <<conf, saving>>,
             pc[c] \in {"command", "serve"} \cup Steps,
             NEW to \in PluginPlaces, pc' = [pc EXCEPT ![c] = to]
      PROVE  PluginFrame(c)
  BY <1>1 DEF PluginFrame, PluginGoto, Types, Sections, Working
<1>2. ASSUME UNCHANGED settings, saving[c] = "no",
             NEW x \in Names, Enable(c, x) \/ Disable(c, x),
             pc[c] \in {"command", "serve"} \cup Steps,
             NEW to \in PluginPlaces, pc' = [pc EXCEPT ![c] = to]
      PROVE  PluginFrame(c)
  <2>1. conf[c].plugins \in SUBSET Names
    BY <1>2 DEF Types, Sections, Working
  <2>2. /\ UNCHANGED <<conf, saving>> \/ Switch(c)
        /\ conf'[c].plugins \in SUBSET Names
    BY <1>2, <2>1, EnableFrame
  <2> QED
    BY <1>2, <2>2 DEF PluginFrame, PluginGoto
<1>3. ASSUME NEW x \in Names, EnablePlugin(c, x) \/ DisablePlugin(c, x) PROVE PluginFrame(c)
  BY <1>2, <1>3 DEF EnablePlugin, DisablePlugin
<1>4. ASSUME NEW x, NEW s, NEW to \in Steps, Begin(c, x, s, to) PROVE PluginFrame(c)
  BY <1>1, <1>4 DEF Begin
<1>5. ASSUME NEW x \in Names, InstallKnown(c, x) \/ InstallFound(c, x) \/ Uninstall(c, x)
      PROVE  PluginFrame(c)
  BY <1>4, <1>5 DEF InstallKnown, InstallFound, Uninstall
<1>6. ASSUME NEW x \in Names, Publish(c, x) PROVE PluginFrame(c)
  BY <1>1, <1>6 DEF Publish
<1>7. ASSUME NEW x \in Names, NEW s \in Signers, InstallBlock(c, x, s) \/ InstallKey(c, x, s)
      PROVE  PluginFrame(c)
  BY <1>4, <1>7 DEF InstallBlock, InstallKey
<1>8. ASSUME NEW r \in Repositories, AddRepository(c, r) \/ RemoveRepository(c, r)
      PROVE  PluginFrame(c)
  BY <1>1, <1>8 DEF AddRepository, RemoveRepository
<1>9. CASE Decline(c) \/ WriteArchive(c) \/ RemoveOld(c) \/ Unpack(c) \/ UnpackFails(c) \/ Record(c)
           \/ Delete(c)
  BY <1>1, <1>9 DEF Decline, WriteArchive, RemoveOld, Unpack, UnpackFails, Record, Delete, Stay
<1>10. CASE SwitchOn(c) \/ SwitchOff(c)
  <2>1. pc[c] \in Steps
    BY <1>10 DEF SwitchOn, SwitchOff, Stay
  <2>2. job[c].plugin \in Names
    BY <2>1 DEF JobsAlone, JobOK, Types, PluginsTypeOK, Jobs
  <2> QED
    BY <1>2, <1>10, <2>1, <2>2 DEF SwitchOn, SwitchOff, Stay
<1> QED
  BY <1>3, <1>5, <1>6, <1>7, <1>8, <1>9, <1>10 DEF PluginCommand

-----------------------------------------------------------------------------
(* Types. *)

\* Every step leaves configurations, and a list of plugins where there has to be one.
LEMMA SettingsTypesKept ==
  ASSUME Types, KeysStored, NEW p \in Runs, SettingsStep(p) \/ Crash(p) \/ PluginFrame(p)
  PROVE  SettingsTypeOK' /\ Sections'
<1> USE DEF Types, SettingsTypeOK, Sections, Starting, First, Working, Steps, config, history, Goto
<1> DEFINE Sound == SettingsTypeOK' /\ Sections'
<1>1. CASE OpenConfig(p)
  BY <1>1 DEF OpenConfig
<1>2. CASE WriteConfig(p)
  <2>1. /\ saving[p] = "open" /\ saving' = [saving EXCEPT ![p] = "no"] /\ file' = conf[p]
        /\ readable' \in {"whole", "garbled"} /\ UNCHANGED <<keys, pc, conf, id, several>>
    BY <1>2 DEF WriteConfig
  <2>2. stale' \in BOOLEAN
    BY <1>2 DEF WriteConfig
  <2>3. last' \in {None, p, last}
    BY <1>2, Zenon DEF WriteConfig
  <2>4. fresh' = {} \/ fresh' = {p}
    BY <1>2, Zenon DEF WriteConfig
  <2>5. last' \in Runs \cup {None} /\ fresh' \in SUBSET Runs
    BY <2>3, <2>4
  <2> QED
    BY <2>1, <2>2, <2>5
<1>3. CASE Load(p)
  <2>1. /\ pc' = [pc EXCEPT ![p] = "setup"] /\ conf' = [conf EXCEPT ![p] = Reload(p)]
        /\ saving[p] = "no" /\ UNCHANGED <<file, readable, keys, saving, id, several>>
    BY <1>3 DEF Load
  <2>2. last' \in Runs \cup {None} /\ fresh' \in SUBSET Runs
    <3>1. last' = None \/ last' = last
      BY <1>3, Zenon DEF Load
    <3>2. fresh' = {} \/ fresh' = Seen(p)
      BY <1>3, Zenon DEF Load
    <3>3. Seen(p) \in SUBSET Runs
      BY DEF Seen
    <3> QED
      BY <3>1, <3>2, <3>3
  <2>3. stale' \in BOOLEAN
    BY <1>3 DEF Load
  <2>4. Reload(p) \in Configurations
    BY ReloadType
  <2>5. SettingsTypeOK'
    BY <2>1, <2>2, <2>3, <2>4
  <2>6. pc'[p] = "setup" /\ \A q \in Runs \ {p} : pc'[q] = pc[q] /\ conf'[q] = conf[q]
    BY <2>1
  <2>7. Sections'
    BY <2>1, <2>6
  <2> QED
    BY <2>5, <2>7
<1>4. CASE Setup(p)
  <2>3. /\ pc' = [pc EXCEPT ![p] = "plugins"] /\ saving[p] = "no"
        /\ UNCHANGED <<file, readable, keys, id, stale, fresh, several, last>>
    BY <1>4 DEF Setup
  <2>1. CASE Set(p, Defaults)
    <3>1. Defaults.plugins \in SUBSET Names
      BY DEF Defaults, Empty
    <3> QED
      BY <2>1, <2>3, <3>1, EmptyType DEF Set
  <2>2. CASE UNCHANGED <<conf, saving>>
    BY <2>2, <2>3
  <2> QED
    BY <1>4, <2>1, <2>2 DEF Setup
<1>5. CASE UseKey(p)
  <2>1. Active(p) \in Pairs \cup {None}
    BY <1>5 DEF UseKey, Active, Configurations
  <2> QED
    BY <1>5, <2>1 DEF UseKey
<1>6. CASE NoKey(p)
  BY <1>6 DEF NoKey
<1>7. CASE MakeKey(p)
  <2>1. [by |-> p, added |-> FALSE] \in Pairs
    BY DEF Pairs
  <2>2. several' \in BOOLEAN
    BY <1>7 DEF MakeKey
  <2> QED
    BY <1>7, <2>1, <2>2 DEF MakeKey
<1>8. CASE OpenKeys(p)
  BY <1>8 DEF OpenKeys
<1>9. CASE AppendKey(p)
  <2>1. NewPair(p) \in Pairs
    BY DEF NewPair, Pairs
  <2>2. keys # None
    BY <1>9 DEF AppendKey, KeysStored
  <2> QED
    BY <1>9, <2>1, <2>2 DEF AppendKey
<1>10. CASE Password(p)
  <2>1. CASE Set(p, [conf[p] EXCEPT !.password = TRUE])
    BY <1>10, <2>1 DEF Password, Set, Configurations
  <2>2. CASE UNCHANGED <<conf, saving>>
    BY <1>10, <2>2 DEF Password
  <2> QED
    BY <1>10, <2>1, <2>2 DEF Password
<1>11. CASE TorSettings(p)
  BY <1>11 DEF TorSettings, Set
<1>12. CASE Communicate(p)
  <2>1. /\ pc[p] = "tor" /\ saving[p] = "no" /\ pc' = [pc EXCEPT ![p] = "serve"]
        /\ fresh' \in SUBSET Runs
        /\ UNCHANGED <<file, readable, keys, id, stale, several, last>>
    BY <1>12 DEF Communicate, Seen
  <2>2. CASE Set(p, Defaults)
    <3>1. Defaults.plugins \in SUBSET Names
      BY DEF Defaults, Empty
    <3> QED
      BY <2>1, <2>2, <3>1, EmptyType DEF Set
  <2>3. CASE conf' = [conf EXCEPT ![p] = Reload(p)] /\ UNCHANGED saving
    <3>1. Reload(p) \in Configurations /\ Reload(p).plugins \in SUBSET Names
      BY <2>1, ReloadType
    <3> QED
      BY <2>1, <2>3, <3>1
  <2> QED
    BY <1>12, <2>2, <2>3 DEF Communicate
<1>13. CASE WebSet(p)
  <2>1. [conf[p] EXCEPT !.setting = p] \in Configurations
    BY DEF Configurations
  <2>2. [conf[p] EXCEPT !.setting = p].plugins \in SUBSET Names
    BY <1>13 DEF WebSet, Configurations
  <2> QED
    BY <1>13, <2>1, <2>2 DEF WebSet, Set
<1>14. CASE Configure(p)
  <2> DEFINE c == [Reload(p) EXCEPT !.setting = p]
  <2>1. Reload(p) \in Configurations /\ Reload(p).plugins \in SUBSET Names
    BY <1>14, ReloadType DEF Configure
  <2>2. c \in Configurations /\ c.plugins \in SUBSET Names
    BY <2>1 DEF Configurations
  <2>3. /\ pc' = [pc EXCEPT ![p] = "over"] /\ fresh' \in SUBSET Runs /\ Set(p, c)
        /\ UNCHANGED <<file, readable, keys, id, stale, several, last>>
    BY <1>14 DEF Configure, Seen
  <2> HIDE DEF c
  <2> QED
    BY <2>2, <2>3 DEF Set
<1>15. ASSUME NEW k \in Pairs, ChangeID(p, k) PROVE Sound
  <2> DEFINE c == [conf[p] EXCEPT !.publicKey = k]
  <2>1. c \in Configurations /\ c.plugins \in SUBSET Names
    BY <1>15 DEF ChangeID, Configurations
  <2>2. /\ pc' = [pc EXCEPT ![p] = "over"] /\ Set(p, c) /\ several' = TRUE
        /\ UNCHANGED <<file, readable, keys, id, fresh, stale, last>>
    BY <1>15 DEF ChangeID
  <2> HIDE DEF c
  <2> QED
    BY <2>1, <2>2 DEF Set
<1>16. CASE AddID(p)
  BY <1>16 DEF AddID
<1>17. CASE Leave(p)
  BY <1>17, EmptyType DEF Leave
<1>18. CASE PluginFrame(p)
  <2>1. /\ pc' \in [Runs -> Starting \cup First \cup Working \cup {"over", "gone"}]
        /\ UNCHANGED <<file, readable, keys, id, stale, fresh, several, last>>
    BY <1>18 DEF PluginFrame, PluginGoto, settings, PluginPlaces, Steps
  <2>2. CASE UNCHANGED <<conf, saving>>
    <3>1. \A q \in Runs : q # p => pc'[q] = pc[q]
      BY <1>18 DEF PluginFrame, PluginGoto
    <3>2. pc'[p] \in {"crypto", "over"} => conf[p].plugins \in SUBSET Names
      BY <1>18, <2>2 DEF PluginFrame
    <3>3. pc'[p] \in First \cup Working => pc[p] \in Working
      BY <1>18 DEF PluginFrame, PluginGoto, Steps
    <3> QED
      BY <2>1, <2>2, <3>1, <3>2, <3>3
  <2>3. ASSUME NEW S \in SUBSET Names, SetEnabled(p, S) PROVE Sound
    <3>1. [conf[p] EXCEPT !.plugins = S] \in Configurations
      BY DEF Configurations
    <3>2. [conf[p] EXCEPT !.plugins = S].plugins \in SUBSET Names
      BY DEF Configurations
    <3>3. \A q \in Runs : q # p => pc'[q] = pc[q]
      BY <1>18 DEF PluginFrame, PluginGoto
    <3> QED
      BY <2>1, <2>3, <3>1, <3>2, <3>3 DEF SetEnabled, Set
  <2> QED
    BY <1>18, <2>2, <2>3 DEF PluginFrame, Switch
<1> HIDE DEF Types, SettingsTypeOK, Sections, Goto
<1> QED
  BY <1>1, <1>2, <1>3, <1>4, <1>5, <1>6, <1>7, <1>8, <1>9, <1>10, <1>11, <1>12, <1>13,
     <1>14, <1>15, <1>16, <1>17, <1>18 DEF SettingsStep, Crash, End

-----------------------------------------------------------------------------
(* Keys. *)

\* A public key gets into a configuration with a file that is read, or with change-id.
LEMMA PublicKeySteps ==
  ASSUME Types, NEW p \in Runs, SettingsStep(p) \/ Crash(p) \/ PluginFrame(p)
  PROVE  /\ \A q \in Runs :
              \/ conf'[q].publicKey \in {None, conf[q].publicKey, file.publicKey}
              \/ \E k \in Pairs : ChangeID(q, k) /\ conf'[q].publicKey = k
         /\ file'.publicKey \in {file.publicKey, conf[p].publicKey}
<1> USE DEF Types, SettingsTypeOK, Configurations, config, history
<1> DEFINE Sound ==
             /\ \A q \in Runs :
                  \/ conf'[q].publicKey \in {None, conf[q].publicKey, file.publicKey}
                  \/ \E k \in Pairs : ChangeID(q, k) /\ conf'[q].publicKey = k
             /\ file'.publicKey \in {file.publicKey, conf[p].publicKey}
<1>1. ASSUME file' = file, conf' = conf PROVE Sound
  BY <1>1
<1>2. ASSUME file' = file, NEW c, conf' = [conf EXCEPT ![p] = c],
             c.publicKey \in {None, conf[p].publicKey, file.publicKey}
      PROVE  Sound
  <2>1. \A q \in Runs : conf'[q] = IF q = p THEN c ELSE conf[q]
    BY <1>2
  <2> QED
    BY <1>2, <2>1
<1>3. Defaults.publicKey = None /\ Empty.publicKey = None
  BY DEF Defaults, Empty
<1>4. Reload(p).publicKey \in {conf[p].publicKey, file.publicKey}
  BY DEF Reload
<1>5. CASE OpenConfig(p) \/ UseKey(p) \/ NoKey(p) \/ MakeKey(p) \/ OpenKeys(p) \/ AppendKey(p)
           \/ AddID(p)
  <2>1. file' = file /\ conf' = conf
    BY <1>5 DEF OpenConfig, UseKey, NoKey, MakeKey, OpenKeys, AppendKey, AddID
  <2> QED
    BY <1>1, <2>1
<1>6. CASE WriteConfig(p)
  BY <1>6 DEF WriteConfig
<1>7. CASE Load(p)
  BY <1>2, <1>4, <1>7 DEF Load
<1>8. CASE Setup(p)
  <2>1. file' = file /\ (conf' = conf \/ conf' = [conf EXCEPT ![p] = Defaults])
    BY <1>8 DEF Setup, Set
  <2> QED
    BY <1>1, <1>2, <1>3, <2>1
<1>9. CASE Password(p)
  <2>1. /\ file' = file
        /\ conf' = conf \/ conf' = [conf EXCEPT ![p] = [conf[p] EXCEPT !.password = TRUE]]
    BY <1>9 DEF Password, Set
  <2>2. [conf[p] EXCEPT !.password = TRUE].publicKey = conf[p].publicKey
    OBVIOUS
  <2> QED
    BY <1>1, <1>2, <2>1, <2>2
<1>10. CASE TorSettings(p)
  BY <1>2, <1>10 DEF TorSettings, Set
<1>11. CASE Communicate(p)
  <2>1. /\ file' = file
        /\ \/ conf' = [conf EXCEPT ![p] = Defaults]
           \/ conf' = [conf EXCEPT ![p] = Reload(p)]
    BY <1>11 DEF Communicate, Set
  <2> QED
    BY <1>2, <1>3, <1>4, <2>1
<1>12. CASE WebSet(p)
  <2>1. [conf[p] EXCEPT !.setting = p].publicKey = conf[p].publicKey
    OBVIOUS
  <2>2. file' = file /\ conf' = [conf EXCEPT ![p] = [conf[p] EXCEPT !.setting = p]]
    BY <1>12 DEF WebSet, Set
  <2> QED
    BY <1>2, <2>1, <2>2
<1>13. CASE Configure(p)
  <2>1. [Reload(p) EXCEPT !.setting = p].publicKey = Reload(p).publicKey
    BY DEF Reload
  <2>2. file' = file /\ conf' = [conf EXCEPT ![p] = [Reload(p) EXCEPT !.setting = p]]
    BY <1>13 DEF Configure, Set
  <2> QED
    BY <1>2, <1>4, <2>1, <2>2
<1>14. ASSUME NEW k \in Pairs, ChangeID(p, k) PROVE Sound
  <2>1. [conf[p] EXCEPT !.publicKey = k].publicKey = k
    OBVIOUS
  <2>2. file' = file /\ conf' = [conf EXCEPT ![p] = [conf[p] EXCEPT !.publicKey = k]]
    BY <1>14 DEF ChangeID, Set
  <2>3. \A q \in Runs : q # p => conf'[q] = conf[q]
    BY <2>2
  <2>4. conf'[p].publicKey = k
    BY <2>1, <2>2
  <2> QED
    BY <1>14, <2>2, <2>3, <2>4
<1>15. CASE Leave(p)
  BY <1>2, <1>3, <1>15 DEF Leave
<1>16. CASE PluginFrame(p)
  <2>1. file' = file
    BY <1>16 DEF PluginFrame, settings
  <2>2. ASSUME NEW S, SetEnabled(p, S) PROVE Sound
    <3>1. [conf[p] EXCEPT !.plugins = S].publicKey = conf[p].publicKey
      OBVIOUS
    <3> QED
      BY <1>2, <2>1, <2>2, <3>1 DEF SetEnabled, Set
  <2> QED
    BY <1>1, <1>16, <2>1, <2>2 DEF PluginFrame, Switch
<1> HIDE DEF Types
<1> QED
  BY <1>5, <1>6, <1>7, <1>8, <1>9, <1>10, <1>11, <1>12, <1>13, <1>14, <1>15, <1>16
     DEF SettingsStep, Crash, End

\* A step that leaves the identities and the keys alone.
Quiet(p) ==
  /\ keys' = keys /\ id' = id /\ (several => several')
  /\ \A q \in Runs : q # p => pc'[q] = pc[q]
  /\ \/ pc'[p] = pc[p]
     \/ /\ pc[p] \notin First /\ pc'[p] \notin First
        /\ pc'[p] \in Working => pc[p] \in Working

\* The steps that matter to the identities and the keys.
LEMMA KeySteps ==
  ASSUME Types, NEW p \in Runs, SettingsStep(p) \/ Crash(p) \/ PluginFrame(p)
  PROVE  \/ UseKey(p) \/ MakeKey(p) \/ OpenKeys(p) \/ AppendKey(p) \/ Leave(p)
         \/ Quiet(p)
<1> USE DEF Quiet, First, Working, Steps, config, history, Goto
<1>1. pc \in [Runs -> Starting \cup First \cup Working \cup {"over", "gone"}]
  BY DEF Types, SettingsTypeOK
<1>2. CASE OpenConfig(p) \/ WriteConfig(p)
  BY <1>1, <1>2 DEF OpenConfig, WriteConfig
<1>3. CASE Load(p) \/ Setup(p) \/ NoKey(p)
  BY <1>1, <1>3 DEF Load, Setup, NoKey
<1>4. CASE Password(p) \/ TorSettings(p) \/ Communicate(p) \/ Configure(p) \/ AddID(p)
  BY <1>1, <1>4 DEF Password, TorSettings, Communicate, Configure, AddID
<1>5. CASE WebSet(p)
  BY <1>1, <1>5 DEF WebSet
<1>6. ASSUME NEW k \in Pairs, ChangeID(p, k) PROVE Quiet(p)
  BY <1>1, <1>6 DEF ChangeID
<1>7. CASE PluginFrame(p)
  <2>1. keys' = keys /\ id' = id /\ several' = several
    BY <1>7 DEF PluginFrame, settings
  <2>2. CASE pc[p] \in {"plugins", "copy", "enable"}
    BY <1>1, <1>7, <2>1, <2>2 DEF PluginFrame, PluginGoto
  <2>3. CASE pc[p] \in {"command", "serve"} \cup Steps
    BY <1>1, <1>7, <2>1, <2>3 DEF PluginFrame, PluginGoto, PluginPlaces
  <2> QED
    BY <1>7, <2>2, <2>3 DEF PluginFrame, PluginGoto
<1> HIDE DEF Quiet, Goto
<1> QED
  BY <1>2, <1>3, <1>4, <1>5, <1>6, <1>7 DEF SettingsStep, Crash, End

\* Appending keeps what is in a sequence, and its head if there is one.
LEMMA Appended ==
  ASSUME NEW S, NEW s \in Seq(S), NEW x \in S
  PROVE  /\ Append(s, x) \in Seq(S) /\ Append(s, x) # <<>>
         /\ ToSet(s) \subseteq ToSet(Append(s, x)) /\ x \in ToSet(Append(s, x))
         /\ s # <<>> => Head(Append(s, x)) = Head(s)
         /\ s = <<>> => Head(Append(s, x)) = x
<1>1. /\ Append(s, x) \in Seq(S) /\ Len(Append(s, x)) = Len(s) + 1 /\ Len(s) \in Nat
      /\ \A i \in 1..Len(s) : Append(s, x)[i] = s[i]
      /\ Append(s, x)[Len(s) + 1] = x
  BY AppendProperties, LenProperties
<1>2. /\ DOMAIN s = 1..Len(s) /\ DOMAIN Append(s, x) = 1..(Len(s) + 1)
  BY <1>1, LenProperties
<1>3. ToSet(s) \subseteq ToSet(Append(s, x)) /\ x \in ToSet(Append(s, x))
  BY <1>1, <1>2 DEF ToSet
<1>4. Append(s, x) # <<>>
  BY <1>1, EmptySeq
<1>5. s # <<>> => Len(s) > 0
  BY <1>1, EmptySeq
<1>6. Head(Append(s, x)) = Append(s, x)[1] /\ Head(s) = s[1]
  OBVIOUS
<1>7. s = <<>> => Len(s) = 0
  BY EmptySeq
<1> QED
  BY <1>1, <1>3, <1>4, <1>5, <1>6, <1>7

\* The head of a sequence is in it.
LEMMA HeadIsIn ==
  ASSUME NEW S, NEW s \in Seq(S), s # <<>>
  PROVE  Head(s) \in ToSet(s)
<1>1. Len(s) \in Nat /\ Len(s) # 0 /\ DOMAIN s = 1..Len(s)
  BY LenProperties, EmptySeq
<1>2. 1 \in DOMAIN s /\ Head(s) = s[1]
  BY <1>1
<1> QED
  BY <1>2 DEF ToSet

\* The file of key pairs only grows, and its first pair stays.
LEMMA KeysGrow ==
  ASSUME Types, KeysStored, NEW p \in Runs, SettingsStep(p) \/ Crash(p) \/ PluginFrame(p)
  PROVE  keys # None => /\ keys' \in Seq(Pairs) /\ keys' # None
                        /\ ToSet(keys) \subseteq ToSet(keys')
                        /\ keys # <<>> => keys' # <<>> /\ Head(keys') = Head(keys)
<1>1. keys # None => keys \in Seq(Pairs)
  BY DEF Types, SettingsTypeOK
<1>2. CASE keys' = keys
  BY <1>1, <1>2
<1>3. CASE OpenKeys(p)
  BY <1>2, <1>3, <1>1 DEF OpenKeys
<1>4. CASE AppendKey(p)
  <2>1. NewPair(p) \in Pairs
    BY DEF NewPair, Pairs
  <2>2. keys' = Append(keys, NewPair(p))
    BY <1>4 DEF AppendKey
  <2> QED
    BY <1>1, <2>1, <2>2, Appended, SettingsConstants
<1> QED
  BY <1>2, <1>3, <1>4, KeySteps DEF UseKey, MakeKey, Leave, Quiet

\* A step keeps what is stored, also what it puts elsewhere.
StoredNext(k) == k # None => keys' \in Seq(Pairs) /\ k \in ToSet(keys')

LEMMA StoredStays ==
  ASSUME Types, KeysStored, NEW p \in Runs, SettingsStep(p) \/ Crash(p) \/ PluginFrame(p)
  PROVE  /\ \A k \in Pairs \cup {None} : Stored(k) => StoredNext(k)
         /\ StoredNext(file'.publicKey)
         /\ \A q \in Runs : StoredNext(conf'[q].publicKey)
<1>1. \A k \in Pairs \cup {None} : Stored(k) => StoredNext(k)
  BY KeysGrow, SettingsConstants DEF Stored, StoredNext
<1>2. /\ file.publicKey \in Pairs \cup {None} /\ Stored(file.publicKey)
      /\ \A q \in Runs : conf[q].publicKey \in Pairs \cup {None} /\ Stored(conf[q].publicKey)
  BY DEF KeysStored, Types, SettingsTypeOK, Configurations
<1>3. StoredNext(file'.publicKey)
  BY <1>1, <1>2, PublicKeySteps
<1>4. ASSUME NEW q \in Runs PROVE StoredNext(conf'[q].publicKey)
  <2>1. CASE conf'[q].publicKey \in {None, conf[q].publicKey, file.publicKey}
    BY <1>1, <1>2, <2>1 DEF StoredNext
  <2>2. ASSUME NEW k \in Pairs, ChangeID(q, k), conf'[q].publicKey = k
        PROVE  StoredNext(k)
    <3>1. Stored(k)
      BY <2>2 DEF ChangeID, Stored, Types, SettingsTypeOK
    <3> QED
      BY <1>1, <3>1
  <2> QED
    BY <2>1, <2>2, PublicKeySteps
<1> QED
  BY <1>1, <1>3, <1>4

\* Every step keeps the identities stored.
LEMMA KeysStoredKept ==
  ASSUME Types, KeysStored, NEW p \in Runs, SettingsStep(p) \/ Crash(p) \/ PluginFrame(p)
  PROVE  KeysStored'
<1>1. /\ pc \in [Runs -> Starting \cup First \cup Working \cup {"over", "gone"}]
      /\ id \in [Runs -> Pairs \cup {None}]
      /\ keys # None => keys \in Seq(Pairs)
  BY DEF Types, SettingsTypeOK
<1>2. /\ \A k \in Pairs \cup {None} : Stored(k) => StoredNext(k)
      /\ StoredNext(file'.publicKey)
      /\ \A q \in Runs : StoredNext(conf'[q].publicKey)
  BY StoredStays
<1>3. ASSUME NEW q \in Runs, q # p, pc'[q] = pc[q], id'[q] = id[q]
      PROVE  /\ pc'[q] \in First => id'[q] = [by |-> q, added |-> FALSE]
             /\ pc'[q] \notin First => StoredNext(id'[q])
             /\ pc'[q] \in Working => keys' # None /\ keys' # <<>>
             /\ pc'[q] = "appendFirst" => keys' # None
  BY <1>1, <1>2, <1>3, KeysGrow DEF KeysStored
<1>4. \A q \in Runs : q # p => pc'[q] = pc[q] /\ id'[q] = id[q]
  BY <1>1, KeySteps DEF UseKey, MakeKey, OpenKeys, AppendKey, Leave, Quiet, Goto
<1>5. /\ pc'[p] \in First => id'[p] = [by |-> p, added |-> FALSE]
      /\ pc'[p] \notin First => StoredNext(id'[p])
      /\ pc'[p] \in Working => keys' # None /\ keys' # <<>>
      /\ pc'[p] = "appendFirst" => keys' # None
  <2> USE DEF First, Working, Steps, Goto
  <2>1. CASE UseKey(p)
    <3>1. keys' = keys /\ pc'[p] = "password" /\ keys # None /\ keys # <<>> /\ id'[p] = Active(p)
      BY <1>1, <2>1 DEF UseKey
    <3>2. Active(p) \in ToSet(keys)
      BY <1>1, <3>1, HeadIsIn DEF Active, KeysStored, Stored
    <3> QED
      BY <1>1, <3>1, <3>2 DEF StoredNext
  <2>2. CASE MakeKey(p)
    BY <1>1, <2>2 DEF MakeKey
  <2>3. CASE OpenKeys(p)
    <3>1. CASE pc[p] = "addFirst"
      BY <1>1, <2>3, <3>1, SettingsConstants, EmptySeq DEF OpenKeys, KeysStored
    <3>2. CASE pc[p] = "addID"
      <4>1. keys' = keys /\ pc'[p] = "appendID" /\ id'[p] = id[p]
        BY <1>1, <2>3, <3>2 DEF OpenKeys, KeysStored
      <4> QED
        BY <1>1, <1>2, <3>2, <4>1 DEF KeysStored
    <3> QED
      BY <2>3, <3>1, <3>2 DEF OpenKeys
  <2>4. CASE AppendKey(p)
    <3>1. keys # None /\ NewPair(p) \in Pairs
      BY <2>4 DEF AppendKey, KeysStored, NewPair, Pairs
    <3>2. keys' = Append(keys, NewPair(p)) /\ id'[p] = id[p]
      BY <2>4 DEF AppendKey
    <3>3. keys' \in Seq(Pairs) /\ keys' # <<>> /\ keys' # None /\ NewPair(p) \in ToSet(keys')
      BY <1>1, <3>1, <3>2, Appended, SettingsConstants
    <3>4. CASE pc[p] = "appendFirst"
      <4>1. NewPair(p) = [by |-> p, added |-> FALSE] /\ id[p] = [by |-> p, added |-> FALSE]
        BY <3>4 DEF NewPair, KeysStored
      <4> QED
        BY <1>1, <2>4, <3>2, <3>3, <3>4, <4>1 DEF AppendKey, StoredNext
    <3>5. CASE pc[p] = "appendID"
      <4>1. pc'[p] = "over"
        BY <1>1, <2>4, <3>5 DEF AppendKey
      <4>2. Stored(id[p])
        BY <3>5 DEF KeysStored
      <4> QED
        BY <1>1, <1>2, <3>2, <4>1, <4>2
    <3> QED
      BY <2>4, <3>4, <3>5 DEF AppendKey
  <2>5. CASE Leave(p)
    BY <1>1, <2>5 DEF Leave, StoredNext
  <2>6. CASE Quiet(p)
    <3>1. keys' = keys /\ id' = id
      BY <2>6 DEF Quiet
    <3>2. CASE pc'[p] = pc[p]
      BY <1>1, <1>2, <3>1, <3>2 DEF KeysStored
    <3>3. CASE /\ pc[p] \notin First /\ pc'[p] \notin First
               /\ pc'[p] \in Working => pc[p] \in Working
      BY <1>1, <1>2, <3>1, <3>3 DEF KeysStored
    <3> QED
      BY <2>6, <3>2, <3>3 DEF Quiet
  <2> QED
    BY <2>1, <2>2, <2>3, <2>4, <2>5, <2>6, KeySteps
<1> QED
  BY <1>2, <1>3, <1>4, <1>5 DEF KeysStored, Stored, StoredNext

\* Every step that does not change the identity keeps it one.
LEMMA OneIdentityKept ==
  ASSUME Types, KeysStored, OneIdentity, NEW p \in Runs,
         SettingsStep(p) \/ Crash(p) \/ PluginFrame(p)
  PROVE  OneIdentity'
<1> SUFFICES ASSUME ~several' PROVE OneIdentity'
  BY DEF OneIdentity
<1>1. /\ pc \in [Runs -> Starting \cup First \cup Working \cup {"over", "gone"}]
      /\ id \in [Runs -> Pairs \cup {None}]
      /\ keys # None => keys \in Seq(Pairs)
  BY DEF Types, SettingsTypeOK
<1>2. ~several
  BY KeySteps DEF UseKey, MakeKey, OpenKeys, AppendKey, Leave, Quiet, history
<1>3. file.publicKey = None /\ \A q \in Runs : conf[q].publicKey = None
  BY <1>2 DEF OneIdentity
<1>4. \A q \in Runs, k \in Pairs : ~ChangeID(q, k)
  BY DEF ChangeID
<1>5. file'.publicKey = None /\ \A q \in Runs : conf'[q].publicKey = None
  BY <1>3, <1>4, PublicKeySteps
<1>6. \A q \in Runs : q # p => pc'[q] = pc[q] /\ id'[q] = id[q]
  BY <1>1, KeySteps DEF UseKey, MakeKey, OpenKeys, AppendKey, Leave, Quiet, Goto
<1> DEFINE Same(q) ==
             /\ pc'[q] \in First => \A r \in Runs : pc'[r] \in First => r = q
             /\ pc'[q] = "addFirst" => keys' = None
             /\ pc'[q] = "appendFirst" => keys' = <<>>
             /\ pc'[q] \notin First /\ id'[q] # None => keys' # <<>> /\ id'[q] = Head(keys')
<1>7. ASSUME NEW q \in Runs PROVE Same(q)
  <2> USE DEF First, Working, Steps, Goto
  <2>1. CASE UseKey(p)
    <3>1. keys' = keys /\ pc'[p] = "password" /\ keys # None /\ keys # <<>> /\ id'[p] = Active(p)
      BY <1>1, <2>1 DEF UseKey
    <3>2. Active(p) = Head(keys)
      BY <1>3 DEF Active
    <3> QED
      BY <1>1, <1>2, <1>6, <3>1, <3>2 DEF OneIdentity
  <2>2. CASE MakeKey(p)
    <3>1. /\ keys = None /\ keys' = None /\ pc'[p] = "addFirst"
          /\ \A r \in Runs : pc[r] # "addFirst"
      BY <1>1, <2>2 DEF MakeKey
    <3>2. \A r \in Runs : pc[r] # "appendFirst"
      BY <3>1 DEF KeysStored
    <3>3. q # p /\ pc[q] \notin First => id[q] = None
      BY <1>1, <3>1, SettingsConstants DEF KeysStored, Stored
    <3> QED
      BY <1>1, <1>6, <3>1, <3>2, <3>3
  <2>3. CASE OpenKeys(p)
    <3>1. CASE pc[p] = "addFirst"
      <4>1. keys = None /\ keys' = <<>> /\ pc'[p] = "appendFirst" /\ id' = id
        BY <1>1, <1>2, <2>3, <3>1 DEF OpenKeys, OneIdentity
      <4>2. \A r \in Runs : r # p => pc[r] \notin First
        BY <1>2, <3>1 DEF OneIdentity
      <4>3. q # p => id[q] = None
        BY <1>1, <4>1, <4>2, SettingsConstants DEF KeysStored, Stored
      <4> QED
        BY <1>1, <1>6, <4>1, <4>2, <4>3
    <3>2. CASE pc[p] = "addID"
      <4>1. keys' = keys /\ pc'[p] = "appendID" /\ id' = id
        BY <1>1, <2>3, <3>2 DEF OpenKeys, KeysStored
      <4> QED
        BY <1>1, <1>2, <1>6, <3>2, <4>1 DEF OneIdentity
    <3> QED
      BY <2>3, <3>1, <3>2 DEF OpenKeys
  <2>4. CASE AppendKey(p)
    <3>1. keys # None /\ NewPair(p) \in Pairs
      BY <2>4 DEF AppendKey, KeysStored, NewPair, Pairs
    <3>2. keys' = Append(keys, NewPair(p)) /\ id' = id
      BY <2>4 DEF AppendKey
    <3>3. /\ keys' # <<>>
          /\ keys # <<>> => Head(keys') = Head(keys)
          /\ keys = <<>> => Head(keys') = NewPair(p)
      BY <1>1, <3>1, <3>2, Appended
    <3>4. CASE pc[p] = "appendFirst"
      <4>1. NewPair(p) = [by |-> p, added |-> FALSE] /\ id[p] = [by |-> p, added |-> FALSE]
        BY <3>4 DEF NewPair, KeysStored
      <4>2. keys = <<>> /\ pc'[p] = "password"
        BY <1>1, <1>2, <2>4, <3>4 DEF AppendKey, OneIdentity
      <4>3. \A r \in Runs : r # p => pc[r] \notin First /\ id[r] = None
        BY <1>1, <1>2, <3>4, <4>2 DEF OneIdentity
      <4> QED
        BY <1>1, <1>6, <3>2, <3>3, <4>1, <4>2, <4>3
    <3>5. CASE pc[p] = "appendID"
      <4>1. pc'[p] = "over" /\ keys # <<>>
        BY <1>1, <2>4, <3>5 DEF AppendKey, KeysStored
      <4>2. \A r \in Runs : pc[r] \notin First
        BY <1>2, <3>1, <4>1 DEF OneIdentity
      <4> QED
        BY <1>1, <1>2, <1>6, <3>2, <3>3, <3>5, <4>1, <4>2 DEF OneIdentity
    <3> QED
      BY <2>4, <3>4, <3>5 DEF AppendKey
  <2>5. CASE Leave(p)
    BY <1>1, <1>2, <1>6, <2>5 DEF Leave, OneIdentity
  <2>6. CASE Quiet(p)
    BY <1>1, <1>2, <1>6, <2>6 DEF Quiet, OneIdentity
  <2> QED
    BY <2>1, <2>2, <2>3, <2>4, <2>5, <2>6, KeySteps
<1> QED
  BY <1>5, <1>7 DEF OneIdentity

-----------------------------------------------------------------------------
(* Settings. *)

\* Every step keeps what is known of the file and of the copies.
LEMMA CopiesKept ==
  ASSUME Types, Copies, NEW p \in Runs, SettingsStep(p) \/ Crash(p) \/ PluginFrame(p)
  PROVE  Copies'
<1> USE DEF Copies, Types, SettingsTypeOK, Configurations, config, history, Goto
<1>1. CASE OpenConfig(p)
  BY <1>1 DEF OpenConfig
<1>2. CASE WriteConfig(p)
  <2>1. /\ saving' = [saving EXCEPT ![p] = "no"] /\ file' = conf[p] /\ readable' # "missing"
        /\ pc' = pc /\ conf' = conf
    BY <1>2 DEF WriteConfig
  <2>2. ASSUME ~stale'
        PROVE  /\ ~stale /\ p \in fresh /\ fresh' = {p}
               /\ last' = IF conf[p].setting = p THEN p ELSE last
    BY <1>2, <2>2 DEF WriteConfig
  <2> QED
    BY <2>1, <2>2
<1>3. CASE Load(p)
  <2>1. /\ pc[p] = "new" /\ pc' = [pc EXCEPT ![p] = "setup"] /\ saving' = saving
        /\ conf' = [conf EXCEPT ![p] = Reload(p)] /\ UNCHANGED <<file, readable>>
    BY <1>3 DEF Load
  <2>2. ASSUME ~stale'
        PROVE  /\ ~stale /\ readable \in {"whole", "missing"} /\ last' = last
               /\ fresh' = fresh \cup {p}
    BY <1>3, <2>2 DEF Load, Seen
  <2>3. readable = "missing" => last' = None
    BY <1>3 DEF Load
  <2>4. readable \in {"whole", "missing"} => Reload(p) = file
    BY <2>1 DEF Reload
  <2>5. ASSUME ~stale', NEW q \in fresh'
        PROVE  /\ conf'[q].setting \in {last', q}
               /\ saving'[q] = "no" => conf'[q] = file'
    <3>1. CASE q = p
      BY <2>1, <2>2, <2>4, <2>5, <3>1
    <3>2. CASE q # p
      BY <2>1, <2>2, <2>5, <3>2
    <3> QED
      BY <3>1, <3>2
  <2> QED
    BY <2>1, <2>2, <2>3, <2>5
<1>4. ASSUME NEW c, Set(p, c), pc'[p] # "new", \A q \in Runs : q # p => pc'[q] = pc[q],
             UNCHANGED <<file, readable, stale, last>>,
             ~stale => fresh' \subseteq fresh \cup {p} /\ (p \in fresh' => c.setting \in {last, p})
      PROVE  Copies'
  <2>1. conf' = [conf EXCEPT ![p] = c] /\ saving' = [saving EXCEPT ![p] = "due"]
    BY <1>4 DEF Set
  <2>2. ASSUME ~stale, NEW q \in fresh'
        PROVE  /\ conf'[q].setting \in {last, q}
               /\ saving'[q] = "no" => conf'[q] = file
    BY <1>4, <2>1, <2>2
  <2> QED
    BY <1>4, <2>1, <2>2
<1>5. ASSUME UNCHANGED <<conf, saving, file, readable, stale, last>>, fresh' = fresh,
             pc'[p] # "new" \/ pc' = pc, \A q \in Runs : q # p => pc'[q] = pc[q],
             pc[p] \in {"new", "setup", "gone"} => pc' = pc \/ readable # "missing"
      PROVE  Copies'
  BY <1>5
<1>6. Defaults.setting = None
  BY DEF Defaults, Empty
<1>7. CASE Setup(p)
  BY <1>4, <1>5, <1>6, <1>7 DEF Setup
<1>8. CASE UseKey(p) \/ NoKey(p) \/ MakeKey(p) \/ OpenKeys(p) \/ AppendKey(p) \/ AddID(p)
  BY <1>5, <1>8 DEF UseKey, NoKey, MakeKey, OpenKeys, AppendKey, AddID
<1>9. CASE Password(p)
  BY <1>4, <1>5, <1>9 DEF Password
<1>10. CASE TorSettings(p)
  BY <1>4, <1>10 DEF TorSettings
<1>11. CASE Communicate(p)
  <2>1. /\ pc'[p] = "serve" /\ \A q \in Runs : q # p => pc'[q] = pc[q]
        /\ UNCHANGED <<file, readable, stale, last>> /\ fresh' = Seen(p) /\ saving[p] = "no"
    BY <1>11 DEF Communicate
  <2>2. CASE readable = "missing" /\ Set(p, Defaults)
    BY <1>4, <1>6, <2>1, <2>2 DEF Seen
  <2>3. CASE readable # "missing" /\ conf' = [conf EXCEPT ![p] = Reload(p)] /\ UNCHANGED saving
    <3>1. CASE readable = "whole"
      <4>1. Reload(p) = file
        BY <3>1 DEF Reload
      <4> QED
        BY <2>1, <2>3, <3>1, <4>1 DEF Seen
    <3>2. CASE readable # "whole"
      BY <2>1, <2>3, <3>2 DEF Reload, Seen
    <3> QED
      BY <3>1, <3>2
  <2> QED
    BY <1>11, <2>2, <2>3 DEF Communicate
<1>12. CASE WebSet(p)
  BY <1>4, <1>12 DEF WebSet
<1>13. CASE Configure(p)
  <2>1. [Reload(p) EXCEPT !.setting = p].setting = p
    BY DEF Reload
  <2> QED
    BY <1>4, <1>13, <2>1 DEF Configure, Seen
<1>14. ASSUME NEW k \in Pairs, ChangeID(p, k) PROVE Copies'
  BY <1>4, <1>14 DEF ChangeID
<1>15. CASE Leave(p)
  BY <1>15 DEF Leave
<1>16. CASE PluginFrame(p)
  <2>1. /\ pc'[p] # "new" /\ \A q \in Runs : q # p => pc'[q] = pc[q]
        /\ UNCHANGED <<file, readable, stale, last, fresh>>
        /\ pc[p] \notin {"new", "setup", "gone"}
    BY <1>16 DEF PluginFrame, PluginGoto, PluginPlaces, Steps, settings
  <2>2. ASSUME NEW S \in SUBSET Names, SetEnabled(p, S) PROVE Copies'
    <3>1. [conf[p] EXCEPT !.plugins = S].setting = conf[p].setting
      OBVIOUS
    <3> QED
      BY <1>4, <2>1, <2>2, <3>1 DEF SetEnabled
  <2> QED
    BY <1>5, <1>16, <2>1, <2>2 DEF PluginFrame, Switch
<1> HIDE DEF Types, Copies, Goto
<1> QED
  BY <1>1, <1>2, <1>3, <1>7, <1>8, <1>9, <1>10, <1>11, <1>12, <1>13, <1>14, <1>15, <1>16
     DEF SettingsStep, Crash, End

-----------------------------------------------------------------------------
(* Plugins. *)

\* A list of plugins that is empty, or in the file or a copy already.
Known(S) == S \in {None, {}, file.plugins} \/ \E q \in fresh : S = conf[q].plugins

\* Where the list of enabled plugins that a step leaves is from, until stale.
LEMMA ListSteps ==
  ASSUME Types, Copies, NEW p \in Runs, SettingsStep(p) \/ Crash(p), ~stale'
  PROVE  ~stale /\ Known(file'.plugins) /\ \A q \in fresh' : Known(conf'[q].plugins)
<1> USE DEF Types, SettingsTypeOK, Configurations, config, history, Goto
<1> DEFINE Sound == ~stale /\ Known(file'.plugins) /\ \A q \in fresh' : Known(conf'[q].plugins)
<1>1. ASSUME ~stale, file' = file, conf' = conf, fresh' \subseteq fresh PROVE Sound
  BY <1>1 DEF Known
<1>2. ASSUME ~stale, file' = file, NEW c, conf' = [conf EXCEPT ![p] = c],
             fresh' \subseteq fresh \cup {p}, p \in fresh' => Known(c.plugins)
      PROVE  Sound
  <2>1. \A q \in Runs : conf'[q] = IF q = p THEN c ELSE conf[q]
    BY <1>2
  <2>2. \A q \in fresh : Known(conf[q].plugins)
    BY DEF Known
  <2>3. Known(file.plugins)
    BY DEF Known
  <2> HIDE DEF Types
  <2>4. fresh \subseteq Runs /\ p \in Runs
    BY DEF Types
  <2> QED
    BY <1>2, <2>1, <2>2, <2>3, <2>4
<1>3. Known(Defaults.plugins) /\ Known(Empty.plugins) /\ Known(file.plugins)
  BY DEF Defaults, Empty, Known
<1>4. p \in fresh => Known(conf[p].plugins)
  BY DEF Known
<1>5. readable \in {"whole", "missing"} /\ pc[p] = "new" => Reload(p) = file
  BY DEF Reload, Copies
<1>6. CASE OpenConfig(p) \/ UseKey(p) \/ NoKey(p) \/ MakeKey(p) \/ OpenKeys(p) \/ AppendKey(p)
           \/ AddID(p)
  <2>1. file' = file /\ conf' = conf /\ stale' = stale /\ fresh' = fresh
    BY <1>6 DEF OpenConfig, UseKey, NoKey, MakeKey, OpenKeys, AppendKey, AddID
  <2> QED
    BY <1>1, <2>1
<1>7. CASE WriteConfig(p)
  <2>1. ~stale /\ p \in fresh /\ file' = conf[p] /\ conf' = conf /\ fresh' = {p}
    BY <1>7 DEF WriteConfig
  <2> QED
    BY <1>4, <2>1
<1>8. CASE Load(p)
  <2>1. /\ ~stale /\ readable \in {"whole", "missing"} /\ fresh' = fresh \cup {p}
        /\ pc[p] = "new" /\ file' = file /\ conf' = [conf EXCEPT ![p] = Reload(p)]
    BY <1>8 DEF Load, Seen
  <2> QED
    BY <1>2, <1>3, <1>5, <2>1
<1>9. CASE Setup(p)
  <2>1. /\ file' = file /\ (conf' = conf \/ conf' = [conf EXCEPT ![p] = Defaults])
        /\ stale' = stale /\ fresh' = fresh
    BY <1>9 DEF Setup, Set
  <2> QED
    BY <1>1, <1>2, <1>3, <2>1
<1>10. CASE Password(p)
  <2>1. /\ file' = file /\ stale' = stale /\ fresh' = fresh
        /\ conf' = conf \/ conf' = [conf EXCEPT ![p] = [conf[p] EXCEPT !.password = TRUE]]
    BY <1>10 DEF Password, Set
  <2>2. [conf[p] EXCEPT !.password = TRUE].plugins = conf[p].plugins
    OBVIOUS
  <2> QED
    BY <1>1, <1>2, <1>4, <2>1, <2>2
<1>11. CASE TorSettings(p)
  <2>1. /\ file' = file /\ stale' = stale /\ fresh' = fresh
        /\ conf' = [conf EXCEPT ![p] = conf[p]]
    BY <1>11 DEF TorSettings, Set
  <2> QED
    BY <1>2, <1>4, <2>1
<1>12. CASE Communicate(p)
  <2>1. /\ file' = file /\ stale' = stale /\ saving[p] = "no" /\ pc[p] = "tor"
        /\ fresh' = Seen(p)
        /\ \/ conf' = [conf EXCEPT ![p] = Defaults]
           \/ readable # "missing" /\ conf' = [conf EXCEPT ![p] = Reload(p)]
    BY <1>12 DEF Communicate, Set
  <2>2. fresh' \subseteq fresh \cup {p}
    BY <2>1 DEF Seen
  <2>3. readable # "missing" /\ p \in fresh' => Known(Reload(p).plugins)
    BY <1>3, <1>4, <2>1 DEF Reload, Seen
  <2> QED
    BY <1>2, <1>3, <2>1, <2>2, <2>3
<1>13. CASE WebSet(p)
  <2>1. [conf[p] EXCEPT !.setting = p].plugins = conf[p].plugins
    OBVIOUS
  <2>2. /\ file' = file /\ conf' = [conf EXCEPT ![p] = [conf[p] EXCEPT !.setting = p]]
        /\ stale' = stale /\ fresh' = fresh
    BY <1>13 DEF WebSet, Set
  <2> QED
    BY <1>2, <1>4, <2>1, <2>2
<1>14. CASE Configure(p)
  <2>1. [Reload(p) EXCEPT !.setting = p].plugins = Reload(p).plugins
    BY DEF Reload
  <2>2. /\ file' = file /\ conf' = [conf EXCEPT ![p] = [Reload(p) EXCEPT !.setting = p]]
        /\ stale' = stale /\ fresh' = Seen(p) /\ pc[p] = "command" /\ saving[p] = "no"
    BY <1>14 DEF Configure, Set
  <2>3. readable # "missing"
    BY <2>2 DEF Copies
  <2>4. p \in fresh' => Known(Reload(p).plugins)
    BY <1>3, <1>4, <2>2, <2>3 DEF Reload, Seen
  <2>5. fresh' \subseteq fresh \cup {p}
    BY <2>2 DEF Seen
  <2> QED
    BY <1>2, <2>1, <2>2, <2>4, <2>5
<1>15. ASSUME NEW k \in Pairs, ChangeID(p, k) PROVE Sound
  <2>1. [conf[p] EXCEPT !.publicKey = k].plugins = conf[p].plugins
    OBVIOUS
  <2>2. /\ file' = file /\ conf' = [conf EXCEPT ![p] = [conf[p] EXCEPT !.publicKey = k]]
        /\ stale' = stale /\ fresh' = fresh
    BY <1>15 DEF ChangeID, Set
  <2> QED
    BY <1>2, <1>4, <2>1, <2>2
<1>16. CASE Leave(p)
  <2>1. /\ file' = file /\ conf' = [conf EXCEPT ![p] = Empty]
        /\ stale' = stale /\ fresh' \subseteq fresh
    BY <1>16 DEF Leave
  <2> QED
    BY <1>2, <1>3, <2>1
<1> HIDE DEF Types, Goto
<1> QED
  BY <1>6, <1>7, <1>8, <1>9, <1>10, <1>11, <1>12, <1>13, <1>14, <1>15, <1>16
     DEF SettingsStep, Crash, End

\* The steps that leave the jobs alone: all but those of the commands that install and remove.
Aside(p) ==
  /\ job' = job /\ (half => half') /\ crossed' = crossed
  /\ keystore'.plugins = keystore.plugins
  /\ \A x \in Names : code[x] # None => code'[x] # None
  /\ ~half' => (archive' = archive \/ Changers = {})
  /\ \A q \in Runs : q # p => pc'[q] = pc[q] /\ conf'[q] = conf[q]
  /\ \/ pc'[p] = pc[p]
     \/ pc[p] \notin Steps /\ pc'[p] \notin Steps
  /\ pc[p] \in Steps => conf'[p] = conf[p]

\* A step about settings, with what it leaves alone.
Settled(p) == SettingsStep(p) /\ UNCHANGED <<folders, keystore, own, past>>

\* The steps about settings leave the jobs alone, ...
LEMMA SettingsAside ==
  ASSUME Types, NEW p \in Runs, Settled(p)
  PROVE  Aside(p)
<1> DEFINE Others == \A q \in Runs : q # p => pc'[q] = pc[q] /\ conf'[q] = conf[q]
           Apart == pc[p] \notin Steps /\ pc'[p] \notin Steps
<1> USE DEF Types, SettingsTypeOK, Steps, Goto, Set
<1>1. /\ job' = job /\ half' = half /\ crossed' = crossed /\ archive' = archive
      /\ keystore' = keystore /\ code' = code
  BY DEF Settled, folders, own, past
<1>2. CASE OpenConfig(p) \/ WriteConfig(p)
  BY <1>1, <1>2 DEF OpenConfig, WriteConfig, Aside
<1>3. ASSUME Others, Apart PROVE Aside(p)
  BY <1>1, <1>3 DEF Aside
<1>4. CASE Load(p) \/ Setup(p) \/ UseKey(p) \/ NoKey(p) \/ MakeKey(p) \/ OpenKeys(p) \/ AppendKey(p)
  BY <1>3, <1>4 DEF Load, Setup, UseKey, NoKey, MakeKey, OpenKeys, AppendKey
<1>5. CASE Password(p) \/ TorSettings(p) \/ Communicate(p) \/ WebSet(p) \/ Configure(p) \/ AddID(p)
  BY <1>3, <1>5 DEF Password, TorSettings, Communicate, WebSet, Configure, AddID
<1>6. CASE End(p)
  BY <1>3, <1>6 DEF End, Leave
<1>7. ASSUME NEW k \in Pairs, ChangeID(p, k) PROVE Aside(p)
  BY <1>3, <1>7 DEF ChangeID
<1> HIDE DEF Types, Goto, Set
<1> QED
  BY <1>2, <1>4, <1>5, <1>6, <1>7 DEF SettingsStep, Settled

\* The commands that leave the jobs alone.
OtherCommand(c) ==
  /\ pc[c] = "command"
  /\ \/ \E x \in Names : EnablePlugin(c, x) \/ DisablePlugin(c, x) \/ Publish(c, x)
     \/ \E r \in Repositories : AddRepository(c, r) \/ RemoveRepository(c, r)

\* ... and so do the start of the program and those commands.
LEMMA PluginsAside ==
  ASSUME Types, JobsAlone, NEW p \in Runs, StartStep(p) \/ OtherCommand(p)
  PROVE  Aside(p)
<1>1. PluginFrame(p)
  BY StartFrame, CommandFrame DEF OtherCommand, PluginCommand
<1>2. /\ \A q \in Runs : q # p => pc'[q] = pc[q] /\ conf'[q] = conf[q]
  <2>1. \A q \in Runs : q # p => pc'[q] = pc[q]
    BY <1>1 DEF PluginFrame, PluginGoto, Types, SettingsTypeOK
  <2>2. \A q \in Runs : q # p => conf'[q] = conf[q]
    BY <1>1 DEF PluginFrame, Switch, SetEnabled, Set, Types, SettingsTypeOK
  <2> QED
    BY <2>1, <2>2
<1>3. pc[p] \notin Steps /\ pc'[p] \notin Steps
  <2> USE DEF Goto, Steps, Types, SettingsTypeOK
  <2>1. CASE StartStep(p)
    BY <2>1 DEF StartStep, MakeFolder, CopyPlugins, NoCopy, MakeSection, Check, EnableDefault,
                Announce
  <2>2. CASE OtherCommand(p)
    BY <2>2 DEF OtherCommand, EnablePlugin, DisablePlugin, Publish, AddRepository,
                RemoveRepository
  <2> QED
    BY <2>1, <2>2
<1>4. job' = job /\ (half => half') /\ crossed' = crossed
  <2>1. job' = job
    BY DEF StartStep, MakeFolder, CopyPlugins, NoCopy, MakeSection, Check, EnableDefault,
           Announce, OtherCommand, EnablePlugin, DisablePlugin, Publish, AddRepository,
           RemoveRepository, own
  <2>2. ASSUME NEW x \in Names, Publish(p, x) PROVE (half => half') /\ crossed' = crossed
    BY <2>2 DEF Publish
  <2>3. ASSUME \A x \in Names : ~Publish(p, x) PROVE UNCHANGED past
    <3>1. CASE StartStep(p)
      BY <3>1 DEF StartStep, MakeFolder, CopyPlugins, NoCopy, MakeSection, Check, EnableDefault,
                  Announce
    <3>2. CASE OtherCommand(p)
      BY <2>3, <3>2 DEF OtherCommand, EnablePlugin, DisablePlugin, AddRepository,
                        RemoveRepository
    <3> QED
      BY <3>1, <3>2
  <2>4. UNCHANGED past => half' = half /\ crossed' = crossed
    BY DEF past
  <2> QED
    BY <2>1, <2>2, <2>3, <2>4
<1>5. /\ \A x \in Names : code[x] # None => code'[x] # None
      /\ ~half' => (archive' = archive \/ Changers = {})
  <2>1. CASE CopyPlugins(p)
    BY <2>1, PluginConstants DEF CopyPlugins
  <2>2. ASSUME NEW x \in Names, Publish(p, x)
        PROVE  code' = code /\ (~half' => Changers = {})
    BY <2>2 DEF Publish
  <2>3. CASE ~CopyPlugins(p) /\ \A x \in Names : ~Publish(p, x)
    BY <2>3 DEF StartStep, MakeFolder, NoCopy, MakeSection, Check, EnableDefault, Announce,
         OtherCommand, EnablePlugin, DisablePlugin, AddRepository, RemoveRepository, folders
  <2> QED
    BY <2>1, <2>2, <2>3
<1>6. keystore'.plugins = keystore.plugins
  BY DEF StartStep, MakeFolder, CopyPlugins, NoCopy, MakeSection, Check, EnableDefault, Announce,
         OtherCommand, EnablePlugin, DisablePlugin, Publish, AddRepository, RemoveRepository,
         Types, PluginsTypeOK
<1> QED
  BY <1>2, <1>3, <1>4, <1>5, <1>6 DEF Aside

\* Such a step keeps the jobs apart.
LEMMA JobsAside ==
  ASSUME Types, JobsAlone, NEW p \in Runs, Aside(p)
  PROVE  JobsAlone'
<1>1. /\ pc \in [Runs -> Starting \cup First \cup Working \cup {"over", "gone"}]
      /\ job \in [Runs -> Jobs \cup {None}]
  BY DEF Types, SettingsTypeOK, PluginsTypeOK
<1>2. \A q \in Runs : pc'[q] = pc[q] \/ (pc[q] \notin Steps /\ pc'[q] \notin Steps)
  BY DEF Aside
<1>3. ASSUME NEW q \in Runs PROVE JobOK(q)'
  BY <1>2 DEF Aside, JobsAlone, JobOK, Steps
<1>4. ASSUME ~half' PROVE OneJob' /\ \A q \in Runs : Undisturbed(q)'
  <2>1. ~half /\ OneJob /\ \A q \in Runs : Undisturbed(q)
    BY <1>4 DEF Aside, JobsAlone
  <2>2. OneJob'
    BY <2>1 DEF Aside, OneJob
  <2>3. ASSUME NEW q \in Runs PROVE Undisturbed(q)'
    <3>1. CASE pc'[q] \notin Steps
      BY <3>1 DEF Undisturbed, Steps
    <3>2. CASE pc'[q] \in Steps
      <4>1. pc'[q] = pc[q] /\ job[q] # None /\ job'[q] = job[q] /\ q \in Clients
        BY <1>2, <3>2 DEF JobsAlone, JobOK, Aside
      <4>2. archive' = archive
        BY <1>4, <4>1 DEF Aside, Changers
      <4>3. job[q].plugin \in Folders => job[q].plugin \in Folders'
        BY DEF Aside, Folders
      <4> QED
        BY <2>1, <4>1, <4>2, <4>3 DEF Undisturbed, Aside
    <3> QED
      BY <3>1, <3>2
  <2> QED
    BY <2>2, <2>3
<1> QED
  BY <1>3, <1>4 DEF JobsAlone

\* What a step of a command about plugins leaves alone.
Moves(c) ==
  /\ \A q \in Runs : q # c => pc'[q] = pc[q] /\ conf'[q] = conf[q] /\ job'[q] = job[q]
  /\ half => half'

\* A step of the only job keeps them apart, if it does for itself.
LEMMA JobAlone ==
  ASSUME Types, JobsAlone, NEW c \in Runs, Moves(c), JobOK(c)',
         ~half' => Undisturbed(c)' /\ \A q \in Runs : q # c => job[q] = None
  PROVE  JobsAlone'
<1>1. ASSUME NEW q \in Runs, q # c PROVE JobOK(q)'
  BY <1>1 DEF Moves, JobsAlone, JobOK
<1>2. ASSUME ~half', NEW q \in Runs, q # c PROVE Undisturbed(q)' /\ job'[q] = None
  <2>1. job'[q] = None /\ pc'[q] \notin Steps
    BY <1>2 DEF Moves, JobsAlone, JobOK
  <2> QED
    BY <2>1 DEF Undisturbed, Steps
<1>3. ~half' => OneJob'
  BY <1>2 DEF OneJob
<1> QED
  BY <1>1, <1>2, <1>3 DEF JobsAlone

\* A job that begins is alone, or counts as an overlap.
LEMMA BeginAlone ==
  ASSUME Types, JobsAlone, NEW c \in Runs, NEW x \in Names, NEW s \in Signers \cup {None},
         NEW to \in {"confirm", "switchOff"}, Begin(c, x, s, to),
         to = "confirm" => s # None,
         to = "switchOff" => x \notin keystore'.plugins
  PROVE  JobsAlone'
<1> DEFINE j == [plugin |-> x, from |-> s]
<1>1. j \in Jobs /\ j # None
  BY PluginConstants DEF Jobs
<1>2. /\ pc' = [pc EXCEPT ![c] = to] /\ job' = [job EXCEPT ![c] = j] /\ conf' = conf
      /\ half' = (half \/ Changers # {}) /\ c \in Clients
  BY DEF Begin, Goto
<1>3. /\ pc \in [Runs -> Starting \cup First \cup Working \cup {"over", "gone"}]
      /\ job \in [Runs -> Jobs \cup {None}]
  BY DEF Types, SettingsTypeOK, PluginsTypeOK
<1>4. pc'[c] = to /\ job'[c] = j
  BY <1>2, <1>3
<1>5. JobOK(c)'
  BY <1>1, <1>2, <1>4 DEF JobOK, Steps
<1>6. Undisturbed(c)'
  BY <1>4 DEF Undisturbed
<1>7. ~half' => \A q \in Runs : job[q] = None
  BY <1>2 DEF Changers, JobsAlone, JobOK
<1>8. Moves(c)
  BY <1>2, <1>3 DEF Moves
<1> QED
  BY <1>5, <1>6, <1>7, <1>8, JobAlone

\* The commands that begin a job, ...
BeginCommand(c) ==
  \E x \in Names :
    \/ InstallKnown(c, x) \/ InstallFound(c, x) \/ Uninstall(c, x)
    \/ \E s \in Signers : InstallBlock(c, x, s) \/ InstallKey(c, x, s)

\* Whom a plugin is installed from is known, and what is removed is not recorded any longer.
LEMMA Beginning ==
  ASSUME Types, NEW c \in Runs, BeginCommand(c)
  PROVE  \E x \in Names, s \in Signers \cup {None}, to \in {"confirm", "switchOff"} :
           /\ Begin(c, x, s, to)
           /\ to = "confirm" => /\ s # None
                                /\ keystore' \in {keystore, [keystore EXCEPT !.keys[x] = s]}
           /\ to = "switchOff" =>
                keystore' = [keystore EXCEPT !.plugins = keystore.plugins \ {x}]
<1>1. PICK x \in Names : \/ InstallKnown(c, x) \/ InstallFound(c, x) \/ Uninstall(c, x)
                         \/ \E s \in Signers : InstallBlock(c, x, s) \/ InstallKey(c, x, s)
  BY DEF BeginCommand
<1> DEFINE Good(s, to) ==
             /\ Begin(c, x, s, to)
             /\ to = "confirm" => /\ s # None
                                  /\ keystore' \in {keystore, [keystore EXCEPT !.keys[x] = s]}
             /\ to = "switchOff" =>
                  keystore' = [keystore EXCEPT !.plugins = keystore.plugins \ {x}]
<1> DEFINE Some == \E s \in Signers \cup {None}, to \in {"confirm", "switchOff"} : Good(s, to)
<1>2. ASSUME InstallKnown(c, x) PROVE Some
  <2>1. keystore.keys[x] \in Signers \cup {None} /\ Good(keystore.keys[x], "confirm")
    BY <1>2 DEF InstallKnown, Types, PluginsTypeOK
  <2> QED
    BY <2>1
<1>3. ASSUME InstallFound(c, x) PROVE Some
  <2>1. PICK ds \in Distributors(x) :
          \E n \in DOMAIN ds : Begin(c, x, ds[n], "confirm") /\ SaveKey(x, ds[n])
    BY <1>3 DEF InstallFound
  <2>2. PICK n \in DOMAIN ds : Begin(c, x, ds[n], "confirm") /\ SaveKey(x, ds[n])
    BY <2>1
  <2>3. ds[n] \in Signers
    BY <2>2 DEF Distributors, SetToSeqs
  <2>4. Good(ds[n], "confirm")
    BY <2>2, <2>3, PluginConstants DEF SaveKey
  <2> QED
    BY <2>3, <2>4
<1>4. ASSUME Uninstall(c, x) PROVE Some
  <2>1. Good(None, "switchOff")
    BY <1>4 DEF Uninstall, RemovePlugin
  <2> QED
    BY <2>1
<1>5. ASSUME NEW s \in Signers, InstallBlock(c, x, s) \/ InstallKey(c, x, s)
      PROVE  Good(s, "confirm")
  BY <1>5, PluginConstants DEF InstallBlock, InstallKey, SaveKey
<1>6. (\E s \in Signers : InstallBlock(c, x, s) \/ InstallKey(c, x, s))
      => \E s \in Signers : Good(s, "confirm")
  BY <1>5
<1> HIDE DEF Good
<1>7. Some
  BY <1>1, <1>2, <1>3, <1>4, <1>6
<1> QED
  BY <1>7 DEF Good

\* ... and the steps that go on with it.
CarryOn(c) ==
  \/ Decline(c) \/ WriteArchive(c) \/ RemoveOld(c) \/ Unpack(c) \/ UnpackFails(c)
  \/ SwitchOn(c) \/ Record(c) \/ SwitchOff(c) \/ Delete(c)

\* A list from which a plugin is taken does not have it.
LEMMA DisableTakes ==
  ASSUME Types, NEW c \in Runs, NEW x, Disable(c, x)
  PROVE  x \notin conf'[c].plugins
<1>1. CASE SetEnabled(c, Enabled(c) \ {x})
  BY <1>1 DEF SetEnabled, Set, Enabled, Types, SettingsTypeOK, Configurations
<1> QED
  BY <1>1 DEF Disable, Enabled

\* They are steps of a process that has a job, and change nothing of the others.
LEMMA CarryOnFrame ==
  ASSUME Types, JobsAlone, NEW c \in Runs, CarryOn(c)
  PROVE  /\ pc[c] \in Steps /\ job[c] \in Jobs /\ job[c] # None /\ c \in Clients
         /\ job'[c] \in {job[c], None}
         /\ Moves(c)
<1>1. pc[c] \in Steps
  BY DEF CarryOn, Decline, WriteArchive, RemoveOld, Unpack, UnpackFails, SwitchOn, Record,
         SwitchOff, Delete, Stay, Goto, Steps
<1>2. PluginFrame(c)
  BY CommandFrame DEF CarryOn, PluginCommand
<1>3. job' = job \/ job' = [job EXCEPT ![c] = None]
  BY DEF CarryOn, Decline, WriteArchive, RemoveOld, Unpack, UnpackFails, SwitchOn, Record,
         SwitchOff, Delete, Done
<1>4. half => half'
  BY DEF CarryOn, Decline, WriteArchive, RemoveOld, Unpack, UnpackFails, SwitchOn, Record,
         SwitchOff, Delete, past
<1>5. job[c] \in Jobs /\ job[c] # None /\ c \in Clients
  BY <1>1 DEF JobsAlone, JobOK, Types, PluginsTypeOK
<1>6. job \in [Runs -> Jobs \cup {None}]
  BY DEF Types, PluginsTypeOK
<1>7. \A q \in Runs : q # c => pc'[q] = pc[q]
  BY <1>2 DEF PluginFrame, PluginGoto, Types, SettingsTypeOK
<1>8. \A q \in Runs : q # c => conf'[q] = conf[q]
  BY <1>2 DEF PluginFrame, Switch, SetEnabled, Set, Types, SettingsTypeOK
<1> QED
  BY <1>1, <1>3, <1>4, <1>5, <1>6, <1>7, <1>8 DEF Moves

\* A job that goes on stays alone.
LEMMA CarryOnAlone ==
  ASSUME Types, JobsAlone, NEW c \in Runs, CarryOn(c)
  PROVE  JobsAlone'
<1>1. /\ pc[c] \in Steps /\ job[c] \in Jobs /\ job[c] # None /\ c \in Clients
      /\ Moves(c)
  BY CarryOnFrame
<1>2. /\ pc \in [Runs -> Starting \cup First \cup Working \cup {"over", "gone"}]
      /\ job \in [Runs -> Jobs \cup {None}] /\ code \in [Names -> Coders]
      /\ job[c].plugin \in Names
  BY <1>1 DEF Types, SettingsTypeOK, PluginsTypeOK, Jobs
<1>3. ~half' => ~half /\ Undisturbed(c) /\ \A q \in Runs : q # c => job[q] = None
  BY <1>1 DEF Moves, JobsAlone, OneJob
<1>4. JobOK(c)
  BY DEF JobsAlone
<1> DEFINE Sound == JobOK(c)' /\ (~half' => Undisturbed(c)')
<1>5. ASSUME NEW from, NEW to, Stay(c, from, to)
      PROVE  pc[c] = from /\ pc'[c] = to
  BY <1>2, <1>5 DEF Stay, Goto
<1>6. ASSUME pc'[c] = "over", Done(c)
      PROVE  Sound
  <2>1. job'[c] = None
    BY <1>2, <1>6 DEF Done
  <2> QED
    BY <1>6, <2>1 DEF JobOK, Undisturbed, Steps
<1>7. ASSUME Decline(c) PROVE Sound
  BY <1>5, <1>6, <1>7 DEF Decline
<1>8. ASSUME WriteArchive(c) PROVE Sound
  <2>1. /\ pc[c] = "confirm" /\ pc'[c] = "clear" /\ archive' = job[c].from /\ job' = job
    BY <1>5, <1>8 DEF WriteArchive
  <2> QED
    BY <1>1, <1>4, <2>1 DEF JobOK, Undisturbed, Steps
<1>9. ASSUME RemoveOld(c) PROVE Sound
  <2>1. /\ pc[c] = "clear" /\ pc'[c] = "unpack" /\ archive' = archive /\ job' = job
    BY <1>5, <1>9 DEF RemoveOld
  <2> QED
    BY <1>1, <1>3, <2>1 DEF JobOK, Undisturbed, Steps
<1>10. ASSUME Unpack(c) PROVE Sound
  <2>1. /\ pc[c] = "unpack" /\ pc'[c] = "switchOn" /\ job' = job
        /\ code' = [code EXCEPT ![job[c].plugin] = archive]
    BY <1>5, <1>10 DEF Unpack
  <2>2. code'[job[c].plugin] = archive
    BY <1>2, <2>1
  <2> QED
    BY <1>1, <1>2, <1>3, <2>1, <2>2 DEF JobOK, Undisturbed, Steps, Folders
<1>11. ASSUME UnpackFails(c) PROVE Sound
  <2>1. pc'[c] = "record" /\ job' = job /\ half'
    BY <1>5, <1>11 DEF UnpackFails
  <2> QED
    BY <1>1, <2>1 DEF JobOK, Steps
<1>12. ASSUME SwitchOn(c) PROVE Sound
  <2>1. pc[c] = "switchOn" /\ pc'[c] = "record" /\ job' = job /\ code' = code
    BY <1>5, <1>12 DEF SwitchOn, folders
  <2> QED
    BY <1>1, <1>3, <2>1 DEF JobOK, Undisturbed, Steps, Folders
<1>13. ASSUME Record(c) PROVE Sound
  BY <1>5, <1>6, <1>13 DEF Record
<1>14. ASSUME SwitchOff(c) PROVE Sound
  <2>1. /\ pc[c] = "switchOff" /\ pc'[c] = "delete" /\ job' = job /\ keystore' = keystore
        /\ Disable(c, job[c].plugin)
    BY <1>5, <1>14 DEF SwitchOff
  <2>2. job[c].plugin \notin conf'[c].plugins
    BY <2>1, DisableTakes
  <2> QED
    BY <1>1, <1>3, <2>1, <2>2 DEF JobOK, Undisturbed, Steps
<1>15. ASSUME Delete(c) PROVE Sound
  BY <1>5, <1>6, <1>15 DEF Delete
<1>16. Sound
  BY <1>7, <1>8, <1>9, <1>10, <1>11, <1>12, <1>13, <1>14, <1>15 DEF CarryOn
<1> QED
  BY <1>1, <1>3, <1>16, JobAlone

\* A killed process has no job, and the others keep theirs.
LEMMA KillAlone ==
  ASSUME Types, JobsAlone, NEW p \in Runs, KillJob(p)
  PROVE  JobsAlone'
<1>1. /\ pc' = [pc EXCEPT ![p] = "gone"] /\ job' = [job EXCEPT ![p] = None]
      /\ \A q \in Runs : q # p => conf'[q] = conf[q]
      /\ half => half'
      /\ archive' = archive /\ code' = code /\ keystore' = keystore
  BY DEF KillJob, Crash, Leave, folders, Types, SettingsTypeOK
<1>2. /\ pc'[p] = "gone" /\ job'[p] = None
      /\ \A q \in Runs : q # p => pc'[q] = pc[q] /\ job'[q] = job[q]
  BY <1>1 DEF Types, SettingsTypeOK, PluginsTypeOK
<1>3. JobOK(p)' /\ Undisturbed(p)'
  BY <1>2 DEF JobOK, Undisturbed, Steps
<1>4. ASSUME NEW q \in Runs, q # p PROVE JobOK(q)' /\ (Undisturbed(q) => Undisturbed(q)')
  BY <1>1, <1>2, <1>4 DEF JobsAlone, JobOK, Undisturbed, Folders
<1>5. OneJob => OneJob'
  BY <1>2 DEF OneJob
<1> QED
  BY <1>1, <1>3, <1>4, <1>5 DEF JobsAlone

\* Every step leaves folders, a key store and jobs.
LEMMA PluginsTypesKept ==
  ASSUME Types, JobsAlone, NEW p \in Runs,
         Settled(p) \/ StartStep(p) \/ PluginCommand(p) \/ KillJob(p)
  PROVE  PluginsTypeOK'
<1> USE DEF PluginsTypeOK, Coders, folders, own, past
<1>1. PluginsTypeOK
  BY DEF Types
<1>2. Shipped \in Coders /\ None \in Coders /\ Signers \subseteq Coders
  OBVIOUS
<1>3. CASE Settled(p)
  BY <1>1, <1>3 DEF Settled
<1>4. CASE StartStep(p)
  <2>1. CASE CopyPlugins(p)
    BY <1>1, <2>1, PluginConstants DEF CopyPlugins
  <2>2. CASE MakeFolder(p) \/ NoCopy(p) \/ MakeSection(p) \/ Check(p)
    BY <1>1, <2>2 DEF MakeFolder, NoCopy, MakeSection, Check
  <2>3. ASSUME NEW x \in Names, EnableDefault(p, x) \/ Announce(p, x) PROVE PluginsTypeOK'
    BY <1>1, <2>3 DEF EnableDefault, Announce
  <2> HIDE DEF PluginsTypeOK
  <2> QED
    BY <1>4, <2>1, <2>2, <2>3 DEF StartStep
<1>5. ASSUME NEW x \in Names, EnablePlugin(p, x) \/ DisablePlugin(p, x) \/ Publish(p, x)
      PROVE  PluginsTypeOK'
  <2>1. half' \in BOOLEAN
    BY <1>1, <1>5 DEF EnablePlugin, DisablePlugin, Publish
  <2>2. code[x] \in Coders
    BY <1>1
  <2> QED
    BY <1>1, <1>5, <2>1, <2>2 DEF EnablePlugin, DisablePlugin, Publish
<1>6. ASSUME NEW r \in Repositories, AddRepository(p, r) \/ RemoveRepository(p, r)
      PROVE  PluginsTypeOK'
  BY <1>1, <1>6 DEF AddRepository, RemoveRepository
<1>7. CASE BeginCommand(p)
  <2>1. PICK x \in Names, s \in Signers \cup {None}, to \in {"confirm", "switchOff"} :
           /\ Begin(p, x, s, to)
           /\ to = "confirm" => /\ s # None
                                /\ keystore' \in {keystore, [keystore EXCEPT !.keys[x] = s]}
           /\ to = "switchOff" =>
                keystore' = [keystore EXCEPT !.plugins = keystore.plugins \ {x}]
    BY <1>7, Beginning
  <2>2. [plugin |-> x, from |-> s] \in Jobs
    BY DEF Jobs
  <2>3. half' \in BOOLEAN
    BY <2>1 DEF Begin
  <2>4. \/ keystore' = keystore \/ keystore' = [keystore EXCEPT !.keys[x] = s]
        \/ keystore' = [keystore EXCEPT !.plugins = keystore.plugins \ {x}]
    BY <2>1
  <2>5. keystore' \in [keys : [Names -> Signers \cup {None}], plugins : SUBSET Names,
                       repositories : SUBSET Repositories]
    BY <1>1, <2>4
  <2> QED
    BY <1>1, <2>1, <2>2, <2>3, <2>5 DEF Begin
<1>8. CASE CarryOn(p)
  <2>1. job[p] \in Jobs /\ job[p].plugin \in Names /\ job[p].from \in Coders
    BY <1>8, CarryOnFrame DEF Jobs
  <2>2. CASE Decline(p)
    BY <1>1, <2>2 DEF Decline, Done, Stay
  <2>3. CASE WriteArchive(p)
    BY <1>1, <2>1, <2>3 DEF WriteArchive, Stay
  <2>4. CASE RemoveOld(p)
    BY <1>1, <1>2, <2>1, <2>4 DEF RemoveOld, Stay
  <2>5. CASE Unpack(p)
    BY <1>1, <2>1, <2>5 DEF Unpack, Stay
  <2>6. CASE UnpackFails(p) \/ SwitchOn(p)
    BY <1>1, <2>6 DEF UnpackFails, SwitchOn, Stay
  <2>7. CASE Record(p)
    BY <1>1, <2>1, <2>7 DEF Record, AddPlugin, Done, Stay
  <2>8. CASE SwitchOff(p)
    <3>1. crossed' \in BOOLEAN
      BY <1>1, <2>8 DEF SwitchOff, Meanwhile
    <3> QED
      BY <1>1, <2>8, <3>1 DEF SwitchOff, Stay
  <2>9. CASE Delete(p)
    <3>1. crossed' \in BOOLEAN
      BY <1>1, <2>9 DEF Delete, Meanwhile
    <3> QED
      BY <1>1, <1>2, <2>1, <2>9, <3>1 DEF Delete, Done, Stay
  <2> HIDE DEF PluginsTypeOK
  <2> QED
    BY <1>8, <2>2, <2>3, <2>4, <2>5, <2>6, <2>7, <2>8, <2>9 DEF CarryOn
<1>9. CASE KillJob(p)
  <2>1. half' \in BOOLEAN
    BY <1>1, <1>9 DEF KillJob
  <2> QED
    BY <1>1, <1>9, <2>1 DEF KillJob
<1> HIDE DEF PluginsTypeOK
<1> QED
  BY <1>3, <1>4, <1>5, <1>6, <1>7, <1>8, <1>9 DEF PluginCommand, BeginCommand, CarryOn

\* A command leaves the jobs alone, begins one or goes on with it.
LEMMA Split ==
  ASSUME NEW p, PluginCommand(p)
  PROVE  OtherCommand(p) \/ BeginCommand(p) \/ CarryOn(p)
  BY DEF PluginCommand, OtherCommand, BeginCommand, CarryOn

\* Every step keeps the jobs apart.
LEMMA JobsAloneKept ==
  ASSUME Types, JobsAlone, NEW p \in Runs,
         Settled(p) \/ StartStep(p) \/ PluginCommand(p) \/ KillJob(p)
  PROVE  JobsAlone'
<1>1. CASE Settled(p) \/ StartStep(p) \/ OtherCommand(p)
  BY <1>1, SettingsAside, PluginsAside, JobsAside
<1>2. CASE BeginCommand(p)
  <2>1. PICK x \in Names, s \in Signers \cup {None}, to \in {"confirm", "switchOff"} :
           /\ Begin(p, x, s, to)
           /\ to = "confirm" => s # None
           /\ to = "switchOff" =>
                keystore' = [keystore EXCEPT !.plugins = keystore.plugins \ {x}]
    BY <1>2, Beginning
  <2>2. to = "switchOff" => x \notin keystore'.plugins
    BY <2>1 DEF Types, PluginsTypeOK
  <2> QED
    BY <2>1, <2>2, BeginAlone
<1> QED
  BY <1>1, <1>2, Split, CarryOnAlone, KillAlone

\* Only what is deleted stops to be there, until an installation is not completed.
LEMMA PresentKept ==
  ASSUME Types, JobsAlone, NEW p \in Runs,
         Settled(p) \/ StartStep(p) \/ PluginCommand(p) \/ KillJob(p),
         ~half', NEW x \in Present, ~(Delete(p) /\ x = job[p].plugin)
  PROVE  x \in Present'
<1> DEFINE Replaced == {job[q].plugin : q \in {r \in Runs : pc[r] = "unpack"}}
<1>1. /\ pc \in [Runs -> Starting \cup First \cup Working \cup {"over", "gone"}]
      /\ job \in [Runs -> Jobs \cup {None}] /\ code \in [Names -> Coders]
  BY DEF Types, SettingsTypeOK, PluginsTypeOK
<1>2. x \in Folders \/ x \in Replaced
  BY DEF Present
<1>3. ASSUME x \in Folders', x \in Names PROVE x \in Present'
  BY <1>3 DEF Present
<1>4. ASSUME NEW q \in Runs, pc'[q] = "unpack", job'[q].plugin = x PROVE x \in Present'
  BY <1>4 DEF Present
<1>5. ASSUME \A q \in Runs : pc[q] = "unpack" => pc'[q] = "unpack" /\ job'[q] = job[q],
             \A y \in Names : code[y] # None => code'[y] # None
      PROVE  x \in Present'
  <2>1. CASE x \in Folders
    BY <1>3, <1>5, <2>1 DEF Folders
  <2>2. CASE x \in Replaced
    BY <1>4, <1>5, <2>2
  <2> QED
    BY <1>2, <2>1, <2>2
<1>6. CASE Aside(p)
  <2>1. ASSUME NEW q \in Runs, pc[q] = "unpack" PROVE pc'[q] = "unpack" /\ job'[q] = job[q]
    BY <1>6, <2>1 DEF Aside, Steps
  <2> QED
    BY <1>5, <1>6, <2>1 DEF Aside
<1>7. CASE BeginCommand(p)
  <2>1. PICK y \in Names, s \in Signers \cup {None}, to \in {"confirm", "switchOff"} :
           Begin(p, y, s, to)
    BY <1>7, Beginning
  <2> QED
    BY <1>1, <1>5, <2>1 DEF Begin, Goto, folders
<1>8. CASE CarryOn(p)
  <2>1. /\ job[p].plugin \in Names
        /\ \A q \in Runs : q # p => pc'[q] = pc[q] /\ job'[q] = job[q]
    BY <1>8, CarryOnFrame DEF Jobs, Moves
  <2>2. CASE Decline(p) \/ WriteArchive(p) \/ SwitchOn(p) \/ Record(p) \/ SwitchOff(p)
    <3>1. code' = code /\ pc[p] # "unpack"
      BY <2>2 DEF Decline, WriteArchive, SwitchOn, Record, SwitchOff, Stay, Goto, folders
    <3> QED
      BY <1>5, <2>1, <3>1
  <2>3. CASE RemoveOld(p)
    <3>1. /\ pc[p] = "clear" /\ pc'[p] = "unpack" /\ job' = job
          /\ code' = [code EXCEPT ![job[p].plugin] = None]
      BY <1>1, <2>3 DEF RemoveOld, Stay, Goto
    <3>2. CASE x = job[p].plugin
      BY <1>4, <3>1, <3>2
    <3>3. CASE x # job[p].plugin /\ x \in Folders
      BY <1>1, <1>3, <3>1, <3>3 DEF Folders
    <3>4. CASE x \in Replaced
      BY <1>4, <2>1, <3>1, <3>4
    <3> QED
      BY <1>2, <3>2, <3>3, <3>4
  <2>4. CASE Unpack(p)
    <3>1. /\ pc[p] = "unpack" /\ job' = job
          /\ code' = [code EXCEPT ![job[p].plugin] = archive]
      BY <1>1, <2>4 DEF Unpack, Stay, Goto
    <3>2. archive # None
      <4>1. ~half
        BY <2>4 DEF Unpack, past
      <4> QED
        BY <3>1, <4>1 DEF JobsAlone, Undisturbed
    <3>3. CASE x = job[p].plugin
      BY <1>1, <1>3, <2>1, <3>1, <3>2, <3>3 DEF Folders
    <3>4. CASE x # job[p].plugin /\ x \in Folders
      BY <1>1, <1>3, <3>1, <3>4 DEF Folders
    <3>5. CASE x # job[p].plugin /\ x \in Replaced
      BY <1>4, <2>1, <3>1, <3>5
    <3> QED
      BY <1>2, <3>3, <3>4, <3>5
  <2>5. CASE UnpackFails(p)
    BY <2>5 DEF UnpackFails
  <2>6. CASE Delete(p)
    <3>1. /\ pc[p] = "delete" /\ code' = [code EXCEPT ![job[p].plugin] = None]
          /\ x # job[p].plugin
      BY <1>1, <2>6 DEF Delete, Stay, Goto
    <3>2. CASE x \in Folders
      BY <1>1, <1>3, <3>1, <3>2 DEF Folders
    <3>3. CASE x \in Replaced
      BY <1>4, <2>1, <3>1, <3>3
    <3> QED
      BY <1>2, <3>2, <3>3
  <2> QED
    BY <1>8, <2>2, <2>3, <2>4, <2>5, <2>6 DEF CarryOn
<1>9. CASE KillJob(p)
  <2>1. /\ pc[p] # "unpack" /\ code' = code
        /\ pc' = [pc EXCEPT ![p] = "gone"] /\ job' = [job EXCEPT ![p] = None]
    BY <1>9 DEF KillJob, Crash, Leave, folders
  <2> QED
    BY <1>1, <1>5, <2>1
<1> QED
  BY <1>6, <1>7, <1>8, <1>9, Split, SettingsAside, PluginsAside

\* The lists of enabled plugins have only what is there, if nothing stops to be there.
LEMMA ListsKept ==
  ASSUME Types, Copies, ~half, ListsThere, NEW p \in Runs,
         SettingsStep(p) \/ Crash(p) \/ PluginFrame(p), ~stale',
         Present \subseteq Present'
  PROVE  ListsThere'
<1>1. \A S : There(S) => There(S)'
  BY DEF There
<1>2. CASE SettingsStep(p) \/ Crash(p)
  <2>1. \A S : Known(S) => There(S)
    BY DEF Known, ListsThere, There
  <2>2. Known(file'.plugins) /\ \A q \in fresh' : Known(conf'[q].plugins)
    BY <1>2, ListSteps
  <2>3. There(file.plugins)' /\ \A q \in fresh' : There(conf'[q].plugins)
    BY <1>1, <2>1, <2>2 DEF There
  <2> QED
    BY <1>1, <2>1, <2>2 DEF ListsThere, There
<1>3. CASE PluginFrame(p)
  <2>1. file' = file /\ fresh' = fresh /\ fresh \subseteq Runs
    BY <1>3 DEF PluginFrame, settings, config, history, Types, SettingsTypeOK
  <2>2. CASE conf' = conf
    BY <1>1, <2>1, <2>2 DEF ListsThere, There
  <2>3. CASE Switch(p)
    <3>1. PICK S \in SUBSET Names :
            /\ SetEnabled(p, S)
            /\ \/ S \subseteq Folders
               \/ conf[p].plugins \in SUBSET Names /\ S \subseteq conf[p].plugins \cup Folders
      BY <2>3 DEF Switch
    <3>2. /\ conf'[p].plugins = S
          /\ \A q \in Runs : q # p => conf'[q] = conf[q]
      BY <3>1 DEF SetEnabled, Set, Types, SettingsTypeOK, Configurations
    <3>3. p \in fresh => S \subseteq Present
      <4>1. conf[p].plugins \in SUBSET Names => conf[p].plugins # None
        BY PluginConstants
      <4>2. Folders \subseteq Present
        BY DEF Present
      <4> QED
        BY <3>1, <4>1, <4>2 DEF ListsThere, There
    <3>4. \A q \in fresh : conf'[q].plugins = None \/ conf'[q].plugins \subseteq Present
      BY <2>1, <3>2, <3>3 DEF ListsThere, There
    <3> QED
      BY <1>1, <2>1, <3>4 DEF ListsThere, There
  <2> QED
    BY <1>3, <2>2, <2>3 DEF PluginFrame
<1> QED
  BY <1>2, <1>3

\* A deleted plugin is in no list, if nobody has changed one in between.
LEMMA DeleteLeavesLists ==
  ASSUME Types, Copies, JobsAlone, ~half, ~stale, ListsThere, NEW c \in Runs, Delete(c), ~crossed',
         \A x \in Present : x # job[c].plugin => x \in Present'
  PROVE  ListsThere'
<1>1. /\ c \in fresh /\ \A q \in Runs \ {c} : saving[q] = "no"
      /\ saving[c] = "no" /\ pc[c] = "delete"
      /\ file' = file /\ fresh' = fresh /\ conf' = conf
  BY DEF Delete, Meanwhile, Stay, Goto, settings, config, history
<1>2. fresh \subseteq Runs
  BY DEF Types, SettingsTypeOK
<1>3. \A q \in fresh : conf[q] = file
  BY <1>1, <1>2 DEF Copies
<1>4. job[c].plugin \notin file.plugins
  BY <1>1, <1>3 DEF JobsAlone, JobOK
<1>5. file.plugins = None \/ file.plugins \subseteq Present'
  BY <1>4 DEF ListsThere, There
<1> QED
  BY <1>1, <1>3, <1>5 DEF ListsThere, There

\* Every step keeps what is recorded and what is enabled there.
LEMMA PluginsThereKept ==
  ASSUME Types, Copies, JobsAlone, PluginsThere, NEW p \in Runs,
         Settled(p) \/ StartStep(p) \/ PluginCommand(p) \/ KillJob(p)
  PROVE  PluginsThere'
<1> SUFFICES ASSUME ~half'
             PROVE  /\ keystore'.plugins \subseteq Present'
                    /\ ~crossed' /\ ~stale' => ListsThere'
  BY DEF PluginsThere
<1> DEFINE Steady == Settled(p) \/ StartStep(p) \/ OtherCommand(p)
<1>1. ASSUME Steady PROVE Aside(p)
  BY <1>1, SettingsAside, PluginsAside
<1>2. BeginCommand(p) =>
        /\ ~half /\ crossed' = crossed
        /\ keystore'.plugins \subseteq keystore.plugins
  <2> SUFFICES ASSUME BeginCommand(p)
               PROVE  /\ ~half /\ crossed' = crossed
                      /\ keystore'.plugins \subseteq keystore.plugins
    OBVIOUS
  <2>1. PICK x \in Names, s \in Signers \cup {None}, to \in {"confirm", "switchOff"} :
           /\ Begin(p, x, s, to)
           /\ to = "confirm" => keystore' \in {keystore, [keystore EXCEPT !.keys[x] = s]}
           /\ to = "switchOff" =>
                keystore' = [keystore EXCEPT !.plugins = keystore.plugins \ {x}]
    BY Beginning
  <2>2. ~half /\ crossed' = crossed
    BY <2>1 DEF Begin
  <2>3. keystore'.plugins \subseteq keystore.plugins
    BY <2>1 DEF Types, PluginsTypeOK
  <2> QED
    BY <2>2, <2>3
<1>3. CarryOn(p) => /\ ~half
                    /\ \/ keystore' = keystore
                       \/ Record(p) /\ keystore'.plugins = keystore.plugins \cup {job[p].plugin}
                    /\ crossed => crossed'
  <2>1. CarryOn(p) => ~half
    BY CarryOnFrame DEF Moves
  <2>2. CarryOn(p) /\ ~Record(p) => keystore' = keystore
    BY DEF CarryOn, Decline, WriteArchive, RemoveOld, Unpack, UnpackFails, SwitchOn, SwitchOff,
           Delete
  <2>3. Record(p) => keystore'.plugins = keystore.plugins \cup {job[p].plugin}
    BY DEF Record, AddPlugin, Types, PluginsTypeOK
  <2>4. CarryOn(p) => (crossed => crossed')
    BY DEF CarryOn, Decline, WriteArchive, RemoveOld, Unpack, UnpackFails, SwitchOn, Record,
           SwitchOff, Delete, past
  <2> QED
    BY <2>1, <2>2, <2>3, <2>4
<1>4. KillJob(p) => ~half /\ keystore' = keystore /\ crossed' = crossed
  BY DEF KillJob
<1>5. ~half /\ (crossed => crossed')
  BY <1>1, <1>2, <1>3, <1>4, Split DEF Aside
<1>6. keystore.plugins \subseteq Present /\ (~crossed /\ ~stale => ListsThere)
  BY <1>5 DEF PluginsThere
<1>7. \A x \in Present : ~(Delete(p) /\ x = job[p].plugin) => x \in Present'
  BY PresentKept
<1>8. keystore'.plugins \subseteq Present'
  <2>1. CASE Delete(p)
    <3>1. keystore' = keystore /\ pc[p] = "delete"
      BY <2>1 DEF Delete, Stay, Goto
    <3>2. job[p].plugin \notin keystore.plugins
      BY <1>5, <3>1 DEF JobsAlone, Undisturbed
    <3> QED
      BY <1>6, <1>7, <3>1, <3>2
  <2>2. CASE Record(p)
    <3>1. pc[p] = "record"
      BY <2>2 DEF Record, Stay, Goto
    <3>2. job[p].plugin \in Present
      BY <1>5, <3>1 DEF JobsAlone, Undisturbed, Present
    <3>3. ~Delete(p)
      BY <3>1 DEF Delete, Stay, Goto
    <3> QED
      BY <1>3, <1>6, <1>7, <2>2, <3>2, <3>3 DEF CarryOn
  <2>3. CASE ~Delete(p) /\ ~Record(p)
    <3>1. keystore'.plugins \subseteq keystore.plugins
      BY <1>1, <1>2, <1>3, <1>4, <2>3, Split DEF Aside
    <3> QED
      BY <1>6, <1>7, <2>3, <3>1
  <2> QED
    BY <2>1, <2>2, <2>3
<1>9. ASSUME ~crossed', ~stale' PROVE ListsThere'
  <2>1. SettingsStep(p) \/ Crash(p) \/ PluginFrame(p)
    BY StartFrame, CommandFrame DEF Settled, KillJob
  <2>2. ~stale
    <3>1. PluginFrame(p) => stale' = stale
      BY DEF PluginFrame, settings, history
    <3> QED
      BY <1>9, <2>1, <3>1, ListSteps
  <2>3. ListsThere
    BY <1>5, <1>6, <1>9, <2>2
  <2>4. CASE Delete(p)
    BY <1>5, <1>7, <1>9, <2>2, <2>3, <2>4, DeleteLeavesLists
  <2>5. CASE ~Delete(p)
    BY <1>5, <1>7, <1>9, <2>1, <2>3, <2>5, ListsKept
  <2> QED
    BY <2>4, <2>5
<1> QED
  BY <1>8, <1>9

-----------------------------------------------------------------------------
(* The invariant. *)

\* It holds when nothing has run, ...
LEMMA SharedInit ==
  ASSUME Init
  PROVE  SharedInv
<1> USE DEF Init, SettingsInit
<1>1. SettingsTypeOK
  BY EmptyType DEF SettingsTypeOK, Starting
<1>2. PluginsTypeOK
  BY DEF PluginsTypeOK, Coders
<1>3. Sections
  BY DEF Sections, First, Working, Steps
<1>4. KeysStored
  BY DEF KeysStored, Stored, First, Working, Steps, Empty
<1>5. OneIdentity
  BY DEF OneIdentity, First, Empty
<1>6. Copies
  BY DEF Copies, Empty
<1>7. JobsAlone
  BY DEF JobsAlone, JobOK, Undisturbed, OneJob, Steps
<1>8. PluginsThere
  BY DEF PluginsThere, ListsThere, There, Empty
<1> QED
  BY <1>1, <1>2, <1>3, <1>4, <1>5, <1>6, <1>7, <1>8 DEF SharedInv, Types

\* ... and every step keeps it.
LEMMA SharedStep ==
  ASSUME SharedInv, [Next]_vars
  PROVE  SharedInv'
<1>1. ASSUME NEW p \in Runs,
             Settled(p) \/ StartStep(p) \/ PluginCommand(p) \/ KillJob(p)
      PROVE  SharedInv'
  <2>1. SettingsStep(p) \/ Crash(p) \/ PluginFrame(p)
    BY <1>1, StartFrame, CommandFrame DEF Settled, KillJob, SharedInv
  <2>2. SettingsTypeOK' /\ Sections' /\ KeysStored' /\ OneIdentity' /\ Copies'
    BY <2>1, SettingsTypesKept, KeysStoredKept, OneIdentityKept, CopiesKept DEF SharedInv
  <2>3. PluginsTypeOK' /\ JobsAlone' /\ PluginsThere'
    BY <1>1, PluginsTypesKept, JobsAloneKept, PluginsThereKept DEF SharedInv
  <2> QED
    BY <2>2, <2>3 DEF SharedInv, Types
<1>2. CASE UNCHANGED vars
  <2> USE <1>2 DEF vars, settings, config, history, folders, own, past
  <2>1. Types'
    BY DEF SharedInv, Types, SettingsTypeOK, PluginsTypeOK, Sections
  <2>2. KeysStored' /\ OneIdentity' /\ Copies'
    BY DEF SharedInv, KeysStored, Stored, OneIdentity, Copies
  <2>3. JobsAlone'
    BY DEF SharedInv, JobsAlone, JobOK, Undisturbed, OneJob, Folders
  <2>4. PluginsThere'
    BY DEF SharedInv, PluginsThere, ListsThere, There, Present, Folders
  <2> QED
    BY <2>1, <2>2, <2>3, <2>4 DEF SharedInv
<1> QED
  BY <1>1, <1>2 DEF Next, Settled

(***************************************************************************)
(* Whatever processes run, start and are killed, the configuration that    *)
(* the file and each copy have is one, with a list of enabled plugins in   *)
(* what is written, and the keys, the folders, the key store and the jobs  *)
(* are what their types say (config.py, OnionrCrypto, the plugin manager). *)
(***************************************************************************)
THEOREM SharedTypeCorrect == Spec => []Types
<1>1. SharedInv => Types
  BY DEF SharedInv
<1> QED
  BY <1>1, SharedInit, SharedStep, PTL DEF Spec

(***************************************************************************)
(* The identity of a process is in the file of key pairs, for any number   *)
(* of processes that start, add pairs and are killed at once: addKey only  *)
(* appends, and a pair is used when it is there or its maker is about to   *)
(* add it.                                                                 *)
(***************************************************************************)
THEOREM IdentitiesAreStored == Spec => []IdentityIsStored
<1>1. SharedInv => IdentityIsStored
  BY DEF SharedInv, KeysStored, Stored, First, IdentityIsStored
<1> QED
  BY <1>1, SharedInit, SharedStep, PTL DEF Spec

(***************************************************************************)
(* All processes have the same identity until change-id or two first       *)
(* starts at once: it is the first pair of the file, which stays its       *)
(* first, and no configuration names another (OnionrCrypto.__init__,       *)
(* add_ID).                                                                *)
(***************************************************************************)
THEOREM IdentityStaysOne == Spec => []SameIdentity
<1>1. ASSUME SharedInv, ~several, NEW p \in Runs, NEW q \in Runs, id[p] # None, id[q] # None
      PROVE  id[p] = id[q]
  <2>1. \A r \in Runs : pc[r] \in First => \A s \in Runs : pc[s] \in First => s = r
    BY <1>1 DEF SharedInv, OneIdentity
  <2>2. \A r \in {p, q} : pc[r] \notin First => keys # <<>> /\ id[r] = Head(keys)
    BY <1>1 DEF SharedInv, OneIdentity
  <2>3. ASSUME NEW r \in {p, q}, NEW s \in {p, q}, pc[r] \in First, pc[s] \notin First
        PROVE  FALSE
    <3>1. keys = None \/ keys = <<>>
      BY <1>1, <2>3 DEF SharedInv, OneIdentity, First
    <3>2. keys # <<>>
      BY <2>2, <2>3
    <3>3. Stored(id[s]) /\ id[s] # None
      BY <1>1, <2>3 DEF SharedInv, KeysStored
    <3>4. None \notin Seq(Pairs)
      BY SettingsConstants
    <3> QED
      BY <3>1, <3>2, <3>3, <3>4 DEF Stored
  <2> QED
    BY <2>1, <2>2, <2>3
<1>2. SharedInv => SameIdentity
  BY <1>1 DEF SameIdentity
<1> QED
  BY <1>2, SharedInit, SharedStep, PTL DEF Spec

(***************************************************************************)
(* The file has the setting that was written last, until a process writes  *)
(* a copy that has not seen it or starts when the file cannot be read      *)
(* (config.set, reload, save).                                             *)
(***************************************************************************)
THEOREM SettingsAreKept == Spec => []SettingIsKept
<1>1. SharedInv => SettingIsKept
  BY DEF SharedInv, Copies, SettingIsKept
<1> QED
  BY <1>1, SharedInit, SharedStep, PTL DEF Spec

\* What is being unpacked is in work.
LEMMA PresentOrChanging ==
  ASSUME SharedInv
  PROVE  Present \subseteq Folders \cup Changing
<1>1. ASSUME NEW p \in Runs, pc[p] = "unpack" PROVE p \in Changers
  BY <1>1 DEF SharedInv, JobsAlone, JobOK, Steps, Changers
<1> QED
  BY <1>1 DEF Present, Changing

(***************************************************************************)
(* What the key store records as installed has a folder or is being        *)
(* changed, until an installation fails half-way or is killed or two       *)
(* commands overlap: the record is made after unpacking and goes before    *)
(* the folder (installBlock, uninstallPlugin).                             *)
(***************************************************************************)
THEOREM RecordedStayThere == Spec => []RecordedAreThere
<1>1. SharedInv => RecordedAreThere
  BY PresentOrChanging DEF SharedInv, PluginsThere, RecordedAreThere
<1> QED
  BY <1>1, SharedInit, SharedStep, PTL DEF Spec

(***************************************************************************)
(* The plugins that the file enables have a folder or are being changed,   *)
(* as long as moreover no copy is stale and nobody changes the             *)
(* configuration while a plugin is removed (enable, disable,               *)
(* uninstallPlugin).                                                       *)
(***************************************************************************)
THEOREM EnabledStayThere == Spec => []EnabledAreThere
<1>1. SharedInv => EnabledAreThere
  BY PresentOrChanging DEF SharedInv, PluginsThere, ListsThere, There, EnabledAreThere
<1> QED
  BY <1>1, SharedInit, SharedStep, PTL DEF Spec

=============================================================================
