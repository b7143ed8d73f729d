----------------------------- MODULE BlockStore -----------------------------
(***************************************************************************)
(* How an Onionr node acquires, stores, expires and bans blocks.           *)
(*                                                                         *)
(* A block lives in two places that no transaction spans: its data, in the *)
(* blockData database or in a .dat file, and its row in the hashes table,  *)
(* which is what "having" the block means.  Besides these the node keeps a *)
(* blacklist, the usage record of StorageCounter, and, in the daemon's     *)
(* memory, the download queue and the list of running downloads.           *)
(*                                                                         *)
(* Threads of the daemon and command line processes work on all of them    *)
(* without a lock.  Each process is a sequence of steps (pc), one for each *)
(* read or write of something another process may touch in between.        *)
(***************************************************************************)
EXTENDS Integers, Sequences, FiniteSets

CONSTANTS
  Blocks,               \* block hashes
  Kinds,                \* the kinds of block that exist, of AllKinds
  Getters,              \* getBlocks threads: maxThreads of them, communicator.py:105
  Importers,            \* handlers of the public API's /upload
  Cleaners,             \* clean_old_blocks threads
  Banners,              \* ban-block commands of the operator
  NoBlock,
  SmallBytes, BigBytes, \* getsizeof the bytes of a block
  StrExtra,             \* how much more getsizeof says of the same text as str
  NoneBytes,            \* getsizeof(None)
  Allocation, Slack,    \* as in StorageCounter
  MaxCopies,            \* bound of the model: uploads of a block stored so often stop
  MayCrash              \* whether the daemon's process may die

(***************************************************************************)
(* A hash determines the content of a block, and so how the node treats    *)
(* it.  Over DB_ENTRY_SIZE_LIMIT a block is "big" and kept in a .dat file. *)
(* validateMetadata rejects "badmeta", verifyPow rejects "badpow", and the *)
(* validation of "poison" raises (onionrutils.py:147, 280).  "unparsable"  *)
(* is valid but cannot be loaded by onionrblockapi, and the expire time of *)
(* "expiring" may pass.                                                    *)
(***************************************************************************)
AllKinds ==
  {"small", "big", "badmeta", "badpow", "poison", "unparsable", "expiring"}

Procs == Getters \cup Importers \cup Cleaners \cup Banners

Savers == Getters \cup Importers

ASSUME BlockStoreConstants ==
  /\ Kinds \subseteq AllKinds
  /\ NoBlock \notin Blocks
  /\ {SmallBytes, BigBytes, StrExtra, NoneBytes, Allocation, Slack, MaxCopies}
       \subseteq Nat
  /\ MayCrash \in BOOLEAN
  /\ IsFiniteSet(Getters) /\ IsFiniteSet(Importers)

ASSUME DistinctProcesses ==
  /\ Getters \cap (Importers \cup Cleaners \cup Banners) = {}
  /\ Importers \cap (Cleaners \cup Banners) = {}
  /\ Cleaners \cap Banners = {}

VARIABLES
  \* on disk
  listed,       \* rows of the hashes table, by block
  dated,        \* those of them whose expire column is set
  stored,       \* copies of the block's data: rows of blockData, or the .dat file
  blacklist,
  usage,        \* the usage record, as in StorageCounter
  \* in the daemon
  queue,        \* blockQueue
  downloading,  \* currentDownloading, a list: occurrences by block
  lookup,       \* lookupBlocks: is it running, and its existingBlocks
  \* in each process
  pc, blk,      \* where it is, and the block it works on
  todo,         \* the blocks its loop still has to visit, by occurrences
  phase, amount,\* the calls of addBytes and removeBytes, as in StorageCounter
  \* outside
  kind,         \* of each block
  expired       \* blocks whose expire time has passed

diskVars == <<listed, dated, stored, blacklist>>
daemonVars == <<queue, downloading, lookup>>
usageVars == <<usage, phase, amount>>
procVars == <<pc, blk, todo>>
outside == <<kind, expired>>
vars == <<diskVars, daemonVars, usageVars, procVars, outside>>

Usage == INSTANCE StorageCounter

Labels == {"idle", "dead",
           "pick", "listed", "banned", "claim", "fetch", "dequeue", "release",
           "check", "save", "adding", "store", "row", "insert", "process",
           "clean", "oldest", "ban", "drop", "measure", "removing"}

Nothing == [b \in Blocks |-> 0]

InBlacklist(b) == b \in blacklist

Bytes(b) == IF kind[b] = "big" THEN BigBytes ELSE SmallBytes

-----------------------------------------------------------------------------
(* Helpers of the actions. *)

At(p, label) == pc[p] = label

Goto(p, label) == pc' = [pc EXCEPT ![p] = label]

\* p leaves the function or the thread ends: its locals are gone.
Leave(p, label) ==
  /\ pc' = [pc EXCEPT ![p] = label]
  /\ blk' = [blk EXCEPT ![p] = NoBlock]
  /\ todo' = [todo EXCEPT ![p] = Nothing]

\* p takes a block its loop has not visited yet and goes on at label.
Visit(p, b, label) ==
  /\ todo[p][b] > 0
  /\ todo' = [todo EXCEPT ![p][b] = @ - 1]
  /\ blk' = [blk EXCEPT ![p] = b]
  /\ Goto(p, label)

\* The loop of a download thread goes on to the next block.
Continue(t) ==
  /\ Goto(t, "pick")
  /\ blk' = [blk EXCEPT ![t] = NoBlock]

\* An exception nobody catches: a thread of the daemon ends without giving back
\* its thread slot or its entry of currentDownloading; Flask answers 500.
Raise(p) ==
  IF p \in Getters \cup Cleaners
  THEN /\ pc' = [pc EXCEPT ![p] = "dead"]
       /\ UNCHANGED <<blk, todo>>
  ELSE Leave(p, "idle")

Dequeue(b) == queue' = queue \ {b}

-----------------------------------------------------------------------------
(* lookupBlocks: block hashes that peers list enter the download queue. *)

BeginLookup ==
  /\ ~lookup.on
  /\ lookup' = [on |-> TRUE, known |-> {b \in Blocks : listed[b] > 0}]
  /\ UNCHANGED <<diskVars, queue, downloading, usageVars, procVars, outside>>

\* A peer lists b.  What is known was read before the peers were asked.
Offer(b) ==
  /\ lookup.on /\ stored[b] < MaxCopies
  /\ b \notin lookup.known \cup queue /\ ~InBlacklist(b)
  /\ queue' = queue \cup {b}
  /\ UNCHANGED <<diskVars, downloading, lookup, usageVars, procVars, outside>>

EndLookup ==
  /\ lookup.on
  /\ lookup' = [on |-> FALSE, known |-> {}]
  /\ UNCHANGED <<diskVars, queue, downloading, usageVars, procVars, outside>>

-----------------------------------------------------------------------------
(* download_blocks_from_communicator, run by the getBlocks timer. *)

StartGetter(t) ==
  /\ At(t, "idle")
  /\ Goto(t, "pick")
  /\ todo' = [todo EXCEPT ![t] = [b \in Blocks |-> IF b \in queue THEN 1 ELSE 0]]
  /\ UNCHANGED <<diskVars, daemonVars, usageVars, blk, outside>>

\* A block that another thread says it is downloading is passed over.
Pick(t, b) ==
  /\ At(t, "pick")
  /\ IF downloading[b] > 0
     THEN todo[t][b] > 0 /\ todo' = [todo EXCEPT ![t][b] = 0] /\ UNCHANGED <<pc, blk>>
     ELSE Visit(t, b, "listed")
  /\ UNCHANGED <<diskVars, daemonVars, usageVars, outside>>

\* The loop ends, or breaks: no online peer, offline or shutting down.
EndGetter(t) ==
  /\ At(t, "pick")
  /\ Leave(t, "idle")
  /\ UNCHANGED <<diskVars, daemonVars, usageVars, outside>>

SkipListed(t) ==
  /\ At(t, "listed")
  /\ IF listed[blk[t]] > 0
     THEN Dequeue(blk[t]) /\ Continue(t)
     ELSE UNCHANGED <<queue, blk>> /\ Goto(t, "banned")
  /\ UNCHANGED <<diskVars, downloading, lookup, usageVars, todo, outside>>

\* Fault: the blacklist is not consulted.
SkipBannedUnchecked(t) ==
  /\ At(t, "banned")
  /\ Goto(t, "claim")
  /\ UNCHANGED <<diskVars, daemonVars, usageVars, blk, todo, outside>>

\* A blacklisted block is passed over, and stays in the queue.
SkipBanned(t) ==
  /\ At(t, "banned")
  /\ IF InBlacklist(blk[t])
     THEN Continue(t)
     ELSE Goto(t, "claim") /\ UNCHANGED blk
  /\ UNCHANGED <<diskVars, daemonVars, usageVars, todo, outside>>

\* Fault: the block is not entered in currentDownloading.
ClaimUnrecorded(t) ==
  /\ At(t, "claim")
  /\ IF Usage!IsFull
     THEN Leave(t, "idle")
     ELSE Goto(t, "fetch") /\ UNCHANGED <<blk, todo>>
  /\ UNCHANGED <<diskVars, daemonVars, usageVars, outside>>

\* Fault: a block that currentDownloading already lists is not listed again.
ClaimOnce(t) ==
  /\ At(t, "claim")
  /\ IF Usage!IsFull
     THEN Leave(t, "idle") /\ UNCHANGED downloading
     ELSE /\ downloading' = [downloading EXCEPT ![blk[t]] = 1]
          /\ Goto(t, "fetch")
          /\ UNCHANGED <<blk, todo>>
  /\ UNCHANGED <<diskVars, queue, lookup, usageVars, outside>>

\* isFull ends the loop; otherwise the block joins currentDownloading.
Claim(t) ==
  /\ At(t, "claim")
  /\ IF Usage!IsFull
     THEN Leave(t, "idle") /\ UNCHANGED downloading
     ELSE /\ downloading' = [downloading EXCEPT ![blk[t]] = @ + 1]
          /\ Goto(t, "fetch")
          /\ UNCHANGED <<blk, todo>>
  /\ UNCHANGED <<diskVars, queue, lookup, usageVars, outside>>

\* peerAction answered with the content that has the hash.
Fetched(t) ==
  /\ At(t, "fetch")
  /\ Goto(t, "check")
  /\ UNCHANGED <<diskVars, daemonVars, usageVars, blk, todo, outside>>

\* Fault: the loop continues at once, without leaving currentDownloading.
FetchFailedContinues(t) ==
  /\ At(t, "fetch")
  /\ Continue(t)
  /\ UNCHANGED <<diskVars, daemonVars, usageVars, todo, outside>>

\* The request failed, or the peer answered 404: the block stays in the queue.
FetchFailed(t) ==
  /\ At(t, "fetch")
  /\ Goto(t, "release")
  /\ UNCHANGED <<diskVars, daemonVars, usageVars, blk, todo, outside>>

\* The peer answered with anything else.
FetchedOther(t) ==
  /\ At(t, "fetch")
  /\ Goto(t, "dequeue")
  /\ UNCHANGED <<diskVars, daemonVars, usageVars, blk, todo, outside>>

DequeueBlock(t) ==
  /\ At(t, "dequeue")
  /\ Dequeue(blk[t])
  /\ Goto(t, "release")
  /\ UNCHANGED <<diskVars, downloading, lookup, usageVars, blk, todo, outside>>

\* currentDownloading.remove(blockHash)
Release(t) ==
  /\ At(t, "release")
  /\ downloading' = [downloading EXCEPT ![blk[t]] = @ - 1]
  /\ Continue(t)
  /\ UNCHANGED <<diskVars, queue, lookup, usageVars, todo, outside>>

-----------------------------------------------------------------------------
(* importBlockFromData, and the validation it shares with the downloads. *)

\* Fault: the blacklist is not consulted.
UploadUnchecked(u, b) ==
  /\ At(u, "idle") /\ stored[b] < MaxCopies
  /\ Goto(u, "check")
  /\ blk' = [blk EXCEPT ![u] = b]
  /\ UNCHANGED <<diskVars, daemonVars, usageVars, todo, outside>>

\* A block is uploaded; a blacklisted one is refused (BlacklistedBlock).
Upload(u, b) ==
  /\ At(u, "idle") /\ stored[b] < MaxCopies
  /\ ~InBlacklist(b)
  /\ Goto(u, "check")
  /\ blk' = [blk EXCEPT ![u] = b]
  /\ UNCHANGED <<diskVars, daemonVars, usageVars, todo, outside>>

MetadataValid(b) == kind[b] # "badmeta" /\ b \notin expired

\* getBlockMetadataFromData, validateMetadata and verifyPow.  A download that
\* fails validateMetadata is blacklisted; an import is only refused.
Validate(p) ==
  /\ At(p, "check")
  /\ kind[blk[p]] # "poison"
  /\ IF MetadataValid(blk[p]) /\ kind[blk[p]] # "badpow"
     THEN Goto(p, "save") /\ UNCHANGED <<blk, todo, blacklist>>
     ELSE IF p \in Getters
     THEN /\ blacklist' = blacklist \cup
                            (IF MetadataValid(blk[p]) THEN {} ELSE {blk[p]})
          /\ Goto(p, "dequeue")
          /\ UNCHANGED <<blk, todo>>
     ELSE Leave(p, "idle") /\ UNCHANGED blacklist
  /\ UNCHANGED <<listed, dated, stored, daemonVars, usageVars, outside>>

ValidateRaises(p) ==
  /\ At(p, "check")
  /\ kind[blk[p]] = "poison"
  /\ Raise(p)
  /\ UNCHANGED <<diskVars, daemonVars, usageVars, outside>>

-----------------------------------------------------------------------------
(* setData, addToBlockDB and processBlockMetadata, as both savers call them. *)

\* A download hands setData the decoded text, an upload hands it the bytes.
SizeToSave(p) == Bytes(blk[p]) + IF p \in Getters THEN StrExtra ELSE 0

\* setData of a block that has a .dat file does nothing.
AlreadySaved(p) ==
  /\ At(p, "save")
  /\ kind[blk[p]] = "big" /\ stored[blk[p]] > 0
  /\ Goto(p, "row")
  /\ UNCHANGED <<diskVars, daemonVars, usageVars, blk, todo, outside>>

CountAdded(p) ==
  /\ At(p, "save")
  /\ ~(kind[blk[p]] = "big" /\ stored[blk[p]] > 0)
  /\ Usage!GrantBytes(p, SizeToSave(p))
  /\ Goto(p, "adding")
  /\ UNCHANGED <<diskVars, daemonVars, blk, todo, outside>>

\* Fault: addToBlockDB follows although setData raised.
RefuseSaveIgnored(p) ==
  /\ At(p, "save")
  /\ ~(kind[blk[p]] = "big" /\ stored[blk[p]] > 0)
  /\ Usage!RefuseBytes(p, SizeToSave(p))
  /\ Goto(p, "row")
  /\ UNCHANGED <<diskVars, daemonVars, blk, todo, outside>>

\* DiskAllocationReached: a download stays queued, an upload is dropped.
RefuseSave(p) ==
  /\ At(p, "save")
  /\ ~(kind[blk[p]] = "big" /\ stored[blk[p]] > 0)
  /\ Usage!RefuseBytes(p, SizeToSave(p))
  /\ IF p \in Getters
     THEN Goto(p, "release") /\ UNCHANGED <<blk, todo>>
     ELSE Leave(p, "idle")
  /\ UNCHANGED <<diskVars, daemonVars, outside>>

TruncateUsage(p) ==
  /\ Usage!Truncate(p)
  /\ UNCHANGED <<diskVars, daemonVars, procVars, outside>>

\* onionrstorage.store: a .dat file replaces itself, a row of blockData does not.
\* The update of dataSaved that follows finds it set or finds no row.
Store(p) ==
  /\ At(p, "store")
  /\ stored' = [stored EXCEPT ![blk[p]] = IF kind[blk[p]] = "big" THEN 1 ELSE @ + 1]
  /\ Goto(p, "row")
  /\ UNCHANGED <<listed, dated, blacklist, daemonVars, usageVars, blk, todo, outside>>

\* Fault: addToBlockDB inserts without asking hasBlock.
CheckRowNever(p) ==
  /\ At(p, "row")
  /\ Goto(p, "insert")
  /\ UNCHANGED <<diskVars, daemonVars, usageVars, blk, todo, outside>>

\* addToBlockDB asks hasBlock first ...
CheckRow(p) ==
  /\ At(p, "row")
  /\ Goto(p, IF listed[blk[p]] > 0 THEN "process" ELSE "insert")
  /\ UNCHANGED <<diskVars, daemonVars, usageVars, blk, todo, outside>>

\* ... and inserts into a table that has no unique column.
InsertRow(p) ==
  /\ At(p, "insert")
  /\ listed' = [listed EXCEPT ![blk[p]] = @ + 1]
  /\ Goto(p, "process")
  /\ UNCHANGED <<dated, stored, blacklist, daemonVars, usageVars, blk, todo, outside>>

\* updateBlockInfo of the expire column: of every row of the block.
WithExpire(b) == [dated EXCEPT ![b] = listed[b]]

\* processBlockMetadata.
ProcessMetadata(p) ==
  /\ At(p, "process")
  /\ kind[blk[p]] # "unparsable"
  /\ dated' = WithExpire(blk[p])
  /\ IF p \in Getters
     THEN Goto(p, "dequeue") /\ UNCHANGED <<blk, todo>>
     ELSE Leave(p, "idle")
  /\ UNCHANGED <<listed, stored, blacklist, daemonVars, usageVars, outside>>

\* Block.update cannot parse the block and deletes it, without blacklisting it.
DiscardUnparsable(p) ==
  /\ At(p, "process")
  /\ kind[blk[p]] = "unparsable"
  /\ Goto(p, "drop")
  /\ UNCHANGED <<diskVars, daemonVars, usageVars, blk, todo, outside>>

-----------------------------------------------------------------------------
(* core.removeBlock, and the usage record at the end of its call. *)

DropRows(p) ==
  /\ At(p, "drop")
  /\ listed' = [listed EXCEPT ![blk[p]] = 0]
  /\ dated' = [dated EXCEPT ![blk[p]] = 0]
  /\ Goto(p, "measure")
  /\ UNCHANGED <<stored, blacklist, daemonVars, usageVars, blk, todo, outside>>

\* The size of what getData returns: the data, or None if there is none.
DataSize(b) == IF stored[b] > 0 THEN Bytes(b) ELSE NoneBytes

\* The data stays where it is.
CountRemoved(p) ==
  /\ At(p, "measure")
  /\ Usage!RemoveBytes(p, DataSize(blk[p]))
  /\ Goto(p, "removing")
  /\ UNCHANGED <<diskVars, daemonVars, blk, todo, outside>>

\* Fault: a saver whose block has been deleted lists it again.
WriteUsageListsAgain(p) ==
  /\ Usage!Write(p)
  /\ \/ At(p, "adding") /\ Goto(p, "store") /\ UNCHANGED <<blk, todo>>
     \/ /\ At(p, "removing") /\ p \in Cleaners
        /\ Goto(p, "clean")
        /\ blk' = [blk EXCEPT ![p] = NoBlock]
        /\ UNCHANGED todo
     \/ At(p, "removing") /\ p \in Banners /\ Leave(p, "idle")
     \/ At(p, "removing") /\ p \in Savers /\ Goto(p, "row") /\ UNCHANGED <<blk, todo>>
  /\ UNCHANGED <<diskVars, daemonVars, outside>>

\* The number is in the file; the caller of addBytes or removeBytes goes on.
\* After Block.update has deleted a block, processBlockMetadata raises.
WriteUsage(p) ==
  /\ Usage!Write(p)
  /\ \/ At(p, "adding") /\ Goto(p, "store") /\ UNCHANGED <<blk, todo>>
     \/ /\ At(p, "removing") /\ p \in Cleaners
        /\ Goto(p, "clean")
        /\ blk' = [blk EXCEPT ![p] = NoBlock]
        /\ UNCHANGED todo
     \/ At(p, "removing") /\ p \in Banners /\ Leave(p, "idle")
     \/ At(p, "removing") /\ p \in Savers /\ Raise(p)
  /\ UNCHANGED <<diskVars, daemonVars, outside>>

-----------------------------------------------------------------------------
(* clean_old_blocks *)

StartCleaner(c) ==
  /\ At(c, "idle")
  /\ Goto(c, "clean")
  /\ todo' = [todo EXCEPT ![c] = [b \in Blocks |-> IF b \in expired THEN dated[b] ELSE 0]]
  /\ UNCHANGED <<diskVars, daemonVars, usageVars, blk, outside>>

CleanExpired(c, b) ==
  /\ At(c, "clean")
  /\ Visit(c, b, "ban")
  /\ UNCHANGED <<diskVars, daemonVars, usageVars, outside>>

\* Once the expired blocks are gone: while isFull, the oldest block follows.
CheckFull(c) ==
  /\ At(c, "clean")
  /\ todo[c] = Nothing
  /\ IF Usage!IsFull THEN Goto(c, "oldest") /\ UNCHANGED <<blk, todo>>
                     ELSE Leave(c, "idle")
  /\ UNCHANGED <<diskVars, daemonVars, usageVars, outside>>

\* Fault: the oldest block is removed without being blacklisted.
CleanOldestUnbanned(c, b) ==
  /\ At(c, "oldest")
  /\ listed[b] > 0
  /\ blk' = [blk EXCEPT ![c] = b]
  /\ Goto(c, "drop")
  /\ UNCHANGED <<diskVars, daemonVars, usageVars, todo, outside>>

\* getBlockList()[0]: the row with the least dateReceived, which is the time the
\* block came plus a random 0 .. 300 seconds, so any row may be that row.
CleanOldest(c, b) ==
  /\ At(c, "oldest")
  /\ listed[b] > 0
  /\ blk' = [blk EXCEPT ![c] = b]
  /\ Goto(c, "ban")
  /\ UNCHANGED <<diskVars, daemonVars, usageVars, todo, outside>>

\* An empty list: IndexError.
NothingToClean(c) ==
  /\ At(c, "oldest")
  /\ listed = Nothing
  /\ Raise(c)
  /\ UNCHANGED <<diskVars, daemonVars, usageVars, outside>>

-----------------------------------------------------------------------------
(* ban_block *)

StartBan(k, b) ==
  /\ At(k, "idle")
  /\ ~InBlacklist(b)
  /\ blk' = [blk EXCEPT ![k] = b]
  /\ Goto(k, "ban")
  /\ UNCHANGED <<diskVars, daemonVars, usageVars, todo, outside>>

\* blacklist.addToDB, which comes before removeBlock everywhere.
Blacklist(p) ==
  /\ At(p, "ban")
  /\ blacklist' = blacklist \cup {blk[p]}
  /\ Goto(p, "drop")
  /\ UNCHANGED <<listed, dated, stored, daemonVars, usageVars, blk, todo, outside>>

-----------------------------------------------------------------------------
(* What happens outside. *)

Expire(b) ==
  /\ kind[b] = "expiring" /\ b \notin expired
  /\ expired' = expired \cup {b}
  /\ UNCHANGED <<diskVars, daemonVars, usageVars, procVars, kind>>

\* The daemon dies, between any two steps, and is started again.
Crash ==
  /\ MayCrash
  /\ \E p \in Procs \ Banners : pc[p] # "idle"
  /\ queue' = {} /\ downloading' = Nothing
  /\ lookup' = [on |-> FALSE, known |-> {}]
  /\ pc' = [p \in Procs |-> IF p \in Banners THEN pc[p] ELSE "idle"]
  /\ blk' = [p \in Procs |-> IF p \in Banners THEN blk[p] ELSE NoBlock]
  /\ todo' = [p \in Procs |-> Nothing]
  /\ phase' = [p \in Procs |-> IF p \in Banners THEN phase[p] ELSE "idle"]
  /\ amount' = [p \in Procs |-> IF p \in Banners THEN amount[p] ELSE 0]
  /\ UNCHANGED <<diskVars, usage, outside>>

-----------------------------------------------------------------------------

Init ==
  /\ listed = Nothing /\ dated = Nothing /\ stored = Nothing
  /\ blacklist = {}
  /\ queue = {} /\ downloading = Nothing
  /\ lookup = [on |-> FALSE, known |-> {}]
  /\ Usage!CounterInit
  /\ pc = [p \in Procs |-> "idle"]
  /\ blk = [p \in Procs |-> NoBlock]
  /\ todo = [p \in Procs |-> Nothing]
  /\ kind \in [Blocks -> Kinds]
  /\ expired = {}

GetterStep(t) ==
  \/ \E b \in Blocks : Pick(t, b)
  \/ StartGetter(t) \/ EndGetter(t) \/ SkipListed(t) \/ SkipBanned(t)
  \/ Claim(t) \/ Fetched(t) \/ FetchFailed(t) \/ FetchedOther(t)
  \/ DequeueBlock(t) \/ Release(t)

SaveStep(p) ==
  \/ Validate(p) \/ ValidateRaises(p) \/ AlreadySaved(p) \/ CountAdded(p)
  \/ RefuseSave(p) \/ Store(p) \/ CheckRow(p) \/ InsertRow(p)
  \/ ProcessMetadata(p) \/ DiscardUnparsable(p)

CleanerStep(c) ==
  \/ StartCleaner(c) \/ CheckFull(c) \/ NothingToClean(c)
  \/ \E b \in Blocks : CleanExpired(c, b) \/ CleanOldest(c, b)

RemoveStep(p) == Blacklist(p) \/ DropRows(p) \/ CountRemoved(p)

UsageStep(p) == TruncateUsage(p) \/ WriteUsage(p)

LookupStep == BeginLookup \/ EndLookup \/ \E b \in Blocks : Offer(b)

Next ==
  \/ LookupStep
  \/ \E t \in Getters : GetterStep(t)
  \/ \E u \in Importers, b \in Blocks : Upload(u, b)
  \/ \E p \in Savers : SaveStep(p)
  \/ \E c \in Cleaners : CleanerStep(c)
  \/ \E k \in Banners, b \in Blocks : StartBan(k, b)
  \/ \E p \in Procs : RemoveStep(p) \/ UsageStep(p)
  \/ \E b \in Blocks : Expire(b)
  \/ Crash

Spec == Init /\ [][Next]_vars

-----------------------------------------------------------------------------
(* Safety. *)

StateTypeOK ==
  /\ listed \in [Blocks -> Nat] /\ dated \in [Blocks -> Nat]
  /\ stored \in [Blocks -> Nat]
  /\ downloading \in [Blocks -> Nat]
  /\ blacklist \subseteq Blocks /\ queue \subseteq Blocks
  /\ expired \subseteq Blocks /\ kind \in [Blocks -> Kinds]
  /\ lookup \in [on : BOOLEAN, known : SUBSET Blocks]

ProcTypeOK ==
  /\ pc \in [Procs -> Labels]
  /\ blk \in [Procs -> Blocks \cup {NoBlock}]
  /\ todo \in [Procs -> [Blocks -> Nat]]

TypeOK == StateTypeOK /\ ProcTypeOK

(***************************************************************************)
(* A block the node lists, and therefore offers to peers, has its data:    *)
(* the row is inserted only after the data is stored (downloadblocks.py    *)
(* 81-86), and no crash or concurrent removal separates the two.           *)
(***************************************************************************)
RowHasData == \A b \in Blocks : listed[b] > 0 => stored[b] > 0

\* From the append to currentDownloading to the remove, or to the exception.
Claims(t, b) ==
  /\ blk[t] = b
  /\ pc[t] \in Labels \ {"idle", "pick", "listed", "banned", "claim"}

(***************************************************************************)
(* currentDownloading lists a block once for every thread between claiming *)
(* and releasing it, so a release removes the thread's own entry and never *)
(* raises; what a thread that died leaves there stays (downloadblocks.py   *)
(* 52, 115).                                                               *)
(***************************************************************************)
ClaimsCounted ==
  \A b \in Blocks :
    downloading[b] = Cardinality({t \in Getters : Claims(t, b)})

\* Labels between the blacklist check of a saver and the insertion of the row.
Saving == {"claim", "fetch", "check", "save", "adding", "store", "row", "insert"}

Settled(b) ==
  /\ b \in blacklist
  /\ listed[b] = 0
  /\ \A p \in Savers : blk[p] = b => pc[p] \notin Saving

(***************************************************************************)
(* A blacklisted block that is not listed, and that no saver had checked   *)
(* before it was blacklisted, never comes back: whichever path it takes,   *)
(* download or upload, after whatever crash (downloadblocks.py:48,         *)
(* blockimporter.py:26).                                                   *)
(***************************************************************************)
BannedStayAway == [][\A b \in Blocks : Settled(b) => Settled(b)']_vars

(***************************************************************************)
(* Nothing but a blacklisted block is removed: the cleanup and the ban     *)
(* blacklist first, so what they remove is not fetched again from the next *)
(* peer.  A block that cannot be parsed is the exception, removed without  *)
(* being blacklisted (housekeeping.py:28-35, banblocks.py:30-31).          *)
(***************************************************************************)
RemovedAreBanned ==
  [][\A b \in Blocks :
       listed[b] > 0 /\ listed'[b] = 0 =>
         b \in blacklist \/ kind[b] = "unparsable"]_vars

(***************************************************************************)
(* A download thread that is past its checks saves what it has fetched     *)
(* even when the block was banned in between; no more rows come of it than *)
(* there are savers, since each of them looks for a row before it inserts. *)
(***************************************************************************)
RowsBounded ==
  \A b \in Blocks :
    listed[b] + Cardinality({p \in Savers : blk[p] = b /\ pc[p] = "insert"})
      <= Cardinality(Savers)

\* Blocks that a saver has let past the blacklist and not listed yet.
Admitted == {b \in Blocks : \E p \in Savers : blk[p] = b /\ pc[p] \in Saving}

Archive == INSTANCE BlockArchive WITH
  unreadable <- {b \in Blocks : kind[b] = "unparsable"},
  kept <- {b \in Blocks : stored[b] > 0},
  offered <- {b \in Blocks : listed[b] > 0},
  banned <- blacklist,
  admitted <- Admitted

(***************************************************************************)
(* However downloads, uploads, the cleanup, bans and crashes interleave,   *)
(* the node is an archive: a block it lists has passed the blacklist check *)
(* since the last start and has its data, a block leaves the list only     *)
(* when it is banned or cannot be parsed, and data and bans stay           *)
(* (downloadblocks.py:48-87, blockimporter.py:26-48, core.py:214-231).     *)
(***************************************************************************)
ImplementsArchive == Archive!ArchiveSpec

-----------------------------------------------------------------------------
(* Liveness. *)

(***************************************************************************)
(* The timers keep starting threads and a started thread keeps running.    *)
(* Threads do not stay offline: a queued block is tried again and again,   *)
(* and of the requests for it some are answered.                           *)
(***************************************************************************)
Fairness ==
  /\ \A t \in Getters :
       /\ WF_vars(StartGetter(t))
       /\ \A b \in Blocks : SF_vars(Pick(t, b))
       /\ SF_vars(Fetched(t))
       /\ WF_vars(SkipListed(t) \/ SkipBanned(t) \/ Claim(t) \/ DequeueBlock(t)
                  \/ Release(t) \/ FetchFailed(t) \/ EndGetter(t))
  /\ \A p \in Savers : WF_vars(SaveStep(p))
  /\ \A p \in Procs : WF_vars(UsageStep(p)) /\ WF_vars(RemoveStep(p))

LiveSpec == Spec /\ Fairness

(***************************************************************************)
(* A block in the download queue leaves it or is blacklisted: no failed    *)
(* request, concurrent download or ban leaves it there for good.           *)
(***************************************************************************)
QueueServed ==
  \A b \in Blocks :
    b \in queue ~> (b \notin queue \/ b \in blacklist \/ Usage!IsFull)

=============================================================================
