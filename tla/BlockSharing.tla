---------------------------- MODULE BlockSharing ----------------------------
(***************************************************************************)
(* How a node publishes the blocks it creates.                             *)
(*                                                                         *)
(* To make it harder to tell who created a block, insertBlock asks the API *)
(* server to hide it (waitforshare, a toggle), and queues an uploadBlock   *)
(* command for the daemon, which uploads the block to a few peers and      *)
(* toggles it again.  Three sorts of threads and processes take part:      *)
(* whoever inserts a block, the daemonCommands threads, which move         *)
(* commands of the queue database to blocksToUpload, and the one           *)
(* uploadBlock thread, which the timer starts over and over.               *)
(***************************************************************************)
EXTENDS Integers, Sequences

CONSTANTS
  Blocks,         \* the blocks the node creates
  Peers,          \* peers it may be connected to
  Handlers,       \* daemonCommands threads
  PeersPerBlock,  \* how many peers are picked for a block, 6 in the code
  NoBlock,
  LoseRequests,   \* whether requests to the API server may fail
  MayRestart      \* whether the daemon may be restarted

ASSUME SharingConstants ==
  /\ NoBlock \notin Blocks
  /\ PeersPerBlock \in Nat
  /\ LoseRequests \in BOOLEAN /\ MayRestart \in BOOLEAN

VARIABLES
  stage,       \* of the insertion of each block
  listed,      \* blocks with a row in the hashes table
  commands,    \* the blocks of the uploadBlock commands in the queue database
  hideBlocks,  \* of the public API
  toUpload,    \* blocksToUpload, a list: occurrences by block
  handling,    \* what each daemonCommands thread has selected, and how far it is
  up, cur,     \* where the upload thread is, and the block it uploads
  shuffled,    \* the shuffled copy of blocksToUpload that is about to replace it
  todo,        \* what its loop still has to visit, by occurrences
  tried, sent, \* triedPeers, and how many of them for the block
  finished,    \* finishedUploads, by occurrences
  \* what happened, for the properties
  asked,       \* blocks the API server was asked to hide, since it was started
  queued,      \* blocks that were queued, since the daemon was started
  uploaded,    \* blocks that a peer has answered for
  overwritten  \* blocks appended to a blocksToUpload that was then replaced

insertVars == <<stage, listed, asked, queued>>
handleVars == <<commands, handling>>
uploadVars == <<up, cur, shuffled, todo, tried, sent, finished, uploaded, overwritten>>
vars == <<insertVars, handleVars, uploadVars, hideBlocks, toUpload>>

Stages == {"none", "ping", "hide", "queue", "row", "done"}
Places == {"idle", "shuffled", "loop", "block", "posting", "toggle", "remove"}

Nothing == [b \in Blocks |-> 0]
Idle == [step |-> "idle", block |-> NoBlock]

\* Where the upload thread iterates over blocksToUpload.
Iterating == up \in {"loop", "block", "posting", "toggle"}

\* What waitforshare does: the name leaves the list, or joins it.
Toggled(b) == IF b \in hideBlocks THEN hideBlocks \ {b} ELSE hideBlocks \cup {b}

-----------------------------------------------------------------------------
(* core.insertBlock, from the block's data being stored. *)

Advance(b, from, to) == stage[b] = from /\ stage' = [stage EXCEPT ![b] = to]

Create(b) ==
  /\ Advance(b, "none", "ping")
  /\ UNCHANGED <<listed, asked, queued, handleVars, uploadVars, hideBlocks, toUpload>>

\* The API server answers the ping.
Ping(b) ==
  /\ Advance(b, "ping", "hide")
  /\ UNCHANGED <<listed, asked, queued, handleVars, uploadVars, hideBlocks, toUpload>>

\* It does not, and the block is neither hidden nor uploaded.
PingFails(b) ==
  /\ LoseRequests
  /\ Advance(b, "ping", "row")
  /\ UNCHANGED <<listed, asked, queued, handleVars, uploadVars, hideBlocks, toUpload>>

Hide(b) ==
  /\ Advance(b, "hide", "queue")
  /\ hideBlocks' = Toggled(b)
  /\ asked' = asked \cup {b}
  /\ UNCHANGED <<listed, queued, handleVars, uploadVars, toUpload>>

\* localCommand swallows the exception, and insertBlock ignores the result.
HideFails(b) ==
  /\ LoseRequests
  /\ Advance(b, "hide", "queue")
  /\ UNCHANGED <<listed, asked, queued, handleVars, uploadVars, hideBlocks, toUpload>>

\* daemonQueueAdd
QueueUpload(b) ==
  /\ Advance(b, "queue", "row")
  /\ commands' = Append(commands, b)
  /\ queued' = queued \cup {b}
  /\ UNCHANGED <<listed, asked, handling, uploadVars, hideBlocks, toUpload>>

\* addToBlockDB
AddRow(b) ==
  /\ Advance(b, "row", "done")
  /\ listed' = listed \cup {b}
  /\ UNCHANGED <<asked, queued, handleVars, uploadVars, hideBlocks, toUpload>>

-----------------------------------------------------------------------------
(* daemonQueue, which selects the first command and then deletes it, and the
   uploadBlock branch of handle_daemon_commands. *)

Select(h) ==
  /\ handling[h] = Idle
  /\ commands # <<>>
  /\ handling' = [handling EXCEPT ![h] = [step |-> "delete", block |-> Head(commands)]]
  /\ UNCHANGED <<commands, insertVars, uploadVars, hideBlocks, toUpload>>

\* The row with the id that was selected, if no other thread has deleted it: it
\* is the first one still, since ids only grow.
Delete(h) ==
  /\ handling[h].step = "delete"
  /\ commands' = IF commands # <<>> /\ Head(commands) = handling[h].block
                 THEN Tail(commands) ELSE commands
  /\ handling' = [handling EXCEPT ![h].step = "append"]
  /\ UNCHANGED <<insertVars, uploadVars, hideBlocks, toUpload>>

\* Fault: the command is popped, and its block is not appended.
HandleNothing(h) ==
  /\ handling[h].step = "append"
  /\ handling' = [handling EXCEPT ![h] = Idle]
  /\ UNCHANGED <<commands, insertVars, uploadVars, hideBlocks, toUpload>>

\* A list that the upload thread iterates over at the time grows under its loop.
Handle(h) ==
  /\ handling[h].step = "append"
  /\ LET b == handling[h].block IN
     /\ toUpload' = [toUpload EXCEPT ![b] = @ + 1]
     /\ todo' = IF Iterating THEN [todo EXCEPT ![b] = @ + 1] ELSE todo
  /\ handling' = [handling EXCEPT ![h] = Idle]
  /\ UNCHANGED <<commands, insertVars, hideBlocks>>
  /\ UNCHANGED <<up, cur, shuffled, tried, sent, finished, uploaded, overwritten>>

-----------------------------------------------------------------------------
(* upload_blocks_from_communicator *)

\* randomShuffle copies the list ...
StartUpload ==
  /\ up = "idle"
  /\ up' = "shuffled"
  /\ shuffled' = toUpload
  /\ UNCHANGED <<cur, todo, tried, sent, finished, uploaded, overwritten>>
  /\ UNCHANGED <<insertVars, handleVars, hideBlocks, toUpload>>

\* ... and the copy replaces it, with whatever was appended in between.
Reassign ==
  /\ up = "shuffled"
  /\ up' = "loop"
  /\ toUpload' = shuffled /\ todo' = shuffled /\ shuffled' = Nothing
  /\ overwritten' = overwritten \cup {b \in Blocks : toUpload[b] # shuffled[b]}
  /\ tried' = {}
  /\ UNCHANGED <<cur, sent, finished, uploaded, insertVars, handleVars, hideBlocks>>

Visit(b) ==
  /\ up = "loop" /\ todo[b] > 0
  /\ up' = "block"
  /\ cur' = b /\ sent' = 0
  /\ todo' = [todo EXCEPT ![b] = @ - 1]
  /\ UNCHANGED <<shuffled, tried, finished, uploaded, overwritten>>
  /\ UNCHANGED <<insertVars, handleVars, hideBlocks, toUpload>>

\* pickOnlinePeer picks a peer that was not tried yet for any block of this run.
Send(peer) ==
  /\ up = "block" /\ sent < PeersPerBlock
  /\ peer \notin tried
  /\ up' = "posting"
  /\ tried' = tried \cup {peer} /\ sent' = sent + 1
  /\ UNCHANGED <<cur, shuffled, todo, finished, uploaded, overwritten>>
  /\ UNCHANGED <<insertVars, handleVars, hideBlocks, toUpload>>

\* doPostRequest returns the peer's answer.
Answered ==
  /\ up = "posting"
  /\ up' = "toggle"
  /\ uploaded' = uploaded \cup {cur}
  /\ UNCHANGED <<cur, shuffled, todo, tried, sent, finished, overwritten>>
  /\ UNCHANGED <<insertVars, handleVars, hideBlocks, toUpload>>

\* Fault: the result of the request is not looked at.
UnansweredToggles ==
  /\ up = "posting"
  /\ up' = "toggle"
  /\ UNCHANGED <<cur, shuffled, todo, tried, sent, finished, uploaded, overwritten>>
  /\ UNCHANGED <<insertVars, handleVars, hideBlocks, toUpload>>

\* It returns False.
Unanswered ==
  /\ up = "posting"
  /\ up' = "block"
  /\ UNCHANGED <<cur, shuffled, todo, tried, sent, finished, uploaded, overwritten>>
  /\ UNCHANGED <<insertVars, handleVars, hideBlocks, toUpload>>

\* waitforshare again, and finishedUploads.append(bl).
Toggle ==
  /\ up = "toggle"
  /\ up' = "block"
  /\ \/ hideBlocks' = Toggled(cur)
     \/ LoseRequests /\ UNCHANGED hideBlocks
  /\ finished' = [finished EXCEPT ![cur] = @ + 1]
  /\ UNCHANGED <<cur, shuffled, todo, tried, sent, uploaded, overwritten>>
  /\ UNCHANGED <<insertVars, handleVars, toUpload>>

\* The peers picked for the block are exhausted, or were all tried before.
EndBlock ==
  /\ up = "block"
  /\ up' = "loop" /\ cur' = NoBlock /\ sent' = 0
  /\ UNCHANGED <<shuffled, todo, tried, finished, uploaded, overwritten>>
  /\ UNCHANGED <<insertVars, handleVars, hideBlocks, toUpload>>

EndLoop ==
  /\ up = "loop" /\ todo = Nothing
  /\ up' = "remove"
  /\ tried' = {}
  /\ UNCHANGED <<cur, shuffled, todo, sent, finished, uploaded, overwritten>>
  /\ UNCHANGED <<insertVars, handleVars, hideBlocks, toUpload>>

\* blocksToUpload.remove(x); that it is gone already is no error.
RemoveFinished(b) ==
  /\ up = "remove" /\ finished[b] > 0
  /\ finished' = [finished EXCEPT ![b] = @ - 1]
  /\ toUpload' = [toUpload EXCEPT ![b] = IF @ > 0 THEN @ - 1 ELSE 0]
  /\ UNCHANGED <<up, cur, shuffled, todo, tried, sent, uploaded, overwritten>>
  /\ UNCHANGED <<insertVars, handleVars, hideBlocks>>

\* Fault: everything that was on the list leaves it, uploaded or not.
EndUploadClears ==
  /\ up = "remove" /\ finished = Nothing
  /\ up' = "idle"
  /\ toUpload' = Nothing
  /\ UNCHANGED <<cur, shuffled, todo, tried, sent, finished, uploaded, overwritten>>
  /\ UNCHANGED <<insertVars, handleVars, hideBlocks>>

EndUpload ==
  /\ up = "remove" /\ finished = Nothing
  /\ up' = "idle"
  /\ UNCHANGED <<cur, shuffled, todo, tried, sent, finished, uploaded, overwritten>>
  /\ UNCHANGED <<insertVars, handleVars, hideBlocks, toUpload>>

-----------------------------------------------------------------------------

\* The daemon and the API server, one process, start again: their lists are
\* empty, and the communicator clears the queue database.
Restart ==
  /\ MayRestart
  /\ hideBlocks' = {} /\ commands' = <<>>
  /\ handling' = [h \in Handlers |-> Idle]
  /\ up' = "idle" /\ cur' = NoBlock
  /\ toUpload' = Nothing /\ shuffled' = Nothing /\ todo' = Nothing
  /\ tried' = {} /\ sent' = 0 /\ finished' = Nothing
  /\ asked' = {} /\ queued' = {}
  /\ UNCHANGED <<stage, listed, uploaded, overwritten>>

Init ==
  /\ stage = [b \in Blocks |-> "none"] /\ listed = {} /\ asked = {} /\ queued = {}
  /\ commands = <<>> /\ handling = [h \in Handlers |-> Idle]
  /\ hideBlocks = {} /\ toUpload = Nothing
  /\ up = "idle" /\ cur = NoBlock
  /\ shuffled = Nothing /\ todo = Nothing
  /\ tried = {} /\ sent = 0 /\ finished = Nothing
  /\ uploaded = {} /\ overwritten = {}

InsertStep(b) ==
  \/ Create(b) \/ Ping(b) \/ PingFails(b) \/ Hide(b) \/ HideFails(b)
  \/ QueueUpload(b) \/ AddRow(b)

HandleStep(h) == Select(h) \/ Delete(h) \/ Handle(h)

UploadStep ==
  \/ StartUpload \/ Reassign \/ Answered \/ Unanswered \/ Toggle
  \/ EndBlock \/ EndLoop \/ EndUpload
  \/ \E b \in Blocks : Visit(b) \/ RemoveFinished(b)
  \/ \E peer \in Peers : Send(peer)

Next ==
  \/ \E b \in Blocks : InsertStep(b)
  \/ \E h \in Handlers : HandleStep(h)
  \/ UploadStep
  \/ Restart

Spec == Init /\ [][Next]_vars

-----------------------------------------------------------------------------
(* Safety. *)

TypeOK ==
  /\ stage \in [Blocks -> Stages] /\ listed \subseteq Blocks
  /\ asked \subseteq Blocks /\ queued \subseteq Blocks
  /\ commands \in Seq(Blocks)
  /\ handling \in [Handlers -> [step : {"idle", "delete", "append"},
                                block : Blocks \cup {NoBlock}]]
  /\ hideBlocks \subseteq Blocks /\ toUpload \in [Blocks -> Nat]
  /\ up \in Places /\ cur \in Blocks \cup {NoBlock}
  /\ shuffled \in [Blocks -> Nat] /\ todo \in [Blocks -> Nat]
  /\ tried \subseteq Peers /\ sent \in Nat /\ finished \in [Blocks -> Nat]
  /\ uploaded \subseteq Blocks /\ overwritten \subseteq Blocks

(***************************************************************************)
(* As long as the daemon runs, a block the API server was asked to hide is *)
(* not public before a peer has answered for it: the toggle that the       *)
(* upload thread sends never comes first (core.py:807, uploadblocks.py:44).*)
(***************************************************************************)
HiddenUntilUploaded == \A b \in asked : b \in hideBlocks \/ b \in uploaded

\* On its way to a peer: queued, being handled, or to be uploaded.
Pending(b) ==
  \/ \E i \in DOMAIN commands : commands[i] = b
  \/ \E h \in Handlers : handling[h] # Idle /\ handling[h].block = b
  \/ toUpload[b] > 0

(***************************************************************************)
(* As long as the daemon runs, a block whose upload was queued is still on *)
(* its way, or was uploaded, or was lost in the one way there is: it was   *)
(* appended to blocksToUpload while the upload thread was shuffling it     *)
(* (uploadblocks.py:28, daemonqueuehandler.py:48).                         *)
(***************************************************************************)
NoneForgotten ==
  \A b \in queued : Pending(b) \/ b \in uploaded \/ b \in overwritten

-----------------------------------------------------------------------------
(* Liveness. *)

(***************************************************************************)
(* The timers start the threads over and over, and the threads run.  The   *)
(* list is shuffled before each run, so each block is the first one, which *)
(* finds every peer untried, again and again; and of the uploads of a      *)
(* block that are tried again and again some are answered.                 *)
(***************************************************************************)
Fairness ==
  /\ \A h \in Handlers : WF_vars(HandleStep(h))
  /\ WF_vars(UploadStep)
  /\ \A b \in Blocks :
       /\ SF_vars(cur = b /\ \E peer \in Peers : Send(peer))
       /\ SF_vars(cur = b /\ Answered)

LiveSpec == Spec /\ Fairness

(***************************************************************************)
(* A queued block is uploaded, however the handlers and the upload thread  *)
(* interleave, unless a shuffle overwrites it or the daemon is restarted.  *)
(***************************************************************************)
QueuedIsUploaded ==
  \A b \in Blocks : b \in queued ~> (b \in uploaded \cup overwritten \/ b \notin queued)

=============================================================================
