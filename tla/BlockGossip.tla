---------------------------- MODULE BlockGossip ----------------------------
(***************************************************************************)
(* How blocks get from node to node.  The node that makes a block uploads  *)
(* it to a peer.  Apart from that each node asks its peers for the blocks  *)
(* they have received since it asked them last, puts those it lacks in a   *)
(* queue, and downloads them.  A block is accepted if its hash meets the   *)
(* difficulty that the receiver demands, which depends on the size of the  *)
(* block and on how full the receiver's disk is.                           *)
(*                                                                         *)
(* What happens to a block inside a node is in BlockStore, and how it is   *)
(* hidden until it is uploaded in BlockSharing; here an upload, a download *)
(* and the import of a block are one step each.                            *)
(***************************************************************************)
EXTENDS Integers, FiniteSets, FiniteSetsExt, TLC

CONSTANTS
  Nodes, Blocks,
  Online,        \* the nodes that have online peers, which are all the others
  Minute,        \* to which the time stamps of lookups are rounded, 60 in the code
  Spread,        \* how much may be added to the time a block is received, 300 in the code
  MinSend,       \* general.minimum_send_pow
  MinBlock,      \* general.minimum_block_pow
  Large,         \* the blocks whose size demands
  LargeWeight,   \* this difficulty
  Growing,       \* the blocks for which the proof makes that one more
  MaxLuck,       \* bounds of the model: by how much a hash may exceed its difficulty,
  MaxTime,       \* the clock,
  MaxEvents,     \* the requests that fail, the lookups that take time, restarts
                 \* and changes of a disk's usage,
  MaxLookups,    \* and the lookups at a time
  None

ASSUME GossipConstants ==
  /\ Online \subseteq Nodes /\ Large \subseteq Blocks /\ Growing \subseteq Blocks
  /\ Minute \in Nat \ {0} /\ Spread \in Nat
  /\ MinSend \in Nat /\ MinBlock \in Nat \ {0} /\ MinSend >= MinBlock /\ LargeWeight \in Nat
  /\ MaxLuck \in Nat /\ MaxTime \in Nat
  /\ MaxEvents \in Nat /\ MaxLookups \in Nat
  /\ None \notin Int /\ None \notin Nodes

VARIABLES
  now, events,
  author, hash,  \* of each block: who made it, and the difficulty its hash meets
  usage,         \* of each node's disk: "low", "half" or "full"
  received,      \* the date of each node's row for a block, None if it has none
  hidden,        \* hideBlocks of each node
  uploads,       \* blocksToUpload of each node
  queue,         \* blockQueue of each node: the peers that have listed a block
  stamp,         \* dbTimestamps of each node
  lookup,        \* the answer that each node waits for
  refused,       \* history: the blocks whose proof was not enough for a node
  madeFor,       \* history: whether the disk of its author was half full for each block
  missed         \* history: a lookup has failed, or taken time

rows == <<author, hash, received, madeFor>>
sharing == <<hidden, uploads>>
asking == <<queue, stamp, lookup>>
past == <<refused, missed>>
gossipVars == <<now, events, usage, rows, sharing, asking, past>>

Event == events < MaxEvents /\ events' = events + 1

Has(n, b) == received[n][b] # None

GossipInit ==
  /\ now = 0 /\ events = 0
  /\ author = [b \in Blocks |-> None] /\ hash = [b \in Blocks |-> 0]
  /\ madeFor = [b \in Blocks |-> 0]
  /\ usage = [n \in Nodes |-> "low"]
  /\ received = [n \in Nodes |-> [b \in Blocks |-> None]]
  /\ hidden = [n \in Nodes |-> {}] /\ uploads = [n \in Nodes |-> {}]
  /\ queue = [n \in Nodes |-> [b \in Blocks |-> {}]]
  /\ stamp = [n \in Nodes |-> [m \in Nodes |-> None]]
  /\ lookup = [n \in Nodes |-> None]
  /\ refused = [n \in Nodes |-> {}] /\ missed = FALSE

-----------------------------------------------------------------------------
(* Proofs of work. *)

IsFull(n) == usage[n] = "full"

\* getDifficultyModifier: the branches for 75% and 95% come after the one for 50%, and are
\* never taken.
Modifier(n) == IF usage[n] \in {"half", "full"} THEN 1 ELSE 0

Weight(b) == IF b \in Large THEN LargeWeight ELSE 0

\* Fault: the least difficulty is left out.
DifficultyOfSize(n, minimum, weight) == weight + Modifier(n)

\* getDifficultyForNewBlock.
Difficulty(n, minimum, weight) == Max({minimum, weight}) + Modifier(n)

\* SubprocessPOW and POW look at the block before the random token is in it, ...
OwnDifficulty(n, b) == Difficulty(n, MinSend, Weight(b))

\* ... and verifyPow looks at the whole block.
DemandedDifficulty(n, b) ==
  Max({MinBlock, Difficulty(n, MinBlock, Weight(b) + IF b \in Growing THEN 1 ELSE 0)})

VerifyPow(n, b) == hash[b] >= DemandedDifficulty(n, b)

\* What a lookup knows of a block is its hash.
HashMeetsDifficulty(b) == hash[b] >= MinBlock

-----------------------------------------------------------------------------
(* Storing blocks. *)

\* addToBlockDB: a row keeps its date.
WithRow(n, b, later) ==
  IF Has(n, b) THEN received ELSE [received EXCEPT ![n][b] = now + later]

\* insertBlock.
Insert(n, b) ==
  /\ author[b] = None /\ ~IsFull(n)
  /\ author' = [author EXCEPT ![b] = n]
  /\ madeFor' = [madeFor EXCEPT ![b] = Modifier(n)]
  /\ \E luck \in 0..MaxLuck : hash' = [hash EXCEPT ![b] = OwnDifficulty(n, b) + luck]
  /\ \E later \in 0..Spread : received' = WithRow(n, b, later)
  /\ hidden' = [hidden EXCEPT ![n] = @ \cup {b}]
  /\ uploads' = [uploads EXCEPT ![n] = @ \cup {b}]
  /\ UNCHANGED <<now, events, usage, asking, past>>

\* verifyPow, setData and addToBlockDB, when a block arrives at nodes that have room.
Arrive(ms, b) ==
  LET accepting == {m \in ms : VerifyPow(m, b)}
  IN  /\ \E later \in [accepting -> 0..Spread] :
           received' = [m \in Nodes |->
             IF m \in accepting THEN WithRow(m, b, later[m])[m] ELSE received[m]]
      /\ refused' = [m \in Nodes |->
           IF m \in ms \ accepting THEN refused[m] \cup {b} ELSE refused[m]]

-----------------------------------------------------------------------------
(* Uploads. *)

WithRoom(ms) == {m \in ms : ~IsFull(m)}

\* waitforshare: each upload hides the block or shows it again.
Toggled(n, b, ms) ==
  IF Cardinality(ms) % 2 = 0 THEN hidden[n] ELSE SymDiff(hidden[n], {b})

\* The block is posted to some peers, and any answer of theirs counts.
Upload(n, ms, b) ==
  /\ n \in Online /\ n \notin ms /\ b \in uploads[n]
  /\ Arrive(WithRoom(ms), b)
  /\ uploads' = [uploads EXCEPT ![n] = @ \ {b}]
  /\ hidden' = [hidden EXCEPT ![n] = Toggled(n, b, ms)]
  /\ UNCHANGED <<now, events, author, hash, madeFor, usage, asking, missed>>

\* The peer has the block, but its answer is lost.
UploadUnanswered(n, m, b) ==
  /\ n \in Online /\ n # m /\ b \in uploads[n] /\ Event
  /\ Arrive(WithRoom({m}), b)
  /\ UNCHANGED <<now, author, hash, madeFor, usage, sharing, asking, missed>>

-----------------------------------------------------------------------------
(* lookup_blocks_from_communicator, and the list that the peer makes for it. *)

\* Fault: the list begins after the date.
ListedAfter(m, since) ==
  {b \in Blocks \ hidden[m] : Has(m, b) /\ (since = None \/ received[m][b] > since)}

\* getblocklist: the rows from the date on, without the blocks that are hidden.
Listed(m, since) ==
  {b \in Blocks \ hidden[m] : Has(m, b) /\ (since = None \/ received[m][b] >= since)}

\* existingBlocks is read before the list.
Ask(n, m) ==
  /\ n \in Online /\ n # m /\ lookup[n] = None /\ ~IsFull(n)
  /\ Cardinality({k \in Nodes : lookup[k] # None}) < MaxLookups
  /\ lookup' = [lookup EXCEPT ![n] =
       [peer |-> m, new |-> {b \in Listed(m, stamp[n][m]) : ~Has(n, b)}]]
  /\ UNCHANGED <<now, events, usage, rows, sharing, queue, stamp, past>>

Rounded == now - (now % Minute)

\* The time stamp is set, and what is new in the list is queued.
Answered(n) ==
  /\ lookup[n] # None
  /\ LET l == lookup[n]
         new == {b \in l.new : HashMeetsDifficulty(b)}
     IN  /\ stamp' = [stamp EXCEPT ![n][l.peer] = Rounded]
         /\ queue' = [queue EXCEPT ![n] =
              [b \in Blocks |-> IF b \in new THEN @[b] \cup {l.peer} ELSE @[b]]]
  /\ lookup' = [lookup EXCEPT ![n] = None]
  /\ UNCHANGED <<now, events, usage, rows, sharing, past>>

\* peerAction returns False, and the time stamp is set all the same.
Unanswered(n) ==
  /\ lookup[n] # None
  /\ Event
  /\ stamp' = [stamp EXCEPT ![n][lookup[n].peer] = Rounded]
  /\ lookup' = [lookup EXCEPT ![n] = None]
  /\ missed' = TRUE
  /\ UNCHANGED <<now, usage, rows, sharing, queue, refused>>

-----------------------------------------------------------------------------
(* download_blocks_from_communicator; a download that fails changes nothing here. *)

Unqueued(n, b) == queue' = [queue EXCEPT ![n][b] = {}]

DropQueued(n, b) ==
  /\ queue[n][b] # {} /\ Has(n, b)
  /\ Unqueued(n, b)
  /\ UNCHANGED <<now, events, usage, rows, sharing, stamp, lookup, past>>

Download(n, b) ==
  /\ queue[n][b] # {} /\ ~Has(n, b) /\ ~IsFull(n)
  /\ \E m \in queue[n][b] : Has(m, b) /\ b \notin hidden[m]
  /\ Arrive({n}, b)
  /\ Unqueued(n, b)
  /\ UNCHANGED <<now, events, author, hash, madeFor, usage, sharing, stamp, lookup, missed>>

-----------------------------------------------------------------------------
(* Other data come and go, time passes, and nodes are restarted. *)

Fill(n) ==
  /\ Event
  /\ usage' \in {[usage EXCEPT ![n] = u] : u \in {"low", "half", "full"} \ {usage[n]}}
  /\ UNCHANGED <<now, rows, sharing, asking, past>>

Tick ==
  /\ now < MaxTime
  /\ now' = now + 1
  /\ IF \E n \in Nodes : lookup[n] # None
     THEN Event /\ missed' = TRUE
     ELSE UNCHANGED <<events, missed>>
  /\ UNCHANGED <<usage, rows, sharing, asking, refused>>

\* The queue, the time stamps and what is hidden are only kept in memory.
Restart(n) ==
  /\ Event
  /\ hidden' = [hidden EXCEPT ![n] = {}] /\ uploads' = [uploads EXCEPT ![n] = {}]
  /\ queue' = [queue EXCEPT ![n] = [b \in Blocks |-> {}]]
  /\ stamp' = [stamp EXCEPT ![n] = [m \in Nodes |-> None]]
  /\ lookup' = [lookup EXCEPT ![n] = None]
  /\ UNCHANGED <<now, usage, rows, past>>

GossipNext ==
  \/ \E n \in Nodes, b \in Blocks : Insert(n, b) \/ DropQueued(n, b) \/ Download(n, b)
  \/ \E n \in Nodes, ms \in SUBSET Nodes \ {{}}, b \in Blocks : Upload(n, ms, b)
  \/ \E n, m \in Nodes, b \in Blocks : UploadUnanswered(n, m, b)
  \/ \E n, m \in Nodes : Ask(n, m)
  \/ \E n \in Nodes : Answered(n) \/ Unanswered(n) \/ Fill(n) \/ Restart(n)
  \/ Tick

GossipSpec == GossipInit /\ [][GossipNext]_gossipVars

NodeSymmetry == Permutations(Online) \cup Permutations(Nodes \ Online)

-----------------------------------------------------------------------------
(* Properties. *)

\* A block that a peer will not list to a node again is not lost on the node: it has it, is
\* going to download it, or did not accept its proof.  This is so as long as no lookup
\* failed or took time, for blocks the peer did not hide when it was asked
\* (lookup_blocks_from_communicator, get_public_block_list, addToBlockDB).
NothingMissed ==
  ~missed =>
    \A n, m \in Nodes, b \in Blocks :
      /\ n # m /\ author[b] # m /\ Has(m, b)
      /\ stamp[n][m] # None /\ received[m][b] < stamp[n][m]
      => Has(n, b) \/ queue[n][b] # {} \/ b \in refused[n]

\* A node refuses only blocks whose author's disk was emptier than its own, or that have
\* grown by their proof: the two sides agree about everything else
\* (getDifficultyForNewBlock, verifyPow).
RefusedByFuller ==
  [][\A n \in Nodes : \A b \in refused'[n] \ refused[n] :
       Modifier(n) > madeFor[b] \/ b \in Growing]_gossipVars
=============================================================================
