------------------------------ MODULE PeerPool ------------------------------
(***************************************************************************)
(* The peers a node talks to, and the threads of the daemon that look      *)
(* after them: threads that refill the pool of online peers, threads that  *)
(* make requests and drop a peer that does not answer, one that cools      *)
(* peers down, and the removal of badly scored addresses.                  *)
(*                                                                         *)
(* The lists and dictionaries have no lock.  A step goes from one request, *)
(* access to a database or message to the user to the next: what it found  *)
(* in a list before may have changed by then.                              *)
(***************************************************************************)
EXTENDS Integers, FiniteSets, Sequences, SequencesExt

CONSTANTS
  Peers,        \* addresses of other nodes
  Bootstrap,    \* bootstrapList
  Timers,       \* threads of the getOnlinePeers timer
  Users,        \* threads that make requests: lookups, downloads, peer exchange
  MaxConnect,   \* peers.max_connect
  FewPeers,     \* with fewer addresses than this, new ones are always tried (8 in the code)
  MinScore,     \* peers.minimum_score
  Rated, Worst, Best,  \* bounds of the model: the peers whose scores are followed, and
                       \* these from -Worst to Best
  Newcomers,    \* addresses that other nodes may tell of
  Lasting,      \* the nodes that are never gone for good
  None

Threads == Timers \cup Users

ASSUME PoolConstants ==
  /\ IsFiniteSet(Peers) /\ Bootstrap \subseteq Peers /\ Newcomers \subseteq Peers
  /\ Lasting \subseteq Peers /\ Rated \subseteq Peers
  /\ IsFiniteSet(Threads) /\ Timers \cap Users = {}
  /\ MaxConnect \in Nat /\ FewPeers \in Nat
  /\ MinScore \in Int /\ Worst \in Nat /\ Best \in Nat
  /\ None \notin Peers /\ None \notin Int

VARIABLES
  \* of the daemon
  onlinePeers,   \* the list of addresses that are connected
  offlinePeers,  \* the list of addresses tried in vain, oldest first
  cooldownPeer,  \* "no", or for how long the peer has been cooling down
  connectTimes,  \* "no", or how long ago the peer was connected
  newPeers,      \* addresses heard of, not tried yet
  profile,       \* score of the loaded profile, None if there is none
  shutdown,
  \* the address database
  stored, score,
  \* each thread: where it is, the address it deals with, the peers it still has to
  \* connect, whether it takes the bootstrap list, the addresses left to try, and
  \* those of them that were not stored when it made the list
  pc, peer, needed, useBootstrap, list, fresh,
  overlapped  \* history: a refill has started during another one

pool == <<onlinePeers, offlinePeers, cooldownPeer, connectTimes>>
addresses == <<newPeers, profile, stored, score>>
locals == <<peer, needed, useBootstrap, list, fresh>>
vars == <<pool, addresses, shutdown, pc, locals, overlapped>>

Ages == {"no", "recent", "long"}
Labels == {"idle", "next", "boot", "consider", "ping", "merge", "append", "ask", "remove"}

TypeOK ==
  /\ onlinePeers \in Seq(Peers) /\ offlinePeers \in Seq(Peers)
  /\ cooldownPeer \in [Peers -> Ages] /\ connectTimes \in [Peers -> Ages]
  /\ newPeers \subseteq Peers /\ profile \in [Peers -> Int \cup {None}]
  /\ shutdown \in BOOLEAN /\ overlapped \in BOOLEAN
  /\ stored \subseteq Peers /\ score \in [Peers -> Int]
  /\ pc \in [Threads -> Labels] /\ peer \in [Threads -> Peers \cup {None}]
  /\ needed \in [Threads -> Nat] /\ useBootstrap \in [Threads -> BOOLEAN]
  /\ list \in [Threads -> SUBSET Peers] /\ fresh \in [Threads -> SUBSET Peers]

Online == ToSet(onlinePeers)
Offline == ToSet(offlinePeers)
Cooling == {p \in Peers : cooldownPeer[p] # "no"}
PoolSize == Len(onlinePeers)

Init ==
  /\ onlinePeers = <<>> /\ offlinePeers = <<>>
  /\ cooldownPeer = [p \in Peers |-> "no"] /\ connectTimes = [p \in Peers |-> "no"]
  /\ newPeers = {} /\ profile = [p \in Peers |-> None]
  /\ shutdown = FALSE /\ overlapped = FALSE
  /\ stored \in SUBSET Peers /\ score = [p \in Peers |-> 0]
  /\ pc = [t \in Threads |-> "idle"] /\ peer = [t \in Threads |-> None]
  /\ needed = [t \in Threads |-> 0] /\ useBootstrap = [t \in Threads |-> FALSE]
  /\ list = [t \in Threads |-> {}] /\ fresh = [t \in Threads |-> {}]

-----------------------------------------------------------------------------
(* Scores, and the address database. *)

Bounded(p, n) ==
  IF p \notin Rated THEN 0 ELSE IF n > Best THEN Best ELSE IF n < -Worst THEN -Worst ELSE n

\* getAddressInfo, where loadScore takes an address without a row for one without a score.
StoredScore(p) == IF p \in stored THEN score[p] ELSE 0

\* getPeerProfileInstance: of the list of profiles, or from the row.
LoadedScore(p) == IF profile[p] = None THEN StoredScore(p) ELSE profile[p]

\* Fault: the profile in the list is not looked for.
AddScoreReloaded(p, n) ==
  /\ profile' = profile
  /\ score' = IF p \in stored THEN [score EXCEPT ![p] = Bounded(p, score[p] + n)] ELSE score

\* addScore of the peer's profile; the row is written if there is one.
AddScore(p, n) ==
  LET new == Bounded(p, LoadedScore(p) + n)
  IN  /\ profile' = IF profile[p] = None THEN profile ELSE [profile EXCEPT ![p] = new]
      /\ score' = IF p \in stored THEN [score EXCEPT ![p] = new] ELSE score

\* What an answer, and no answer, add to the score.
Reward == 1
Penalty == -10

-----------------------------------------------------------------------------
(* getOnlinePeers and connect_new_peer_to_communicator. *)

Goto(t, from, to) == pc[t] = from /\ pc' = [pc EXCEPT ![t] = to]

\* Fault: as many peers as allowed are connected, however many are online.
MissingAll == MaxConnect

\* How many peers are missing, when a refill starts.
Missing == IF PoolSize < MaxConnect THEN MaxConnect - PoolSize ELSE 0

\* The threads that have peers left to connect.
Refilling == {t \in Threads : needed[t] > 0}

StartRefill(t) ==
  /\ t \in Timers /\ ~shutdown
  /\ Goto(t, "idle", "next")
  /\ needed' = [needed EXCEPT ![t] = Missing]
  /\ overlapped' = (overlapped \/ Refilling # {})
  /\ UNCHANGED <<pool, addresses, shutdown, peer, useBootstrap, list, fresh>>

\* Enough tries, or the node stops.
EndRefill(t) ==
  /\ needed[t] = 0 \/ shutdown
  /\ Goto(t, "next", "idle")
  /\ needed' = [needed EXCEPT ![t] = 0]
  /\ UNCHANGED <<pool, addresses, shutdown, peer, useBootstrap, list, fresh, overlapped>>

\* List the stored addresses; if they are few, or now and then, also take the new ones.
ListPeers(t) ==
  /\ needed[t] > 0 /\ ~shutdown
  /\ Goto(t, "next", "boot")
  /\ useBootstrap' = [useBootstrap EXCEPT ![t] = (PoolSize = 0)]
  /\ \/ /\ list' = [list EXCEPT ![t] = stored \cup newPeers]
        /\ fresh' = [fresh EXCEPT ![t] = newPeers \ stored]
        /\ newPeers' = newPeers \cap stored
     \/ /\ Cardinality(stored) >= FewPeers
        /\ list' = [list EXCEPT ![t] = stored]
        /\ UNCHANGED <<newPeers, fresh>>
  /\ UNCHANGED <<pool, profile, stored, score, shutdown, peer, needed, overlapped>>

\* Fault: the bootstrap list is only taken if nothing else is known.
AddBootstrapIfNone(t) ==
  LET added == IF list[t] = {} THEN Bootstrap \ (list[t] \cup Offline) ELSE {}
  IN  /\ Goto(t, "boot", "consider")
      /\ list' = [list EXCEPT ![t] = @ \cup added]
      /\ fresh' = [fresh EXCEPT ![t] = @ \cup added]
      /\ stored' = stored \cup added
      /\ useBootstrap' = [useBootstrap EXCEPT ![t] = FALSE]
      /\ UNCHANGED <<pool, newPeers, profile, score, shutdown, peer, needed, overlapped>>

\* addBootstrapListToPeerList, when nobody is online or there is nothing else to try.
AddBootstrap(t) ==
  LET added == IF list[t] = {} \/ useBootstrap[t] THEN Bootstrap \ (list[t] \cup Offline) ELSE {}
  IN  /\ Goto(t, "boot", "consider")
      /\ list' = [list EXCEPT ![t] = @ \cup added]
      /\ fresh' = [fresh EXCEPT ![t] = @ \cup added]
      /\ stored' = stored \cup added
      /\ useBootstrap' = [useBootstrap EXCEPT ![t] = FALSE]
      /\ UNCHANGED <<pool, newPeers, profile, score, shutdown, peer, needed, overlapped>>

\* Fault: addresses that were tried in vain are tried again at once.
UnsuitableButTried == Online \cup Cooling

\* Tried, connected or cooling down.
Unsuitable == Offline \cup Online \cup Cooling

\* The first address of the list that is suitable is tried; the order is not modelled.
Try(t, p) ==
  /\ p \in list[t] \ Unsuitable
  /\ ~shutdown
  /\ Goto(t, "consider", "ping")
  /\ \E skipped \in SUBSET (list[t] \cap Unsuitable) :
       /\ list' = [list EXCEPT ![t] = @ \ (skipped \cup {p})]
       /\ fresh' = [fresh EXCEPT ![t] = @ \ skipped]
  /\ peer' = [peer EXCEPT ![t] = p]
  /\ UNCHANGED <<pool, addresses, shutdown, needed, useBootstrap, overlapped>>

\* This try is over: the list is used up, a peer has been connected, or the node stops.
NextTry(t, from) ==
  /\ Goto(t, from, "next")
  /\ needed' = [needed EXCEPT ![t] = @ - 1]
  /\ list' = [list EXCEPT ![t] = {}] /\ fresh' = [fresh EXCEPT ![t] = {}]
  /\ peer' = [peer EXCEPT ![t] = None]
  /\ UNCHANGED useBootstrap

UseUp(t) ==
  /\ shutdown \/ list[t] \subseteq Unsuitable
  /\ NextTry(t, "consider")
  /\ UNCHANGED <<pool, addresses, shutdown, overlapped>>

PingAnswered(t) ==
  /\ Goto(t, "ping", "merge")
  /\ AddScore(peer[t], Reward)
  /\ UNCHANGED <<pool, newPeers, stored, shutdown, locals, overlapped>>

PingFails(t) ==
  /\ Goto(t, "ping", "remove")
  /\ AddScore(peer[t], Penalty)
  /\ UNCHANGED <<pool, newPeers, stored, shutdown, locals, overlapped>>

\* mergeAdders, for an address that was not stored when the list was made, and a second
\* look at onlinePeers.
Merge(t) == stored' = IF peer[t] \in fresh[t] THEN stored \cup {peer[t]} ELSE stored

AddProfile(p) == profile' = [profile EXCEPT ![p] = LoadedScore(p)]

MergeNew(t) ==
  /\ pc[t] = "merge" /\ peer[t] \notin Online
  /\ Goto(t, "merge", "append")
  /\ Merge(t)
  /\ UNCHANGED <<pool, newPeers, profile, score, shutdown, locals, overlapped>>

\* Another thread has connected the peer in the meantime.
AlreadyOnline(t) ==
  /\ pc[t] = "merge" /\ peer[t] \in Online
  /\ Merge(t) /\ AddProfile(peer[t])
  /\ NextTry(t, "merge")
  /\ UNCHANGED <<pool, newPeers, score, shutdown, overlapped>>

AppendOnline(t) ==
  /\ pc[t] = "append"
  /\ onlinePeers' = Append(onlinePeers, peer[t])
  /\ connectTimes' = [connectTimes EXCEPT ![peer[t]] = "recent"]
  /\ AddProfile(peer[t])
  /\ NextTry(t, "append")
  /\ UNCHANGED <<offlinePeers, cooldownPeer, newPeers, stored, score, shutdown, overlapped>>

-----------------------------------------------------------------------------
(* peerAction, and what it does with a peer that does not answer. *)

Ask(t, p) ==
  /\ t \in Users /\ p \in Online /\ ~shutdown
  /\ Goto(t, "idle", "ask")
  /\ peer' = [peer EXCEPT ![t] = p]
  /\ UNCHANGED <<pool, addresses, shutdown, needed, useBootstrap, list, fresh, overlapped>>

\* The answer may be a list of addresses for newPeers (lookup_new_peer_transports).
Answered(t, S) ==
  /\ pc[t] = "ask" /\ Goto(t, "ask", "idle")
  /\ AddScore(peer[t], Reward)
  /\ newPeers' = newPeers \cup S
  /\ peer' = [peer EXCEPT ![t] = None]
  /\ UNCHANGED <<pool, stored, shutdown, needed, useBootstrap, list, fresh, overlapped>>

Unanswered(t) ==
  /\ pc[t] = "ask" /\ Goto(t, "ask", "remove")
  /\ AddScore(peer[t], Penalty)
  /\ UNCHANGED <<pool, newPeers, stored, shutdown, locals, overlapped>>

\* removeOnlinePeer: the time stamp, and the first entry in the list.
RemoveOnline(p) ==
  /\ connectTimes' = [connectTimes EXCEPT ![p] = "no"]
  /\ \/ p \notin Online /\ UNCHANGED onlinePeers
     \/ \E i \in 1..PoolSize :
          /\ onlinePeers[i] = p /\ \A j \in 1..(i - 1) : onlinePeers[j] # p
          /\ onlinePeers' = RemoveAt(onlinePeers, i)

\* After a ping, the address is marked as tried and the next one considered.
RemovePinged(t) ==
  /\ pc[t] = "remove" /\ needed[t] > 0
  /\ Goto(t, "remove", "consider")
  /\ RemoveOnline(peer[t])
  /\ offlinePeers' = Append(offlinePeers, peer[t])
  /\ fresh' = [fresh EXCEPT ![t] = @ \ {peer[t]}]
  /\ peer' = [peer EXCEPT ![t] = None]
  /\ UNCHANGED <<cooldownPeer, addresses, shutdown, needed, useBootstrap, list, overlapped>>

\* After any other request, getOnlinePeers is called in the same thread.
RemoveAsked(t) ==
  /\ pc[t] = "remove" /\ needed[t] = 0
  /\ Goto(t, "remove", "next")
  /\ RemoveOnline(peer[t])
  /\ needed' = [needed EXCEPT ![t] = Missing']
  /\ peer' = [peer EXCEPT ![t] = None]
  /\ overlapped' = (overlapped \/ Refilling # {})
  /\ UNCHANGED <<offlinePeers, cooldownPeer, addresses, shutdown, useBootstrap, list, fresh>>

-----------------------------------------------------------------------------
(* The other timers, the public API, and time. *)

\* cooldown_peer, which requires an online peer.  Peers that have cooled down for long are
\* released.  If the pool is full, a peer is picked that was connected long ago.
ReleaseCooled == [p \in Peers |-> IF cooldownPeer[p] = "long" THEN "no" ELSE cooldownPeer[p]]

Cool(p) ==
  /\ PoolSize > 0 /\ PoolSize >= MaxConnect /\ ~shutdown
  /\ connectTimes[p] = "long"
  /\ cooldownPeer' = [ReleaseCooled EXCEPT ![p] = "recent"]
  /\ RemoveOnline(p)
  /\ UNCHANGED <<offlinePeers, addresses, shutdown, pc, locals, overlapped>>

CoolNone ==
  /\ PoolSize > 0 /\ ~shutdown
  /\ PoolSize < MaxConnect \/ \A p \in Peers : connectTimes[p] # "long"
  /\ cooldownPeer' = ReleaseCooled
  /\ UNCHANGED <<onlinePeers, offlinePeers, connectTimes, addresses, shutdown, pc, locals,
                 overlapped>>

\* clearOfflinePeer: the address tried longest ago may be tried again.
ClearOffline ==
  /\ offlinePeers # <<>> /\ ~shutdown
  /\ offlinePeers' = Tail(offlinePeers)
  /\ UNCHANGED <<onlinePeers, cooldownPeer, connectTimes, addresses, shutdown, pc, locals,
                 overlapped>>

\* getScoreSortedPeerList loads the profile of each address; its order does not matter here.
LowScored == {p \in stored : StoredScore(p) < MinScore}

\* removeAddress: the row goes with its score; a loaded profile stays.
RemoveAddresses(ps) ==
  /\ stored' = stored \ ps
  /\ score' = [p \in Peers |-> IF p \in ps THEN 0 ELSE score[p]]

\* peerCleanup, which requires an online peer and leaves a single address alone.  No address
\* gets on the blacklist, since dateSeen is looked up among the keys and the exception for it
\* is caught.
Cleanup ==
  /\ Cardinality(stored) > 1 /\ PoolSize > 0 /\ LowScored # {} /\ ~shutdown
  /\ RemoveAddresses(LowScored)
  /\ UNCHANGED <<pool, newPeers, profile, shutdown, pc, locals, overlapped>>

\* Another node announces itself to the public API (handle_announce).
Announced(p) ==
  /\ p \in Newcomers \ newPeers /\ ~shutdown
  /\ newPeers' = newPeers \cup {p}
  /\ UNCHANGED <<pool, profile, stored, score, shutdown, pc, locals, overlapped>>

ConnectionAges(p) ==
  /\ connectTimes[p] = "recent"
  /\ connectTimes' = [connectTimes EXCEPT ![p] = "long"]
  /\ UNCHANGED <<onlinePeers, offlinePeers, cooldownPeer, addresses, shutdown, pc, locals,
                 overlapped>>

CooldownAges(p) ==
  /\ cooldownPeer[p] = "recent"
  /\ cooldownPeer' = [cooldownPeer EXCEPT ![p] = "long"]
  /\ UNCHANGED <<onlinePeers, offlinePeers, connectTimes, addresses, shutdown, pc, locals,
                 overlapped>>

Stop ==
  /\ ~shutdown /\ shutdown' = TRUE
  /\ UNCHANGED <<pool, addresses, pc, locals, overlapped>>

Connecting(t) ==
  \/ EndRefill(t) \/ ListPeers(t) \/ AddBootstrap(t) \/ UseUp(t)
  \/ \E p \in Peers : Try(t, p)
  \/ MergeNew(t) \/ AlreadyOnline(t) \/ AppendOnline(t) \/ RemovePinged(t) \/ RemoveAsked(t)

Requesting(t) ==
  \/ PingAnswered(t) \/ PingFails(t) \/ Unanswered(t)
  \/ \E S \in SUBSET Newcomers : Answered(t, S)

ThreadStep(t) == StartRefill(t) \/ Connecting(t) \/ Requesting(t)

Next ==
  \/ \E t \in Threads : ThreadStep(t)
  \/ \E t \in Threads, p \in Peers : Ask(t, p)
  \/ \E p \in Peers : Cool(p) \/ Announced(p) \/ ConnectionAges(p) \/ CooldownAges(p)
  \/ CoolNone \/ ClearOffline \/ Cleanup \/ Stop

Spec == Init /\ [][Next]_vars

\* Timers fire again and again, their threads go on, requests end, and a node that lasts
\* answers in the end if it is pinged again and again.  Threads that make other requests may
\* take for ever.
LiveSpec ==
  /\ Spec
  /\ \A t \in Timers : WF_vars(ThreadStep(t)) /\ SF_vars(PingAnswered(t) /\ peer[t] \in Lasting)
  /\ WF_vars(ClearOffline)

-----------------------------------------------------------------------------
(* Properties. *)

\* The pool does not grow past peers.max_connect as long as one thread at a time refills
\* it; a refill works with what was missing when it started (getOnlinePeers).
PoolBounded == ~overlapped => PoolSize <= MaxConnect

\* Nor is an address listed twice among those tried in vain, which would keep it out of the
\* pool for a second round of clearOfflinePeer (connect_new_peer_to_communicator).
TriedOnce == ~overlapped => IsInjective(offlinePeers)

\* A row says what the loaded profile says, or nothing yet because the address has been
\* removed and stored again since (addScore, peerCleanup, mergeAdders).
ScoresAgree ==
  \A p \in stored : profile[p] # None => score[p] \in {0, profile[p]}

\* A node without peers finds one, if a bootstrap peer lasts and is not cooling down
\* (getOnlinePeers, clearOfflinePeer).
PoolRefills ==
  PoolSize = 0 ~> (PoolSize > 0 \/ shutdown \/ Bootstrap \cap Lasting \subseteq Cooling)
=============================================================================
