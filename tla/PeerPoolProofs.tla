--------------------------- MODULE PeerPoolProofs ---------------------------
(***************************************************************************)
(* Proofs about PeerPool: what holds of the pool while refills do not      *)
(* overlap, and that scores in memory and in the database agree.           *)
(***************************************************************************)
EXTENDS PeerPool, TLAPS, SequenceTheorems

\* Where a thread deals with an address, and where it is in the middle of a refill.
HasPeer == {"ping", "merge", "append", "ask", "remove"}
InTry == {"boot", "consider", "ping", "merge", "append"}

LocalsFit ==
  \A t \in Threads :
    /\ pc[t] \in HasPeer => peer[t] \in Peers
    /\ pc[t] \in InTry => needed[t] > 0
    /\ pc[t] \in {"idle", "ask"} => needed[t] = 0

\* What is not stored has no score.
RowsOnly == \A p \in Peers \ stored : score[p] = 0

\* One thread refills, and there is room for what it may still connect.
OneRefill == \A t, u \in Refilling : t = u
RoomLeft == PoolSize <= MaxConnect /\ \A t \in Refilling : PoolSize + needed[t] <= MaxConnect

\* What it is about to mark as tried is not marked.
NotTried == \A t \in Refilling : pc[t] \in {"ping", "remove"} => peer[t] \notin Offline

WhileAlone == ~overlapped => OneRefill /\ RoomLeft /\ NotTried /\ IsInjective(offlinePeers)

PoolInv == TypeOK /\ LocalsFit /\ RowsOnly /\ ScoresAgree /\ WhileAlone

-----------------------------------------------------------------------------
(* What is needed of sequences. *)

\* Removing an element leaves a sequence of the same set, one shorter.
LEMMA RemoveAtShortens ==
  ASSUME NEW X, NEW s \in Seq(X), NEW i \in 1..Len(s)
  PROVE  /\ RemoveAt(s, i) \in Seq(X)
         /\ Len(RemoveAt(s, i)) = Len(s) - 1
<1> DEFINE u == SubSeq(s, 1, i - 1)
           v == SubSeq(s, i + 1, Len(s))
<1>1. Len(s) \in Nat
  OBVIOUS
<1>2. u \in Seq(X) /\ Len(u) = i - 1
  BY <1>1
<1>3. v \in Seq(X) /\ Len(v) = Len(s) - i
  BY <1>1
<1>4. RemoveAt(s, i) = u \o v
  BY Zenon DEF RemoveAt
<1> HIDE DEF u, v
<1>5. u \o v \in Seq(X) /\ Len(u \o v) = Len(u) + Len(v)
  BY <1>2, <1>3
<1>6. Len(u) + Len(v) = Len(s) - 1
  BY <1>1, <1>2, <1>3
<1> HIDE DEF u, v
<1>7. QED
  BY <1>4, <1>5, <1>6, Zenon

\* Dropping a peer leaves a list of peers that is not longer.
LEMMA RemoveOnlineShortens ==
  ASSUME NEW p \in Peers, TypeOK, RemoveOnline(p)
  PROVE  /\ onlinePeers' \in Seq(Peers) /\ connectTimes' \in [Peers -> Ages]
         /\ Len(onlinePeers') \in Nat /\ Len(onlinePeers) \in Nat
         /\ Len(onlinePeers') <= Len(onlinePeers)
<1>1. CASE onlinePeers' = onlinePeers
  BY <1>1 DEF TypeOK, RemoveOnline, Ages
<1>2. ASSUME NEW i \in 1..Len(onlinePeers), onlinePeers' = RemoveAt(onlinePeers, i)
     PROVE  /\ onlinePeers' \in Seq(Peers)
            /\ Len(onlinePeers') \in Nat /\ Len(onlinePeers) \in Nat
            /\ Len(onlinePeers') <= Len(onlinePeers)
  BY <1>2, RemoveAtShortens DEF TypeOK
<1>3. connectTimes' \in [Peers -> Ages]
  BY DEF TypeOK, RemoveOnline, Ages
<1>4. QED
  BY <1>1, <1>2, <1>3 DEF RemoveOnline, PoolSize

\* An empty sequence is free of repetitions, and a sequence stays so when its first
\* element is dropped.
LEMMA NothingInjective ==
  ASSUME NEW r, r = <<>>
  PROVE  IsInjective(r)
BY DOMAIN r = {} DEF IsInjective

LEMMA TailInjective ==
  ASSUME NEW X, NEW s \in Seq(X), s # <<>>, IsInjective(s)
  PROVE  /\ IsInjective(Tail(s))
         /\ ToSet(Tail(s)) \subseteq ToSet(s)
BY DEF IsInjective, ToSet

-----------------------------------------------------------------------------
(* Each part of the invariant is preserved. *)

LEMMA TypeStep ==
  ASSUME PoolInv, [Next]_vars
  PROVE  TypeOK'
<1> USE PoolConstants DEF PoolInv, TypeOK, LocalsFit, HasPeer, InTry, Ages, Labels
<1>1. ASSUME NEW t \in Threads, StartRefill(t)
     PROVE  TypeOK'
  BY <1>1
  DEF StartRefill, Goto, Missing, PoolSize, pool, addresses
<1>2. ASSUME NEW t \in Threads, EndRefill(t)
     PROVE  TypeOK'
  BY <1>2
  DEF EndRefill, Goto, pool, addresses
<1>3. ASSUME NEW t \in Threads, ListPeers(t)
     PROVE  TypeOK'
  <2>1. newPeers' \subseteq Peers /\ list' \in [Threads -> SUBSET Peers]
        /\ fresh' \in [Threads -> SUBSET Peers]
    <3>1. \/ /\ list' = [list EXCEPT ![t] = stored \cup newPeers]
             /\ fresh' = [fresh EXCEPT ![t] = newPeers \ stored]
             /\ newPeers' = newPeers \cap stored
          \/ /\ list' = [list EXCEPT ![t] = stored]
             /\ UNCHANGED <<newPeers, fresh>>
      BY <1>3, Zenon DEF ListPeers
    <3>2. stored \cup newPeers \in SUBSET Peers /\ newPeers \ stored \in SUBSET Peers
          /\ stored \in SUBSET Peers
      OBVIOUS
    <3>3. /\ [list EXCEPT ![t] = stored \cup newPeers] \in [Threads -> SUBSET Peers]
          /\ [list EXCEPT ![t] = stored] \in [Threads -> SUBSET Peers]
          /\ [fresh EXCEPT ![t] = newPeers \ stored] \in [Threads -> SUBSET Peers]
      BY <3>2, Zenon
    <3>4. QED
      BY <3>1, <3>3, Zenon
  <2>2. useBootstrap' \in [Threads -> BOOLEAN]
    <3>1. useBootstrap' = [useBootstrap EXCEPT ![t] = (PoolSize = 0)]
      BY <1>3 DEF ListPeers
    <3>2. QED
      BY <3>1
  <2>3. pc' \in [Threads -> Labels]
    BY <1>3 DEF ListPeers, Goto
  <2>4. UNCHANGED <<pool, profile, stored, score, shutdown, peer, needed, overlapped>>
    BY <1>3 DEF ListPeers
  <2>5. UNCHANGED <<onlinePeers, offlinePeers, cooldownPeer, connectTimes>>
    BY <2>4 DEF pool
  <2>6. QED
    BY <2>1, <2>2, <2>3, <2>4, <2>5
<1>4. ASSUME NEW t \in Threads, AddBootstrap(t)
     PROVE  TypeOK'
  BY <1>4
  DEF AddBootstrap, Goto, pool
<1>5. ASSUME NEW t \in Threads, UseUp(t)
     PROVE  TypeOK'
  BY <1>5
  DEF UseUp, Goto, NextTry, pool, addresses
<1>6. ASSUME NEW t \in Threads, NEW p \in Peers, Try(t, p)
     PROVE  TypeOK'
  BY <1>6
  DEF Try, Goto, pool, addresses
<1>7. ASSUME NEW t \in Threads, MergeNew(t)
     PROVE  TypeOK'
  BY <1>7
  DEF MergeNew, Goto, Merge, pool, locals
<1>8. ASSUME NEW t \in Threads, AlreadyOnline(t)
     PROVE  TypeOK'
  BY <1>8
  DEF AlreadyOnline, Goto, AddProfile, LoadedScore, StoredScore, NextTry, Merge, pool
<1>9. ASSUME NEW t \in Threads, AppendOnline(t)
     PROVE  TypeOK'
  BY <1>9
  DEF AppendOnline, Goto, AddProfile, LoadedScore, StoredScore, NextTry
<1>10. ASSUME NEW t \in Threads, RemovePinged(t)
     PROVE  TypeOK'
  <2>1. RemoveOnline(peer[t]) /\ peer[t] \in Peers
    BY <1>10 DEF RemovePinged, Goto
  <2>2. onlinePeers' \in Seq(Peers) /\ connectTimes' \in [Peers -> Ages]
    BY <2>1, RemoveOnlineShortens DEF PoolInv
  <2>3. QED
    BY <1>10, <2>1, <2>2 DEF RemovePinged, Goto, addresses
<1>11. ASSUME NEW t \in Threads, RemoveAsked(t)
     PROVE  TypeOK'
  <2>1. RemoveOnline(peer[t]) /\ peer[t] \in Peers
    BY <1>11 DEF RemoveAsked, Goto
  <2>2. /\ onlinePeers' \in Seq(Peers) /\ connectTimes' \in [Peers -> Ages]
        /\ Len(onlinePeers') \in Nat
    BY <2>1, RemoveOnlineShortens DEF PoolInv
  <2>3. QED
    BY <1>11, <2>2 DEF RemoveAsked, Goto, Missing, PoolSize, addresses
<1>12. ASSUME NEW t \in Threads, PingAnswered(t)
     PROVE  TypeOK'
  BY <1>12
  DEF PingAnswered, Goto, AddScore, LoadedScore, StoredScore, pool, locals, Bounded, Reward,
      Penalty
<1>13. ASSUME NEW t \in Threads, PingFails(t)
     PROVE  TypeOK'
  BY <1>13
  DEF PingFails, Goto, AddScore, LoadedScore, StoredScore, pool, locals, Bounded, Reward,
      Penalty
<1>14. ASSUME NEW t \in Threads, Unanswered(t)
     PROVE  TypeOK'
  BY <1>14
  DEF Unanswered, Goto, AddScore, LoadedScore, StoredScore, pool, locals, Bounded, Reward,
      Penalty
<1>15. ASSUME NEW t \in Threads, NEW S \in SUBSET Newcomers, Answered(t, S)
     PROVE  TypeOK'
  BY <1>15
  DEF Answered, Goto, AddScore, LoadedScore, StoredScore, pool, Bounded, Reward, Penalty
<1>16. ASSUME NEW t \in Threads, NEW p \in Peers, Ask(t, p)
     PROVE  TypeOK'
  BY <1>16
  DEF Ask, Goto, pool, addresses
<1>17. ASSUME NEW p \in Peers, Cool(p)
     PROVE  TypeOK'
  <2>1. RemoveOnline(p)
    BY <1>17 DEF Cool
  <2>2. onlinePeers' \in Seq(Peers) /\ connectTimes' \in [Peers -> Ages]
    BY <2>1, RemoveOnlineShortens DEF PoolInv
  <2>3. QED
    BY <1>17, <2>2 DEF Cool, ReleaseCooled, addresses, locals
<1>18. ASSUME NEW p \in Peers, Announced(p)
     PROVE  TypeOK'
  BY <1>18
  DEF Announced, pool, locals
<1>19. ASSUME NEW p \in Peers, ConnectionAges(p)
     PROVE  TypeOK'
  BY <1>19
  DEF ConnectionAges, addresses, locals
<1>20. ASSUME NEW p \in Peers, CooldownAges(p)
     PROVE  TypeOK'
  BY <1>20
  DEF CooldownAges, addresses, locals
<1>21. CASE CoolNone
  BY <1>21
  DEF CoolNone, ReleaseCooled, addresses, locals
<1>22. CASE ClearOffline
  BY <1>22
  DEF ClearOffline, addresses, locals
<1>23. CASE Cleanup
  BY <1>23
  DEF Cleanup, LowScored, RemoveAddresses, StoredScore, pool, locals
<1>24. CASE Stop
  BY <1>24
  DEF Stop, pool, addresses, locals
<1>25. CASE UNCHANGED vars
  BY <1>25 DEF vars, pool, addresses, locals
<1>26. QED
  BY <1>1, <1>2, <1>3, <1>4, <1>5, <1>6, <1>7, <1>8, <1>9, <1>10, <1>11, <1>12, <1>13, <1>14,
      <1>15, <1>16, <1>17, <1>18, <1>19, <1>20, <1>21, <1>22, <1>23, <1>24, <1>25
  DEF Next, ThreadStep, Connecting, Requesting

LEMMA LocalsStep ==
  ASSUME PoolInv, [Next]_vars
  PROVE  LocalsFit'
<1> USE PoolConstants DEF PoolInv, TypeOK, LocalsFit, HasPeer, InTry, Labels, Online
<1>1. ASSUME NEW t \in Threads, StartRefill(t)
     PROVE  LocalsFit'
  BY <1>1
  DEF StartRefill, Goto, Missing, PoolSize, pool, addresses
<1>2. ASSUME NEW t \in Threads, EndRefill(t)
     PROVE  LocalsFit'
  BY <1>2
  DEF EndRefill, Goto, pool, addresses
<1>3. ASSUME NEW t \in Threads, ListPeers(t)
     PROVE  LocalsFit'
  BY <1>3
  DEF ListPeers, Goto, PoolSize, pool
<1>4. ASSUME NEW t \in Threads, AddBootstrap(t)
     PROVE  LocalsFit'
  BY <1>4
  DEF AddBootstrap, Goto, pool
<1>5. ASSUME NEW t \in Threads, UseUp(t)
     PROVE  LocalsFit'
  BY <1>5
  DEF UseUp, Goto, NextTry, pool, addresses
<1>6. ASSUME NEW t \in Threads, NEW p \in Peers, Try(t, p)
     PROVE  LocalsFit'
  BY <1>6
  DEF Try, Goto, pool, addresses
<1>7. ASSUME NEW t \in Threads, MergeNew(t)
     PROVE  LocalsFit'
  BY <1>7
  DEF MergeNew, Goto, Merge, pool, locals
<1>8. ASSUME NEW t \in Threads, AlreadyOnline(t)
     PROVE  LocalsFit'
  BY <1>8
  DEF AlreadyOnline, Goto, AddProfile, LoadedScore, StoredScore, NextTry, Merge, pool
<1>9. ASSUME NEW t \in Threads, AppendOnline(t)
     PROVE  LocalsFit'
  BY <1>9
  DEF AppendOnline, Goto, AddProfile, LoadedScore, StoredScore, NextTry
<1>10. ASSUME NEW t \in Threads, RemovePinged(t)
     PROVE  LocalsFit'
  BY <1>10
  DEF RemovePinged, Goto, RemoveOnline, addresses
<1>11. ASSUME NEW t \in Threads, RemoveAsked(t)
     PROVE  LocalsFit'
  <2>1. RemoveOnline(peer[t]) /\ peer[t] \in Peers
    BY <1>11 DEF RemoveAsked, Goto
  <2>2. /\ onlinePeers' \in Seq(Peers) /\ connectTimes' \in [Peers -> Ages]
        /\ Len(onlinePeers') \in Nat
    BY <2>1, RemoveOnlineShortens DEF PoolInv
  <2>3. QED
    BY <1>11, <2>2 DEF RemoveAsked, Goto, Missing, PoolSize, addresses
<1>12. ASSUME NEW t \in Threads, PingAnswered(t)
     PROVE  LocalsFit'
  BY <1>12
  DEF PingAnswered, Goto, AddScore, LoadedScore, StoredScore, pool, locals
<1>13. ASSUME NEW t \in Threads, PingFails(t)
     PROVE  LocalsFit'
  BY <1>13
  DEF PingFails, Goto, AddScore, LoadedScore, StoredScore, pool, locals
<1>14. ASSUME NEW t \in Threads, Unanswered(t)
     PROVE  LocalsFit'
  BY <1>14
  DEF Unanswered, Goto, AddScore, LoadedScore, StoredScore, pool, locals
<1>15. ASSUME NEW t \in Threads, NEW S \in SUBSET Newcomers, Answered(t, S)
     PROVE  LocalsFit'
  BY <1>15
  DEF Answered, Goto, AddScore, LoadedScore, StoredScore, pool
<1>16. ASSUME NEW t \in Threads, NEW p \in Peers, Ask(t, p)
     PROVE  LocalsFit'
  BY <1>16
  DEF Ask, Goto, pool, addresses, ToSet
<1>17. ASSUME NEW p \in Peers, Cool(p)
     PROVE  LocalsFit'
  BY <1>17
  DEF Cool, RemoveOnline, ReleaseCooled, addresses, locals
<1>18. ASSUME NEW p \in Peers, Announced(p)
     PROVE  LocalsFit'
  BY <1>18
  DEF Announced, pool, locals
<1>19. ASSUME NEW p \in Peers, ConnectionAges(p)
     PROVE  LocalsFit'
  BY <1>19
  DEF ConnectionAges, addresses, locals
<1>20. ASSUME NEW p \in Peers, CooldownAges(p)
     PROVE  LocalsFit'
  BY <1>20
  DEF CooldownAges, addresses, locals
<1>21. CASE CoolNone
  BY <1>21
  DEF CoolNone, ReleaseCooled, addresses, locals
<1>22. CASE ClearOffline
  BY <1>22
  DEF ClearOffline, addresses, locals
<1>23. CASE Cleanup
  BY <1>23
  DEF Cleanup, LowScored, RemoveAddresses, StoredScore, pool, locals
<1>24. CASE Stop
  BY <1>24
  DEF Stop, pool, addresses, locals
<1>25. CASE UNCHANGED vars
  BY <1>25 DEF vars, pool, addresses, locals
<1>26. QED
  BY <1>1, <1>2, <1>3, <1>4, <1>5, <1>6, <1>7, <1>8, <1>9, <1>10, <1>11, <1>12, <1>13, <1>14,
      <1>15, <1>16, <1>17, <1>18, <1>19, <1>20, <1>21, <1>22, <1>23, <1>24, <1>25
  DEF Next, ThreadStep, Connecting, Requesting

LEMMA ScoresStep ==
  ASSUME PoolInv, [Next]_vars
  PROVE  (RowsOnly /\ ScoresAgree)'
<1> USE PoolConstants DEF PoolInv, TypeOK, LocalsFit, HasPeer, RowsOnly, ScoresAgree
<1>1. ASSUME NEW t \in Threads, StartRefill(t)
     PROVE  (RowsOnly /\ ScoresAgree)'
  BY <1>1
  DEF StartRefill, Goto, Missing, PoolSize, pool, addresses
<1>2. ASSUME NEW t \in Threads, EndRefill(t)
     PROVE  (RowsOnly /\ ScoresAgree)'
  BY <1>2
  DEF EndRefill, Goto, pool, addresses
<1>3. ASSUME NEW t \in Threads, ListPeers(t)
     PROVE  (RowsOnly /\ ScoresAgree)'
  BY <1>3
  DEF ListPeers, Goto, PoolSize, pool
<1>4. ASSUME NEW t \in Threads, AddBootstrap(t)
     PROVE  (RowsOnly /\ ScoresAgree)'
  BY <1>4
  DEF AddBootstrap, Goto, pool
<1>5. ASSUME NEW t \in Threads, UseUp(t)
     PROVE  (RowsOnly /\ ScoresAgree)'
  BY <1>5
  DEF UseUp, Goto, NextTry, pool, addresses
<1>6. ASSUME NEW t \in Threads, NEW p \in Peers, Try(t, p)
     PROVE  (RowsOnly /\ ScoresAgree)'
  BY <1>6
  DEF Try, Goto, pool, addresses
<1>7. ASSUME NEW t \in Threads, MergeNew(t)
     PROVE  (RowsOnly /\ ScoresAgree)'
  BY <1>7
  DEF MergeNew, Goto, Merge, pool, locals
<1>8. ASSUME NEW t \in Threads, AlreadyOnline(t)
     PROVE  (RowsOnly /\ ScoresAgree)'
  BY <1>8
  DEF AlreadyOnline, Goto, AddProfile, LoadedScore, StoredScore, NextTry, Merge, pool
<1>9. ASSUME NEW t \in Threads, AppendOnline(t)
     PROVE  (RowsOnly /\ ScoresAgree)'
  BY <1>9
  DEF AppendOnline, Goto, AddProfile, LoadedScore, StoredScore, NextTry
<1>10. ASSUME NEW t \in Threads, RemovePinged(t)
     PROVE  (RowsOnly /\ ScoresAgree)'
  BY <1>10
  DEF RemovePinged, Goto, RemoveOnline, addresses
<1>11. ASSUME NEW t \in Threads, RemoveAsked(t)
     PROVE  (RowsOnly /\ ScoresAgree)'
  BY <1>11
  DEF RemoveAsked, Goto, Missing, PoolSize, RemoveOnline, addresses
<1>12. ASSUME NEW t \in Threads, PingAnswered(t)
     PROVE  (RowsOnly /\ ScoresAgree)'
  BY <1>12
  DEF PingAnswered, Goto, AddScore, LoadedScore, StoredScore, pool, locals, Bounded, Reward,
      Penalty
<1>13. ASSUME NEW t \in Threads, PingFails(t)
     PROVE  (RowsOnly /\ ScoresAgree)'
  BY <1>13
  DEF PingFails, Goto, AddScore, LoadedScore, StoredScore, pool, locals, Bounded, Reward,
      Penalty
<1>14. ASSUME NEW t \in Threads, Unanswered(t)
     PROVE  (RowsOnly /\ ScoresAgree)'
  BY <1>14
  DEF Unanswered, Goto, AddScore, LoadedScore, StoredScore, pool, locals, Bounded, Reward,
      Penalty
<1>15. ASSUME NEW t \in Threads, NEW S \in SUBSET Newcomers, Answered(t, S)
     PROVE  (RowsOnly /\ ScoresAgree)'
  BY <1>15
  DEF Answered, Goto, AddScore, LoadedScore, StoredScore, pool, Bounded, Reward, Penalty
<1>16. ASSUME NEW t \in Threads, NEW p \in Peers, Ask(t, p)
     PROVE  (RowsOnly /\ ScoresAgree)'
  BY <1>16
  DEF Ask, Goto, pool, addresses
<1>17. ASSUME NEW p \in Peers, Cool(p)
     PROVE  (RowsOnly /\ ScoresAgree)'
  BY <1>17
  DEF Cool, RemoveOnline, ReleaseCooled, addresses, locals
<1>18. ASSUME NEW p \in Peers, Announced(p)
     PROVE  (RowsOnly /\ ScoresAgree)'
  BY <1>18
  DEF Announced, pool, locals
<1>19. ASSUME NEW p \in Peers, ConnectionAges(p)
     PROVE  (RowsOnly /\ ScoresAgree)'
  BY <1>19
  DEF ConnectionAges, addresses, locals
<1>20. ASSUME NEW p \in Peers, CooldownAges(p)
     PROVE  (RowsOnly /\ ScoresAgree)'
  BY <1>20
  DEF CooldownAges, addresses, locals
<1>21. CASE CoolNone
  BY <1>21
  DEF CoolNone, ReleaseCooled, addresses, locals
<1>22. CASE ClearOffline
  BY <1>22
  DEF ClearOffline, addresses, locals
<1>23. CASE Cleanup
  BY <1>23
  DEF Cleanup, LowScored, RemoveAddresses, StoredScore, pool, locals
<1>24. CASE Stop
  BY <1>24
  DEF Stop, pool, addresses, locals
<1>25. CASE UNCHANGED vars
  BY <1>25 DEF vars, pool, addresses, locals
<1>26. QED
  BY <1>1, <1>2, <1>3, <1>4, <1>5, <1>6, <1>7, <1>8, <1>9, <1>10, <1>11, <1>12, <1>13, <1>14,
      <1>15, <1>16, <1>17, <1>18, <1>19, <1>20, <1>21, <1>22, <1>23, <1>24, <1>25
  DEF Next, ThreadStep, Connecting, Requesting

LEMMA AloneStep ==
  ASSUME PoolInv, [Next]_vars
  PROVE  WhileAlone'
<1> USE PoolConstants DEF PoolInv, TypeOK, LocalsFit, HasPeer, InTry, WhileAlone, OneRefill,
    RoomLeft, NotTried, Refilling, PoolSize, Offline
<1>1. ASSUME NEW t \in Threads, StartRefill(t)
     PROVE  WhileAlone'
  <2>1. needed[t] = 0 /\ Len(onlinePeers) \in Nat
    BY <1>1 DEF StartRefill, Goto
  <2>2. Missing \in Nat /\ (Missing > 0 => PoolSize + Missing <= MaxConnect)
    BY <2>1 DEF Missing
  <2>3. SUFFICES ASSUME ~overlapped' PROVE OneRefill' /\ RoomLeft' /\ NotTried' /\ IsInjective(offlinePeers)'
    OBVIOUS
  <2>4. Refilling = {} /\ ~overlapped
    BY <1>1, <2>3 DEF StartRefill
  <2>5. Refilling' \subseteq {t} /\ needed'[t] = Missing /\ pc'[t] = "next"
    BY <1>1, <2>4 DEF StartRefill, Goto
  <2>6. onlinePeers' = onlinePeers /\ offlinePeers' = offlinePeers
    BY <1>1 DEF StartRefill, pool
  <2>7. OneRefill' /\ NotTried'
    BY <2>5
  <2>8. RoomLeft'
    BY <2>1, <2>2, <2>4, <2>5, <2>6
  <2>9. QED
    BY <2>4, <2>6, <2>7, <2>8
<1>2. ASSUME NEW t \in Threads, EndRefill(t)
     PROVE  WhileAlone'
  BY <1>2
  DEF EndRefill, Goto, pool, addresses
<1>3. ASSUME NEW t \in Threads, ListPeers(t)
     PROVE  WhileAlone'
  BY <1>3
  DEF ListPeers, Goto, PoolSize, pool
<1>4. ASSUME NEW t \in Threads, AddBootstrap(t)
     PROVE  WhileAlone'
  BY <1>4
  DEF AddBootstrap, Goto, pool
<1>5. ASSUME NEW t \in Threads, UseUp(t)
     PROVE  WhileAlone'
  BY <1>5
  DEF UseUp, Goto, NextTry, pool, addresses
<1>6. ASSUME NEW t \in Threads, NEW p \in Peers, Try(t, p)
     PROVE  WhileAlone'
  BY <1>6
  DEF Try, Goto, pool, addresses, Unsuitable
<1>7. ASSUME NEW t \in Threads, MergeNew(t)
     PROVE  WhileAlone'
  BY <1>7
  DEF MergeNew, Goto, Merge, pool, locals
<1>8. ASSUME NEW t \in Threads, AlreadyOnline(t)
     PROVE  WhileAlone'
  BY <1>8
  DEF AlreadyOnline, Goto, AddProfile, LoadedScore, StoredScore, NextTry, Merge, pool
<1>9. ASSUME NEW t \in Threads, AppendOnline(t)
     PROVE  WhileAlone'
  BY <1>9
  DEF AppendOnline, Goto, AddProfile, LoadedScore, StoredScore, NextTry
<1>10. ASSUME NEW t \in Threads, RemovePinged(t)
     PROVE  WhileAlone'
  <2>1. SUFFICES ASSUME ~overlapped' PROVE OneRefill' /\ RoomLeft' /\ NotTried' /\ IsInjective(offlinePeers)'
    OBVIOUS
  <2>2. ~overlapped /\ Refilling' = Refilling /\ t \in Refilling
    BY <1>10, <2>1 DEF RemovePinged
  <2>3. peer[t] \in Peers /\ peer[t] \notin ToSet(offlinePeers)
    BY <1>10, <2>2 DEF RemovePinged
  <2>4. IsInjective(offlinePeers)'
    <3> DEFINE n == Len(offlinePeers)
    <3>1. offlinePeers' = Append(offlinePeers, peer[t]) /\ offlinePeers \in Seq(Peers)
      BY <1>10 DEF RemovePinged
    <3>2. /\ n \in Nat /\ DOMAIN offlinePeers = 1..n /\ DOMAIN offlinePeers' = 1..(n + 1)
          /\ offlinePeers'[n + 1] = peer[t]
          /\ \A i \in 1..n : offlinePeers'[i] = offlinePeers[i]
      BY <3>1, <2>3
    <3>3. \A i \in 1..n : offlinePeers[i] # peer[t]
      BY <2>3, <3>2 DEF ToSet
    <3>4. \A i, j \in DOMAIN offlinePeers : offlinePeers[i] = offlinePeers[j] => i = j
      BY <2>2 DEF IsInjective
    <3> HIDE DEF n
    <3>5. \A i, j \in DOMAIN offlinePeers' : offlinePeers'[i] = offlinePeers'[j] => i = j
      <4>1. SUFFICES ASSUME NEW i \in 1..(n + 1), NEW j \in 1..(n + 1),
                            offlinePeers'[i] = offlinePeers'[j]
                     PROVE  i = j
        BY <3>2
      <4>2. i \in 1..n /\ j \in 1..n => offlinePeers[i] = offlinePeers[j]
        BY <3>2, <4>1
      <4>3. ~(i = n + 1 /\ j \in 1..n) /\ ~(j = n + 1 /\ i \in 1..n)
        BY <3>2, <3>3, <4>1
      <4>4. QED
        <5>1. CASE i = n + 1 /\ j = n + 1
          BY <5>1
        <5>2. CASE i \in 1..n /\ j \in 1..n
          BY <3>2, <3>4, <4>2, <5>2, Zenon
        <5>3. QED
          BY <3>2, <4>3, <5>1, <5>2
    <3>6. QED
      BY <3>5 DEF IsInjective
  <2>5. Len(onlinePeers') <= Len(onlinePeers) /\ Len(onlinePeers') \in Nat /\ Len(onlinePeers) \in Nat
    <3>1. RemoveOnline(peer[t])
      BY <1>10 DEF RemovePinged
    <3>2. QED
      BY <3>1, <2>3, RemoveOnlineShortens DEF PoolInv
  <2>6. RoomLeft'
    BY <1>10, <2>2, <2>5 DEF RemovePinged
  <2>7. OneRefill' /\ NotTried'
    BY <1>10, <2>2 DEF RemovePinged, Goto
  <2>8. QED
    BY <2>4, <2>6, <2>7
<1>11. ASSUME NEW t \in Threads, RemoveAsked(t)
     PROVE  WhileAlone'
  <2>1. SUFFICES ASSUME ~overlapped' PROVE OneRefill' /\ RoomLeft' /\ NotTried' /\ IsInjective(offlinePeers)'
    OBVIOUS
  <2>2. Refilling = {} /\ ~overlapped
    BY <1>11, <2>1 DEF RemoveAsked
  <2>3. Len(onlinePeers') <= Len(onlinePeers) /\ Len(onlinePeers') \in Nat /\ Len(onlinePeers) \in Nat
    <3>1. RemoveOnline(peer[t]) /\ peer[t] \in Peers
      BY <1>11 DEF RemoveAsked, Goto
    <3>2. QED
      BY <3>1, RemoveOnlineShortens DEF PoolInv
  <2>4. Missing' \in Nat /\ (Missing' > 0 => PoolSize' + Missing' <= MaxConnect)
    BY <2>3 DEF Missing
  <2>5. Refilling' \subseteq {t} /\ needed'[t] = Missing' /\ pc'[t] = "next"
    BY <1>11, <2>2 DEF RemoveAsked, Goto
  <2>6. RoomLeft'
    BY <2>2, <2>3, <2>4, <2>5
  <2>7. OneRefill' /\ NotTried'
    BY <2>5
  <2>8. QED
    BY <1>11, <2>2, <2>6, <2>7 DEF RemoveAsked
<1>12. ASSUME NEW t \in Threads, PingAnswered(t)
     PROVE  WhileAlone'
  BY <1>12
  DEF PingAnswered, Goto, AddScore, LoadedScore, StoredScore, pool, locals
<1>13. ASSUME NEW t \in Threads, PingFails(t)
     PROVE  WhileAlone'
  BY <1>13
  DEF PingFails, Goto, AddScore, LoadedScore, StoredScore, pool, locals
<1>14. ASSUME NEW t \in Threads, Unanswered(t)
     PROVE  WhileAlone'
  BY <1>14
  DEF Unanswered, Goto, AddScore, LoadedScore, StoredScore, pool, locals
<1>15. ASSUME NEW t \in Threads, NEW S \in SUBSET Newcomers, Answered(t, S)
     PROVE  WhileAlone'
  BY <1>15
  DEF Answered, Goto, AddScore, LoadedScore, StoredScore, pool
<1>16. ASSUME NEW t \in Threads, NEW p \in Peers, Ask(t, p)
     PROVE  WhileAlone'
  BY <1>16
  DEF Ask, Goto, pool, addresses
<1>17. ASSUME NEW p \in Peers, Cool(p)
     PROVE  WhileAlone'
  <2>1. RemoveOnline(p)
    BY <1>17 DEF Cool
  <2>2. /\ Len(onlinePeers') \in Nat /\ Len(onlinePeers) \in Nat
        /\ Len(onlinePeers') <= Len(onlinePeers)
    BY <2>1, RemoveOnlineShortens DEF PoolInv
  <2>3. QED
    BY <1>17, <2>2 DEF Cool, addresses, locals
<1>18. ASSUME NEW p \in Peers, Announced(p)
     PROVE  WhileAlone'
  BY <1>18
  DEF Announced, pool, locals
<1>19. ASSUME NEW p \in Peers, ConnectionAges(p)
     PROVE  WhileAlone'
  BY <1>19
  DEF ConnectionAges, addresses, locals
<1>20. ASSUME NEW p \in Peers, CooldownAges(p)
     PROVE  WhileAlone'
  BY <1>20
  DEF CooldownAges, addresses, locals
<1>21. CASE CoolNone
  BY <1>21
  DEF CoolNone, ReleaseCooled, addresses, locals
<1>22. CASE ClearOffline
  BY <1>22, TailInjective
  DEF ClearOffline, addresses, locals
<1>23. CASE Cleanup
  BY <1>23
  DEF Cleanup, LowScored, RemoveAddresses, StoredScore, pool, locals
<1>24. CASE Stop
  BY <1>24
  DEF Stop, pool, addresses, locals
<1>25. CASE UNCHANGED vars
  BY <1>25 DEF vars, pool, addresses, locals
<1>26. QED
  BY <1>1, <1>2, <1>3, <1>4, <1>5, <1>6, <1>7, <1>8, <1>9, <1>10, <1>11, <1>12, <1>13, <1>14,
      <1>15, <1>16, <1>17, <1>18, <1>19, <1>20, <1>21, <1>22, <1>23, <1>24, <1>25
  DEF Next, ThreadStep, Connecting, Requesting

-----------------------------------------------------------------------------
LEMMA PoolInvHolds == Spec => []PoolInv
<1>1. Init => PoolInv
  <2> SUFFICES ASSUME Init PROVE PoolInv
    OBVIOUS
  <2>1. TypeOK
    <3>1. /\ onlinePeers \in Seq(Peers) /\ offlinePeers \in Seq(Peers)
          /\ cooldownPeer \in [Peers -> Ages] /\ connectTimes \in [Peers -> Ages]
      BY DEF Init, Ages
    <3>2. /\ newPeers \subseteq Peers /\ profile \in [Peers -> Int \cup {None}]
          /\ stored \subseteq Peers /\ score \in [Peers -> Int]
      BY DEF Init
    <3>3. /\ pc \in [Threads -> Labels] /\ peer \in [Threads -> Peers \cup {None}]
          /\ needed \in [Threads -> Nat] /\ useBootstrap \in [Threads -> BOOLEAN]
          /\ list \in [Threads -> SUBSET Peers] /\ fresh \in [Threads -> SUBSET Peers]
      BY DEF Init, Labels
    <3>4. QED
      BY <3>1, <3>2, <3>3 DEF Init, TypeOK
  <2>2. LocalsFit /\ RowsOnly /\ ScoresAgree
    BY DEF Init, LocalsFit, RowsOnly, ScoresAgree, HasPeer, InTry
  <2>3. Refilling = {} /\ PoolSize = 0
    BY DEF Init, Refilling, PoolSize
  <2>4. IsInjective(offlinePeers)
    BY NothingInjective DEF Init
  <2>5. QED
    BY <2>1, <2>2, <2>3, <2>4, PoolConstants
    DEF PoolInv, WhileAlone, OneRefill, RoomLeft, NotTried
<1>2. PoolInv /\ [Next]_vars => PoolInv'
  BY TypeStep, LocalsStep, ScoresStep, AloneStep DEF PoolInv
<1>3. QED
  BY <1>1, <1>2, PTL DEF Spec

\* As long as refills have not overlapped, the pool keeps to its limit: the refill has room
\* for what it may still connect.
THEOREM PoolKeepsToLimit == Spec => []PoolBounded
<1>1. PoolInv => PoolBounded
  BY DEF PoolInv, PoolBounded, WhileAlone, RoomLeft
<1>2. QED
  BY <1>1, PoolInvHolds, PTL

\* Nor is an address marked twice as tried: the only refill has looked before its ping.
THEOREM AddressesAreTriedOnce == Spec => []TriedOnce
<1>1. PoolInv => TriedOnce
  BY DEF PoolInv, TriedOnce, WhileAlone
<1>2. QED
  BY <1>1, PoolInvHolds, PTL

\* Scores in the database and in the loaded profiles agree.
THEOREM ScoresAreKept == Spec => []ScoresAgree
<1>1. PoolInv => ScoresAgree
  BY DEF PoolInv
<1>2. QED
  BY <1>1, PoolInvHolds, PTL
=============================================================================
