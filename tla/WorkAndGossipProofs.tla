------------------------ MODULE WorkAndGossipProofs ------------------------
(***************************************************************************)
(* Proofs about proofs of work, from the search to the check by the nodes  *)
(* that a block gets to: the search, by any number of threads or           *)
(* processes, is a ProofSearch; and in BlockGossip the difficulty that a   *)
(* node demands is at most what the author of a block asked for, as long   *)
(* as its disk is not fuller, and what it does not look up again has       *)
(* reached it.                                                             *)
(***************************************************************************)
EXTENDS ProofOfWork, BlockGossip, TLAPS

(* The search. *)

\* Whatever is held anywhere on its way to the caller has been found.
HeldIsFound ==
  /\ taken \in found \cup {Nothing}
  /\ result \in found \cup {Nothing} /\ retVal \in found \cup {Nothing}
  /\ payload \in found \cup {Nothing} /\ pipe \subseteq found
  /\ \A w \in Workers :
       /\ worker[w] \in {"publish", "send"} => w \in found
       /\ monitor[w] = "announce" => w \in found

\* Why a caller stops to wait.
WaitsForResult ==
  /\ Threads => (hashing = "off" => stopped \/ found # {})
  /\ Threads => (caller = "stopping" => stopped)
  /\ Threads => (caller = "returned" => stopped \/ found # {})
  /\ caller = "return" => payload # Nothing
  /\ Processes => (caller = "returned" => taken # Nothing)

PowInv == TypeOK /\ HeldIsFound /\ WaitsForResult

-----------------------------------------------------------------------------

LEMMA PowInit == Init => PowInv
  BY PowConstants DEF Init, PowInv, TypeOK, HeldIsFound, WaitsForResult, Threads, Processes

LEMMA TypeStep == TypeOK /\ [Next]_vars => TypeOK'
<1> SUFFICES ASSUME TypeOK, [Next]_vars PROVE TypeOK'
  OBVIOUS
<1> USE DEF TypeOK, frozen, threadVars, processVars, Threads, Processes
<1>1. ASSUME NEW w \in Workers, ThreadStep(w) PROVE TypeOK'
  BY <1>1 DEF ThreadStep, Become, Begin, Test, Miss, Find, Publish
<1>2. ASSUME NEW w \in Workers, MonitorStep(w) PROVE TypeOK'
  BY <1>2 DEF MonitorStep, Become, Watch, Spawn, Join, Receive, Announce
<1>3. ASSUME NEW w \in Workers, Solve(w) \/ Deliver(w) \/ Die(w) PROVE TypeOK'
  BY <1>3 DEF Become, Solve, Deliver, Die
<1>4. CASE CallerStep
  BY <1>4 DEF CallerStep, Goto, Read, Clear, CheckHashing, GiveUp, Poll, Return
<1>5. CASE Interrupt \/ Abandon
  BY <1>5 DEF Interrupt, Abandon
<1>6. CASE UNCHANGED vars
  BY <1>6 DEF vars
<1> QED
  BY <1>1, <1>2, <1>3, <1>4, <1>5, <1>6 DEF Next

LEMMA HeldStep == TypeOK /\ HeldIsFound /\ [Next]_vars => HeldIsFound'
<1> SUFFICES ASSUME TypeOK, HeldIsFound, [Next]_vars PROVE HeldIsFound'
  OBVIOUS
<1> USE DEF TypeOK, HeldIsFound, frozen, threadVars, processVars
<1>1. ASSUME NEW w \in Workers, ThreadStep(w) PROVE HeldIsFound'
  BY <1>1 DEF ThreadStep, Become, Begin, Test, Miss, Find, Publish
<1>2. ASSUME NEW w \in Workers, MonitorStep(w) PROVE HeldIsFound'
  BY <1>2 DEF MonitorStep, Become, Watch, Spawn, Join, Receive, Announce
<1>3. ASSUME NEW w \in Workers, Solve(w) \/ Deliver(w) \/ Die(w) PROVE HeldIsFound'
  BY <1>3 DEF Become, Solve, Deliver, Die
<1>4. CASE CallerStep
  BY <1>4 DEF CallerStep, Goto, Read, Clear, CheckHashing, GiveUp, Poll, Return
<1>5. CASE Interrupt \/ Abandon
  BY <1>5 DEF Interrupt, Abandon
<1>6. CASE UNCHANGED vars
  BY <1>6 DEF vars
<1> QED
  BY <1>1, <1>2, <1>3, <1>4, <1>5, <1>6 DEF Next

LEMMA WaitStep == PowInv /\ [Next]_vars => WaitsForResult'
<1> SUFFICES ASSUME PowInv, [Next]_vars PROVE WaitsForResult'
  OBVIOUS
<1> USE DEF PowInv, TypeOK, WaitsForResult, frozen, threadVars, processVars, Threads, Processes
<1>1. ASSUME NEW w \in Workers, ThreadStep(w) PROVE WaitsForResult'
  BY <1>1 DEF ThreadStep, Become, Begin, Test, Miss, Find, Publish
<1>2. ASSUME NEW w \in Workers, MonitorStep(w) PROVE WaitsForResult'
  BY <1>2, PowConstants DEF MonitorStep, Become, Watch, Spawn, Join, Receive, Announce
<1>3. ASSUME NEW w \in Workers, Solve(w) \/ Deliver(w) \/ Die(w) PROVE WaitsForResult'
  BY <1>3 DEF Become, Solve, Deliver, Die
<1>4. CASE CallerStep
  BY <1>4 DEF CallerStep, Goto, Read, Clear, CheckHashing, GiveUp, Poll, Return
<1>5. CASE Interrupt \/ Abandon
  BY <1>5 DEF Interrupt, Abandon
<1>6. CASE UNCHANGED vars
  BY <1>6 DEF vars
<1> QED
  BY <1>1, <1>2, <1>3, <1>4, <1>5, <1>6 DEF Next

LEMMA PowStep == PowInv /\ [Next]_vars => PowInv'
  BY TypeStep, HeldStep, WaitStep DEF PowInv

-----------------------------------------------------------------------------

LEMMA StartsAsSearch == Init => Search!SearchInit
<1> SUFFICES ASSUME Init PROVE Search!SearchInit
  OBVIOUS
<1>1. Answer = Pending
  BY DEF Init, Answer
<1> QED
  BY <1>1, PowConstants DEF Init, Search!SearchInit

LEMMA StepIsSearch ==
  PowInv /\ [Next]_vars => [Search!SearchNext]_(Search!searchVars)
<1> SUFFICES ASSUME PowInv, [Next]_vars
             PROVE  Search!SearchNext \/ UNCHANGED Search!searchVars
  OBVIOUS
<1> USE DEF PowInv, TypeOK, frozen, threadVars, processVars, Threads, Processes,
            Answer, Search!searchVars
<1>1. ASSUME NEW w \in Workers, Find(w) \/ Solve(w)
      PROVE  Search!Discover(w)
  BY <1>1 DEF Find, Solve, Search!Discover
<1>2. ASSUME NEW w \in Workers, Begin(w) \/ Test(w) \/ Miss(w) \/ Publish(w)
      PROVE  UNCHANGED Search!searchVars
  BY <1>2 DEF Begin, Test, Miss, Publish
<1>3. ASSUME NEW w \in Workers, MonitorStep(w) \/ Deliver(w) \/ Die(w)
      PROVE  UNCHANGED Search!searchVars
  BY <1>3 DEF MonitorStep, Spawn, Join, Receive, Announce, Deliver, Die
<1>4. CASE Read \/ Clear \/ Poll
  BY <1>4 DEF Goto, Read, Clear, Poll
<1>5. CASE CheckHashing \/ GiveUp
  <2>1. CASE caller' # "returned"
    BY <1>5, <2>1 DEF Goto, CheckHashing, GiveUp
  <2>2. CASE caller' = "returned"
    <3>1. Threads /\ Answer = Pending /\ Answer' = taken /\ (stopped \/ found # {})
      BY <1>5, <2>2 DEF Goto, CheckHashing, GiveUp, WaitsForResult
    <3>2. UNCHANGED <<method, found, stopped>>
      BY <1>5 DEF CheckHashing, GiveUp
    <3>3. CASE taken = Nothing
      BY <3>1, <3>2, <3>3 DEF Search!GiveNothing, Search!SearchNext
    <3>4. CASE taken # Nothing
      BY <3>1, <3>2, <3>4 DEF HeldIsFound, Search!Give, Search!SearchNext
    <3> QED
      BY <3>3, <3>4
  <2> QED
    BY <2>1, <2>2
<1>6. CASE Return
  BY <1>6 DEF Goto, Return, HeldIsFound, WaitsForResult, Search!Give, Search!SearchNext
<1>7. CASE Interrupt
  BY <1>7 DEF Interrupt, Search!Interruption, Search!SearchNext
<1>8. CASE Abandon
  BY <1>8 DEF Abandon
<1>9. CASE UNCHANGED vars
  BY <1>9 DEF vars
<1> QED
  BY <1>1, <1>2, <1>3, <1>4, <1>5, <1>6, <1>7, <1>8, <1>9
     DEF Next, ThreadStep, CallerStep, Search!SearchNext

-----------------------------------------------------------------------------

(***************************************************************************)
(* Whichever way insertBlock searches, and however many threads or         *)
(* processes do, its caller is answered at most once and with a payload    *)
(* that was found, or with False by threads after an interrupt or a find   *)
(* (waitForResult, onionrproofs.py:284; start, subprocesspow.py:65).       *)
(***************************************************************************)
THEOREM SearchIsImplemented == Spec => ImplementsSearch
<1>1. Spec => []PowInv
  BY PowInit, PowStep, PTL DEF Spec
<1> QED
  BY <1>1, StartsAsSearch, StepIsSearch, PTL DEF Spec, ImplementsSearch, Search!SearchSpec

-----------------------------------------------------------------------------
(* The nodes. *)

GossipTypeOK ==
  /\ now \in Nat /\ events \in Nat /\ missed \in BOOLEAN
  /\ author \in [Blocks -> Nodes \cup {None}]
  /\ hash \in [Blocks -> Nat] /\ madeFor \in [Blocks -> {0, 1}]
  /\ usage \in [Nodes -> {"low", "half", "full"}]
  /\ received \in [Nodes -> [Blocks -> Nat \cup {None}]]
  /\ hidden \in [Nodes -> SUBSET Blocks] /\ uploads \in [Nodes -> SUBSET Blocks]
  /\ queue \in [Nodes -> [Blocks -> SUBSET Nodes]]
  /\ stamp \in [Nodes -> [Nodes -> Nat \cup {None}]]
  /\ lookup \in [Nodes -> [peer : Nodes, new : SUBSET Blocks] \cup {None}]
  /\ refused \in [Nodes -> SUBSET Blocks]

\* Only its author hides and uploads a block, nodes have rows only for blocks that were
\* made, and the hash of those meets what their author asked for.
Made ==
  /\ \A n \in Nodes : \A b \in hidden[n] \cup uploads[n] : author[b] = n
  /\ \A n \in Nodes, b \in Blocks : Has(n, b) => author[b] # None
  /\ \A b \in Blocks :
       author[b] # None => hash[b] >= Max({MinSend, Weight(b)}) + madeFor[b]

StampsArePast == \A n, m \in Nodes : stamp[n][m] # None => stamp[n][m] <= now

Reached(n, b) == Has(n, b) \/ queue[n][b] # {} \/ b \in refused[n]

\* What an answer under way leaves out has reached the node.
LookupComplete ==
  ~missed =>
    \A n \in Nodes : lookup[n] # None =>
      /\ lookup[n].peer # n
      /\ \A b \in Blocks :
           /\ author[b] # lookup[n].peer /\ Has(lookup[n].peer, b)
           /\ received[lookup[n].peer][b] < now
           => b \in lookup[n].new \/ Reached(n, b)

GossipInv == GossipTypeOK /\ Made /\ StampsArePast /\ LookupComplete /\ NothingMissed

-----------------------------------------------------------------------------

LEMMA MaxOfTwo ==
  ASSUME NEW i \in Int, NEW j \in Int
  PROVE  Max({i, j}) \in Int /\ Max({i, j}) = IF i >= j THEN i ELSE j
<1>1. PICK k \in {i, j} : \A l \in {i, j} : k >= l
  OBVIOUS
<1>2. Max({i, j}) \in {i, j} /\ \A l \in {i, j} : Max({i, j}) >= l
  BY <1>1 DEF Max
<1> QED
  BY <1>2

LEMMA RoundedIsPast ==
  ASSUME now \in Nat
  PROVE  Rounded \in Nat /\ Rounded <= now
<1>1. now % Minute \in 0..(Minute - 1) /\ now % Minute <= now
  BY GossipConstants
<1> QED
  BY <1>1 DEF Rounded

\* What an arrival does to the rows and to what was refused.
LEMMA Arrivals ==
  ASSUME GossipTypeOK, NEW ms \in SUBSET Nodes, NEW b \in Blocks, Arrive(ms, b)
  PROVE  /\ received' \in [Nodes -> [Blocks -> Nat \cup {None}]]
         /\ refused' \in [Nodes -> SUBSET Blocks]
         /\ \A n \in Nodes, c \in Blocks :
              received'[n][c] # received[n][c] =>
                n \in ms /\ c = b /\ ~Has(n, c) /\ received'[n][c] >= now
         /\ \A n \in Nodes, c \in Blocks : c \in refused[n] => c \in refused'[n]
         /\ \A n \in Nodes, c \in Blocks :
              c \in refused'[n] \ refused[n] => n \in ms /\ c = b /\ ~VerifyPow(n, c)
         /\ \A n \in ms : received'[n][b] # None \/ b \in refused'[n]
<1> USE GossipConstants DEF GossipTypeOK
<1> DEFINE accepting == {n \in ms : VerifyPow(n, b)}
<1>1. PICK later \in [accepting -> 0..Spread] :
        received' = [n \in Nodes |->
          IF n \in accepting THEN WithRow(n, b, later[n])[n] ELSE received[n]]
  BY DEF Arrive
<1>2. refused' = [n \in Nodes |->
        IF n \in ms \ accepting THEN refused[n] \cup {b} ELSE refused[n]]
  BY DEF Arrive
<1>3. ASSUME NEW n \in Nodes, n \in accepting
      PROVE  /\ received'[n] \in [Blocks -> Nat \cup {None}]
             /\ received'[n][b] # None
             /\ \A c \in Blocks : received'[n][c] # received[n][c] =>
                  c = b /\ ~Has(n, c) /\ received'[n][c] >= now
  <2>1. later[n] \in 0..Spread
    BY <1>3
  <2>2. received'[n] = WithRow(n, b, later[n])[n]
    BY <1>1, <1>3
  <2> HIDE DEF accepting
  <2> QED
    BY <2>1, <2>2 DEF WithRow, Has
<1>4. ASSUME NEW n \in Nodes, n \notin accepting PROVE received'[n] = received[n]
  BY <1>1, <1>4
<1>5. received' = [n \in Nodes |-> received'[n]]
  BY <1>1
<1>6. received' \in [Nodes -> [Blocks -> Nat \cup {None}]]
  BY <1>3, <1>4, <1>5
<1>7. refused' \in [Nodes -> SUBSET Blocks]
  BY <1>2
<1>8. accepting \subseteq ms
  OBVIOUS
<1>9. \A n \in Nodes, c \in Blocks :
        received'[n][c] # received[n][c] =>
          n \in ms /\ c = b /\ ~Has(n, c) /\ received'[n][c] >= now
  <2> HIDE DEF accepting
  <2> QED
    BY <1>3, <1>4, <1>8
<1> QED
  BY <1>2, <1>3, <1>6, <1>7, <1>9

-----------------------------------------------------------------------------

LEMMA GossipStarts == GossipInit => GossipInv
<1> SUFFICES ASSUME GossipInit PROVE GossipInv
  OBVIOUS
<1>1. GossipTypeOK /\ StampsArePast
  BY GossipConstants DEF GossipInit, GossipTypeOK, StampsArePast
<1>2. Made
  BY DEF GossipInit, Made, Has
<1>3. LookupComplete /\ NothingMissed
  BY DEF GossipInit, LookupComplete, NothingMissed
<1> QED
  BY <1>1, <1>2, <1>3 DEF GossipInv

\* The difficulties are numbers.
LEMMA Difficulties ==
  ASSUME GossipTypeOK, NEW n \in Nodes, NEW b \in Blocks
  PROVE  /\ Modifier(n) \in {0, 1}
         /\ Weight(b) \in Nat
         /\ Max({MinSend, Weight(b)}) \in Nat
         /\ Max({MinSend, Weight(b)}) >= MinSend
         /\ OwnDifficulty(n, b) \in Nat
         /\ OwnDifficulty(n, b) = Max({MinSend, Weight(b)}) + Modifier(n)
<1>1. Modifier(n) \in {0, 1} /\ Weight(b) \in Nat
  BY GossipConstants DEF Modifier, Weight
<1>2. MinSend \in Nat
  BY GossipConstants
<1> QED
  BY <1>1, <1>2, MaxOfTwo DEF OwnDifficulty, Difficulty

LEMMA GossipTypesKept ==
  ASSUME GossipInv, [GossipNext]_gossipVars
  PROVE  GossipTypeOK'
<1> USE GossipConstants DEF GossipInv, GossipTypeOK, rows, sharing, asking, past
<1>1. ASSUME NEW n \in Nodes, NEW b \in Blocks, Insert(n, b) PROVE GossipTypeOK'
  <2>1. PICK luck \in 0..MaxLuck : hash' = [hash EXCEPT ![b] = OwnDifficulty(n, b) + luck]
    BY <1>1 DEF Insert
  <2>2. PICK later \in 0..Spread : received' = WithRow(n, b, later)
    BY <1>1 DEF Insert
  <2>3. hash' \in [Blocks -> Nat]
    <3>1. OwnDifficulty(n, b) \in Nat
      BY Difficulties
    <3>2. OwnDifficulty(n, b) + luck \in Nat
      BY <2>1, <3>1
    <3> QED
      BY <2>1, <3>2
  <2>4. received' \in [Nodes -> [Blocks -> Nat \cup {None}]]
    BY <2>2 DEF WithRow
  <2>5. Modifier(n) \in {0, 1}
    BY Difficulties
  <2> QED
    BY <1>1, <2>3, <2>4, <2>5 DEF Insert
<1>2. ASSUME NEW n \in Nodes, NEW ms \in SUBSET Nodes, NEW b \in Blocks, Upload(n, ms, b)
      PROVE  GossipTypeOK'
  <2>1. WithRoom(ms) \in SUBSET Nodes
    BY DEF WithRoom
  <2>2. Toggled(n, b, ms) \in SUBSET Blocks
    BY DEF Toggled, SymDiff
  <2>3. Arrive(WithRoom(ms), b)
    BY <1>2 DEF Upload
  <2>4. /\ received' \in [Nodes -> [Blocks -> Nat \cup {None}]]
        /\ refused' \in [Nodes -> SUBSET Blocks]
    BY <2>1, <2>3, Arrivals
  <2> QED
    BY <1>2, <2>2, <2>4 DEF Upload
<1>3. ASSUME NEW n \in Nodes, NEW m \in Nodes, NEW b \in Blocks, UploadUnanswered(n, m, b)
      PROVE  GossipTypeOK'
  <2>1. WithRoom({m}) \in SUBSET Nodes /\ Arrive(WithRoom({m}), b)
    BY <1>3 DEF WithRoom, UploadUnanswered
  <2>2. /\ received' \in [Nodes -> [Blocks -> Nat \cup {None}]]
        /\ refused' \in [Nodes -> SUBSET Blocks]
    BY <2>1, Arrivals
  <2> QED
    BY <1>3, <2>2 DEF UploadUnanswered, Event
<1>4. ASSUME NEW n \in Nodes, NEW m \in Nodes, Ask(n, m) PROVE GossipTypeOK'
  BY <1>4 DEF Ask, Listed
<1>5. ASSUME NEW n \in Nodes, Answered(n) PROVE GossipTypeOK'
  BY <1>5, RoundedIsPast DEF Answered
<1>6. ASSUME NEW n \in Nodes, Unanswered(n) PROVE GossipTypeOK'
  BY <1>6, RoundedIsPast DEF Unanswered, Event
<1>7. ASSUME NEW n \in Nodes, NEW b \in Blocks, DropQueued(n, b) PROVE GossipTypeOK'
  BY <1>7 DEF DropQueued, Unqueued
<1>8. ASSUME NEW n \in Nodes, NEW b \in Blocks, Download(n, b) PROVE GossipTypeOK'
  <2>1. {n} \in SUBSET Nodes /\ Arrive({n}, b)
    BY <1>8 DEF Download
  <2>2. /\ received' \in [Nodes -> [Blocks -> Nat \cup {None}]]
        /\ refused' \in [Nodes -> SUBSET Blocks]
    BY <2>1, Arrivals
  <2> QED
    BY <1>8, <2>2 DEF Download, Unqueued
<1>9. ASSUME NEW n \in Nodes, Fill(n) PROVE GossipTypeOK'
  <2>1. PICK u \in {"low", "half", "full"} : usage' = [usage EXCEPT ![n] = u]
    BY <1>9 DEF Fill
  <2> QED
    BY <1>9, <2>1 DEF Fill, Event
<1>10. CASE Tick
  <2>1. missed' = TRUE \/ missed' = missed
    BY <1>10, Zenon DEF Tick
  <2>2. events' = events + 1 \/ events' = events
    BY <1>10, Zenon DEF Tick, Event
  <2>3. missed \in BOOLEAN
    OBVIOUS
  <2>4. missed' \in BOOLEAN
    BY <2>1, <2>3, Zenon
  <2>5. UNCHANGED <<usage, rows, sharing, asking, refused>> /\ now' = now + 1
    BY <1>10 DEF Tick
  <2> QED
    BY <2>2, <2>4, <2>5
<1>11. ASSUME NEW n \in Nodes, Restart(n) PROVE GossipTypeOK'
  BY <1>11 DEF Restart, Event
<1>12. CASE UNCHANGED gossipVars
  BY <1>12 DEF gossipVars
<1> QED
  BY <1>1, <1>2, <1>3, <1>4, <1>5, <1>6, <1>7, <1>8, <1>9, <1>10, <1>11, <1>12
     DEF GossipNext

\* What a step may do to the rows: a node gets one for a block that it makes or accepts,
\* and its date is not before the time it gets it at.
RowsGrow ==
  /\ \A n \in Nodes, b \in Blocks :
       /\ Has(n, b) => received'[n][b] = received[n][b]
       /\ received'[n][b] # received[n][b] => received'[n][b] >= now
       /\ b \in refused[n] => b \in refused'[n]
  /\ \A b \in Blocks : author[b] # None => author'[b] = author[b] /\ hash'[b] = hash[b]

LEMMA RowSteps ==
  ASSUME GossipInv, [GossipNext]_gossipVars
  PROVE  RowsGrow
<1> USE GossipConstants DEF GossipInv, GossipTypeOK
<1>1. ASSUME NEW n \in Nodes, NEW b \in Blocks, Insert(n, b) PROVE RowsGrow
  <2>1. PICK later \in 0..Spread : received' = WithRow(n, b, later)
    BY <1>1 DEF Insert
  <2> QED
    BY <1>1, <2>1 DEF Insert, WithRow, past, Has, RowsGrow
<1>2. ASSUME NEW ms \in SUBSET Nodes, NEW b \in Blocks, Arrive(ms, b), UNCHANGED <<author, hash>>
      PROVE  RowsGrow
  BY <1>2, Arrivals DEF Has, RowsGrow
<1>3. ASSUME NEW n \in Nodes, NEW ms \in SUBSET Nodes, NEW b \in Blocks, Upload(n, ms, b)
      PROVE  RowsGrow
  <2>1. WithRoom(ms) \in SUBSET Nodes
    BY DEF WithRoom
  <2> QED
    BY <1>2, <1>3, <2>1 DEF Upload
<1>4. ASSUME NEW n \in Nodes, NEW m \in Nodes, NEW b \in Blocks, UploadUnanswered(n, m, b)
      PROVE  RowsGrow
  <2>1. WithRoom({m}) \in SUBSET Nodes
    BY DEF WithRoom
  <2> QED
    BY <1>2, <1>4, <2>1 DEF UploadUnanswered
<1>5. ASSUME NEW n \in Nodes, NEW b \in Blocks, Download(n, b) PROVE RowsGrow
  BY <1>2, <1>5 DEF Download
<1>6. ASSUME UNCHANGED <<received, refused, author, hash>> PROVE RowsGrow
  BY <1>6 DEF RowsGrow
<1>7. ASSUME NEW n \in Nodes, NEW m \in Nodes, Ask(n, m) PROVE RowsGrow
  BY <1>6, <1>7 DEF Ask, rows, past
<1>8. ASSUME NEW n \in Nodes, Answered(n) \/ Unanswered(n) \/ Fill(n) \/ Restart(n)
      PROVE  RowsGrow
  BY <1>6, <1>8 DEF Answered, Unanswered, Fill, Restart, rows, past
<1>9. ASSUME NEW n \in Nodes, NEW b \in Blocks, DropQueued(n, b) PROVE RowsGrow
  BY <1>6, <1>9 DEF DropQueued, rows, past
<1>10. CASE Tick \/ UNCHANGED gossipVars
  BY <1>6, <1>10 DEF Tick, gossipVars, rows, past
<1> QED
  BY <1>1, <1>3, <1>4, <1>5, <1>7, <1>8, <1>9, <1>10 DEF GossipNext

LEMMA MadeKept ==
  ASSUME GossipInv, [GossipNext]_gossipVars
  PROVE  Made'
<1>12. GossipTypeOK
  BY DEF GossipInv
<1> USE GossipConstants DEF GossipInv, GossipTypeOK, rows, sharing, asking, past
<1>1. ASSUME NEW n \in Nodes, NEW b \in Blocks, Insert(n, b) PROVE Made'
  <2>1. PICK luck \in 0..MaxLuck : hash' = [hash EXCEPT ![b] = OwnDifficulty(n, b) + luck]
    BY <1>1 DEF Insert
  <2>2. PICK later \in 0..Spread : received' = WithRow(n, b, later)
    BY <1>1 DEF Insert
  <2>3. /\ author[b] = None /\ author' = [author EXCEPT ![b] = n]
        /\ madeFor' = [madeFor EXCEPT ![b] = Modifier(n)]
        /\ hidden' = [hidden EXCEPT ![n] = @ \cup {b}]
        /\ uploads' = [uploads EXCEPT ![n] = @ \cup {b}]
    BY <1>1 DEF Insert
  <2>4. \A m \in Nodes : \A c \in hidden'[m] \cup uploads'[m] : author'[c] = m
    BY <2>3 DEF Made
  <2>5. \A m \in Nodes, c \in Blocks : received'[m][c] # None => author'[c] # None
    BY <2>2, <2>3 DEF Made, WithRow, Has
  <2>6. ASSUME NEW c \in Blocks, author'[c] # None
        PROVE  hash'[c] >= Max({MinSend, Weight(c)}) + madeFor'[c]
    <3>1. CASE c = b
      <4>1. /\ OwnDifficulty(n, b) \in Nat
            /\ OwnDifficulty(n, b) = Max({MinSend, Weight(b)}) + Modifier(n)
        BY Difficulties
      <4>2. OwnDifficulty(n, b) + luck >= OwnDifficulty(n, b)
        BY <2>1, <4>1
      <4> QED
        BY <2>1, <2>3, <3>1, <4>1, <4>2
    <3>2. CASE c # b
      BY <2>1, <2>3, <2>6, <3>2 DEF Made
    <3> QED
      BY <3>1, <3>2
  <2> QED
    BY <2>4, <2>5, <2>6 DEF Made, Has, Weight
<1>2. ASSUME NEW ms \in SUBSET Nodes, NEW b \in Blocks, Arrive(ms, b), author[b] # None,
             UNCHANGED <<author, hash, madeFor>>,
             \A m \in Nodes : \A c \in hidden'[m] \cup uploads'[m] : author[c] = m
      PROVE  Made'
  <2>1. \A m \in Nodes, c \in Blocks : received'[m][c] # received[m][c] => c = b
    <3> HIDE DEF GossipInv, GossipTypeOK
    <3> QED
      BY <1>2, <1>12, Arrivals
  <2>2. \A m \in Nodes, c \in Blocks : received'[m][c] # None => author'[c] # None
    BY <1>2, <2>1 DEF Made, Has
  <2> QED
    BY <1>2, <2>2 DEF Made, Has, Weight
<1>3. ASSUME NEW n \in Nodes, NEW ms \in SUBSET Nodes, NEW b \in Blocks, Upload(n, ms, b)
      PROVE  Made'
  <2>1. WithRoom(ms) \in SUBSET Nodes
    BY DEF WithRoom
  <2>2. b \in uploads[n] /\ author[b] = n
    BY <1>3 DEF Upload, Made
  <2>3. Toggled(n, b, ms) \subseteq hidden[n] \cup {b}
    BY DEF Toggled, SymDiff
  <2>4. /\ hidden' = [hidden EXCEPT ![n] = Toggled(n, b, ms)]
        /\ uploads' = [uploads EXCEPT ![n] = @ \ {b}]
    BY <1>3 DEF Upload
  <2>5. \A m \in Nodes : \A c \in hidden'[m] \cup uploads'[m] : author[c] = m
    BY <2>2, <2>3, <2>4 DEF Made
  <2> QED
    BY <1>2, <1>3, <2>1, <2>2, <2>5 DEF Upload
<1>4. ASSUME NEW n \in Nodes, NEW m \in Nodes, NEW b \in Blocks, UploadUnanswered(n, m, b)
      PROVE  Made'
  <2>1. WithRoom({m}) \in SUBSET Nodes
    BY DEF WithRoom
  <2>2. author[b] # None /\ UNCHANGED <<hidden, uploads>>
    BY <1>4 DEF UploadUnanswered, Made
  <2>3. \A k \in Nodes : \A c \in hidden'[k] \cup uploads'[k] : author[c] = k
    BY <2>2 DEF Made
  <2> QED
    BY <1>2, <1>4, <2>1, <2>2, <2>3 DEF UploadUnanswered
<1>5. ASSUME NEW n \in Nodes, NEW b \in Blocks, Download(n, b) PROVE Made'
  <2>1. author[b] # None /\ UNCHANGED <<hidden, uploads>>
    BY <1>5 DEF Download, Made
  <2>2. \A k \in Nodes : \A c \in hidden'[k] \cup uploads'[k] : author[c] = k
    BY <2>1 DEF Made
  <2> QED
    BY <1>2, <1>5, <2>1, <2>2 DEF Download
<1>6. ASSUME UNCHANGED <<received, author, hash, madeFor>>,
             \A m \in Nodes : hidden'[m] \subseteq hidden[m] /\ uploads'[m] \subseteq uploads[m]
      PROVE  Made'
  BY <1>6 DEF Made, Has, Weight
<1>7. ASSUME NEW n \in Nodes, NEW m \in Nodes, Ask(n, m) PROVE Made'
  BY <1>6, <1>7 DEF Ask
<1>8. ASSUME NEW n \in Nodes, Answered(n) \/ Unanswered(n) \/ Fill(n) PROVE Made'
  BY <1>6, <1>8 DEF Answered, Unanswered, Fill
<1>9. ASSUME NEW n \in Nodes, Restart(n) PROVE Made'
  BY <1>6, <1>9 DEF Restart
<1>10. ASSUME NEW n \in Nodes, NEW b \in Blocks, DropQueued(n, b) PROVE Made'
  BY <1>6, <1>10 DEF DropQueued
<1>11. CASE Tick \/ UNCHANGED gossipVars
  BY <1>6, <1>11 DEF Tick, gossipVars
<1> QED
  BY <1>1, <1>3, <1>4, <1>5, <1>7, <1>8, <1>9, <1>10, <1>11 DEF GossipNext

LEMMA StampsKept ==
  ASSUME GossipInv, [GossipNext]_gossipVars
  PROVE  StampsArePast'
<1> USE GossipConstants DEF GossipInv, GossipTypeOK, rows, sharing, asking, past
<1>1. ASSUME NEW n \in Nodes, NEW m \in Nodes, now' = now,
             stamp' = [stamp EXCEPT ![n][m] = Rounded]
      PROVE  StampsArePast'
  BY <1>1, RoundedIsPast DEF StampsArePast
<1>2. ASSUME NEW n \in Nodes, Answered(n) \/ Unanswered(n) PROVE StampsArePast'
  BY <1>1, <1>2 DEF Answered, Unanswered
<1>3. ASSUME NEW n \in Nodes, Restart(n) PROVE StampsArePast'
  BY <1>3 DEF Restart, StampsArePast
<1>4. CASE Tick
  BY <1>4 DEF Tick, StampsArePast
<1>5. ASSUME UNCHANGED <<now, stamp>> PROVE StampsArePast'
  BY <1>5 DEF StampsArePast
<1>6. ASSUME NEW n \in Nodes, NEW b \in Blocks, Insert(n, b) \/ DropQueued(n, b) \/ Download(n, b)
      PROVE  StampsArePast'
  BY <1>5, <1>6 DEF Insert, DropQueued, Download
<1>7. ASSUME NEW n \in Nodes, NEW ms \in SUBSET Nodes, NEW b \in Blocks, Upload(n, ms, b)
      PROVE  StampsArePast'
  BY <1>5, <1>7 DEF Upload
<1>8. ASSUME NEW n \in Nodes, NEW m \in Nodes, NEW b \in Blocks, UploadUnanswered(n, m, b)
      PROVE  StampsArePast'
  BY <1>5, <1>8 DEF UploadUnanswered
<1>9. ASSUME NEW n \in Nodes, NEW m \in Nodes, Ask(n, m) PROVE StampsArePast'
  BY <1>5, <1>9 DEF Ask
<1>10. ASSUME NEW n \in Nodes, Fill(n) PROVE StampsArePast'
  BY <1>5, <1>10 DEF Fill
<1>11. CASE UNCHANGED gossipVars
  BY <1>5, <1>11 DEF gossipVars
<1> QED
  BY <1>2, <1>3, <1>4, <1>6, <1>7, <1>8, <1>9, <1>10, <1>11 DEF GossipNext

\* Only a restart makes a node forget what has reached it.
LEMMA ReachedStays ==
  ASSUME GossipInv, [GossipNext]_gossipVars,
         NEW n \in Nodes, ~Restart(n), NEW b \in Blocks, Reached(n, b)
  PROVE  Reached(n, b)'
<1>12. GossipTypeOK
  BY DEF GossipInv
<1> USE DEF GossipInv, GossipTypeOK, rows, sharing, asking, past
<1>1. ASSUME queue'[n][b] = queue[n][b] PROVE Reached(n, b)'
  BY <1>1, RowSteps, GossipConstants DEF RowsGrow, Reached, Has
<1>2. ASSUME NEW m \in Nodes, NEW c \in Blocks, DropQueued(m, c) PROVE Reached(n, b)'
  BY <1>2 DEF DropQueued, Unqueued, Reached, Has
<1>3. ASSUME NEW m \in Nodes, NEW c \in Blocks, Download(m, c) PROVE Reached(n, b)'
  <2>1. Arrive({m}, c) /\ queue' = [queue EXCEPT ![m][c] = {}]
    BY <1>3 DEF Download, Unqueued
  <2>2. received'[m][c] # None \/ c \in refused'[m]
    <3> HIDE DEF GossipInv, GossipTypeOK
    <3>1. {m} \in SUBSET Nodes
      OBVIOUS
    <3> QED
      BY <1>12, <2>1, <3>1, Arrivals
  <2>3. CASE n = m /\ b = c
    BY <2>2, <2>3 DEF Reached, Has
  <2>4. CASE ~(n = m /\ b = c)
    BY <1>1, <2>1, <2>4
  <2> QED
    BY <2>3, <2>4
<1>4. ASSUME NEW m \in Nodes, NEW c \in Blocks, Insert(m, c) PROVE Reached(n, b)'
  BY <1>1, <1>4 DEF Insert
<1>5. ASSUME NEW m \in Nodes, NEW ms \in SUBSET Nodes, NEW c \in Blocks, Upload(m, ms, c)
      PROVE  Reached(n, b)'
  BY <1>1, <1>5 DEF Upload
<1>6. ASSUME NEW m \in Nodes, NEW k \in Nodes, NEW c \in Blocks, UploadUnanswered(m, k, c)
      PROVE  Reached(n, b)'
  BY <1>1, <1>6 DEF UploadUnanswered
<1>7. ASSUME NEW m \in Nodes, NEW k \in Nodes, Ask(m, k) PROVE Reached(n, b)'
  BY <1>1, <1>7 DEF Ask
<1>8. ASSUME NEW m \in Nodes, Answered(m) PROVE Reached(n, b)'
  <2>1. queue[n][b] \subseteq queue'[n][b] /\ UNCHANGED <<received, refused>>
    BY <1>8 DEF Answered
  <2> QED
    BY <2>1 DEF Reached, Has
<1>9. ASSUME NEW m \in Nodes, Unanswered(m) \/ Fill(m) PROVE Reached(n, b)'
  BY <1>1, <1>9 DEF Unanswered, Fill
<1>10. ASSUME NEW m \in Nodes, Restart(m) PROVE Reached(n, b)'
  <2>1. n # m
    BY <1>10
  <2> QED
    BY <1>1, <1>10, <2>1 DEF Restart
<1>11. CASE Tick \/ UNCHANGED gossipVars
  BY <1>1, <1>11 DEF Tick, gossipVars
<1> QED
  BY <1>2, <1>3, <1>4, <1>5, <1>6, <1>7, <1>8, <1>9, <1>10, <1>11 DEF GossipNext

\* A lookup under way has begun with this step, or goes on in the second it began in.
LEMMA LookupSteps ==
  ASSUME GossipInv, [GossipNext]_gossipVars, ~missed', NEW n \in Nodes, lookup'[n] # None
  PROVE  /\ ~missed /\ now' = now /\ ~Restart(n)
         /\ lookup'[n] = lookup[n] \/ \E m \in Nodes : Ask(n, m)
<1> USE DEF GossipInv, GossipTypeOK, rows, sharing, asking, past
<1> DEFINE Goes == ~missed /\ now' = now /\ (lookup'[n] = lookup[n] \/ \E m \in Nodes : Ask(n, m))
<1>1. ~Restart(n)
  BY DEF Restart
<1>2. ASSUME NEW m \in Nodes, NEW b \in Blocks, Insert(m, b) \/ DropQueued(m, b) \/ Download(m, b)
      PROVE  Goes
  BY <1>2 DEF Insert, DropQueued, Download
<1>3. ASSUME NEW m \in Nodes, NEW ms \in SUBSET Nodes, NEW b \in Blocks, Upload(m, ms, b)
      PROVE  Goes
  BY <1>3 DEF Upload
<1>4. ASSUME NEW m \in Nodes, NEW k \in Nodes, NEW b \in Blocks, UploadUnanswered(m, k, b)
      PROVE  Goes
  BY <1>4 DEF UploadUnanswered
<1>5. ASSUME NEW m \in Nodes, NEW k \in Nodes, Ask(m, k) PROVE Goes
  <2>1. now' = now /\ missed' = missed /\ (m = n \/ lookup'[n] = lookup[n])
    BY <1>5 DEF Ask
  <2> QED
    BY <1>5, <2>1
<1>6. ASSUME NEW m \in Nodes, Answered(m) \/ Unanswered(m) \/ Fill(m) \/ Restart(m) PROVE Goes
  BY <1>6 DEF Answered, Unanswered, Fill, Restart
<1>7. CASE Tick
  BY <1>7 DEF Tick
<1>8. CASE UNCHANGED gossipVars
  <2>1. now' = now /\ missed' = missed /\ lookup' = lookup
    BY <1>8 DEF gossipVars
  <2> QED
    BY <1>1, <2>1
<1> QED
  BY <1>1, <1>2, <1>3, <1>4, <1>5, <1>6, <1>7, <1>8 DEF GossipNext

\* Rows from before a step have the date, and their block the author, they had.
LEMMA OldRows ==
  ASSUME GossipInv, [GossipNext]_gossipVars, NEW m \in Nodes, NEW b \in Blocks,
         received'[m][b] # None, received'[m][b] < now
  PROVE  Has(m, b) /\ received'[m][b] = received[m][b] /\ author'[b] = author[b]
<1>1. received'[m][b] \in Nat /\ now \in Nat
  BY GossipTypesKept DEF GossipTypeOK, GossipInv
<1>2. received'[m][b] = received[m][b]
  BY <1>1, RowSteps DEF RowsGrow
<1>3. Has(m, b) /\ author[b] # None
  BY <1>2 DEF Has, GossipInv, Made
<1> QED
  BY <1>2, <1>3, RowSteps DEF RowsGrow

LEMMA LookupKept ==
  ASSUME GossipInv, [GossipNext]_gossipVars
  PROVE  LookupComplete'
<1> SUFFICES ASSUME ~missed', NEW n \in Nodes, lookup'[n] # None
             PROVE  /\ lookup'[n].peer # n
                    /\ \A b \in Blocks :
                         /\ author'[b] # lookup'[n].peer /\ received'[lookup'[n].peer][b] # None
                         /\ received'[lookup'[n].peer][b] < now'
                         => b \in lookup'[n].new \/ Reached(n, b)'
  BY DEF LookupComplete, Has
<1>1. ~missed /\ now' = now /\ ~Restart(n)
  BY LookupSteps
<1>2. CASE lookup'[n] = lookup[n]
  <2>1. lookup[n].peer \in Nodes
    BY <1>2 DEF GossipInv, GossipTypeOK
  <2>2. lookup[n].peer # n
    BY <1>1, <1>2 DEF GossipInv, LookupComplete
  <2>3. ASSUME NEW b \in Blocks, author'[b] # lookup[n].peer,
               received'[lookup[n].peer][b] # None, received'[lookup[n].peer][b] < now
        PROVE  b \in lookup[n].new \/ Reached(n, b)'
    <3>1. /\ Has(lookup[n].peer, b) /\ author'[b] = author[b]
          /\ received'[lookup[n].peer][b] = received[lookup[n].peer][b]
      BY <2>1, <2>3, OldRows
    <3>2. b \in lookup[n].new \/ Reached(n, b)
      BY <1>1, <1>2, <2>3, <3>1 DEF GossipInv, LookupComplete
    <3> QED
      BY <1>1, <3>2, ReachedStays
  <2> QED
    BY <1>1, <1>2, <2>2, <2>3
<1>3. ASSUME NEW m \in Nodes, Ask(n, m)
      PROVE  /\ lookup'[n].peer # n
             /\ \A b \in Blocks :
                  /\ author'[b] # lookup'[n].peer /\ received'[lookup'[n].peer][b] # None
                  /\ received'[lookup'[n].peer][b] < now'
                  => b \in lookup'[n].new \/ Reached(n, b)'
  <2>1. /\ n # m /\ UNCHANGED <<received, author, queue, refused>>
        /\ lookup'[n] = [peer |-> m, new |-> {b \in Listed(m, stamp[n][m]) : ~Has(n, b)}]
    BY <1>3 DEF Ask, rows, past, GossipInv, GossipTypeOK
  <2>2. lookup'[n].peer = m
    BY <2>1
  <2>3. ASSUME NEW b \in Blocks, author[b] # m, Has(m, b)
        PROVE  b \in lookup'[n].new \/ Reached(n, b)
    <3>1. b \notin hidden[m]
      BY <2>3 DEF GossipInv, Made
    <3>2. CASE b \in Listed(m, stamp[n][m])
      BY <2>1, <3>2 DEF Reached
    <3>3. CASE b \notin Listed(m, stamp[n][m])
      <4>1. stamp[n][m] # None /\ ~(received[m][b] >= stamp[n][m])
        BY <2>3, <3>1, <3>3 DEF Listed
      <4>2. stamp[n][m] \in Nat /\ received[m][b] \in Nat
        BY <2>3, <4>1 DEF GossipInv, GossipTypeOK, Has
      <4>3. received[m][b] < stamp[n][m]
        BY <4>1, <4>2
      <4> QED
        BY <1>1, <2>1, <2>3, <4>1, <4>3 DEF GossipInv, NothingMissed, Reached
    <3> QED
      BY <3>2, <3>3
  <2> QED
    BY <2>1, <2>2, <2>3 DEF Reached, Has
<1> QED
  BY <1>2, <1>3, LookupSteps

LEMMA NothingMissedKept ==
  ASSUME GossipInv, [GossipNext]_gossipVars
  PROVE  NothingMissed'
<1> SUFFICES ASSUME ~missed', NEW n \in Nodes, NEW m \in Nodes, NEW b \in Blocks,
                    n # m, author'[b] # m, received'[m][b] # None,
                    stamp'[n][m] # None, received'[m][b] < stamp'[n][m]
             PROVE  Reached(n, b)'
  BY DEF NothingMissed, Reached, Has
<1> USE DEF rows, sharing, asking, past
<1>1. /\ now \in Nat /\ received'[m][b] \in Nat /\ stamp'[n][m] \in Nat
      /\ stamp \in [Nodes -> [Nodes -> Nat \cup {None}]]
      /\ lookup \in [Nodes -> [peer : Nodes, new : SUBSET Blocks] \cup {None}]
      /\ queue \in [Nodes -> [Blocks -> SUBSET Nodes]]
  BY GossipTypesKept DEF GossipTypeOK, GossipInv
<1>2. ~Restart(n)
  BY <1>1 DEF Restart
<1>3. CASE stamp'[n][m] = stamp[n][m] /\ ~missed
  <2>1. stamp[n][m] <= now
    BY <1>3 DEF GossipInv, StampsArePast
  <2>2. received'[m][b] < now
    BY <1>1, <1>3, <2>1
  <2>3. Has(m, b) /\ received'[m][b] = received[m][b] /\ author'[b] = author[b]
    BY <2>2, OldRows
  <2>4. Reached(n, b)
    BY <1>3, <2>3 DEF GossipInv, NothingMissed, Reached
  <2> QED
    BY <1>2, <2>4, ReachedStays
<1>4. CASE Answered(n) /\ lookup[n].peer = m
  <2>1. /\ lookup[n] # None /\ ~missed /\ stamp'[n][m] = Rounded
        /\ UNCHANGED <<received, author, refused>>
        /\ \A c \in Blocks :
             c \in lookup[n].new /\ HashMeetsDifficulty(c) => m \in queue'[n][c]
    BY <1>1, <1>4 DEF Answered
  <2>2. received[m][b] < now
    BY <1>1, <2>1, RoundedIsPast
  <2>3. b \in lookup[n].new \/ Reached(n, b)
    BY <1>4, <2>1, <2>2 DEF GossipInv, LookupComplete, Has
  <2>4. HashMeetsDifficulty(b)
    <3>1. author[b] # None
      BY <2>1 DEF GossipInv, Made, Has
    <3>2. hash[b] >= Max({MinSend, Weight(b)}) + madeFor[b]
      BY <3>1 DEF GossipInv, Made
    <3>3. Max({MinSend, Weight(b)}) \in Nat /\ Max({MinSend, Weight(b)}) >= MinSend
      <4>1. GossipTypeOK
        BY DEF GossipInv
      <4> QED
        BY <4>1, Difficulties
    <3>4. hash[b] \in Nat /\ madeFor[b] \in {0, 1}
      BY DEF GossipInv, GossipTypeOK
    <3> QED
      BY <3>2, <3>3, <3>4, GossipConstants DEF HashMeetsDifficulty
  <2> QED
    BY <1>2, <2>1, <2>3, <2>4, ReachedStays DEF Reached
<1>5. ASSUME stamp' = stamp, missed' = missed PROVE Reached(n, b)'
  BY <1>3, <1>5
<1>6. ASSUME NEW k \in Nodes, Answered(k) PROVE Reached(n, b)'
  <2>1. stamp' = [stamp EXCEPT ![k][lookup[k].peer] = Rounded] /\ missed' = missed
    BY <1>6 DEF Answered
  <2>2. lookup[k].peer \in Nodes
    BY <1>1, <1>6 DEF Answered
  <2>3. CASE k = n /\ lookup[k].peer = m
    BY <1>4, <1>6, <2>3
  <2>4. CASE ~(k = n /\ lookup[k].peer = m)
    BY <1>1, <1>3, <2>1, <2>2, <2>4
  <2> QED
    BY <2>3, <2>4
<1>7. ASSUME NEW k \in Nodes, Unanswered(k) PROVE Reached(n, b)'
  BY <1>7 DEF Unanswered
<1>8. ASSUME NEW k \in Nodes, Restart(k) PROVE Reached(n, b)'
  <2>1. k # n /\ stamp' = [stamp EXCEPT ![k] = [j \in Nodes |-> None]] /\ missed' = missed
    BY <1>2, <1>8 DEF Restart
  <2> QED
    BY <1>1, <1>3, <2>1
<1>9. ASSUME NEW k \in Nodes, Fill(k) PROVE Reached(n, b)'
  BY <1>5, <1>9 DEF Fill
<1>10. ASSUME NEW k \in Nodes, NEW c \in Blocks, Insert(k, c) \/ DropQueued(k, c) \/ Download(k, c)
       PROVE  Reached(n, b)'
  BY <1>5, <1>10 DEF Insert, DropQueued, Download
<1>11. ASSUME NEW k \in Nodes, NEW ms \in SUBSET Nodes, NEW c \in Blocks, Upload(k, ms, c)
       PROVE  Reached(n, b)'
  BY <1>5, <1>11 DEF Upload
<1>12. ASSUME NEW k \in Nodes, NEW j \in Nodes, NEW c \in Blocks, UploadUnanswered(k, j, c)
       PROVE  Reached(n, b)'
  BY <1>5, <1>12 DEF UploadUnanswered
<1>13. ASSUME NEW k \in Nodes, NEW j \in Nodes, Ask(k, j) PROVE Reached(n, b)'
  BY <1>5, <1>13 DEF Ask
<1>14. CASE Tick
  BY <1>3, <1>14 DEF Tick
<1>15. CASE UNCHANGED gossipVars
  BY <1>5, <1>15 DEF gossipVars
<1> QED
  BY <1>6, <1>7, <1>8, <1>9, <1>10, <1>11, <1>12, <1>13, <1>14, <1>15 DEF GossipNext

LEMMA GossipSteps ==
  ASSUME GossipInv, [GossipNext]_gossipVars
  PROVE  GossipInv'
  BY GossipTypesKept, MadeKept, StampsKept, LookupKept, NothingMissedKept DEF GossipInv

\* A node whose disk is no fuller than the author's was asks for no more than the author did.
LEMMA NoFullerAccepts ==
  ASSUME GossipInv, NEW n \in Nodes, NEW b \in Blocks, author[b] # None,
         ~(Modifier(n) > madeFor[b]), b \notin Growing
  PROVE  VerifyPow(n, b)
<1>1. GossipTypeOK
  BY DEF GossipInv
<1> DEFINE own == Max({MinSend, Weight(b)})
           size == Max({MinBlock, Weight(b)})
<1>2. /\ MinSend \in Nat /\ MinBlock \in Nat /\ MinSend >= MinBlock /\ Weight(b) \in Nat
      /\ Modifier(n) \in {0, 1} /\ hash[b] \in Nat /\ madeFor[b] \in {0, 1}
  BY <1>1, Difficulties, GossipConstants DEF GossipTypeOK
<1>3. own = IF MinSend >= Weight(b) THEN MinSend ELSE Weight(b)
  BY <1>2, MaxOfTwo
<1>4. size = IF MinBlock >= Weight(b) THEN MinBlock ELSE Weight(b)
  BY <1>2, MaxOfTwo
<1>5. hash[b] >= own + madeFor[b]
  BY DEF GossipInv, Made
<1>6. Weight(b) + (IF b \in Growing THEN 1 ELSE 0) = Weight(b)
  BY <1>2
<1>7. DemandedDifficulty(n, b) = Max({MinBlock, size + Modifier(n)})
  BY <1>6 DEF DemandedDifficulty, Difficulty
<1> HIDE DEF own, size
<1>8. size + Modifier(n) \in Nat
  BY <1>2, <1>4
<1>9. DemandedDifficulty(n, b) =
        IF MinBlock >= size + Modifier(n) THEN MinBlock ELSE size + Modifier(n)
  BY <1>2, <1>7, <1>8, MaxOfTwo
<1>10. Modifier(n) <= madeFor[b]
  BY <1>2
<1>11. size <= own /\ MinBlock <= own /\ own \in Nat /\ size \in Nat
  BY <1>2, <1>3, <1>4
<1> QED
  BY <1>2, <1>5, <1>9, <1>10, <1>11 DEF VerifyPow

LEMMA RefusalSteps ==
  ASSUME GossipInv, [GossipNext]_gossipVars,
         NEW n \in Nodes, NEW b \in refused'[n] \ refused[n]
  PROVE  Modifier(n) > madeFor[b] \/ b \in Growing
<1>1. GossipTypeOK /\ b \in Blocks
  BY GossipTypesKept DEF GossipInv, GossipTypeOK
<1>2. ASSUME NEW ms \in SUBSET Nodes, NEW c \in Blocks, Arrive(ms, c), author[c] # None
      PROVE  Modifier(n) > madeFor[b] \/ b \in Growing
  <2>1. b = c /\ ~VerifyPow(n, b)
    BY <1>1, <1>2, Arrivals
  <2> QED
    BY <1>1, <1>2, <2>1, NoFullerAccepts
<1>3. refused' # refused
  OBVIOUS
<1>4. ASSUME NEW k \in Nodes, NEW ms \in SUBSET Nodes, NEW c \in Blocks, Upload(k, ms, c)
      PROVE  Modifier(n) > madeFor[b] \/ b \in Growing
  <2>1. WithRoom(ms) \in SUBSET Nodes
    BY DEF WithRoom
  <2>2. author[c] # None /\ Arrive(WithRoom(ms), c)
    BY <1>4, GossipConstants DEF Upload, GossipInv, Made
  <2> QED
    BY <1>2, <2>1, <2>2
<1>5. ASSUME NEW k \in Nodes, NEW m \in Nodes, NEW c \in Blocks, UploadUnanswered(k, m, c)
      PROVE  Modifier(n) > madeFor[b] \/ b \in Growing
  <2>1. WithRoom({m}) \in SUBSET Nodes
    BY DEF WithRoom
  <2>2. author[c] # None /\ Arrive(WithRoom({m}), c)
    BY <1>5, GossipConstants DEF UploadUnanswered, GossipInv, Made
  <2> QED
    BY <1>2, <2>1, <2>2
<1>6. ASSUME NEW k \in Nodes, NEW c \in Blocks, Download(k, c)
      PROVE  Modifier(n) > madeFor[b] \/ b \in Growing
  <2>1. {k} \in SUBSET Nodes
    OBVIOUS
  <2>2. PICK m \in queue[k][c] : Has(m, c)
    BY <1>6 DEF Download
  <2>3. m \in Nodes
    BY <1>1 DEF GossipTypeOK
  <2>4. author[c] # None /\ Arrive({k}, c)
    BY <1>6, <2>2, <2>3 DEF Download, GossipInv, Made
  <2> QED
    BY <1>2, <2>1, <2>4
<1>7. ASSUME NEW k \in Nodes, NEW c \in Blocks, Insert(k, c) \/ DropQueued(k, c)
      PROVE  refused' = refused
  BY <1>7 DEF Insert, DropQueued, past
<1>8. ASSUME NEW k \in Nodes, NEW m \in Nodes, Ask(k, m)
      PROVE  refused' = refused
  BY <1>8 DEF Ask, past
<1>9. ASSUME NEW k \in Nodes, Answered(k) \/ Unanswered(k) \/ Fill(k) \/ Restart(k)
      PROVE  refused' = refused
  BY <1>9 DEF Answered, Unanswered, Fill, Restart, past
<1>10. CASE Tick \/ UNCHANGED gossipVars
  BY <1>3, <1>10 DEF Tick, gossipVars, past
<1> QED
  BY <1>3, <1>4, <1>5, <1>6, <1>7, <1>8, <1>9, <1>10 DEF GossipNext

LEMMA GossipInvHolds == GossipSpec => []GossipInv
  BY GossipStarts, GossipSteps, PTL DEF GossipSpec

-----------------------------------------------------------------------------

(***************************************************************************)
(* Whatever rows a peer keeps from a node by its time stamp, the node has, *)
(* is going to download, or has refused, for any number of nodes and       *)
(* blocks, any rounding of the time stamps and any spread of the dates     *)
(* (lookup_blocks_from_communicator, lookupblocks.py:65;                   *)
(* get_public_block_list, getblocks.py:28).                                *)
(***************************************************************************)
THEOREM LookupsMissNothing == GossipSpec => []NothingMissed
<1>1. GossipInv => NothingMissed
  BY DEF GossipInv
<1> QED
  BY <1>1, GossipInvHolds, PTL

(***************************************************************************)
(* Whatever the sizes and the difficulties are, a node refuses a block     *)
(* that did not grow only if its own disk is fuller than the author's was  *)
(* (verifyPow, onionrproofs.py; getDifficultyForNewBlock).                 *)
(***************************************************************************)
THEOREM OnlyFullerRefuse == GossipSpec => RefusedByFuller
<1>1. ASSUME GossipInv, [GossipNext]_gossipVars
      PROVE  [\A n \in Nodes : \A b \in refused'[n] \ refused[n] :
                Modifier(n) > madeFor[b] \/ b \in Growing]_gossipVars
  BY <1>1, RefusalSteps
<1> QED
  BY <1>1, GossipInvHolds, PTL DEF GossipSpec, RefusedByFuller

=============================================================================
