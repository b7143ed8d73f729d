------------------------- MODULE BlockSharingProofs -------------------------
(***************************************************************************)
(* Proofs about BlockSharing, for any blocks, peers and number of          *)
(* daemonCommands threads, with or without lost requests and restarts.     *)
(***************************************************************************)
EXTENDS BlockSharing, TLAPS

\* What the threads hold is a block.
HoldBlocks ==
  /\ \A h \in Handlers : handling[h].step # "idle" => handling[h].block \in Blocks
  /\ up \in {"block", "posting", "toggle"} => cur \in Blocks

\* A block whose insertion has not come to daemonQueueAdd is nowhere else yet.
NotYetQueued ==
  \A b \in Blocks :
    stage[b] \in {"none", "ping", "hide", "queue"} =>
      /\ b \notin queued /\ b \notin uploaded
      /\ \A i \in DOMAIN commands : commands[i] # b
      /\ \A h \in Handlers : handling[h].block # b
      /\ toUpload[b] = 0 /\ shuffled[b] = 0 /\ todo[b] = 0 /\ cur # b

\* The first toggle is the one of the insertion.
NotYetHidden ==
  \A b \in Blocks :
    stage[b] \in {"none", "ping", "hide"} => b \notin hideBlocks /\ b \notin asked

\* Only what a peer has answered for is toggled and finished.
OnlyUploaded ==
  /\ up = "toggle" => cur \in uploaded
  /\ \A b \in Blocks : finished[b] > 0 => b \in uploaded

(***************************************************************************)
(* The inductive invariant.                                                *)
(***************************************************************************)
SharingInv ==
  /\ TypeOK /\ HoldBlocks
  /\ NotYetQueued /\ NotYetHidden /\ OnlyUploaded
  /\ HiddenUntilUploaded /\ NoneForgotten

-----------------------------------------------------------------------------

LEMMA SharingInit == Init => SharingInv
<1> SUFFICES ASSUME Init PROVE SharingInv
  OBVIOUS
<1> USE DEF Init, Nothing, Idle
<1>1. TypeOK
  BY DEF TypeOK, Stages, Places
<1>2. HoldBlocks
  BY DEF HoldBlocks
<1>3. NotYetQueued
  BY SharingConstants DEF NotYetQueued
<1>4. NotYetHidden /\ OnlyUploaded
  BY DEF NotYetHidden, OnlyUploaded
<1>5. HiddenUntilUploaded /\ NoneForgotten
  BY DEF HiddenUntilUploaded, NoneForgotten
<1> QED
  BY <1>1, <1>2, <1>3, <1>4, <1>5 DEF SharingInv

-----------------------------------------------------------------------------
(* What appending to a queue, and taking its head off, do to its elements. *)

LEMMA AppendElements ==
  ASSUME NEW S, NEW s \in Seq(S), NEW e \in S
  PROVE  /\ Append(s, e) \in Seq(S)
         /\ \E i \in DOMAIN Append(s, e) : Append(s, e)[i] = e
         /\ \A i \in DOMAIN s : i \in DOMAIN Append(s, e) /\ Append(s, e)[i] = s[i]
         /\ \A i \in DOMAIN Append(s, e) :
              Append(s, e)[i] = e \/ (i \in DOMAIN s /\ Append(s, e)[i] = s[i])
<1>1. Len(s) + 1 \in DOMAIN Append(s, e) /\ Append(s, e)[Len(s) + 1] = e
  OBVIOUS
<1> QED
  BY <1>1

LEMMA TailElements ==
  ASSUME NEW S, NEW s \in Seq(S), s # <<>>
  PROVE  /\ Tail(s) \in Seq(S)
         /\ \A i \in DOMAIN Tail(s) : i + 1 \in DOMAIN s /\ Tail(s)[i] = s[i + 1]
         /\ \A i \in DOMAIN s : s[i] # Head(s) =>
              i - 1 \in DOMAIN Tail(s) /\ Tail(s)[i - 1] = s[i]
<1>1. DOMAIN s = 1 .. Len(s) /\ DOMAIN Tail(s) = 1 .. Len(s) - 1 /\ Head(s) = s[1]
  OBVIOUS
<1>2. \A i \in 1 .. Len(s) - 1 : Tail(s)[i] = s[i + 1]
  OBVIOUS
<1>3. ASSUME NEW i \in DOMAIN s, s[i] # Head(s)
      PROVE  i - 1 \in DOMAIN Tail(s) /\ Tail(s)[i - 1] = s[i]
  <2>1. i \in 1 .. Len(s) /\ i # 1
    BY <1>1, <1>3
  <2> QED
    BY <1>1, <1>2, <2>1
<1> QED
  BY <1>1, <1>2, <1>3

-----------------------------------------------------------------------------
(* Each conjunct, by sort of step. *)

LEMMA TypeStep ==
  ASSUME TypeOK, HoldBlocks, Next PROVE TypeOK' /\ HoldBlocks'
<1> USE DEF TypeOK, HoldBlocks, insertVars, handleVars, uploadVars
<1>1. ASSUME NEW b \in Blocks, InsertStep(b) PROVE TypeOK' /\ HoldBlocks'
  <2> USE DEF Advance, Stages
  <2>1. CASE Create(b) \/ Ping(b) \/ PingFails(b) \/ HideFails(b) \/ AddRow(b)
    BY <2>1 DEF Create, Ping, PingFails, HideFails, AddRow
  <2>2. CASE Hide(b)
    BY <2>2 DEF Hide, Toggled
  <2>3. CASE QueueUpload(b)
    <3>1. Append(commands, b) \in Seq(Blocks)
      BY AppendElements
    <3> QED
      BY <2>3, <3>1 DEF QueueUpload
  <2> QED
    BY <1>1, <2>1, <2>2, <2>3 DEF InsertStep
<1>2. ASSUME NEW h \in Handlers, HandleStep(h) PROVE TypeOK' /\ HoldBlocks'
  <2>1. CASE Select(h)
    BY <2>1 DEF Select
  <2>2. CASE Delete(h)
    <3>1. commands' \in Seq(Blocks)
      BY <2>2, TailElements DEF Delete
    <3>2. handling' \in [Handlers -> [step : {"idle", "delete", "append"},
                                       block : Blocks \cup {NoBlock}]]
      BY <2>2 DEF Delete
    <3>3. HoldBlocks'
      BY <2>2 DEF Delete
    <3> QED
      BY <2>2, <3>1, <3>2, <3>3 DEF Delete
  <2>3. CASE Handle(h)
    <3>1. handling[h].block \in Blocks
      BY <2>3 DEF Handle
    <3> QED
      BY <2>3, <3>1 DEF Handle, Idle
  <2> QED
    BY <1>2, <2>1, <2>2, <2>3 DEF HandleStep
<1>3. CASE UploadStep
  <2> USE DEF Nothing, Places
  <2>1. CASE StartUpload
    BY <2>1 DEF StartUpload
  <2>2. CASE Reassign
    BY <2>2 DEF Reassign
  <2>3. CASE Answered
    BY <2>3 DEF Answered
  <2>8. CASE Unanswered
    BY <2>8 DEF Unanswered
  <2>9. CASE Toggle
    <3>1. hideBlocks' \subseteq Blocks
      BY <2>9 DEF Toggle, Toggled
    <3>2. finished' \in [Blocks -> Nat]
      BY <2>9 DEF Toggle
    <3> QED
      BY <2>9, <3>1, <3>2 DEF Toggle
  <2>4. CASE EndBlock \/ EndLoop \/ EndUpload
    BY <2>4 DEF EndBlock, EndLoop, EndUpload
  <2>5. ASSUME NEW b \in Blocks, Visit(b) PROVE TypeOK' /\ HoldBlocks'
    BY <2>5 DEF Visit
  <2>6. ASSUME NEW b \in Blocks, RemoveFinished(b) PROVE TypeOK' /\ HoldBlocks'
    <3>1. finished' \in [Blocks -> Nat]
      BY <2>6 DEF RemoveFinished
    <3>2. toUpload' \in [Blocks -> Nat]
      BY <2>6 DEF RemoveFinished
    <3> QED
      BY <2>6, <3>1, <3>2 DEF RemoveFinished
  <2>7. ASSUME NEW peer \in Peers, Send(peer) PROVE TypeOK' /\ HoldBlocks'
    BY <2>7 DEF Send
  <2> QED
    BY <1>3, <2>1, <2>2, <2>3, <2>4, <2>5, <2>6, <2>7, <2>8, <2>9 DEF UploadStep
<1>4. CASE Restart
  BY <1>4 DEF Restart, Nothing, Idle, Places
<1> QED
  BY <1>1, <1>2, <1>3, <1>4 DEF Next

LEMMA NotYetStep ==
  ASSUME TypeOK, HoldBlocks, NotYetQueued, NotYetHidden, Next
  PROVE  NotYetQueued' /\ NotYetHidden'
<1> USE DEF TypeOK, HoldBlocks, NotYetQueued, NotYetHidden
<1> USE DEF insertVars, handleVars, uploadVars
<1>1. ASSUME NEW b \in Blocks, InsertStep(b) PROVE NotYetQueued' /\ NotYetHidden'
  <2> USE DEF Advance, Stages
  <2>1. CASE Create(b) \/ Ping(b) \/ PingFails(b) \/ HideFails(b) \/ AddRow(b)
    BY <2>1 DEF Create, Ping, PingFails, HideFails, AddRow
  <2>2. CASE Hide(b)
    BY <2>2 DEF Hide, Toggled
  <2>3. CASE QueueUpload(b)
    <3>1. ASSUME NEW c \in Blocks, c # b, \A i \in DOMAIN commands : commands[i] # c
          PROVE  \A i \in DOMAIN commands' : commands'[i] # c
      <4>1. commands' = Append(commands, b) /\ commands \in Seq(Blocks)
        BY <2>3 DEF QueueUpload
      <4>2. \A i \in DOMAIN commands' : commands'[i] = b \/
                 (i \in DOMAIN commands /\ commands'[i] = commands[i])
        BY ONLY <4>1, AppendElements
      <4> QED
        BY <3>1, <4>2
    <3> QED
      BY <2>3, <3>1 DEF QueueUpload
  <2> QED
    BY <1>1, <2>1, <2>2, <2>3 DEF InsertStep
<1>2. ASSUME NEW h \in Handlers, HandleStep(h) PROVE NotYetQueued' /\ NotYetHidden'
  <2>1. CASE Select(h)
    BY <2>1 DEF Select
  <2>2. CASE Delete(h)
    <3>1. ASSUME NEW c \in Blocks, \A i \in DOMAIN commands : commands[i] # c
          PROVE  \A i \in DOMAIN commands' : commands'[i] # c
      <4>1. CASE commands' = commands
        BY <3>1, <4>1
      <4>2. CASE commands # <<>> /\ commands' = Tail(commands)
        <5>1. \A i \in DOMAIN commands' :
                i + 1 \in DOMAIN commands /\ commands'[i] = commands[i + 1]
          BY <4>2, TailElements
        <5> QED
          BY <3>1, <5>1
      <4> QED
        BY <2>2, <4>1, <4>2 DEF Delete
    <3>2. \A g \in Handlers : handling'[g].block = handling[g].block
      BY <2>2 DEF Delete
    <3> QED
      BY <2>2, <3>1, <3>2 DEF Delete
  <2>3. CASE Handle(h)
    BY <2>3, SharingConstants DEF Handle, Idle
  <2> QED
    BY <1>2, <2>1, <2>2, <2>3 DEF HandleStep
<1>3. CASE UploadStep
  <2> USE SharingConstants DEF Nothing
  <2>1. CASE StartUpload
    BY <2>1 DEF StartUpload
  <2>2. CASE Reassign
    BY <2>2 DEF Reassign
  <2>3. CASE Answered \/ Unanswered \/ Toggle
    BY <2>3 DEF Answered, Unanswered, Toggle, Toggled
  <2>4. CASE EndBlock \/ EndLoop \/ EndUpload
    BY <2>4 DEF EndBlock, EndLoop, EndUpload
  <2>5. ASSUME NEW b \in Blocks, Visit(b) PROVE NotYetQueued' /\ NotYetHidden'
    BY <2>5 DEF Visit
  <2>6. ASSUME NEW b \in Blocks, RemoveFinished(b)
        PROVE  NotYetQueued' /\ NotYetHidden'
    BY <2>6 DEF RemoveFinished
  <2>7. ASSUME NEW peer \in Peers, Send(peer) PROVE NotYetQueued' /\ NotYetHidden'
    BY <2>7 DEF Send
  <2> QED
    BY <1>3, <2>1, <2>2, <2>3, <2>4, <2>5, <2>6, <2>7 DEF UploadStep
<1>4. CASE Restart
  BY <1>4, SharingConstants DEF Restart, Nothing, Idle
<1> QED
  BY <1>1, <1>2, <1>3, <1>4 DEF Next

LEMMA OnlyUploadedStep ==
  ASSUME TypeOK, HoldBlocks, OnlyUploaded, Next PROVE OnlyUploaded'
<1> USE DEF TypeOK, HoldBlocks, OnlyUploaded, insertVars, handleVars, uploadVars
<1>1. ASSUME NEW b \in Blocks, InsertStep(b) PROVE OnlyUploaded'
  BY <1>1 DEF InsertStep, Create, Ping, PingFails, Hide, HideFails, QueueUpload,
     AddRow
<1>2. ASSUME NEW h \in Handlers, HandleStep(h) PROVE OnlyUploaded'
  BY <1>2 DEF HandleStep, Select, Delete, Handle
<1>3. CASE UploadStep
  BY <1>3 DEF UploadStep, StartUpload, Reassign, Visit, Send, Answered, Unanswered,
     Toggle, EndBlock, EndLoop, EndUpload, RemoveFinished
<1>4. CASE Restart
  BY <1>4 DEF Restart, Nothing
<1> QED
  BY <1>1, <1>2, <1>3, <1>4 DEF Next

\* Only the insertion and the upload thread toggle: the one a block that is not
\* hidden yet, the other a block that a peer has answered for.
LEMMA HiddenStep ==
  ASSUME TypeOK, NotYetHidden, OnlyUploaded, HiddenUntilUploaded, Next
  PROVE  HiddenUntilUploaded'
<1> USE DEF TypeOK, NotYetHidden, OnlyUploaded, HiddenUntilUploaded, Toggled
<1> USE DEF insertVars, handleVars, uploadVars
<1>1. ASSUME NEW b \in Blocks, InsertStep(b) PROVE HiddenUntilUploaded'
  BY <1>1 DEF InsertStep, Create, Ping, PingFails, Hide, HideFails, QueueUpload,
     AddRow, Advance
<1>2. ASSUME NEW h \in Handlers, HandleStep(h) PROVE HiddenUntilUploaded'
  BY <1>2 DEF HandleStep, Select, Delete, Handle
<1>3. CASE UploadStep
  BY <1>3 DEF UploadStep, StartUpload, Reassign, Visit, Send, Answered, Unanswered,
     Toggle, EndBlock, EndLoop, EndUpload, RemoveFinished
<1>4. CASE Restart
  BY <1>4 DEF Restart
<1> QED
  BY <1>1, <1>2, <1>3, <1>4 DEF Next

\* A block that is on its way stays on its way, is uploaded or overwritten.
LEMMA ForgottenStep ==
  ASSUME TypeOK, HoldBlocks, OnlyUploaded, NoneForgotten, Next
  PROVE  NoneForgotten'
<1> USE DEF TypeOK, HoldBlocks, OnlyUploaded, NoneForgotten, Pending
<1> USE DEF insertVars, handleVars, uploadVars
<1>1. ASSUME NEW b \in Blocks, InsertStep(b) PROVE NoneForgotten'
  <2>1. CASE QueueUpload(b)
    <3> SUFFICES ASSUME NEW c \in queued'
                 PROVE  Pending(c)' \/ c \in uploaded \/ c \in overwritten
      BY <2>1 DEF QueueUpload
    <3>1. CASE c = b
      <4>1. \E i \in DOMAIN commands' : commands'[i] = c
        <5>1. commands' = Append(commands, b)
          BY <2>1 DEF QueueUpload
        <5>2. commands \in Seq(Blocks)
          OBVIOUS
        <5>3. \E i \in DOMAIN Append(commands, b) : Append(commands, b)[i] = b
          BY ONLY <5>2, b \in Blocks, AppendElements
        <5> QED
          BY ONLY <3>1, <5>1, <5>3
      <4> QED
        BY <4>1
    <3>2. CASE c # b
      <4>1. Pending(c) \/ c \in uploaded \/ c \in overwritten
        BY <2>1, <3>2 DEF QueueUpload
      <4>2. ASSUME NEW i \in DOMAIN commands, commands[i] = c
            PROVE  i \in DOMAIN commands' /\ commands'[i] = c
        <5>1. commands' = Append(commands, b)
          BY <2>1 DEF QueueUpload
        <5> QED
          BY <4>2, <5>1, AppendElements
      <4> QED
        BY <2>1, <4>1, <4>2 DEF QueueUpload
    <3> QED
      BY <3>1, <3>2
  <2> QED
    BY <1>1, <2>1 DEF InsertStep, Create, Ping, PingFails, Hide, HideFails, AddRow
<1>2. ASSUME NEW h \in Handlers, HandleStep(h) PROVE NoneForgotten'
  <2>1. CASE Select(h)
    BY <2>1 DEF Select, Idle
  <2>2. CASE Delete(h)
    <3> SUFFICES ASSUME NEW c \in queued, Pending(c) PROVE Pending(c)'
      BY <2>2 DEF Delete
    <3>1. handling[h] # Idle /\ handling'[h] # Idle
      BY <2>2 DEF Delete, Idle
    <3>2. CASE c = handling[h].block
      BY <2>2, <3>1, <3>2 DEF Delete
    <3>3. ASSUME c # handling[h].block, NEW i \in DOMAIN commands, commands[i] = c
          PROVE  Pending(c)'
      <4>1. CASE commands' = commands
        BY <3>3, <4>1
      <4>2. CASE /\ commands # <<>> /\ Head(commands) = handling[h].block
                 /\ commands' = Tail(commands)
        <5>1. i - 1 \in DOMAIN commands' /\ commands'[i - 1] = c
          BY <3>3, <4>2, TailElements
        <5> QED
          BY <5>1
      <4> QED
        BY <2>2, <4>1, <4>2 DEF Delete
    <3>4. ASSUME c # handling[h].block, NEW g \in Handlers, handling[g] # Idle,
                 handling[g].block = c
          PROVE  Pending(c)'
      BY <2>2, <3>4 DEF Delete
    <3>5. CASE toUpload[c] > 0
      BY <2>2, <3>5 DEF Delete
    <3> QED
      BY <3>2, <3>3, <3>4, <3>5
  <2>3. CASE Handle(h)
    <3> SUFFICES ASSUME NEW c \in queued, Pending(c) PROVE Pending(c)'
      BY <2>3 DEF Handle
    <3> DEFINE d == handling[h].block
    <3>1. d \in Blocks /\ toUpload' = [toUpload EXCEPT ![d] = @ + 1]
      BY <2>3 DEF Handle
    <3>2. CASE c = d
      <4>1. toUpload'[c] > 0
        BY <3>1, <3>2
      <4> QED
        BY <4>1
    <3>3. CASE c # d
      <4>1. toUpload'[c] = toUpload[c]
        BY <3>1, <3>3
      <4>2. \A g \in Handlers : g # h => handling'[g] = handling[g]
        BY <2>3 DEF Handle
      <4> QED
        BY <2>3, <3>3, <4>1, <4>2 DEF Handle
    <3> QED
      BY <3>2, <3>3
  <2> QED
    BY <1>2, <2>1, <2>2, <2>3 DEF HandleStep
<1>3. CASE UploadStep
  <2>1. CASE Reassign
    BY <2>1 DEF Reassign
  <2>2. ASSUME NEW b \in Blocks, RemoveFinished(b) PROVE NoneForgotten'
    <3>1. b \in uploaded /\ uploaded' = uploaded
      BY <2>2 DEF RemoveFinished
    <3>2. \A c \in Blocks : c # b => toUpload'[c] = toUpload[c]
      BY <2>2 DEF RemoveFinished
    <3> QED
      BY <2>2, <3>1, <3>2 DEF RemoveFinished
  <2> QED
    BY <1>3, <2>1, <2>2 DEF UploadStep, StartUpload, Visit, Send, Answered,
       Unanswered, Toggle, EndBlock, EndLoop, EndUpload
<1>4. CASE Restart
  BY <1>4 DEF Restart
<1> QED
  BY <1>1, <1>2, <1>3, <1>4 DEF Next

LEMMA SharingStep == SharingInv /\ [Next]_vars => SharingInv'
<1> SUFFICES ASSUME SharingInv, [Next]_vars PROVE SharingInv'
  OBVIOUS
<1> USE DEF SharingInv
<1>1. CASE Next
  <2>1. TypeOK' /\ HoldBlocks' /\ NotYetQueued' /\ NotYetHidden'
    BY <1>1, TypeStep, NotYetStep
  <2>2. OnlyUploaded' /\ HiddenUntilUploaded' /\ NoneForgotten'
    BY <1>1, OnlyUploadedStep, HiddenStep, ForgottenStep
  <2> QED
    BY <2>1, <2>2
<1>2. CASE UNCHANGED vars
  <2> USE <1>2 DEF vars, insertVars, handleVars, uploadVars
  <2>1. TypeOK' /\ HoldBlocks'
    BY DEF TypeOK, HoldBlocks
  <2>2. NotYetQueued' /\ NotYetHidden' /\ OnlyUploaded'
    BY DEF NotYetQueued, NotYetHidden, OnlyUploaded
  <2>3. HiddenUntilUploaded' /\ NoneForgotten'
    BY DEF HiddenUntilUploaded, NoneForgotten, Pending
  <2> QED
    BY <2>1, <2>2, <2>3
<1> QED
  BY <1>1, <1>2

-----------------------------------------------------------------------------

(***************************************************************************)
(* What each list, queue and thread of the publication can hold; above all *)
(* blocksToUpload.remove never takes away more than there is               *)
(* (uploadblocks.py:47-51).                                                *)
(***************************************************************************)
THEOREM SharingTypeCorrect == Spec => []TypeOK
<1>1. SharingInv => TypeOK
  BY DEF SharingInv
<1> QED
  BY SharingInit, SharingStep, <1>1, PTL DEF Spec

(***************************************************************************)
(* A block the API server was asked to hide is not public before a peer    *)
(* has answered for it (core.py:807, uploadblocks.py:44).                  *)
(***************************************************************************)
THEOREM BlocksAreHidden == Spec => []HiddenUntilUploaded
<1>1. SharingInv => HiddenUntilUploaded
  BY DEF SharingInv
<1> QED
  BY SharingInit, SharingStep, <1>1, PTL DEF Spec

(***************************************************************************)
(* However many threads handle commands at once, the only queued upload    *)
(* that is lost is one appended during the shuffle (uploadblocks.py:28).   *)
(***************************************************************************)
THEOREM UploadsAreKept == Spec => []NoneForgotten
<1>1. SharingInv => NoneForgotten
  BY DEF SharingInv
<1> QED
  BY SharingInit, SharingStep, <1>1, PTL DEF Spec

=============================================================================
