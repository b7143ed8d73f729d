-------------------------- MODULE BlockStoreProofs --------------------------
(***************************************************************************)
(* Proofs about BlockStore, for any set of blocks, any number of threads   *)
(* of each sort, any sizes and any allocation.                             *)
(***************************************************************************)
EXTENDS BlockStore, FiniteSetTheorems, TLAPS

(***************************************************************************)
(* The labels at which a process works on a block.                         *)
(***************************************************************************)
Working == Labels \ {"idle", "dead", "pick", "clean", "oldest"}

WorksOnBlock == \A p \in Procs : pc[p] \in Working => blk[p] \in Blocks

\* Between the end of setData and the insertion of the row.
DataBeforeRow ==
  \A p \in Procs : pc[p] \in {"row", "insert"} => stored[blk[p]] > 0

\* What removeBlock is called with.
DropsBanned ==
  \A p \in Procs :
    pc[p] = "drop" => blk[p] \in blacklist \/ kind[blk[p]] = "unparsable"

(***************************************************************************)
(* The inductive invariant.                                                *)
(***************************************************************************)
Inv ==
  /\ TypeOK /\ WorksOnBlock
  /\ DataBeforeRow /\ RowHasData
  /\ DropsBanned
  /\ ClaimsCounted /\ RowsBounded

-----------------------------------------------------------------------------

LEMMA TypeInit == Init => TypeOK /\ WorksOnBlock
  BY DEF Init, TypeOK, StateTypeOK, ProcTypeOK, WorksOnBlock, Working, Nothing, Labels

\* The release of a claimed block finds the block in currentDownloading.
LEMMA ReleaseFinds ==
  ASSUME TypeOK, ClaimsCounted, NEW t \in Getters, blk[t] \in Blocks, pc[t] = "release"
  PROVE  downloading[blk[t]] > 0
<1> DEFINE S == {u \in Getters : Claims(u, blk[t])}
<1>1. t \in S
  BY DEF Claims, Labels
<1>2. IsFiniteSet(S)
  BY BlockStoreConstants, FS_Subset
<1>3. Cardinality(S) \in Nat /\ Cardinality(S) # 0
  BY <1>1, <1>2, FS_CardinalityType, FS_EmptySet
<1> QED
  BY <1>3 DEF ClaimsCounted


LEMMA NothingType == Nothing \in [Blocks -> Nat]
  BY DEF Nothing

\* Leaving a function or a thread keeps the types of the locals.
LEMMA LeaveTypes ==
  ASSUME ProcTypeOK, NEW p \in Procs, NEW label \in Labels, Leave(p, label)
  PROVE  ProcTypeOK'
  BY NothingType DEF ProcTypeOK, Leave

LEMMA RaiseTypes ==
  ASSUME ProcTypeOK, NEW p \in Procs, Raise(p) PROVE ProcTypeOK'
<1>1. {"idle", "dead"} \subseteq Labels
  BY DEF Labels
<1>2. CASE p \in Getters \cup Cleaners
  BY <1>1, <1>2 DEF ProcTypeOK, Raise
<1>3. CASE p \notin Getters \cup Cleaners
  BY <1>1, <1>3, LeaveTypes DEF Raise
<1> QED
  BY <1>2, <1>3

\* The types of the node's state, action by action.
LEMMA StateTypeStep ==
  ASSUME TypeOK, WorksOnBlock, ClaimsCounted, Next PROVE StateTypeOK'
<1> USE DEF At, diskVars, daemonVars, usageVars, procVars, outside
<1> USE DEF TypeOK, StateTypeOK
<1>1. CASE LookupStep
  <2>1. CASE BeginLookup
    BY <2>1 DEF BeginLookup
  <2>2. CASE EndLookup
    BY <2>2 DEF EndLookup
  <2>3. ASSUME NEW b \in Blocks, Offer(b) PROVE StateTypeOK'
    BY <2>3 DEF Offer
  <2> QED
    BY <1>1, <2>1, <2>2, <2>3 DEF LookupStep
<1>2. ASSUME NEW t \in Getters, GetterStep(t) PROVE StateTypeOK'
  <2>1. t \in Procs
    BY DEF Procs
  <2>2. CASE Release(t)
    <3>1. blk[t] \in Blocks /\ downloading[blk[t]] > 0
      BY <2>1, <2>2, ReleaseFinds DEF Release, WorksOnBlock, Working,
         ProcTypeOK, Labels
    <3> QED
      BY <2>1, <2>2, <3>1 DEF Release, Continue
  <2> QED
    BY <1>2, <2>1, <2>2 DEF GetterStep, Pick, StartGetter, EndGetter,
       SkipListed, Continue, Dequeue, SkipBanned, InBlacklist, Claim, Fetched,
       FetchFailed, FetchedOther, DequeueBlock
<1>3. ASSUME NEW u \in Importers, NEW b \in Blocks, Upload(u, b)
   PROVE StateTypeOK'
  BY <1>3 DEF Upload, Procs
<1>4. ASSUME NEW p \in Savers, SaveStep(p) PROVE StateTypeOK'
  <2>1. p \in Procs
    BY DEF Procs, Savers
  <2>2. CASE Validate(p)
    <3>1. blk[p] \in Blocks
      BY <2>1, <2>2 DEF Validate, WorksOnBlock, Working, ProcTypeOK, Labels
    <3> QED
      BY <2>1, <2>2, <3>1 DEF Validate
  <2>3. CASE Store(p)
    <3>1. blk[p] \in Blocks
      BY <2>1, <2>3 DEF Store, WorksOnBlock, Working, ProcTypeOK, Labels
    <3> QED
      BY <2>1, <2>3, <3>1 DEF Store
  <2>4. CASE InsertRow(p)
    <3>1. blk[p] \in Blocks
      BY <2>1, <2>4 DEF InsertRow, WorksOnBlock, Working, ProcTypeOK, Labels
    <3> QED
      BY <2>1, <2>4, <3>1 DEF InsertRow
  <2> QED
    BY <1>4, <2>1, <2>2, <2>3, <2>4 DEF SaveStep, ValidateRaises,
       AlreadySaved, CountAdded, RefuseSave, CheckRow, ProcessMetadata, WithExpire,
       DiscardUnparsable
<1>5. ASSUME NEW c \in Cleaners, CleanerStep(c) PROVE StateTypeOK'
  BY <1>5 DEF CleanerStep, StartCleaner, CheckFull, NothingToClean,
     CleanExpired, CleanOldest, Procs
<1>6. ASSUME NEW k \in Banners, NEW b \in Blocks, StartBan(k, b)
   PROVE StateTypeOK'
  BY <1>6 DEF StartBan, Procs
<1>7. ASSUME NEW p \in Procs, RemoveStep(p) PROVE StateTypeOK'
  <2>1. CASE Blacklist(p)
    <3>1. blk[p] \in Blocks
      BY <2>1 DEF Blacklist, WorksOnBlock, Working, ProcTypeOK, Labels
    <3> QED
      BY <2>1, <3>1 DEF Blacklist
  <2> QED
    BY <1>7, <2>1 DEF RemoveStep, DropRows, CountRemoved, DataSize
<1>8. ASSUME NEW p \in Procs, UsageStep(p) PROVE StateTypeOK'
  BY <1>8 DEF UsageStep, TruncateUsage, WriteUsage
<1>9. ASSUME NEW b \in Blocks, Expire(b) PROVE StateTypeOK'
  BY <1>9 DEF Expire
<1>10. CASE Crash
  BY <1>10 DEF Crash, Nothing
<1> QED
  BY <1>1, <1>2, <1>3, <1>4, <1>5, <1>6, <1>7, <1>8, <1>9, <1>10 DEF Next

\* The types of the processes' locals, action by action.
LEMMA ProcTypeStep ==
  ASSUME TypeOK, Next PROVE ProcTypeOK'
<1> USE DEF At, diskVars, daemonVars, usageVars, procVars, outside
<1> USE NothingType, LeaveTypes, RaiseTypes DEF TypeOK, ProcTypeOK, Labels, Goto
<1>1. CASE LookupStep
  BY <1>1 DEF LookupStep, BeginLookup, EndLookup, Offer
<1>2. ASSUME NEW t \in Getters, GetterStep(t) PROVE ProcTypeOK'
  BY <1>2 DEF GetterStep, Pick, Visit, StartGetter, EndGetter,
     Nothing, SkipListed, Continue, Dequeue, SkipBanned, InBlacklist, Claim, Fetched,
     FetchFailed, FetchedOther, DequeueBlock, Release, Procs
<1>3. ASSUME NEW u \in Importers, NEW b \in Blocks, Upload(u, b)
   PROVE ProcTypeOK'
  BY <1>3 DEF Upload, Procs
<1>4. ASSUME NEW p \in Savers, SaveStep(p) PROVE ProcTypeOK'
  BY <1>4 DEF SaveStep, Validate, ValidateRaises,
     AlreadySaved, CountAdded, RefuseSave, Store, CheckRow, InsertRow,
     ProcessMetadata, WithExpire, DiscardUnparsable, Procs, Savers
<1>5. ASSUME NEW c \in Cleaners, CleanerStep(c) PROVE ProcTypeOK'
  BY <1>5 DEF CleanerStep, StartCleaner, StateTypeOK, CheckFull,
     NothingToClean, CleanExpired, Visit, CleanOldest, Procs
<1>6. ASSUME NEW k \in Banners, NEW b \in Blocks, StartBan(k, b)
   PROVE ProcTypeOK'
  BY <1>6 DEF StartBan, Procs
<1>7. ASSUME NEW p \in Procs, RemoveStep(p) PROVE ProcTypeOK'
  BY <1>7 DEF RemoveStep, Blacklist, DropRows, CountRemoved, DataSize
<1>8. ASSUME NEW p \in Procs, UsageStep(p) PROVE ProcTypeOK'
  BY <1>8 DEF UsageStep, TruncateUsage, WriteUsage
<1>9. ASSUME NEW b \in Blocks, Expire(b) PROVE ProcTypeOK'
  BY <1>9 DEF Expire
<1>10. CASE Crash
  BY <1>10 DEF Crash
<1> QED
  BY <1>1, <1>2, <1>3, <1>4, <1>5, <1>6, <1>7, <1>8, <1>9, <1>10 DEF Next

\* A process that goes to work has a block, and keeps it while it works.
LEMMA WorksStep ==
  ASSUME TypeOK, WorksOnBlock, Next PROVE WorksOnBlock'
<1> USE DEF At, diskVars, daemonVars, usageVars, procVars, outside
<1> USE DEF TypeOK, ProcTypeOK, WorksOnBlock, Working, Labels, Goto
<1>1. CASE LookupStep
  BY <1>1 DEF LookupStep, BeginLookup, EndLookup, Offer
<1>2. ASSUME NEW t \in Getters, GetterStep(t) PROVE WorksOnBlock'
  BY <1>2 DEF GetterStep, Pick, Visit, StartGetter, EndGetter, Leave,
     Nothing, SkipListed, Continue, Dequeue, SkipBanned, InBlacklist, Claim, Fetched,
     FetchFailed, FetchedOther, DequeueBlock, Release, Procs
<1>3. ASSUME NEW u \in Importers, NEW b \in Blocks, Upload(u, b)
   PROVE WorksOnBlock'
  BY <1>3 DEF Upload, Procs
<1>4. ASSUME NEW p \in Savers, SaveStep(p) PROVE WorksOnBlock'
  BY <1>4 DEF SaveStep, Validate, Leave, Nothing, ValidateRaises, Raise,
     AlreadySaved, CountAdded, RefuseSave, Store, CheckRow, InsertRow,
     ProcessMetadata, WithExpire, DiscardUnparsable, Procs, Savers
<1>5. ASSUME NEW c \in Cleaners, CleanerStep(c) PROVE WorksOnBlock'
  BY <1>5 DEF CleanerStep, StartCleaner, CheckFull, Leave, Nothing,
     NothingToClean, Raise, CleanExpired, Visit, CleanOldest, Procs
<1>6. ASSUME NEW k \in Banners, NEW b \in Blocks, StartBan(k, b)
   PROVE WorksOnBlock'
  BY <1>6 DEF StartBan, Procs
<1>7. ASSUME NEW p \in Procs, RemoveStep(p) PROVE WorksOnBlock'
  BY <1>7 DEF RemoveStep, Blacklist, DropRows, CountRemoved, DataSize
<1>8. ASSUME NEW p \in Procs, UsageStep(p) PROVE WorksOnBlock'
  BY <1>8 DEF UsageStep, TruncateUsage, WriteUsage, Leave, Raise, Nothing
<1>9. ASSUME NEW b \in Blocks, Expire(b) PROVE WorksOnBlock'
  BY <1>9 DEF Expire
<1>10. CASE Crash
  BY <1>10 DEF Crash, Nothing
<1> QED
  BY <1>1, <1>2, <1>3, <1>4, <1>5, <1>6, <1>7, <1>8, <1>9, <1>10 DEF Next

-----------------------------------------------------------------------------

\* A step that neither claims nor releases.
ClaimsKept ==
  /\ downloading' = downloading
  /\ \A t \in Getters, b \in Blocks : Claims(t, b)' <=> Claims(t, b)

LEMMA KeptClaimsCounted ==
  ASSUME ClaimsCounted, ClaimsKept PROVE ClaimsCounted'
<1> SUFFICES ASSUME NEW b \in Blocks
             PROVE  downloading'[b] = Cardinality({t \in Getters : Claims(t, b)'})
  BY DEF ClaimsCounted
<1>1. {t \in Getters : Claims(t, b)'} = {t \in Getters : Claims(t, b)}
  BY DEF ClaimsKept
<1> QED
  BY <1>1 DEF ClaimsKept, ClaimsCounted

\* Claiming adds one entry and one claimant.
LEMMA ClaimCounted ==
  ASSUME TypeOK, WorksOnBlock, ClaimsCounted, NEW t \in Getters, Claim(t)
  PROVE  ClaimsKept \/ ClaimsCounted'
<1>1. CASE Usage!IsFull
  BY <1>1 DEF Claim, ClaimsKept, Claims, Leave, At, TypeOK, ProcTypeOK, Procs, Labels
<1>2. CASE ~Usage!IsFull
  <2> DEFINE S(b) == {u \in Getters : Claims(u, b)}
             T(b) == {u \in Getters : Claims(u, b)'}
  <2>1. /\ pc[t] = "claim" /\ pc' = [pc EXCEPT ![t] = "fetch"] /\ blk' = blk
        /\ downloading' = [downloading EXCEPT ![blk[t]] = @ + 1]
    BY <1>2 DEF Claim, At, Goto
  <2>2. SUFFICES ASSUME NEW b \in Blocks PROVE downloading'[b] = Cardinality(T(b))
    BY DEF ClaimsCounted
  <2>3. t \in Procs /\ downloading[b] \in Nat /\ downloading[b] = Cardinality(S(b))
    BY DEF Procs, TypeOK, StateTypeOK, ClaimsCounted
  <2>4. IsFiniteSet(S(b))
    BY BlockStoreConstants, FS_Subset
  <2>5. CASE blk[t] = b
    <3>1. T(b) = S(b) \cup {t} /\ t \notin S(b)
      BY <2>1, <2>3, <2>5 DEF Claims, TypeOK, ProcTypeOK, Labels
    <3>2. Cardinality(T(b)) = Cardinality(S(b)) + 1
      BY <3>1, <2>4, FS_AddElement
    <3> QED
      BY <2>1, <2>3, <2>5, <3>2 DEF TypeOK, StateTypeOK
  <2>6. CASE blk[t] # b
    <3>1. T(b) = S(b)
      BY <2>1, <2>3, <2>6 DEF Claims, TypeOK, ProcTypeOK, Labels
    <3> QED
      BY <2>1, <2>3, <2>6, <3>1 DEF TypeOK, StateTypeOK
  <2> QED
    BY <2>5, <2>6
<1> QED
  BY <1>1, <1>2

\* Releasing takes one entry and one claimant away.
LEMMA ReleaseCounted ==
  ASSUME TypeOK, WorksOnBlock, ClaimsCounted, NEW t \in Getters, Release(t)
  PROVE  ClaimsCounted'
<1> DEFINE S(b) == {u \in Getters : Claims(u, b)}
           T(b) == {u \in Getters : Claims(u, b)'}
<1>1. /\ pc[t] = "release" /\ pc' = [pc EXCEPT ![t] = "pick"]
      /\ blk' = [blk EXCEPT ![t] = NoBlock]
      /\ downloading' = [downloading EXCEPT ![blk[t]] = @ - 1]
  BY DEF Release, Continue, At, Goto
<1>2. SUFFICES ASSUME NEW b \in Blocks PROVE downloading'[b] = Cardinality(T(b))
  BY DEF ClaimsCounted
<1>3. t \in Procs /\ downloading[b] \in Nat /\ downloading[b] = Cardinality(S(b))
  BY DEF Procs, TypeOK, StateTypeOK, ClaimsCounted
<1>4. IsFiniteSet(S(b))
  BY BlockStoreConstants, FS_Subset
<1>5. CASE blk[t] = b
  <2>1. T(b) = S(b) \ {t} /\ t \in S(b)
    BY <1>1, <1>3, <1>5, BlockStoreConstants DEF Claims, TypeOK, ProcTypeOK, Labels
  <2>2. Cardinality(T(b)) = Cardinality(S(b)) - 1
    BY <2>1, <1>4, FS_RemoveElement
  <2> QED
    BY <1>1, <1>3, <1>5, <2>2 DEF TypeOK, StateTypeOK
<1>6. CASE blk[t] # b
  <2>1. T(b) = S(b)
    BY <1>1, <1>3, <1>6, BlockStoreConstants DEF Claims, TypeOK, ProcTypeOK, Labels
  <2> QED
    BY <1>1, <1>3, <1>6, <2>1 DEF TypeOK, StateTypeOK
<1> QED
  BY <1>5, <1>6

\* The daemon starts again with no claims and an empty list.
LEMMA CrashCounted == ASSUME TypeOK, Crash PROVE ClaimsCounted'
<1> SUFFICES ASSUME NEW b \in Blocks
             PROVE  downloading'[b] = Cardinality({t \in Getters : Claims(t, b)'})
  BY DEF ClaimsCounted
<1>1. \A t \in Getters : pc'[t] = "idle"
  BY DistinctProcesses DEF Crash, Procs
<1>2. {t \in Getters : Claims(t, b)'} = {}
  BY <1>1 DEF Claims
<1> QED
  BY <1>2, FS_EmptySet DEF Crash, Nothing

LEMMA ClaimsStep ==
  ASSUME TypeOK, WorksOnBlock, ClaimsCounted, Next PROVE ClaimsCounted'
<1> SUFFICES ClaimsKept \/ ClaimsCounted'
  BY KeptClaimsCounted
<1> USE DistinctProcesses DEF At, Goto, diskVars, daemonVars, usageVars, procVars, outside
<1> USE DEF TypeOK, ProcTypeOK, ClaimsKept, Claims, Labels, Procs
<1>1. CASE LookupStep
  BY <1>1 DEF LookupStep, BeginLookup, EndLookup, Offer
<1>2. ASSUME NEW t \in Getters, GetterStep(t)
   PROVE ClaimsKept \/ ClaimsCounted'
  <2>1. t \in Procs
    BY DEF Procs
  <2>2. CASE Claim(t)
    BY <2>2, ClaimCounted
  <2>3. CASE Release(t)
    BY <2>3, ReleaseCounted
  <2> QED
    BY <1>2, <2>1, <2>2, <2>3 DEF GetterStep, Pick, Visit, StartGetter,
       EndGetter, Leave, Nothing, SkipListed, Continue, Dequeue, SkipBanned, InBlacklist,
       Fetched, FetchFailed, FetchedOther, DequeueBlock
<1>3. ASSUME NEW u \in Importers, NEW b \in Blocks, Upload(u, b)
   PROVE ClaimsKept \/ ClaimsCounted'
  BY <1>3 DEF Upload, Procs
<1>4. ASSUME NEW p \in Savers, SaveStep(p) PROVE ClaimsKept \/ ClaimsCounted'
  BY <1>4 DEF SaveStep, Validate, Leave, Nothing, ValidateRaises, Raise,
     AlreadySaved, CountAdded, RefuseSave, Store, CheckRow, InsertRow,
     ProcessMetadata, WithExpire, DiscardUnparsable, Procs, Savers
<1>5. ASSUME NEW c \in Cleaners, CleanerStep(c)
   PROVE ClaimsKept \/ ClaimsCounted'
  BY <1>5 DEF CleanerStep, StartCleaner, CheckFull, Leave, Nothing,
     NothingToClean, Raise, CleanExpired, Visit, CleanOldest, Procs
<1>6. ASSUME NEW k \in Banners, NEW b \in Blocks, StartBan(k, b)
   PROVE ClaimsKept \/ ClaimsCounted'
  BY <1>6 DEF StartBan, Procs
<1>7. ASSUME NEW p \in Procs, RemoveStep(p) PROVE ClaimsKept \/ ClaimsCounted'
  BY <1>7 DEF RemoveStep, Blacklist, DropRows, CountRemoved, DataSize
<1>8. ASSUME NEW p \in Procs, UsageStep(p) PROVE ClaimsKept \/ ClaimsCounted'
  BY <1>8 DEF UsageStep, TruncateUsage, WriteUsage, Leave, Raise, Nothing
<1>9. ASSUME NEW b \in Blocks, Expire(b) PROVE ClaimsKept \/ ClaimsCounted'
  BY <1>9 DEF Expire
<1>10. CASE Crash
  BY <1>10, CrashCounted
<1> QED
  BY <1>1, <1>2, <1>3, <1>4, <1>5, <1>6, <1>7, <1>8, <1>9, <1>10 DEF Next

-----------------------------------------------------------------------------

\* A saver that goes to addToBlockDB has stored the data, which nobody deletes.
LEMMA DataStep ==
  ASSUME TypeOK, WorksOnBlock, DataBeforeRow, Next PROVE DataBeforeRow'
<1> USE DEF At, Goto, diskVars, daemonVars, usageVars, procVars, outside
<1> USE DEF TypeOK, StateTypeOK, ProcTypeOK, WorksOnBlock, Working, DataBeforeRow, Labels
<1>1. CASE LookupStep
  BY <1>1 DEF LookupStep, BeginLookup, EndLookup, Offer
<1>2. ASSUME NEW t \in Getters, GetterStep(t) PROVE DataBeforeRow'
  BY <1>2 DEF GetterStep, Pick, Visit, StartGetter, EndGetter, Leave,
     Nothing, SkipListed, Continue, Dequeue, SkipBanned, InBlacklist, Claim, Fetched,
     FetchFailed, FetchedOther, DequeueBlock, Release, Procs
<1>3. ASSUME NEW u \in Importers, NEW b \in Blocks, Upload(u, b)
   PROVE DataBeforeRow'
  BY <1>3 DEF Upload, Procs
<1>4. ASSUME NEW p \in Savers, SaveStep(p) PROVE DataBeforeRow'
  BY <1>4 DEF SaveStep, Validate, Leave, Nothing, ValidateRaises, Raise,
     AlreadySaved, CountAdded, RefuseSave, Store, CheckRow, InsertRow,
     ProcessMetadata, WithExpire, DiscardUnparsable, Procs, Savers
<1>5. ASSUME NEW c \in Cleaners, CleanerStep(c) PROVE DataBeforeRow'
  BY <1>5 DEF CleanerStep, StartCleaner, CheckFull, Leave, Nothing,
     NothingToClean, Raise, CleanExpired, Visit, CleanOldest, Procs
<1>6. ASSUME NEW k \in Banners, NEW b \in Blocks, StartBan(k, b)
   PROVE DataBeforeRow'
  BY <1>6 DEF StartBan, Procs
<1>7. ASSUME NEW p \in Procs, RemoveStep(p) PROVE DataBeforeRow'
  BY <1>7 DEF RemoveStep, Blacklist, DropRows, CountRemoved, DataSize
<1>8. ASSUME NEW p \in Procs, UsageStep(p) PROVE DataBeforeRow'
  BY <1>8 DEF UsageStep, TruncateUsage, WriteUsage, Leave, Raise, Nothing
<1>9. ASSUME NEW b \in Blocks, Expire(b) PROVE DataBeforeRow'
  BY <1>9 DEF Expire
<1>10. CASE Crash
  BY <1>10 DEF Crash, Nothing
<1> QED
  BY <1>1, <1>2, <1>3, <1>4, <1>5, <1>6, <1>7, <1>8, <1>9, <1>10 DEF Next

\* A row comes from a saver at "insert".
LEMMA RowStep ==
  ASSUME TypeOK, WorksOnBlock, DataBeforeRow, RowHasData, Next PROVE RowHasData'
<1> USE DEF At, diskVars
<1> USE DEF TypeOK, StateTypeOK, ProcTypeOK, DataBeforeRow, RowHasData
<1>1. CASE LookupStep
  BY <1>1 DEF LookupStep, BeginLookup, EndLookup, Offer
<1>2. ASSUME NEW t \in Getters, GetterStep(t) PROVE RowHasData'
  BY <1>2 DEF GetterStep, Pick, StartGetter, EndGetter, SkipListed,
     SkipBanned, InBlacklist, Claim, Fetched, FetchFailed, FetchedOther, DequeueBlock,
     Release, Procs
<1>3. ASSUME NEW u \in Importers, NEW b \in Blocks, Upload(u, b)
   PROVE RowHasData'
  BY <1>3 DEF Upload, Procs
<1>4. ASSUME NEW p \in Savers, SaveStep(p) PROVE RowHasData'
  BY <1>4 DEF SaveStep, Validate, ValidateRaises, AlreadySaved, CountAdded,
     RefuseSave, Store, CheckRow, InsertRow, ProcessMetadata, WithExpire,
     DiscardUnparsable, Procs, Savers
<1>5. ASSUME NEW c \in Cleaners, CleanerStep(c) PROVE RowHasData'
  BY <1>5 DEF CleanerStep, StartCleaner, CheckFull, NothingToClean,
     CleanExpired, CleanOldest, Procs
<1>6. ASSUME NEW k \in Banners, NEW b \in Blocks, StartBan(k, b)
   PROVE RowHasData'
  BY <1>6 DEF StartBan, Procs
<1>7. ASSUME NEW p \in Procs, RemoveStep(p) PROVE RowHasData'
  BY <1>7 DEF RemoveStep, Blacklist, DropRows, CountRemoved, DataSize
<1>8. ASSUME NEW p \in Procs, UsageStep(p) PROVE RowHasData'
  BY <1>8 DEF UsageStep, TruncateUsage, WriteUsage
<1>9. ASSUME NEW b \in Blocks, Expire(b) PROVE RowHasData'
  BY <1>9 DEF Expire
<1>10. CASE Crash
  BY <1>10 DEF Crash
<1> QED
  BY <1>1, <1>2, <1>3, <1>4, <1>5, <1>6, <1>7, <1>8, <1>9, <1>10 DEF Next

\* Nobody reaches removeBlock without blacklisting, but for unparsable blocks.
LEMMA DropStep ==
  ASSUME TypeOK, WorksOnBlock, DropsBanned, Next PROVE DropsBanned'
<1> USE DEF At, Goto, diskVars, daemonVars, usageVars, procVars, outside
<1> USE DEF TypeOK, ProcTypeOK, DropsBanned, Labels
<1>1. CASE LookupStep
  BY <1>1 DEF LookupStep, BeginLookup, EndLookup, Offer
<1>2. ASSUME NEW t \in Getters, GetterStep(t) PROVE DropsBanned'
  BY <1>2 DEF GetterStep, Pick, Visit, StartGetter, EndGetter, Leave,
     Nothing, SkipListed, Continue, Dequeue, SkipBanned, InBlacklist, Claim, Fetched,
     FetchFailed, FetchedOther, DequeueBlock, Release, Procs
<1>3. ASSUME NEW u \in Importers, NEW b \in Blocks, Upload(u, b)
   PROVE DropsBanned'
  BY <1>3 DEF Upload, Procs
<1>4. ASSUME NEW p \in Savers, SaveStep(p) PROVE DropsBanned'
  BY <1>4 DEF SaveStep, Validate, Leave, Nothing, ValidateRaises, Raise,
     AlreadySaved, CountAdded, RefuseSave, Store, CheckRow, InsertRow,
     ProcessMetadata, WithExpire, DiscardUnparsable, Procs, Savers
<1>5. ASSUME NEW c \in Cleaners, CleanerStep(c) PROVE DropsBanned'
  BY <1>5 DEF CleanerStep, StartCleaner, CheckFull, Leave, Nothing,
     NothingToClean, Raise, CleanExpired, Visit, CleanOldest, Procs
<1>6. ASSUME NEW k \in Banners, NEW b \in Blocks, StartBan(k, b)
   PROVE DropsBanned'
  BY <1>6 DEF StartBan, Procs
<1>7. ASSUME NEW p \in Procs, RemoveStep(p) PROVE DropsBanned'
  BY <1>7 DEF RemoveStep, Blacklist, DropRows, CountRemoved, DataSize
<1>8. ASSUME NEW p \in Procs, UsageStep(p) PROVE DropsBanned'
  BY <1>8 DEF UsageStep, TruncateUsage, WriteUsage, Leave, Raise, Nothing
<1>9. ASSUME NEW b \in Blocks, Expire(b) PROVE DropsBanned'
  BY <1>9 DEF Expire
<1>10. CASE Crash
  BY <1>10 DEF Crash, Nothing
<1> QED
  BY <1>1, <1>2, <1>3, <1>4, <1>5, <1>6, <1>7, <1>8, <1>9, <1>10 DEF Next

-----------------------------------------------------------------------------

\* The savers between their question for a row of b and their insertion of one.
Inserting(b) == {p \in Savers : blk[p] = b /\ pc[p] = "insert"}

\* No more rows than savers, whoever of them is about to insert one.
RowsOf(b) == listed[b] + Cardinality(Inserting(b)) <= Cardinality(Savers)

LEMMA InsertingFinite ==
  ASSUME NEW S, S \subseteq Savers
  PROVE  /\ IsFiniteSet(S)
         /\ Cardinality(S) \in Nat /\ Cardinality(Savers) \in Nat
         /\ Cardinality(S) <= Cardinality(Savers)
<1>1. IsFiniteSet(Savers)
  BY BlockStoreConstants, FS_Union DEF Savers
<1> QED
  BY <1>1, FS_Subset, FS_CardinalityType

\* A step that inserts no row and brings nobody to the insertion.
RowsKept ==
  \A b \in Blocks : listed'[b] <= listed[b] /\ Inserting(b)' \subseteq Inserting(b)

LEMMA KeptRowsBounded ==
  ASSUME TypeOK, TypeOK', RowsBounded, RowsKept PROVE RowsBounded'
<1> SUFFICES ASSUME NEW b \in Blocks PROVE RowsOf(b)'
  BY DEF RowsBounded, RowsOf, Inserting
<1>1. RowsOf(b) /\ listed'[b] <= listed[b] /\ Inserting(b)' \subseteq Inserting(b)
  BY DEF RowsBounded, RowsOf, Inserting, RowsKept
<1>2. IsFiniteSet(Inserting(b)) /\ Cardinality(Inserting(b)) \in Nat
  BY InsertingFinite DEF Inserting
<1>3. /\ Cardinality(Inserting(b)') <= Cardinality(Inserting(b))
      /\ Cardinality(Inserting(b)') \in Nat
  BY <1>1, <1>2, FS_Subset, FS_CardinalityType
<1>4. listed[b] \in Nat /\ listed'[b] \in Nat /\ Cardinality(Savers) \in Nat
  BY InsertingFinite DEF TypeOK, StateTypeOK
<1> QED
  BY <1>1, <1>2, <1>3, <1>4 DEF RowsOf

\* Whoever finds no row goes to insert one: with no row yet, all savers may.
LEMMA CheckRowBounded ==
  ASSUME TypeOK, TypeOK', WorksOnBlock, RowsBounded, NEW p \in Savers, CheckRow(p)
  PROVE  RowsKept \/ RowsBounded'
<1>1. p \in Procs /\ pc[p] = "row" /\ blk[p] \in Blocks /\ listed' = listed /\ blk' = blk
  BY DEF CheckRow, At, WorksOnBlock, Working, Labels, Savers, Procs, diskVars
<1>2. CASE listed[blk[p]] > 0
  BY <1>1, <1>2 DEF CheckRow, At, Goto, RowsKept, Inserting, TypeOK, StateTypeOK, ProcTypeOK
<1>3. CASE ~(listed[blk[p]] > 0)
  <2>1. SUFFICES ASSUME NEW b \in Blocks PROVE RowsOf(b)'
    BY DEF RowsBounded, RowsOf, Inserting
  <2>2. CASE b = blk[p]
    <3>1. listed'[b] = 0
      BY <1>1, <1>3, <2>2 DEF TypeOK, StateTypeOK
    <3>2. /\ Cardinality(Inserting(b)') \in Nat /\ Cardinality(Savers) \in Nat
          /\ Cardinality(Inserting(b)') <= Cardinality(Savers)
      BY InsertingFinite DEF Inserting
    <3> QED
      BY <3>1, <3>2 DEF RowsOf
  <2>3. CASE b # blk[p]
    <3>1. Inserting(b)' = Inserting(b)
      BY <1>1, <2>3 DEF CheckRow, Goto, Inserting, TypeOK, ProcTypeOK
    <3> QED
      BY <1>1, <3>1 DEF RowsBounded, RowsOf, Inserting
  <2> QED
    BY <2>2, <2>3
<1> QED
  BY <1>2, <1>3

\* An insertion adds a row and takes one of those who were about to insert.
LEMMA InsertRowBounded ==
  ASSUME TypeOK, WorksOnBlock, RowsBounded, NEW p \in Savers, InsertRow(p)
  PROVE  RowsBounded'
<1>1. /\ p \in Procs /\ pc[p] = "insert" /\ blk[p] \in Blocks /\ blk' = blk
      /\ pc' = [pc EXCEPT ![p] = "process"]
      /\ listed' = [listed EXCEPT ![blk[p]] = @ + 1]
  BY DEF InsertRow, At, Goto, WorksOnBlock, Working, Labels, Savers, Procs
<1>2. SUFFICES ASSUME NEW b \in Blocks PROVE RowsOf(b)'
  BY DEF RowsBounded, RowsOf, Inserting
<1>3. RowsOf(b) /\ listed[b] \in Nat
  BY DEF RowsBounded, RowsOf, Inserting, TypeOK, StateTypeOK
<1>4. CASE b = blk[p]
  <2>1. p \in Inserting(b) /\ Inserting(b)' = Inserting(b) \ {p}
    BY <1>1, <1>4 DEF Inserting, TypeOK, ProcTypeOK
  <2>2. IsFiniteSet(Inserting(b)) /\ Cardinality(Inserting(b)) \in Nat
    BY InsertingFinite DEF Inserting
  <2>3. Cardinality(Inserting(b)') = Cardinality(Inserting(b)) - 1
    BY <2>1, <2>2, FS_RemoveElement
  <2>4. listed'[b] = listed[b] + 1 /\ Cardinality(Savers) \in Nat
    BY <1>1, <1>4, InsertingFinite DEF TypeOK, StateTypeOK
  <2> QED
    BY <1>3, <2>2, <2>3, <2>4 DEF RowsOf
<1>5. CASE b # blk[p]
  <2>1. Inserting(b)' = Inserting(b) /\ listed'[b] = listed[b]
    BY <1>1, <1>5 DEF Inserting, TypeOK, StateTypeOK, ProcTypeOK
  <2> QED
    BY <1>3, <2>1 DEF RowsOf
<1> QED
  BY <1>4, <1>5

\* The bound of the rows, action by action.
LEMMA RowsStep ==
  ASSUME TypeOK, TypeOK', WorksOnBlock, RowsBounded, Next PROVE RowsBounded'
<1> SUFFICES RowsKept \/ RowsBounded'
  BY KeptRowsBounded
<1> USE DistinctProcesses DEF At, Goto, diskVars, daemonVars, usageVars, procVars, outside
<1> USE DEF TypeOK, StateTypeOK, ProcTypeOK, RowsKept, Inserting, Labels, Procs, Savers
<1>1. CASE LookupStep
  BY <1>1 DEF LookupStep, BeginLookup, EndLookup, Offer
<1>2. ASSUME NEW t \in Getters, GetterStep(t) PROVE RowsKept \/ RowsBounded'
  BY <1>2 DEF GetterStep, Pick, Visit, StartGetter, EndGetter, Leave,
     Nothing, SkipListed, Continue, Dequeue, SkipBanned, InBlacklist, Claim, Fetched,
     FetchFailed, FetchedOther, DequeueBlock, Release, Procs
<1>3. ASSUME NEW u \in Importers, NEW b \in Blocks, Upload(u, b)
   PROVE RowsKept \/ RowsBounded'
  BY <1>3 DEF Upload, Procs
<1>4. ASSUME NEW p \in Savers, SaveStep(p) PROVE RowsKept \/ RowsBounded'
  <2>1. p \in Procs
    BY DEF Procs, Savers
  <2>2. CASE CheckRow(p)
    BY <2>2, CheckRowBounded
  <2>3. CASE InsertRow(p)
    BY <2>3, InsertRowBounded
  <2> QED
    BY <1>4, <2>1, <2>2, <2>3 DEF SaveStep, Validate, Leave, Nothing,
       ValidateRaises, Raise, AlreadySaved, CountAdded, RefuseSave, Store,
       ProcessMetadata, WithExpire, DiscardUnparsable
<1>5. ASSUME NEW c \in Cleaners, CleanerStep(c) PROVE RowsKept \/ RowsBounded'
  BY <1>5 DEF CleanerStep, StartCleaner, CheckFull, Leave, Nothing,
     NothingToClean, Raise, CleanExpired, Visit, CleanOldest, Procs
<1>6. ASSUME NEW k \in Banners, NEW b \in Blocks, StartBan(k, b)
   PROVE RowsKept \/ RowsBounded'
  BY <1>6 DEF StartBan, Procs
<1>7. ASSUME NEW p \in Procs, RemoveStep(p) PROVE RowsKept \/ RowsBounded'
  BY <1>7 DEF RemoveStep, Blacklist, DropRows, CountRemoved, DataSize
<1>8. ASSUME NEW p \in Procs, UsageStep(p) PROVE RowsKept \/ RowsBounded'
  BY <1>8 DEF UsageStep, TruncateUsage, WriteUsage, Leave, Raise, Nothing
<1>9. ASSUME NEW b \in Blocks, Expire(b) PROVE RowsKept \/ RowsBounded'
  BY <1>9 DEF Expire
<1>10. CASE Crash
  BY <1>10 DEF Crash, Nothing
<1> QED
  BY <1>1, <1>2, <1>3, <1>4, <1>5, <1>6, <1>7, <1>8, <1>9, <1>10 DEF Next

-----------------------------------------------------------------------------

\* No saver brings back a blacklisted block it has not checked before.
SettledKept == \A b \in Blocks : Settled(b) => Settled(b)'

LEMMA SettledStep ==
  ASSUME TypeOK, WorksOnBlock, Next PROVE SettledKept
<1> USE DistinctProcesses DEF At, Goto, diskVars, daemonVars, usageVars, procVars, outside
<1> USE DEF TypeOK, StateTypeOK, ProcTypeOK, WorksOnBlock, Working, Labels
<1> USE DEF SettledKept, Settled, Saving, Procs, Savers
<1>1. CASE LookupStep
  BY <1>1 DEF LookupStep, BeginLookup, EndLookup, Offer
<1>2. ASSUME NEW t \in Getters, GetterStep(t) PROVE SettledKept
  BY <1>2 DEF GetterStep, Pick, Visit, StartGetter, EndGetter, Leave,
     Nothing, SkipListed, Continue, Dequeue, SkipBanned, InBlacklist, Claim, Fetched,
     FetchFailed, FetchedOther, DequeueBlock, Release, Procs
<1>3. ASSUME NEW u \in Importers, NEW b \in Blocks, Upload(u, b)
   PROVE SettledKept
  BY <1>3 DEF Upload, InBlacklist, Procs
<1>4. ASSUME NEW p \in Savers, SaveStep(p) PROVE SettledKept
  BY <1>4 DEF SaveStep, Validate, Leave, Nothing, ValidateRaises, Raise,
     AlreadySaved, CountAdded, RefuseSave, Store, CheckRow, InsertRow,
     ProcessMetadata, WithExpire, DiscardUnparsable, Procs, Savers
<1>5. ASSUME NEW c \in Cleaners, CleanerStep(c) PROVE SettledKept
  BY <1>5 DEF CleanerStep, StartCleaner, CheckFull, Leave, Nothing,
     NothingToClean, Raise, CleanExpired, Visit, CleanOldest, Procs
<1>6. ASSUME NEW k \in Banners, NEW b \in Blocks, StartBan(k, b)
   PROVE SettledKept
  BY <1>6 DEF StartBan, Procs
<1>7. ASSUME NEW p \in Procs, RemoveStep(p) PROVE SettledKept
  BY <1>7 DEF RemoveStep, Blacklist, DropRows, CountRemoved, DataSize
<1>8. ASSUME NEW p \in Procs, UsageStep(p) PROVE SettledKept
  BY <1>8 DEF UsageStep, TruncateUsage, WriteUsage, Leave, Raise, Nothing
<1>9. ASSUME NEW b \in Blocks, Expire(b) PROVE SettledKept
  BY <1>9 DEF Expire
<1>10. CASE Crash
  BY <1>10 DEF Crash, Nothing
<1> QED
  BY <1>1, <1>2, <1>3, <1>4, <1>5, <1>6, <1>7, <1>8, <1>9, <1>10 DEF Next

\* Only removeBlock takes rows away.
RemovedBanned ==
  \A b \in Blocks :
    listed[b] > 0 /\ listed'[b] = 0 => b \in blacklist \/ kind[b] = "unparsable"

LEMMA RemovedStep ==
  ASSUME TypeOK, DropsBanned, Next PROVE RemovedBanned
<1> USE DEF At, diskVars
<1> USE DEF TypeOK, StateTypeOK, ProcTypeOK, DropsBanned, RemovedBanned
<1>1. CASE LookupStep
  BY <1>1 DEF LookupStep, BeginLookup, EndLookup, Offer
<1>2. ASSUME NEW t \in Getters, GetterStep(t) PROVE RemovedBanned
  BY <1>2 DEF GetterStep, Pick, StartGetter, EndGetter, SkipListed,
     SkipBanned, InBlacklist, Claim, Fetched, FetchFailed, FetchedOther, DequeueBlock,
     Release, Procs
<1>3. ASSUME NEW u \in Importers, NEW b \in Blocks, Upload(u, b)
   PROVE RemovedBanned
  BY <1>3 DEF Upload, Procs
<1>4. ASSUME NEW p \in Savers, SaveStep(p) PROVE RemovedBanned
  BY <1>4 DEF SaveStep, Validate, ValidateRaises, AlreadySaved, CountAdded,
     RefuseSave, Store, CheckRow, InsertRow, ProcessMetadata, WithExpire,
     DiscardUnparsable, Procs, Savers
<1>5. ASSUME NEW c \in Cleaners, CleanerStep(c) PROVE RemovedBanned
  BY <1>5 DEF CleanerStep, StartCleaner, CheckFull, NothingToClean,
     CleanExpired, CleanOldest, Procs
<1>6. ASSUME NEW k \in Banners, NEW b \in Blocks, StartBan(k, b)
   PROVE RemovedBanned
  BY <1>6 DEF StartBan, Procs
<1>7. ASSUME NEW p \in Procs, RemoveStep(p) PROVE RemovedBanned
  BY <1>7 DEF RemoveStep, Blacklist, DropRows, CountRemoved, DataSize
<1>8. ASSUME NEW p \in Procs, UsageStep(p) PROVE RemovedBanned
  BY <1>8 DEF UsageStep, TruncateUsage, WriteUsage
<1>9. ASSUME NEW b \in Blocks, Expire(b) PROVE RemovedBanned
  BY <1>9 DEF Expire
<1>10. CASE Crash
  BY <1>10 DEF Crash
<1> QED
  BY <1>1, <1>2, <1>3, <1>4, <1>5, <1>6, <1>7, <1>8, <1>9, <1>10 DEF Next

-----------------------------------------------------------------------------
(* The node implements BlockArchive. *)

\* What the other savers are at does not change when only p moves.
OnlyMoves(p) ==
  \A q \in Savers \ {p} : blk'[q] = blk[q] /\ (pc'[q] \in Saving <=> pc[q] \in Saving)

\* No saver moves between saving and not saving.
LEMMA AdmittedKept ==
  ASSUME \A p \in Savers :
           /\ pc'[p] \in Saving <=> pc[p] \in Saving
           /\ pc[p] \in Saving => blk'[p] = blk[p]
  PROVE  Admitted' = Admitted
  BY DEF Admitted

\* One that ends saving a block leaves it admitted only if another saves it too.
LEMMA AdmittedLess ==
  ASSUME NEW p \in Savers, OnlyMoves(p), pc'[p] \notin Saving
  PROVE  Admitted' \in {Admitted, Admitted \ {blk[p]}}
<1>1. Admitted' \subseteq Admitted
  BY DEF Admitted, OnlyMoves
<1>2. Admitted \ {blk[p]} \subseteq Admitted'
  BY DEF Admitted, OnlyMoves
<1> QED
  BY <1>1, <1>2

\* One that begins to save a block admits it.
LEMMA AdmittedMore ==
  ASSUME NEW p \in Savers, OnlyMoves(p),
         pc[p] \notin Saving, pc'[p] \in Saving, blk'[p] \in Blocks
  PROVE  Admitted' = Admitted \cup {blk'[p]}
  BY DEF Admitted, OnlyMoves

LEMMA StartsAsArchive == Init => Archive!ArchiveInit
<1> SUFFICES ASSUME Init PROVE Archive!ArchiveInit
  OBVIOUS
<1>1. Admitted = {}
  BY DEF Init, Admitted, Savers, Procs, Saving
<1> QED
  BY <1>1 DEF Init, Nothing, Archive!ArchiveInit

\* A step that changes neither the disk's tables nor who saves what.
ArchiveStutters == UNCHANGED Archive!archiveVars

ArchiveMoves == Archive!ArchiveNext \/ ArchiveStutters

LEMMA OneBlockMoves ==
  ASSUME NEW b \in Blocks,
         \/ Archive!Admit(b)
         \/ Archive!GiveUp(b)
         \/ Archive!Keep(b)
         \/ Archive!Publish(b)
         \/ Archive!Ban(b)
         \/ Archive!Withdraw(b)
  PROVE  ArchiveMoves
  BY DEF ArchiveMoves, Archive!ArchiveNext

\* The data of an admitted block is stored.
LEMMA BlockIsKept ==
  ASSUME NEW b \in Blocks, b \in Admitted, Admitted' = Admitted,
         {x \in Blocks : stored'[x] > 0} = {x \in Blocks : stored[x] > 0} \cup {b},
         UNCHANGED <<listed, blacklist, kind>>
  PROVE  ArchiveMoves
<1>1. Archive!Keep(b)
  BY DEF Archive!Keep
<1> QED
  BY <1>1, OneBlockMoves

\* The rows of a block that is banned or cannot be parsed are dropped.
LEMMA BlockIsWithdrawn ==
  ASSUME NEW b \in Blocks, b \in blacklist \/ kind[b] = "unparsable",
         Admitted' = Admitted,
         {x \in Blocks : listed'[x] > 0} = {x \in Blocks : listed[x] > 0} \ {b},
         UNCHANGED <<stored, blacklist, kind>>
  PROVE  ArchiveMoves
<1>1. Archive!Withdraw(b)
  BY DEF Archive!Withdraw
<1> QED
  BY <1>1, OneBlockMoves

LEMMA DiskKept ==
  ASSUME UNCHANGED <<listed, stored, blacklist, kind>>, Admitted' = Admitted
  PROVE  ArchiveMoves
  BY DEF ArchiveMoves, ArchiveStutters, Archive!archiveVars

\* A saver that gives up: nothing on disk changes.
LEMMA SaverLetsGo ==
  ASSUME UNCHANGED <<listed, stored, blacklist, kind>>,
         NEW p \in Savers, blk[p] \in Blocks, OnlyMoves(p), pc'[p] \notin Saving
  PROVE  ArchiveMoves
<1>1. Admitted' \in {Admitted, Admitted \ {blk[p]}}
  BY AdmittedLess
<1>2. Archive!GiveUp(blk[p])
  BY <1>1 DEF Archive!GiveUp, Archive!LetGo
<1> QED
  BY <1>2, OneBlockMoves

\* A saver that finds its block free of a ban and goes on to save it.
LEMMA SaverAdmits ==
  ASSUME UNCHANGED <<listed, stored, blacklist, kind>>,
         NEW p \in Savers, OnlyMoves(p), blk'[p] \in Blocks, blk'[p] \notin blacklist,
         pc[p] \notin Saving, pc'[p] \in Saving
  PROVE  ArchiveMoves
<1>1. Admitted' = Admitted \cup {blk'[p]}
  BY AdmittedMore
<1>2. Archive!Admit(blk'[p])
  BY <1>1 DEF Archive!Admit
<1> QED
  BY <1>2, OneBlockMoves

\* The steps of a download thread before it has the content.
LEMMA GetterArchive ==
  ASSUME TypeOK, WorksOnBlock, NEW t \in Getters, GetterStep(t) PROVE ArchiveMoves
<1> USE DEF At, Goto, diskVars, daemonVars, usageVars, outside
<1> USE DEF TypeOK, ProcTypeOK, Labels, Saving
<1>1. t \in Savers /\ t \in Procs
  BY DEF Savers, Procs
<1>2. pc[t] \in Working => blk[t] \in Blocks
  BY <1>1 DEF WorksOnBlock
<1>3. OnlyMoves(t)
  BY <1>1 DEF OnlyMoves, Savers, Procs, GetterStep, Pick, Visit, StartGetter, EndGetter,
     Leave, SkipListed, Continue, SkipBanned, Claim, Fetched, FetchFailed,
     FetchedOther, DequeueBlock, Release
<1>4. UNCHANGED <<listed, stored, blacklist, kind>>
  BY DEF GetterStep, Pick, StartGetter, EndGetter, SkipListed, SkipBanned,
     Claim, Fetched, FetchFailed, FetchedOther, DequeueBlock, Release
<1>5. CASE pc[t] \in Saving /\ pc'[t] \notin Saving
  <2>1. blk[t] \in Blocks
    BY <1>2, <1>5 DEF Working
  <2> QED
    BY <1>1, <1>3, <1>4, <1>5, <2>1, SaverLetsGo
<1>6. CASE pc[t] \notin Saving /\ pc'[t] \in Saving
  <2>1. SkipBanned(t) /\ blk'[t] = blk[t] /\ pc[t] = "banned" /\ blk[t] \notin blacklist
    BY <1>1, <1>6 DEF GetterStep, Pick, Visit, StartGetter, EndGetter,
       Leave, SkipListed, Continue, SkipBanned, InBlacklist, Claim, Fetched,
       FetchFailed, FetchedOther, DequeueBlock, Release
  <2>2. blk[t] \in Blocks
    BY <1>2, <2>1 DEF Working
  <2> QED
    BY <1>1, <1>3, <1>4, <1>6, <2>1, <2>2, SaverAdmits
<1>7. CASE pc'[t] \in Saving <=> pc[t] \in Saving
  <2>1. pc[t] \in Saving => blk'[t] = blk[t]
    BY <1>1, <1>7 DEF GetterStep, Pick, Visit, StartGetter, EndGetter,
       Leave, SkipListed, Continue, SkipBanned, Claim, Fetched,
       FetchFailed, FetchedOther, DequeueBlock, Release
  <2>2. Admitted' = Admitted
    BY <1>3, <1>7, <2>1, AdmittedKept DEF OnlyMoves
  <2> QED
    BY <1>4, <2>2, DiskKept
<1> QED
  BY <1>5, <1>6, <1>7

\* The steps that validate, save and list a block.
LEMMA SaverArchive ==
  ASSUME TypeOK, WorksOnBlock, DataBeforeRow, NEW p \in Savers, SaveStep(p)
  PROVE  ArchiveMoves
<1> USE DEF At, Goto, diskVars, daemonVars, usageVars, outside
<1> USE DEF TypeOK, ProcTypeOK, StateTypeOK, Labels, Saving
<1>1. p \in Procs
  BY DEF Savers, Procs
<1>2. pc[p] \in Working
  BY <1>1 DEF Working, SaveStep, Validate, ValidateRaises, AlreadySaved, CountAdded,
     RefuseSave, Store, CheckRow, InsertRow, ProcessMetadata, DiscardUnparsable
<1>3. blk[p] \in Blocks
  BY <1>1, <1>2 DEF WorksOnBlock
<1>4. OnlyMoves(p)
  BY <1>1 DEF OnlyMoves, Savers, Procs, SaveStep, Validate, ValidateRaises, Raise, Leave,
     AlreadySaved, CountAdded, RefuseSave, Store, CheckRow, InsertRow,
     ProcessMetadata, DiscardUnparsable
<1>5. CASE \/ Validate(p) /\ UNCHANGED blacklist
           \/ ValidateRaises(p) \/ RefuseSave(p) \/ AlreadySaved(p) \/ CountAdded(p)
           \/ CheckRow(p) \/ ProcessMetadata(p) \/ DiscardUnparsable(p)
  <2>1. UNCHANGED <<listed, stored, blacklist, kind>>
    BY <1>5 DEF Validate, ValidateRaises, RefuseSave, AlreadySaved, CountAdded,
       CheckRow, ProcessMetadata, DiscardUnparsable
  <2>2. pc'[p] \notin Saving \/ (pc[p] \in Saving /\ pc'[p] \in Saving /\ blk'[p] = blk[p])
    BY <1>1, <1>5 DEF Validate, ValidateRaises, RefuseSave, AlreadySaved, CountAdded,
       CheckRow, ProcessMetadata, DiscardUnparsable, Raise, Leave
  <2>3. CASE pc'[p] \notin Saving
    BY <1>3, <1>4, <2>1, <2>3, SaverLetsGo
  <2>4. CASE pc[p] \in Saving /\ pc'[p] \in Saving /\ blk'[p] = blk[p]
    <3>1. Admitted' = Admitted
      BY <1>4, <2>4, AdmittedKept DEF OnlyMoves
    <3> QED
      BY <2>1, <3>1, DiskKept
  <2> QED
    BY <2>2, <2>3, <2>4
<1>6. CASE Validate(p) /\ ~UNCHANGED blacklist
  <2>1. blacklist' = blacklist \cup {blk[p]} /\ pc'[p] \notin Saving
    BY <1>1, <1>6 DEF Validate, Leave
  <2>2. Admitted' \in {Admitted, Admitted \ {blk[p]}}
    BY <1>4, <2>1, AdmittedLess
  <2>3. Archive!Ban(blk[p])
    BY <1>6, <2>1, <2>2 DEF Validate, Archive!Ban, Archive!LetGo
  <2> QED
    BY <1>3, <2>3, OneBlockMoves
<1>7. CASE Store(p)
  <2>1. blk[p] \in Admitted
    BY <1>3, <1>7 DEF Store, Admitted
  <2>2. Admitted' = Admitted
    BY <1>1, <1>4, <1>7, AdmittedKept DEF Store, OnlyMoves
  <2>3. {b \in Blocks : stored'[b] > 0} = {b \in Blocks : stored[b] > 0} \cup {blk[p]}
    BY <1>3, <1>7 DEF Store
  <2>4. UNCHANGED <<listed, blacklist, kind>>
    BY <1>7 DEF Store
  <2> QED
    BY <1>3, <2>1, <2>2, <2>3, <2>4, BlockIsKept
<1>8. CASE InsertRow(p)
  <2>1. blk[p] \in Admitted /\ stored[blk[p]] > 0
    BY <1>1, <1>3, <1>8 DEF InsertRow, Admitted, DataBeforeRow
  <2>2. pc'[p] \notin Saving
    BY <1>1, <1>8 DEF InsertRow
  <2>3. Admitted' \in {Admitted, Admitted \ {blk[p]}}
    BY <1>4, <2>2, AdmittedLess
  <2>4. {b \in Blocks : listed'[b] > 0} = {b \in Blocks : listed[b] > 0} \cup {blk[p]}
    BY <1>3, <1>8 DEF InsertRow
  <2>5. Archive!Publish(blk[p])
    BY <1>3, <1>8, <2>1, <2>3, <2>4 DEF InsertRow, Archive!Publish, Archive!LetGo
  <2> QED
    BY <1>3, <2>5, OneBlockMoves
<1> QED
  BY <1>5, <1>6, <1>7, <1>8 DEF SaveStep

\* The cleanup, the bans and removals, and what happens outside.
LEMMA ArchiveStep ==
  ASSUME TypeOK, WorksOnBlock, DataBeforeRow, DropsBanned, Next PROVE ArchiveMoves
<1> USE DistinctProcesses DEF At, Goto, diskVars, daemonVars, usageVars, procVars, outside
<1> USE DEF TypeOK, ProcTypeOK, Saving, Savers, Procs
<1>1. CASE LookupStep
  <2>1. UNCHANGED <<listed, stored, blacklist, kind, pc, blk>>
    BY <1>1 DEF LookupStep, BeginLookup, EndLookup, Offer
  <2>2. Admitted' = Admitted
    BY <2>1, AdmittedKept
  <2> QED
    BY <2>1, <2>2, DiskKept
<1>2. ASSUME NEW t \in Getters, GetterStep(t) PROVE ArchiveMoves
  BY <1>2, GetterArchive
<1>3. ASSUME NEW u \in Importers, NEW b \in Blocks, Upload(u, b)
      PROVE ArchiveMoves
  <2>1. UNCHANGED <<listed, stored, blacklist, kind>> /\ b \notin blacklist
    BY <1>3 DEF Upload, InBlacklist
  <2>2. OnlyMoves(u)
    BY <1>3 DEF Upload, OnlyMoves
  <2>3. pc[u] \notin Saving /\ pc'[u] \in Saving /\ blk'[u] = b
    BY <1>3 DEF Upload
  <2> QED
    BY <2>1, <2>2, <2>3, SaverAdmits
<1>4. ASSUME NEW p \in Savers, SaveStep(p) PROVE ArchiveMoves
  BY <1>4, SaverArchive
<1>5. ASSUME NEW c \in Cleaners, CleanerStep(c) PROVE ArchiveMoves
  <2>1. UNCHANGED <<listed, stored, blacklist, kind>>
    BY <1>5 DEF CleanerStep, StartCleaner, CheckFull, NothingToClean, CleanExpired,
       CleanOldest
  <2>2. \A p \in Savers : pc'[p] = pc[p] /\ blk'[p] = blk[p]
    BY <1>5 DEF CleanerStep, StartCleaner, CheckFull, Leave, NothingToClean, Raise,
       CleanExpired, Visit, CleanOldest
  <2>3. Admitted' = Admitted
    BY <2>2, AdmittedKept
  <2> QED
    BY <2>1, <2>3, DiskKept
<1>6. ASSUME NEW k \in Banners, NEW b \in Blocks, StartBan(k, b)
      PROVE ArchiveMoves
  <2>1. UNCHANGED <<listed, stored, blacklist, kind>>
    BY <1>6 DEF StartBan
  <2>2. \A p \in Savers : pc'[p] = pc[p] /\ blk'[p] = blk[p]
    BY <1>6 DEF StartBan
  <2>3. Admitted' = Admitted
    BY <2>2, AdmittedKept
  <2> QED
    BY <2>1, <2>3, DiskKept
<1>7. ASSUME NEW p \in Procs, RemoveStep(p) PROVE ArchiveMoves
  <2>1. blk[p] \in Blocks
    BY <1>7 DEF RemoveStep, Blacklist, DropRows, CountRemoved, WorksOnBlock,
       Working, Labels
  <2>2. Admitted' = Admitted
    BY <1>7, AdmittedKept DEF RemoveStep, Blacklist, DropRows, CountRemoved
  <2>3. CASE Blacklist(p)
    <3>1. Archive!Ban(blk[p])
      BY <2>2, <2>3 DEF Blacklist, Archive!Ban, Archive!LetGo
    <3> QED
      BY <2>1, <3>1, OneBlockMoves
  <2>4. CASE DropRows(p)
    <3>1. blk[p] \in blacklist \/ kind[blk[p]] = "unparsable"
      BY <2>4 DEF DropRows, DropsBanned
    <3>2. {b \in Blocks : listed'[b] > 0} = {b \in Blocks : listed[b] > 0} \ {blk[p]}
      BY <2>1, <2>4 DEF DropRows, StateTypeOK
    <3>3. UNCHANGED <<stored, blacklist, kind>>
      BY <2>4 DEF DropRows
    <3> QED
      BY <2>1, <2>2, <3>1, <3>2, <3>3, BlockIsWithdrawn
  <2>5. CASE CountRemoved(p)
    BY <2>2, <2>5, DiskKept DEF CountRemoved
  <2> QED
    BY <1>7, <2>3, <2>4, <2>5 DEF RemoveStep
<1>8. ASSUME NEW p \in Procs, UsageStep(p) PROVE ArchiveMoves
  <2>1. UNCHANGED <<listed, stored, blacklist, kind>>
    BY <1>8 DEF UsageStep, TruncateUsage, WriteUsage
  <2>2. \A q \in Savers :
          /\ pc'[q] \in Saving <=> pc[q] \in Saving
          /\ pc[q] \in Saving => blk'[q] = blk[q]
    BY <1>8 DEF UsageStep, TruncateUsage, WriteUsage, Leave, Raise
  <2>3. Admitted' = Admitted
    BY <2>2, AdmittedKept
  <2> QED
    BY <2>1, <2>3, DiskKept
<1>9. ASSUME NEW b \in Blocks, Expire(b) PROVE ArchiveMoves
  <2>1. UNCHANGED <<listed, stored, blacklist, kind, pc, blk>>
    BY <1>9 DEF Expire
  <2>2. Admitted' = Admitted
    BY <2>1, AdmittedKept
  <2> QED
    BY <2>1, <2>2, DiskKept
<1>10. CASE Crash
  <2>1. Admitted' = {}
    BY <1>10 DEF Crash, Admitted
  <2>2. Archive!Restart
    BY <1>10, <2>1 DEF Crash, Archive!Restart
  <2> QED
    BY <2>2 DEF ArchiveMoves, Archive!ArchiveNext
<1> QED
  BY <1>1, <1>2, <1>3, <1>4, <1>5, <1>6, <1>7, <1>8, <1>9, <1>10 DEF Next

-----------------------------------------------------------------------------
(* The invariants as theorems of the specification. *)

LEMMA InvInit == Init => Inv
<1> SUFFICES ASSUME Init PROVE Inv
  OBVIOUS
<1>1. TypeOK /\ WorksOnBlock
  BY TypeInit
<1>2. DataBeforeRow /\ DropsBanned /\ RowHasData
  BY DEF Init, DataBeforeRow, DropsBanned, RowHasData, Nothing
<1>3. ClaimsCounted
  <2> SUFFICES ASSUME NEW b \in Blocks
               PROVE  downloading[b] = Cardinality({t \in Getters : Claims(t, b)})
    BY DEF ClaimsCounted
  <2>1. {t \in Getters : Claims(t, b)} = {}
    BY DEF Init, Claims, Procs
  <2> QED
    BY <2>1, FS_EmptySet DEF Init, Nothing
<1>4. RowsBounded
  <2> SUFFICES ASSUME NEW b \in Blocks PROVE RowsOf(b)
    BY DEF RowsBounded, RowsOf, Inserting
  <2>1. Inserting(b) = {} /\ listed[b] = 0
    BY DEF Init, Inserting, Savers, Procs, Nothing
  <2>2. Cardinality(Savers) \in Nat
    BY InsertingFinite
  <2> QED
    BY <2>1, <2>2, FS_EmptySet DEF RowsOf
<1> QED
  BY <1>1, <1>2, <1>3, <1>4 DEF Inv

LEMMA InvStep == Inv /\ [Next]_vars => Inv'
<1> SUFFICES ASSUME Inv, [Next]_vars PROVE Inv'
  OBVIOUS
<1>1. CASE Next
  <2>1. TypeOK'
    BY <1>1, StateTypeStep, ProcTypeStep DEF Inv, TypeOK
  <2>2. WorksOnBlock' /\ ClaimsCounted' /\ RowsBounded'
    BY <1>1, <2>1, WorksStep, ClaimsStep, RowsStep DEF Inv
  <2>3. DataBeforeRow' /\ RowHasData' /\ DropsBanned'
    BY <1>1, DataStep, RowStep, DropStep DEF Inv
  <2> QED
    BY <2>1, <2>2, <2>3 DEF Inv
<1>2. CASE UNCHANGED vars
  <2> USE <1>2 DEF vars, diskVars, daemonVars, usageVars, procVars, outside, Inv
  <2>1. TypeOK' /\ WorksOnBlock'
    BY DEF TypeOK, StateTypeOK, ProcTypeOK, WorksOnBlock
  <2>2. DataBeforeRow' /\ RowHasData' /\ DropsBanned'
    BY DEF DataBeforeRow, RowHasData, DropsBanned
  <2>3. ClaimsCounted'
    BY DEF ClaimsCounted, Claims
  <2>4. RowsBounded'
    BY DEF RowsBounded
  <2> QED
    BY <2>1, <2>2, <2>3, <2>4
<1> QED
  BY <1>1, <1>2

(***************************************************************************)
(* The type invariant.                                                     *)
(***************************************************************************)
THEOREM TypeCorrect == Spec => []TypeOK
<1>1. Inv => TypeOK
  BY DEF Inv
<1> QED
  BY InvInit, InvStep, <1>1, PTL DEF Spec

(***************************************************************************)
(* A block the node lists has its data: setData precedes addToBlockDB on   *)
(* every path, and removeBlock takes the rows and leaves the data.         *)
(***************************************************************************)
THEOREM RowsHaveData == Spec => []RowHasData
<1>1. Inv => RowHasData
  BY DEF Inv
<1> QED
  BY InvInit, InvStep, <1>1, PTL DEF Spec

(***************************************************************************)
(* currentDownloading counts the threads between the append and the        *)
(* remove, dead ones included: no remove of it raises, however many        *)
(* download threads there are (downloadblocks.py:52, 115).                 *)
(***************************************************************************)
THEOREM ClaimsAreCounted == Spec => []ClaimsCounted
<1>1. Inv => ClaimsCounted
  BY DEF Inv
<1> QED
  BY InvInit, InvStep, <1>1, PTL DEF Spec

(***************************************************************************)
(* The threads that look for a row before any of them has inserted one all *)
(* insert theirs, and nobody else does: a block has at most as many rows   *)
(* as there are threads that save blocks (core.py addToBlockDB).           *)
(***************************************************************************)
THEOREM RowsAreBounded == Spec => []RowsBounded
<1>1. Inv => RowsBounded
  BY DEF Inv
<1> QED
  BY InvInit, InvStep, <1>1, PTL DEF Spec

(***************************************************************************)
(* A blacklisted block that nobody has taken past the blacklist check      *)
(* never comes back, by download or by upload.                             *)
(***************************************************************************)
THEOREM BannedNeverReturn == Spec => BannedStayAway
<1>1. Inv /\ [Next]_vars => [SettledKept]_vars
  BY SettledStep DEF Inv
<1>2. SettledKept <=> \A b \in Blocks : Settled(b) => Settled(b)'
  BY DEF SettledKept
<1> QED
  BY InvInit, InvStep, <1>1, <1>2, PTL DEF Spec, BannedStayAway

(***************************************************************************)
(* No block but an unparsable one leaves the list unless it is blacklisted *)
(* already: housekeeping and ban-block call addToDB before removeBlock.    *)
(***************************************************************************)
THEOREM RemovalsAreBanned == Spec => RemovedAreBanned
<1>1. Inv /\ [Next]_vars => [RemovedBanned]_vars
  BY RemovedStep DEF Inv
<1>2. RemovedBanned <=>
        \A b \in Blocks :
          listed[b] > 0 /\ listed'[b] = 0 =>
            b \in blacklist \/ kind[b] = "unparsable"
  BY DEF RemovedBanned
<1> QED
  BY InvInit, InvStep, <1>1, <1>2, PTL DEF Spec, RemovedAreBanned

(***************************************************************************)
(* Every behaviour of the node is one of an archive: each of its steps is  *)
(* a step of BlockArchive or leaves the archive alone.  The refinement     *)
(* needs the invariant where a block is listed (its data is there) and     *)
(* where one is withdrawn (it is banned or cannot be parsed).              *)
(***************************************************************************)
THEOREM NodeIsArchive == Spec => ImplementsArchive
<1>1. Inv /\ [Next]_vars => [Archive!ArchiveNext]_(Archive!archiveVars)
  <2> SUFFICES ASSUME Inv, [Next]_vars PROVE ArchiveMoves
    BY DEF ArchiveMoves, ArchiveStutters
  <2>1. CASE Next
    BY <2>1, ArchiveStep DEF Inv
  <2>2. CASE UNCHANGED vars
    BY <2>2 DEF vars, diskVars, procVars, outside, Admitted, ArchiveMoves,
       ArchiveStutters, Archive!archiveVars
  <2> QED
    BY <2>1, <2>2
<1> QED
  BY InvInit, InvStep, StartsAsArchive, <1>1, PTL
  DEF Spec, ImplementsArchive, Archive!ArchiveSpec

(***************************************************************************)
(* The archive is promise enough: whatever implements it lists only blocks *)
(* whose data it has, and takes only banned or unparsable ones off the     *)
(* list (downloadblocks.py:81-86, housekeeping.py:28-35).                  *)
(***************************************************************************)
THEOREM ArchivePromisesData ==
  ImplementsArchive => []RowHasData /\ RemovedAreBanned
<1> DEFINE Kept == {b \in Blocks : stored[b] > 0}
           Offered == {b \in Blocks : listed[b] > 0}
<1>1. Archive!ArchiveInit => RowHasData
  BY DEF Archive!ArchiveInit, RowHasData
<1>2. [Archive!ArchiveNext]_(Archive!archiveVars) =>
        /\ Kept \subseteq Kept'
        /\ Offered' \ Offered \subseteq Kept'
        /\ Offered \ Offered' \subseteq blacklist \cup {b \in Blocks : kind[b] = "unparsable"}
  BY DEF Archive!ArchiveNext, Archive!archiveVars, Archive!Admit, Archive!GiveUp,
     Archive!Keep, Archive!Publish, Archive!Ban, Archive!Withdraw, Archive!Restart
<1>3. RowHasData /\ [Archive!ArchiveNext]_(Archive!archiveVars) => RowHasData'
  BY <1>2 DEF RowHasData
<1>4. [Archive!ArchiveNext]_(Archive!archiveVars) => [RemovedBanned]_vars
  BY <1>2 DEF RemovedBanned
<1>5. RemovedBanned <=>
        \A b \in Blocks :
          listed[b] > 0 /\ listed'[b] = 0 =>
            b \in blacklist \/ kind[b] = "unparsable"
  BY DEF RemovedBanned
<1> QED
  BY <1>1, <1>3, <1>4, <1>5, PTL
  DEF ImplementsArchive, Archive!ArchiveSpec, RemovedAreBanned

=============================================================================
