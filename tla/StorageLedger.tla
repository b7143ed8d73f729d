---------------------------- MODULE StorageLedger ----------------------------
(***************************************************************************)
(* The processes of a node using the disk usage record, next to a ledger   *)
(* of what the record should say: the sum of what addBytes granted less    *)
(* what removeBytes took off.  `overlapped' notes whether an update has    *)
(* ever started while another one was between its read and its write.      *)
(***************************************************************************)
EXTENDS StorageCounter

CONSTANTS Amounts,      \* the block sizes that are added and removed
          Debt          \* bound of the model: no removal takes the record below -Debt

ASSUME LedgerConstants == Amounts \subseteq Nat /\ Debt \in Nat

VARIABLES ledger,       \* what the granted updates add up to
          overlapped    \* has an update started during another one?

ledgerVars == <<usage, phase, amount, ledger, overlapped>>

Busy(p) == phase[p] # "idle"

LedgerInit == CounterInit /\ ledger = 0 /\ overlapped = FALSE

\* An update of n more bytes starts; the ledger is kept until updates overlap.
Enter(n) ==
  /\ overlapped' = (overlapped \/ \E p \in Procs : Busy(p))
  /\ ledger' = IF overlapped' THEN 0 ELSE ledger + n

\* addBytes(n) is granted: the caller goes on to store n more bytes.
Grant(p, n) == GrantBytes(p, n) /\ Enter(n)

Refuse(p, n) == RefuseBytes(p, n) /\ UNCHANGED <<ledger, overlapped>>

\* removeBytes does not check what it removes: the record may become negative.
TakeOff(p, n) ==
  /\ Recorded - n >= -Debt
  /\ RemoveBytes(p, n)
  /\ Enter(-n)

Update(p) ==
  /\ Truncate(p) \/ Write(p)
  /\ UNCHANGED <<ledger, overlapped>>

LedgerNext ==
  \E p \in Procs :
    \/ \E n \in Amounts : Grant(p, n) \/ Refuse(p, n) \/ TakeOff(p, n)
    \/ Update(p)

LedgerSpec == LedgerInit /\ [][LedgerNext]_ledgerVars

-----------------------------------------------------------------------------

(***************************************************************************)
(* addBytes refuses what would exceed the allocation and every other       *)
(* update lowers the record, so the record stays within the allocation as  *)
(* long as no two updates have overlapped (addBytes, storagecounter.py).   *)
(***************************************************************************)
BoundedUntilOverlap == ~overlapped => Recorded <= Allocation

(***************************************************************************)
(* Between updates the record is exact: it says what the granted updates   *)
(* add up to, as long as no two of them have overlapped.  A record that    *)
(* runs ahead of the ledger makes the node delete blocks it has room for.  *)
(***************************************************************************)
ExactUntilOverlap ==
  (~overlapped /\ \A p \in Procs : ~Busy(p)) => Recorded = ledger

=============================================================================
