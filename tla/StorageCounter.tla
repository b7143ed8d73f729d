--------------------------- MODULE StorageCounter ---------------------------
(***************************************************************************)
(* The disk usage record of an Onionr node (src/onionr/storagecounter.py). *)
(*                                                                         *)
(* Every core instance, in every thread of the daemon and in every command *)
(* line process, reads and rewrites one text file that holds the number of *)
(* bytes the stored blocks are taken to use.  There is no lock: addBytes   *)
(* and removeBytes read the file, then open it for writing (which empties  *)
(* it) and at close write the new number at offset 0 of what is there.     *)
(***************************************************************************)
EXTENDS Integers, Sequences, SequencesExt

CONSTANTS Procs,        \* the threads and processes that use the record
          Allocation,   \* config allocations.disk
          Slack         \* the margin of isFull: 1000 bytes in the code

ASSUME CounterConstants == Allocation \in Nat /\ Slack \in Nat

VARIABLES usage,    \* the numbers written to usageFile since it was last emptied
          phase,    \* where each process is in addBytes or removeBytes
          amount    \* newAmount, a local variable of addBytes and removeBytes

counterVars == <<usage, phase, amount>>

Phases == {"idle", "open", "write"}

(***************************************************************************)
(* What the file says.  A number is written as its decimal text, over the  *)
(* first characters of what other writers left since the last truncation.  *)
(***************************************************************************)
Minus == 10     \* the character "-", beside the digits 0 .. 9

Decimal[n \in Nat] ==
  IF n < 10 THEN <<n>> ELSE Append(Decimal[n \div 10], n % 10)

Text(n) == IF n < 0 THEN <<Minus>> \o Decimal[-n] ELSE Decimal[n]

Overwrite(old, n) ==
  Text(n) \o SubSeq(old, Len(Text(n)) + 1, Len(old))

Number(digits) == FoldLeft(LAMBDA acc, d : 10 * acc + d, 0, digits)

Parse(text) ==
  IF Head(text) = Minus THEN -Number(Tail(text)) ELSE Number(text)

\* An empty or absent file counts as 0; a single write is read back as it is.
Recorded ==
  CASE usage = << >>  -> 0
    [] Len(usage) = 1 -> usage[1]
    [] OTHER          -> Parse(FoldLeft(Overwrite, << >>, usage))

IsFull == Allocation <= Recorded + Slack

-----------------------------------------------------------------------------

CounterInit ==
  /\ usage = << >>
  /\ phase = [p \in Procs |-> "idle"]
  /\ amount = [p \in Procs |-> 0]

\* Fault: the allocation is not looked at.
GrantBytesUnchecked(p, n) ==
  /\ phase[p] = "idle"
  /\ phase' = [phase EXCEPT ![p] = "open"]
  /\ amount' = [amount EXCEPT ![p] = Recorded + n]
  /\ UNCHANGED usage

\* addBytes within the allocation: the new amount is computed from the record.
GrantBytes(p, n) ==
  /\ phase[p] = "idle"
  /\ Recorded + n <= Allocation
  /\ phase' = [phase EXCEPT ![p] = "open"]
  /\ amount' = [amount EXCEPT ![p] = Recorded + n]
  /\ UNCHANGED usage

\* addBytes over the allocation returns False and leaves the file alone.
RefuseBytes(p, n) ==
  /\ phase[p] = "idle"
  /\ Recorded + n > Allocation
  /\ UNCHANGED counterVars

RemoveBytes(p, n) ==
  /\ phase[p] = "idle"
  /\ phase' = [phase EXCEPT ![p] = "open"]
  /\ amount' = [amount EXCEPT ![p] = Recorded - n]
  /\ UNCHANGED usage

\* Fault: the file is opened for update ('r+') and keeps what it holds.
TruncateNothing(p) ==
  /\ phase[p] = "open"
  /\ phase' = [phase EXCEPT ![p] = "write"]
  /\ UNCHANGED <<usage, amount>>

\* open(dataFile, 'w') empties the file.
Truncate(p) ==
  /\ phase[p] = "open"
  /\ phase' = [phase EXCEPT ![p] = "write"]
  /\ usage' = << >>
  /\ UNCHANGED amount

\* The buffered text reaches the file when it is closed.
Write(p) ==
  /\ phase[p] = "write"
  /\ phase' = [phase EXCEPT ![p] = "idle"]
  /\ usage' = Append(usage, amount[p])
  /\ amount' = [amount EXCEPT ![p] = 0]

=============================================================================
