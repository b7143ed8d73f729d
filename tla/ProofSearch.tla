----------------------------- MODULE ProofSearch -----------------------------
(***************************************************************************)
(* What insertBlock relies on when it has a proof of work computed: some   *)
(* workers search for a payload that meets the difficulty, and the caller  *)
(* is answered once, with a payload that one of them has found.  A search  *)
(* by processes gives nothing else.  A search by threads may also give     *)
(* nothing, when the user interrupts it, and also when a payload has been  *)
(* found but has not been stored yet.                                      *)
(***************************************************************************)
CONSTANTS Workers,
          Nothing,      \* the caller is given no payload
          Pending       \* the caller has no answer yet

VARIABLES method,       \* how the search is made, for as long as it lasts
          found,        \* whose payloads are found
          interrupted,  \* has the user interrupted a search by threads?
          answer        \* whose payload the caller is given

searchVars == <<method, found, interrupted, answer>>

SearchInit ==
  /\ method \in {"threads", "processes"}
  /\ found = {}
  /\ interrupted = FALSE
  /\ answer = Pending

Discover(w) ==
  /\ found' = found \cup {w}
  /\ UNCHANGED <<method, interrupted, answer>>

Interruption ==
  /\ method = "threads"
  /\ answer = Pending
  /\ interrupted' = TRUE
  /\ UNCHANGED <<method, found, answer>>

Give ==
  /\ answer = Pending
  /\ answer' \in found
  /\ UNCHANGED <<method, found, interrupted>>

GiveNothing ==
  /\ method = "threads"
  /\ interrupted \/ found # {}
  /\ answer = Pending
  /\ answer' = Nothing
  /\ UNCHANGED <<method, found, interrupted>>

SearchNext ==
  \/ \E w \in Workers : Discover(w)
  \/ Interruption
  \/ Give
  \/ GiveNothing

SearchSpec == SearchInit /\ [][SearchNext]_searchVars

=============================================================================
