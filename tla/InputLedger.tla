---------------------------- MODULE InputLedger ----------------------------
(***************************************************************************)
(* What a Session promises the user, whatever runs, pauses or crashes in   *)
(* between: every accepted input is numbered in the order of acceptance,   *)
(* may be edited until it is consumed, and is consumed exactly once, in    *)
(* order, at the revision the user last confirmed.  A committed turn       *)
(* consumes one or more inputs at a time.                                  *)
(***************************************************************************)
EXTENDS Naturals, Sequences

VARIABLES
  asked,     \* asked[i] is the current revision of the i-th accepted input
  consumed,  \* inputs 1..consumed have left the queue
  turns      \* per committed turn of the conversation, the inputs it consumed

ledgerVars == <<asked, consumed, turns>>

LedgerInit ==
  /\ asked = <<>>
  /\ consumed = 0
  /\ turns = <<>>

Accept ==
  /\ asked' = Append(asked, 1)
  /\ UNCHANGED <<consumed, turns>>

Edit(i) ==
  /\ asked' = [asked EXCEPT ![i] = @ + 1]
  /\ UNCHANGED <<consumed, turns>>

\* One committed turn takes the next k inputs, each at its current revision.
Consume(k) ==
  /\ consumed' = consumed + k
  /\ turns' = Append(turns, [j \in 1..k |-> [id |-> consumed + j, rev |-> asked[consumed + j]]])
  /\ UNCHANGED asked

\* Clearing the conversation drops what is queued and what was said.
ClearAll ==
  /\ consumed' = Len(asked)
  /\ turns' = <<>>
  /\ UNCHANGED asked

LedgerNext ==
  \/ Accept
  \/ \E i \in (consumed + 1)..Len(asked) : Edit(i)
  \/ \E k \in 1..(Len(asked) - consumed) : Consume(k)
  \/ ClearAll

LedgerSpec == LedgerInit /\ [][LedgerNext]_ledgerVars
=============================================================================
