----------------------------- MODULE SepDelivery -----------------------------
(***************************************************************************)
(* What the ingestor promises about a message, without workers, batches,   *)
(* receptions or retries: the keys it names are filled one by one, and the *)
(* message is consumed once all of them are, or given up.  The queue of    *)
(* SepIngestor and its Lambda implement this.                              *)
(***************************************************************************)
CONSTANTS
  Message,
  Key,
  KeysOf    \* KeysOf[m]: the keys that the valid rows of m name

VARIABLES
  fate,     \* fate[m]: "queued", "consumed" or "dead" (in the dead-letter queue)
  filled    \* keys with an item in the table

vars == <<fate, filled>>

Init ==
  /\ fate = [m \in Message |-> "queued"]
  /\ filled = {}

\* One key of a message that was not consumed gets its item.
Fill(m, k) ==
  /\ fate[m] # "consumed"
  /\ k \in KeysOf[m]
  /\ filled' = filled \cup {k}
  /\ UNCHANGED fate

\* Messages all of whose keys are filled are acknowledged together.
Consume(S) ==
  /\ \A m \in S : fate[m] = "queued" /\ KeysOf[m] \subseteq filled
  /\ fate' = [m \in Message |-> IF m \in S THEN "consumed" ELSE fate[m]]
  /\ UNCHANGED filled

GiveUp(m) ==
  /\ fate[m] = "queued"
  /\ fate' = [fate EXCEPT ![m] = "dead"]
  /\ UNCHANGED filled

Next ==
  \/ \E m \in Message : GiveUp(m) \/ \E k \in KeysOf[m] : Fill(m, k)
  \/ \E S \in SUBSET Message : Consume(S)

Spec == Init /\ [][Next]_vars
=============================================================================
