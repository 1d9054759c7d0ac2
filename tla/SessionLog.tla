----------------------------- MODULE SessionLog -----------------------------
(***************************************************************************)
(* What the session log promises its readers, without paths, indices,      *)
(* capacities or resets: at most one session is open; the text of the open *)
(* session only grows at its end; a session, once closed, stays as it is.  *)
(***************************************************************************)
EXTENDS Sequences, SequencesExt

CONSTANT Slot       \* the places a file can be kept in

VARIABLES
    status,         \* of each slot: "free", "other", "open" or "closed"
    text            \* what the session in the slot has recorded

vars == <<status, text>>

Init ==
    /\ status = [s \in Slot |-> "free"]
    /\ text = [s \in Slot |-> <<>>]

NoneOpen == \A s \in Slot : status[s] # "open"

(* Somebody else needs the slot.                                           *)
Occupy(s) ==
    /\ status[s] = "free"
    /\ status' = [status EXCEPT ![s] = "other"]
    /\ UNCHANGED text

Begin(s) ==
    /\ status[s] = "free" /\ NoneOpen
    /\ status' = [status EXCEPT ![s] = "open"]
    /\ UNCHANGED text

Record(s) ==
    /\ status[s] = "open"
    /\ IsPrefix(text[s], text'[s])
    /\ text' = [text EXCEPT ![s] = text'[s]]
    /\ UNCHANGED status

Close(s) ==
    /\ status[s] = "open"
    /\ status' = [status EXCEPT ![s] = "closed"]
    /\ UNCHANGED text

Next == \E s \in Slot : Occupy(s) \/ Begin(s) \/ Record(s) \/ Close(s)

Spec == Init /\ [][Next]_vars
=============================================================================
