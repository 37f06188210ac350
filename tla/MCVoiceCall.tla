------------------------------ MODULE MCVoiceCall ------------------------------
(***************************************************************************)
(* Instances of VoiceCall.  Calls share no record, no id and no timer, so  *)
(* in a behaviour one of the calls takes place and the others were over    *)
(* before it began and left no record.  Lines stay under way only for the  *)
(* first record of a call, and while it has one hang-up under way at most. *)
(***************************************************************************)
EXTENDS VoiceCall

MCInit == \E p \in Calls : /\ phone = [c \in Calls |-> IF c = p THEN 1 ELSE Over]
                           /\ Nothing

OneCall == \A q, r \in Records : call'[q] # None /\ call'[r] # None => q.of = r.of

StraysAreFew ==
    \A r \in Records : lines'[r].strays > 0 => r.nr = 1 /\ hanging'[r] <= 1

MCSpec == MCInit /\ [][Next /\ OneCall /\ StraysAreFew]_vars /\ Fairness
================================================================================
