---------------------------- MODULE MeteredCalls ----------------------------
(***************************************************************************)
(* What the durable execution of a task promises about money: a provider   *)
(* is called only against a reservation held for that very call and at     *)
(* most once; the reservation is returned only if the call can no longer   *)
(* be made, and kept only if it was made.                                  *)
(***************************************************************************)
CONSTANT Call

VARIABLES money, sent
vars == <<money, sent>>

Init == money = [c \in Call |-> "none"] /\ sent = {}

\* Any number of reservations may be taken or given back in one transaction.
Hold == /\ \E S \in SUBSET {c \in Call : money[c] = "none"} :
             money' = [c \in Call |-> IF c \in S THEN "reserved" ELSE money[c]]
        /\ UNCHANGED sent

Return == /\ \E S \in SUBSET {c \in Call : money[c] = "reserved" /\ c \notin sent} :
               money' = [c \in Call |-> IF c \in S THEN "released" ELSE money[c]]
          /\ UNCHANGED sent

Send(c) == /\ money[c] = "reserved" /\ c \notin sent
           /\ sent' = sent \union {c}
           /\ UNCHANGED money

Keep(c) == /\ money[c] = "reserved" /\ c \in sent
           /\ money' = [money EXCEPT ![c] = "settled"]
           /\ UNCHANGED sent

Next == Hold \/ Return \/ \E c \in Call : Send(c) \/ Keep(c)

Spec == Init /\ [][Next]_vars
=============================================================================
