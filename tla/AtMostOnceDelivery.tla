------------------------- MODULE AtMostOnceDelivery -------------------------
(***************************************************************************)
(* What Core's transport outbox promises about an external effect whose    *)
(* provider offers no idempotency key: an intent is opened for dispatch at *)
(* most once, its effect happens at most once, and the verdict that closes *)
(* it never contradicts the effect.  "ambiguous" is the only verdict that  *)
(* leaves the effect open.                                                 *)
(***************************************************************************)
CONSTANT Delivery

VARIABLES verdict,   \* what the rows say about each intent
          happened   \* intents whose effect the provider performed

absVars == <<verdict, happened>>

Verdicts == {"none", "queued", "open", "delivered", "notDelivered", "ambiguous"}

AbsInit ==
    /\ verdict  = [d \in Delivery |-> "none"]
    /\ happened = {}

Queue(d) ==
    /\ verdict[d] = "none"
    /\ verdict' = [verdict EXCEPT ![d] = "queued"]
    /\ UNCHANGED happened

Refuse(d) ==
    /\ verdict[d] = "queued"
    /\ verdict' = [verdict EXCEPT ![d] = "notDelivered"]
    /\ UNCHANGED happened

Open(d) ==
    /\ verdict[d] = "queued"
    /\ verdict' = [verdict EXCEPT ![d] = "open"]
    /\ UNCHANGED happened

\* The effect needs an opened intent that nobody has ruled out.
Perform(d) ==
    /\ verdict[d] \in {"open", "ambiguous"}
    /\ d \notin happened
    /\ happened' = happened \union {d}
    /\ UNCHANGED verdict

Close(d, v) ==
    /\ verdict[d] = "open"
    /\ v = "delivered" => d \in happened
    /\ v = "notDelivered" => d \notin happened
    /\ verdict' = [verdict EXCEPT ![d] = v]
    /\ UNCHANGED happened

\* One claim closes every expired intent and may open or refuse another one.
Sweep(S) ==
    /\ \A d \in S : verdict[d] = "open"
    /\ UNCHANGED happened
    /\ \/ verdict' = [d \in Delivery |-> IF d \in S THEN "ambiguous" ELSE verdict[d]]
       \/ \E e \in Delivery, v \in {"open", "notDelivered"} :
            /\ verdict[e] = "queued"
            /\ verdict' = [d \in Delivery |-> IF d = e THEN v
                                              ELSE IF d \in S THEN "ambiguous"
                                              ELSE verdict[d]]

AbsNext ==
    \/ \E d \in Delivery :
         \/ Queue(d) \/ Refuse(d) \/ Open(d) \/ Perform(d)
         \/ \E v \in {"delivered", "notDelivered", "ambiguous"} : Close(d, v)
    \/ \E S \in SUBSET Delivery : Sweep(S)

AbsSpec == AbsInit /\ [][AbsNext]_absVars
=============================================================================
