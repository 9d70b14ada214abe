---------------------------- MODULE InfnDeQueue ----------------------------
(***************************************************************************)
(* The queue of the security processor actor.  An event names a carrier,   *)
(* its kind and the value it carries.  A new event replaces the queued one *)
(* of the same carrier and the same class and goes to the end; the test    *)
(* for a full queue comes first, so a full queue drops the newest event    *)
(* even when it would only have replaced one.                              *)
(***************************************************************************)
EXTENDS Integers, Sequences

CONSTANTS
    Carriers,       \* carrier AIDs
    QueueSize       \* mMaxSize: NXP_EVENT_QUEUE_SIZE

ASSUME QueueAssumption == QueueSize \in Nat \ {0}

\* The two classes EnQueue tells apart: CREATE, UPDATE and DELETE of the OFEC
\* status are one class, RX_STATUS the other.
Classes == {"ofec", "rx"}
Kinds == {"update", "delete", "rx"}
ClassOf(kind) == IF kind = "rx" THEN "rx" ELSE "ofec"

Events == [kind : Kinds, car : Carriers, val : BOOLEAN]
Keys == Classes \X Carriers
KeyOf(e) == <<ClassOf(e.kind), e.car>>

Event(kind, c, v) == [kind |-> kind, car |-> c, val |-> v]

\* What the loop of EnQueue leaves of q: every event of key k is erased.
Without(q, k) ==
    LET left[n \in 0 .. Len(q)] ==
            IF n = 0 THEN <<>>
            ELSE IF KeyOf(q[n]) = k THEN left[n - 1]
            ELSE Append(left[n - 1], q[n])
    IN  left[Len(q)]

\* Mutant: the class of the queued event is not compared.
EnQueueByAid(q, e) ==
    IF Len(q) >= QueueSize
      THEN q
      ELSE Append(Without(Without(q, <<"ofec", e.car>>), <<"rx", e.car>>), e)

\* The queue q after EnQueue(e).
EnQueue(q, e) ==
    IF Len(q) >= QueueSize THEN q ELSE Append(Without(q, KeyOf(e)), e)

\* The values queued for key k: at most one if every event replaced its elder.
Queued(q, k) == {q[i] : i \in {j \in DOMAIN q : KeyOf(q[j]) = k}}
=============================================================================
