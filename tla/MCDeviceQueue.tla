---------------------------- MODULE MCDeviceQueue ----------------------------
(***************************************************************************)
(* Small instances of DeviceQueue: who may call what, and what one submit  *)
(* may carry.                                                              *)
(***************************************************************************)
EXTENDS DeviceQueue, TLC

CONSTANTS t1, t2, b1, b2

OneBuffer == {<<>>, <<{b1}>>}
OneOrBoth == {<<{b2}>>, <<{b1}, {b2}>>}

(* Two threads that work on the same buffers without agreeing on anything. *)
Uncoordinated ==
    (t1 :> {"submit", "map", "unmap", "poll", "destroyDevice"}) @@
    (t2 :> {"submit", "write", "unmap", "destroy", "drop"})

(* A client, and a thread of its own that polls. *)
ClientAndPoller ==
    (t1 :> {"poll"}) @@
    (t2 :> {"submit", "map", "unmap", "destroy", "workDone", "destroyDevice"})

(* A program of one thread. *)
OneThread ==
    t1 :> {"submit", "write", "map", "unmap", "destroy", "drop", "workDone",
           "destroyDevice", "poll", "wait", "waitTimeout"}

(* What the disagreements with the documentation need, and no more. *)
OneMapper == t1 :> {"submit", "map", "unmap", "poll"}
TwoMappers == [t \in Thread |-> {"map", "unmap", "poll"}]
WaiterAndPoller == (t1 :> {"submit", "waitTimeout"}) @@ (t2 :> {"poll"})
LoserAndWriter == (t1 :> {"poll", "destroyDevice"}) @@ (t2 :> {"write"})
PollerAndMapper == (t1 :> {"poll"}) @@ (t2 :> {"map", "workDone", "poll"})
=============================================================================
