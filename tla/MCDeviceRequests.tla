-------------------------- MODULE MCDeviceRequests --------------------------
(* Small instances of DeviceRequests for TLC.                              *)
EXTENDS DeviceRequests

CONSTANTS c1, c2

Scene(calls, keyed, connections, cancels, revokes, faults) ==
    [calls |-> calls, keyed |-> keyed,
     bounds |-> [connections |-> connections, cancels |-> cancels,
                 revokes |-> revokes, faults |-> faults]]

\* One request and what may befall it; two with one key.
Instances == {Scene({c1}, {}, 2, 1, 0, 1), Scene({c1}, {}, 2, 0, 1, 1),
              Scene({c1}, {}, 1, 1, 1, 0), Scene({}, {}, 3, 0, 1, 2),
              Scene({c1, c2}, {c1, c2}, 1, 0, 0, 0)}
=============================================================================
