---------------------------- MODULE MCAutomations ----------------------------
(* Small instances of Automations for TLC.                                 *)
EXTENDS Automations

Scene(kind, edits, manual, crashes) ==
    [kind |-> kind, at |-> 1,
     bounds |-> [edits |-> edits, manual |-> manual, crashes |-> crashes]]

\* A one-time automation that is edited, run by hand or missed, and one that
\* repeats.
Instances == {Scene("once", 0, 1, 2), Scene("once", 2, 0, 0),
              Scene("once", 1, 1, 0), Scene("once", 2, 0, 1),
              Scene("interval", 0, 1, 1), Scene("interval", 1, 0, 0)}
=============================================================================
