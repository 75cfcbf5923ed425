------------------------------- MODULE MCCrc -------------------------------
(* Small instances of Crc for TLC.                                         *)
EXTENDS Crc, TLC

CONSTANTS s1, s2

SomeStrings == {s1, s2}
SomeBuffers == 1 .. 5

\* A String of two bytes with room for a third, and another one or a dup.
SomeMemories ==
    { [ref    |-> (s1 :> 1) @@ (s2 :> h),
       len    |-> (s1 :> 2) @@ (s2 :> IF h = 1 THEN 2 ELSE 1),
       shared |-> (s1 :> (h = 1)) @@ (s2 :> (h = 1)),
       heap   |-> [k \in SomeBuffers |-> CASE k = 1 -> <<1, 2, Unset>>
                                          [] k = 2 /\ h = 2 -> <<3>>
                                          [] OTHER -> <<>>],
       raw    |-> {}] : h \in {1, 2} }
=============================================================================
