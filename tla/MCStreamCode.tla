---------------------------- MODULE MCStreamCode ----------------------------
(* Small instances of StreamCode for TLC.                                  *)
EXTENDS StreamCode

CONSTANTS s1, s2, s3

SomeStrings == {s1, s2, s3}
SomeBuffers == 1 .. 6

\* A String of two bytes, one of one byte, and a third one that is a dup of
\* the first, a dup of the second, or neither.
SomeMemories ==
    { [ref    |-> [s \in SomeStrings |-> CASE s = s1 -> 1 [] s = s2 -> 2 [] s = s3 -> h],
       len    |-> [s \in SomeStrings |-> CASE s = s1 -> 2 [] s = s2 -> 1
                                          [] s = s3 -> IF h = 1 THEN 2 ELSE 1],
       shared |-> [s \in SomeStrings |->
                      CASE s = s1 -> h = 1 [] s = s2 -> h = 2 [] s = s3 -> h # 3],
       heap   |-> [k \in SomeBuffers |-> CASE k = 1 -> <<1, 2>> [] k = 2 -> <<3>>
                                          [] k = 3 /\ h = 3 -> <<4, Unset>>
                                          [] OTHER -> <<>>],
       raw    |-> {}] : h \in 1 .. 3 }
=============================================================================
