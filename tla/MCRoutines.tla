------------------------------ MODULE MCRoutines ------------------------------
EXTENDS Routines, TLC

MCCode == Programs
MCHandlers == (0 :> <<3, 1>>) @@ (4 :> <<3, 1>>) @@ (5 :> <<3, 1>>) @@ (13 :> <<2, 1>>)
               @@ (32 :> <<3, 1>>)
In2 == {90}
Edges == {0, 1, 255, 256, 32767, 32768, 65535, 65536, 8388608, 16777215}
EdgeWords == {0, 1, 127, 128, 255, 256, 32767, 32768, 32769, 65534, 65535}
EdgeBytes == {0, 1, 2, 10, 127, 128, 129, 255}
Bcd == {16 * x + y : x \in {0, 1, 4, 5, 9}, y \in {0, 4, 5, 6, 9}}
G(A, B, C) == [a : A, b : B, c : C]
MCCases == [addwide |-> G(Edges, Edges, {0}), compare |-> G(EdgeWords, EdgeWords, {0}),
            decimal |-> G(Bcd, Bcd, {0}), divide |-> G(EdgeWords, EdgeBytes, {0}),
            turn |-> G({0, 1, 128, 150, 255}, 0..15 \cup {31, 32}, {1, 128}),
            copy |-> {g \in G(0..4, 0..6, 0..4) : g.a + g.c <= 8},
            frame |-> G({0, 65535}, {1}, {9}), nested |-> G({0, 65535}, {1}, {9})]
=============================================================================
