--------------------------- MODULE MCApprovalImport ---------------------------
(* A chain g <- a1 <- ... <- a6 with a fork b4 on a3.  SessionForChild     *)
(* starts session 1 at a2, 2 at a4 and jumps to 4 at a5, so heads see a    *)
(* first load, a roll by one, backwards drift, and a jump by more than a   *)
(* window.                                                                  *)
EXTENDS ApprovalImport

CONSTANTS g, a1, a2, a3, a4, a5, a6, b4

MCBlocks == {g, a1, a2, a3, a4, a5, a6, b4}

MCParent == (g :> g) @@ (a1 :> g) @@ (a2 :> a1) @@ (a3 :> a2) @@ (a4 :> a3)
            @@ (a5 :> a4) @@ (a6 :> a5) @@ (b4 :> a3)

MCNumber == (g :> 0) @@ (a1 :> 1) @@ (a2 :> 2) @@ (a3 :> 3) @@ (a4 :> 4)
            @@ (a5 :> 5) @@ (a6 :> 6) @@ (b4 :> 4)

MCSessionForChild == (g :> 0) @@ (a1 :> 0) @@ (a2 :> 1) @@ (a3 :> 1) @@ (a4 :> 2)
                     @@ (a5 :> 4) @@ (a6 :> 4) @@ (b4 :> 2)

MCSessions == 0..4

=============================================================================
