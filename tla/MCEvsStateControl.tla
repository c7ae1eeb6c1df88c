--------------------------- MODULE MCEvsStateControl ---------------------------
EXTENDS EvsStateControl
CONSTANTS rear, side
(* One camera for a view, two for another that shares it, none for a third. *)
SharedViews == [s \in States |-> CASE s = "REVERSE" -> <<rear>>
                                   [] s = "LEFT"    -> <<side, rear>>
                                   [] s = "PARKING" -> <<side>>
                                   [] OTHER         -> <<>>]
=============================================================================
