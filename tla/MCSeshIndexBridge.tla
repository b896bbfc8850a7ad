--------------------------- MODULE MCSeshIndexBridge ---------------------------
(* An instance of SeshIndex: a third file joins the sessions of two others.  *)
EXTENDS SeshIndex
Msg(k) == [key |-> k, ts |-> 2, bad |-> FALSE]
Bridge == {<<[id |-> 1, lines |-> <<Msg(1), Msg(2)>>],
             [id |-> 2, lines |-> <<Msg(1), Msg(2), Msg(3)>>],
             [id |-> 3, lines |-> <<Msg(2), Msg(3)>>]>>}
=============================================================================
