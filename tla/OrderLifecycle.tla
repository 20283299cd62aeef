--------------------------- MODULE OrderLifecycle ---------------------------
(***************************************************************************)
(* What an application may rely on about the state of an order it watches: *)
(* the abstract specification of ExchangeClient's order table.  It says    *)
(* nothing of messages, oids, fills or requests.  "Untracked" is a cloid   *)
(* the client holds no order for.                                          *)
(***************************************************************************)

CONSTANTS Cloids

VARIABLE view

Live     == {"PendingNew", "Open", "PartiallyFilled"}
Terminal == {"Filled", "Canceled", "Rejected"}

\* A live order only moves forward.
Forward ==
  ({"PendingNew"} \X {"Open", "PartiallyFilled"}) \cup {<<"Open", "PartiallyFilled">>}
    \cup (Live \X Terminal)

\* A verdict is revised only by news that the order was filled after all, or by
\* a listing that shows it working.
Revision ==
  ({"Canceled", "Rejected"} \X {"Filled"}) \cup (Terminal \X {"Open", "PartiallyFilled"})

\* Orders appear in any state, and only terminal ones are forgotten.
Coming == {"Untracked"} \X (Live \cup Terminal)
Going  == Terminal \X {"Untracked"}

Moves == Forward \cup Revision \cup Coming \cup Going

LifeInit == view = [c \in Cloids |-> "Untracked"]

\* One answer may settle many orders at once.
LifeNext ==
  /\ view' \in [Cloids -> {"Untracked"} \cup Live \cup Terminal]
  /\ \A c \in Cloids : view'[c] = view[c] \/ <<view[c], view'[c]>> \in Moves

LifeSpec == LifeInit /\ [][LifeNext]_view

=============================================================================
