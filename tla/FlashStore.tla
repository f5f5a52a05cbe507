----------------------------- MODULE FlashStore -----------------------------
(***************************************************************************)
(* What chacolib promises about the flash of the Chameleon: an order names *)
(* a region and what is to be in it.  While an order is carried out, the   *)
(* flash changes in that region only; when it is reported as done, the     *)
(* region is as ordered; when it fails, the region holds anything.         *)
(*                                                                         *)
(* The promise is void for an order that is not sound: it began while an   *)
(* answer to an older request was still on its way, or one of the requests *)
(* that are not answered got lost, which nobody can notice.                *)
(***************************************************************************)
CONSTANTS Addr,     \* the addresses of the flash
          Values,   \* what a byte of it can be
          NoOrder   \* nothing to do

VARIABLES flash,    \* the flash
          order,    \* the order, a function from its region to Values, or NoOrder
          sound,    \* see above
          report    \* "ok" or "error"

fvars == <<flash, order, sound, report>>

IsOrder(o) == DOMAIN o \subseteq Addr /\ o \in [DOMAIN o -> Values]

Init ==
    /\ flash \in [Addr -> Values]
    /\ order = NoOrder
    /\ sound \in BOOLEAN
    /\ report \in {"ok", "error"}

\* Between orders soundness may change: it is a matter of the order to come.
Idle ==
    /\ order = NoOrder
    /\ order' = NoOrder \/ IsOrder(order')
    /\ UNCHANGED flash

\* In the course of an order it can only be lost.
InRegion == flash' \in [Addr -> Values] /\ (sound' =>
    sound /\ \A a \in Addr \ DOMAIN order : flash'[a] = flash[a])

Work == order # NoOrder /\ order' = order /\ InRegion /\ UNCHANGED report

Fail == order # NoOrder /\ order' = NoOrder /\ InRegion /\ report' = "error"

Done ==
    /\ order # NoOrder /\ order' = NoOrder /\ InRegion
    /\ report' = "ok"
    /\ sound' => \A a \in DOMAIN order : flash'[a] = order[a]

Next ==
    /\ sound' \in BOOLEAN /\ report' \in {"ok", "error"}
    /\ Idle \/ Work \/ Fail \/ Done

Spec == Init /\ [][Next]_fvars
=============================================================================
