------------------------------ MODULE Transfers ------------------------------
(***************************************************************************)
(* What the PC and the C64 server may rely on when they talk over the      *)
(* mailboxes of chbidir: a session is a sequence of transfers both sides   *)
(* agree on, every transfer hands over one block, once, unchanged, and the *)
(* transfers happen in the order of the session.  How the mailbox cells    *)
(* bring this about is the business of module ChBidir, which implements    *)
(* this specification.                                                     *)
(*                                                                         *)
(* The kinds of transfers: "command" and "block" go from the PC to the C64 *)
(* (the C64 polls for a "command", it waits at once for a "block"), a      *)
(* "reply" goes from the C64 to the PC.  "init" and "race" are no          *)
(* transfers but places of the session where the C64 server (re)starts.    *)
(***************************************************************************)
EXTENDS Naturals, Sequences

CONSTANTS Block,   \* what one call of the library hands over
          None     \* no block yet

VARIABLES plan,     \* the session: a sequence of kinds, never changed
          offered,  \* offered[k]: the block the sender of transfer k was given
          taken     \* taken[k]: the block the receiver of transfer k returned

avars == <<plan, offered, taken>>

Kinds == {"command", "block", "reply", "init", "race"}

\* The transfers of the session.
Moves == {k \in DOMAIN plan : plan[k] \notin {"init", "race"}}

\* Two transfers of the session in the same direction.
SameWay(j, k) == (plan[j] = "reply") <=> (plan[k] = "reply")

TypeOK ==
    /\ plan \in Seq(Kinds)
    /\ offered \in [DOMAIN plan -> Block \cup {None}]
    /\ taken \in [DOMAIN plan -> Block \cup {None}]

Init ==
    /\ plan \in Seq(Kinds)
    /\ offered = [k \in DOMAIN plan |-> None]
    /\ taken = [k \in DOMAIN plan |-> None]

(***************************************************************************)
(* A side offers the block of transfer k when it has taken every earlier   *)
(* block meant for it, and when of the blocks it offered earlier at most   *)
(* the last is still on its way.                                           *)
(***************************************************************************)
Offer(k, b) ==
    /\ k \in Moves
    /\ offered[k] = None
    /\ \A j \in Moves : j < k /\ ~SameWay(j, k) => taken[j] # None
    /\ \A i, j \in Moves :
          i < j /\ j < k /\ SameWay(i, k) /\ SameWay(j, k) => taken[i] # None
    /\ offered' = [offered EXCEPT ![k] = b]
    /\ UNCHANGED <<plan, taken>>

\* The receiver takes the block of transfer k, after all earlier ones of that direction.
Take(k) ==
    /\ k \in Moves
    /\ offered[k] # None
    /\ taken[k] = None
    /\ \A j \in Moves : j < k /\ SameWay(j, k) => taken[j] # None
    /\ taken' = [taken EXCEPT ![k] = offered[k]]
    /\ UNCHANGED <<plan, offered>>

Next ==
    \/ \E k \in Moves, b \in Block : Offer(k, b)
    \/ \E k \in Moves : Take(k)

Spec == Init /\ [][Next]_avars

\* What was offered does not stay on its way.
Fairness == WF_avars(\E k \in Moves : Take(k))

FairSpec == Spec /\ Fairness
=============================================================================
