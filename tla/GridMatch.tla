----------------------------- MODULE GridMatch -----------------------------
(***************************************************************************)
(* The META_GRID match function of the server: a subscription's bounding   *)
(* box against the bounding box of a publication                           *)
(* (src/src/server/pubsub.cc, src/src/utils/strparse/strparse.cpp).        *)
(*                                                                         *)
(* The metadata strings "<0,0>:<2,2>" and "GRID[<0,0>:<1,1>]%TS[5]" are    *)
(* abstracted to what the parser extracts from them: a record with the two *)
(* corners.  NoGrid stands for subscription metadata without a ":", which  *)
(* the code refuses.                                                       *)
(***************************************************************************)
EXTENDS Integers

Box == [lbx : Int, lby : Int, ubx : Int, uby : Int]

NoGrid == [nogrid |-> TRUE]

(* A box whose corners are in order, which is what every client sends. *)
WellFormed(b) == b.lbx <= b.ubx /\ b.lby <= b.uby

-----------------------------------------------------------------------------
(* A comparison with one strict inequality turned round: boxes that touch  *)
(* in a column no longer match.                                            *)
MutTouching(sub, pub) ==
    /\ sub # NoGrid
    /\ ~ (sub.lbx >= pub.ubx \/ sub.ubx < pub.lbx)
    /\ ~ (sub.uby < pub.lby \/ sub.lby > pub.uby)

(* The four early "return false" of checkIfTriggureMetaGrid, in its order. *)
checkIfTriggureMetaGrid(sub, pub) ==
    /\ sub # NoGrid
    /\ ~ (sub.lbx > pub.ubx \/ sub.ubx < pub.lbx)
    /\ ~ (sub.uby < pub.lby \/ sub.lby > pub.uby)

-----------------------------------------------------------------------------
(* The grid point (x, y) lies in box b, both corners included. *)
InBox(b, x, y) == x \in b.lbx .. b.ubx /\ y \in b.lby .. b.uby

(* The reference definition: some grid point belongs to both boxes. *)
ShareACell(sub, pub) == \E x, y \in Int : InBox(sub, x, y) /\ InBox(pub, x, y)
=============================================================================
