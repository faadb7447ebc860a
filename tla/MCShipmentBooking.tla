-------------------------- MODULE MCShipmentBooking --------------------------
(* Small instances of ShipmentBooking for TLC. *)
EXTENDS ShipmentBooking, TLC

CONSTANTS o1, o2, w1, w2, w3

BookingSymmetry == Permutations(Orders) \cup Permutations(Workers)
===============================================================================
