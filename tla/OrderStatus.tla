----------------------------- MODULE OrderStatus ------------------------------
(***************************************************************************)
(* The order, payment and shipping vocabularies of shared/src/types.ts and *)
(* the rules that say which moves between them are legal.                  *)
(***************************************************************************)
EXTENDS Naturals, Sequences

ORDER_STATUS_SEQUENCE ==
    << "PENDING_PAYMENT", "CONFIRMED", "PROCESSING", "READY_TO_SHIP",
       "SHIPPED", "OUT_FOR_DELIVERY", "DELIVERED" >>

OrderStatuses ==
    {"PENDING_PAYMENT", "CONFIRMED", "PROCESSING", "READY_TO_SHIP", "SHIPPED",
     "OUT_FOR_DELIVERY", "DELIVERED", "PLACED", "PACKED", "CANCELLED",
     "RETURN_REQUESTED", "RETURNED", "RTO"}

PaymentStatuses ==
    {"PENDING", "PAID", "FAILED", "CANCELLED", "EXPIRED", "REFUNDED",
     "PARTIALLY_REFUNDED", "COD_PENDING"}

\* PLACED and PACKED are the older spellings of two rungs of the ladder.
canonicalOrderStatus(s) ==
    CASE s = "PLACED" -> "CONFIRMED"
      [] s = "PACKED" -> "READY_TO_SHIP"
      [] OTHER        -> s

CANCELLABLE == {"PENDING_PAYMENT", "PLACED", "CONFIRMED", "PROCESSING",
                "PACKED", "READY_TO_SHIP"}
TERMINAL == {"DELIVERED", "CANCELLED", "RETURNED", "RTO"}
CLOSED   == {"CANCELLED", "RETURNED", "RTO"}

\* One rung up the ladder, or sideways into an ending.
isValidStatusTransition(from, to) ==
    LET current == canonicalOrderStatus(from)
        next == canonicalOrderStatus(to) IN
    /\ current # next
    /\ current \notin CLOSED
    /\ CASE next = "CANCELLED"        -> current \in CANCELLABLE
         [] next = "RETURN_REQUESTED" -> current = "DELIVERED"
         [] next = "RETURNED"         -> current = "RETURN_REQUESTED"
         [] next = "RTO"              -> current \in {"SHIPPED", "OUT_FOR_DELIVERY"}
         [] OTHER -> \E i \in 1 .. Len(ORDER_STATUS_SEQUENCE) - 1 :
                        /\ ORDER_STATUS_SEQUENCE[i] = current
                        /\ ORDER_STATUS_SEQUENCE[i + 1] = next

\* SHIPPING_TO_ORDER_STATUS: the scans that move the order, and where to.
SHIPPING_TO_ORDER_STATUS ==
    [scan \in {"PICKED_UP", "IN_TRANSIT", "OUT_FOR_DELIVERY", "DELIVERED",
               "RTO_INITIATED", "RTO_DELIVERED"} |->
        CASE scan \in {"PICKED_UP", "IN_TRANSIT"}        -> "SHIPPED"
          [] scan = "OUT_FOR_DELIVERY"                   -> "OUT_FOR_DELIVERY"
          [] scan = "DELIVERED"                          -> "DELIVERED"
          [] OTHER                                       -> "RTO"]

Scans == DOMAIN SHIPPING_TO_ORDER_STATUS

===============================================================================
