--------------------------- MODULE MCOrderLifecycle ---------------------------
(* Small instances of OrderLifecycle for TLC. *)
EXTENDS OrderLifecycle

CONSTANTS o1, o2, w1, w2

AllOnline == [o \in Orders |-> "online"]
AllCod    == [o \in Orders |-> "cod"]
OneOfEach == o1 :> "cod" @@ o2 :> "online"

\* PICKED_UP and IN_TRANSIT mean the same order status: one of them is enough.
LaterScans == Scans \ {"PICKED_UP"}

\* Workers are interchangeable; used in runs of safety properties only.
WorkerSymmetry == Permutations(Workers)
===============================================================================
