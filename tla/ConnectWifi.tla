----------------------------- MODULE ConnectWifi -----------------------------
(***************************************************************************)
(* What connect_wifi of src/src/main.rs promises the cycle that calls it:  *)
(* it returns only from a configured network, after any number of failed   *)
(* rounds, and only a wait for the link has no timeout of its own.         *)
(* WifiJoin implements it with the driver and the radio; UploadCycle calls *)
(* it.                                                                     *)
(***************************************************************************)

VARIABLE wifi   \* what connect_wifi awaits; "returned" once it did, else "idle"

Rounds  == {"joining", "leaving", "pausing", "link", "dhcp"}
Outside == {"idle", "returned"}

Go(from, to) == wifi = from /\ wifi' = to

Init == wifi = "idle"

Call         == \E from \in Outside : Go(from, "joining")
JoinFails    == Go("joining", "pausing")
JoinTimesOut == Go("joining", "leaving")
JoinSucceeds == Go("joining", "link") \/ Go("joining", "dhcp")
LinkUp       == Go("link", "dhcp")
DhcpTimesOut == Go("dhcp", "leaving")
Left         == Go("leaving", "pausing")
PauseEnds    == Go("pausing", "joining")
Returns      == Go("dhcp", "returned")

(* The cycle ends, or its budget drops it wherever it is. *)
Dropped == wifi' = "idle"

Next ==
  \/ Call \/ JoinFails \/ JoinTimesOut \/ JoinSucceeds \/ LinkUp
  \/ DhcpTimesOut \/ Left \/ PauseEnds \/ Returns \/ Dropped

Spec == Init /\ [][Next]_wifi
=============================================================================
