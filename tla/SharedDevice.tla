--------------------------- MODULE SharedDevice ---------------------------
(***************************************************************************)
(* What bt_hci promises of its struct usb_bt_hci: it exists from probe on, *)
(* as long as the driver is bound or a file uses it, and not longer. The   *)
(* module knows neither of kref nor of minor_rwsem, nor that an open looks *)
(* the structure up before it takes a reference: a file uses it from the   *)
(* lookup on. BtHciLifecycle is the implementation.                        *)
(***************************************************************************)
CONSTANT Files

VARIABLES
  exists,   \* the structure is allocated
  bound,    \* the driver is bound to the device
  users,    \* the files that have a pointer to the structure
  busy      \* a transfer is under way, its callback has the pointer as well

vars == <<exists, bound, users, busy>>

Init ==
  /\ ~exists /\ ~bound /\ ~busy
  /\ users = {}

Bind ==
  /\ ~exists /\ users = {}
  /\ exists' /\ bound'
  /\ UNCHANGED <<users, busy>>

Meet(f) ==
  /\ exists /\ bound
  /\ f \notin users
  /\ users' = users \cup {f}
  /\ UNCHANGED <<exists, bound, busy>>

(* The last one to go frees the structure. *)
Part(f) ==
  /\ exists
  /\ f \in users
  /\ users' = users \ {f}
  /\ exists' = (bound \/ users' # {})
  /\ UNCHANGED <<bound, busy>>

Unbind ==
  /\ exists /\ bound /\ ~busy
  /\ ~bound'
  /\ exists' = (users # {})
  /\ UNCHANGED <<users, busy>>

Transfer(f) ==
  /\ exists /\ bound /\ ~busy
  /\ f \in users
  /\ busy'
  /\ UNCHANGED <<exists, bound, users>>

GiveBack ==
  /\ exists /\ busy
  /\ ~busy'
  /\ UNCHANGED <<exists, bound, users>>

Next ==
  \/ \E f \in Files : Meet(f) \/ Part(f) \/ Transfer(f)
  \/ Bind \/ Unbind \/ GiveBack

Spec == Init /\ [][Next]_vars
===========================================================================
