--------------------------- MODULE DevicePromise ----------------------------
(***************************************************************************)
(* What the relay promises about each device, without sockets, timers or   *)
(* shutdowns: one client owns it at a time, nobody takes it from an owner  *)
(* who is answering, a person who drops is promised it, and an AI client   *)
(* that borrows a promised device gives it back with the promise kept, as  *)
(* long as the promise stands as it was given (a failed shutdown may       *)
(* restore one that no longer does).                                       *)
(***************************************************************************)
CONSTANTS
  Devices,
  Clients,       \* owner keys
  AiClients,
  UserOfClient,
  Nobody

VARIABLES
  live,          \* the device has a session
  owner,         \* the client that owns it, or Nobody
  answering,     \* whether the owner's connection answers
  promised,      \* the user it waits for, or Nobody
  firm           \* the promise was given by that user's own drop

vars == <<live, owner, answering, promised, firm>>

Init ==
  /\ live = [d \in Devices |-> TRUE]
  /\ owner = [d \in Devices |-> Nobody]
  /\ answering = [d \in Devices |-> FALSE]
  /\ promised = [d \in Devices |-> Nobody]
  /\ firm = [d \in Devices |-> TRUE]

(* An AI client borrows: it takes the device with the promise on it.        *)
Takes(d, c) ==
  /\ owner[d] \in {Nobody, c} \/ ~answering[d]
  /\ owner'[d] = c
  /\ firm'[d] = firm[d]
  /\ promised'[d] = IF c \in AiClients THEN promised[d] ELSE Nobody

(* A person who drops is promised the device; one who leaves is not.        *)
PersonLetsGo(d, c) ==
  /\ owner[d] = c /\ c \notin AiClients /\ owner'[d] = Nobody
  /\ firm'[d]
  /\ promised'[d] \in {UserOfClient[c], Nobody}

AiLetsGo(d, c) ==
  /\ owner[d] = c /\ c \in AiClients /\ owner'[d] = Nobody
  /\ (firm[d] /\ promised[d] # Nobody) => firm'[d] /\ promised'[d] = promised[d]
  /\ promised'[d] \in {promised[d], Nobody}

(* The wait runs out or a shutdown ends it, the borrower's own included; a  *)
(* failed shutdown restores it, only where nobody owns the device.          *)
PromiseMoves(d) ==
  /\ owner'[d] = owner[d] /\ firm'[d] = firm[d]
  /\ promised'[d] \in {promised[d], Nobody} \/ owner[d] = Nobody

NoDevice(d) == owner'[d] = Nobody /\ promised'[d] = Nobody

DeviceNext(d) ==
  \/ /\ live[d] /\ live'[d]
     /\ \/ PromiseMoves(d)
        \/ \E c \in Clients : Takes(d, c) \/ PersonLetsGo(d, c) \/ AiLetsGo(d, c)
  \/ ~live'[d] /\ NoDevice(d)
  \/ ~live[d] /\ live'[d] /\ NoDevice(d)

Next == \A d \in Devices : DeviceNext(d)

Spec == Init /\ [][Next]_vars
=============================================================================
