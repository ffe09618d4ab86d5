------------------------------ MODULE MCHealth -------------------------------
(* TLC instance of Health: two readings that a start gets on with, and     *)
(* each mistake that ends one where it is looked for.                      *)
EXTENDS Health

Read(name, mistakes) == [connection |-> name, mistakes |-> mistakes]

MCRunning == {Read("serial", {})}
MCSettings ==
  MCRunning
    \union {Read("ble", {"no agent host"})}
    \union {Read("serial", {mistake}) :
              mistake \in Mistakes \ {"no agent host"}}
    \union {Read(name, {"no endpoint"}) : name \in {"ble", "tcp"}}
    \union {Read(name, {}) : name \in {"Serial", "usb"}}
=============================================================================
