-------------------------------- MODULE Sids --------------------------------
(***************************************************************************)
(* Who the daemon deals with: a browser tab presents one session           *)
(* identifier for as long as it lives (web/index.html, sessionStorage).    *)
(***************************************************************************)

CONSTANTS
    Clients,        \* session identifiers ("sid")
    None            \* Python's None

ASSUME NoneAssumption == None \notin Clients
=============================================================================
