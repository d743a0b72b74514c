------------------------------- MODULE Firewalld -------------------------------
(***************************************************************************)
(* Step 01.5: a firewalld zone that lets the traffic of the QEMU machines  *)
(* through.  firewall-cmd keeps two configurations: the permanent one,     *)
(* which the step changes, and the running one, which becomes a copy of it *)
(* when firewalld is reloaded, by the step or by anybody else.             *)
(*                                                                         *)
(* The step asks the running one whether there is a zone, and for its      *)
(* interfaces, the permanent one for target and sources, but only if there *)
(* is a zone.  A configuration is the set of what it has of the zone.      *)
(***************************************************************************)
EXTENDS Naturals

VARIABLES
    permanent,      \* what is on disk
    running,        \* what is in force
    changed,        \* the step's flag: reload at the end
    late            \* some apply ended after a change and before its reload

firewall == <<permanent, running, changed, late>>

Interfaces == {"talos+", "veth+"}
Zone == {"zone", "target", "source"} \cup Interfaces

FirewallTypeOK ==
    /\ permanent \subseteq Zone /\ running \subseteq Zone
    /\ changed \in BOOLEAN /\ late \in BOOLEAN

FirewallInit == permanent = {} /\ running = {} /\ changed = FALSE /\ late = FALSE

zone_exists == "zone" \in running
zone_target == zone_exists /\ "target" \in permanent
zone_interfaces == IF zone_exists THEN running \cap Interfaces ELSE {}
zone_sources == zone_exists /\ "source" \in permanent

\* --check: the exit code.
check_passes == zone_exists /\ zone_target /\ zone_sources /\ zone_interfaces = Interfaces

\* firewall-cmd --permanent: a zone that is there cannot be created again.
CanSet(part) == IF part = "zone" THEN "zone" \notin permanent ELSE "zone" \in permanent
Set(part) == permanent' = permanent \cup {part}

\* The order of an apply; what is there already is passed over.
Parts == <<"zone", "target", "talos+", "veth+", "source">>
Missing(part) ==
    CASE part = "zone" -> ~zone_exists
      [] part = "target" -> ~zone_target
      [] part = "source" -> ~zone_sources
      [] OTHER -> part \notin zone_interfaces
\* That an interface could not be added is a warning.
Required(part) == part \notin Interfaces
\* Mutated form of CountsAsChange: the source does not.
CountsAsChangeInterfaces(part) == part \in Interfaces

\* Only interfaces and sources ask for a reload.
CountsAsChange(part) == part \in Interfaces \cup {"source"}

PassOver(part) == ~Missing(part) /\ UNCHANGED firewall

Change(part) ==
    /\ Missing(part) /\ CanSet(part)
    /\ Set(part)
    /\ changed' = (changed \/ CountsAsChange(part))
    /\ UNCHANGED <<running, late>>

\* firewall-cmd refuses or is refused.
Refused(part) == Missing(part) /\ UNCHANGED <<permanent, running>>

reload ==
    /\ running' = permanent
    /\ changed' = FALSE /\ late' = FALSE
    /\ UNCHANGED permanent

\* At the end: what was set must be on disk.
verified == zone_target /\ zone_sources

\* Somebody else reloads firewalld, or the host boots.
ReloadElsewhere ==
    /\ running # permanent /\ running' = permanent /\ late' = FALSE
    /\ UNCHANGED <<permanent, changed>>
================================================================================
