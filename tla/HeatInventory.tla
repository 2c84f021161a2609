---------------------------- MODULE HeatInventory ----------------------------
(***************************************************************************)
(* scripts/heat-stack-inventory.py: an inventory of a stack's servers, by  *)
(* host name, with one floating address each, for Ansible or si-tests.     *)
(*                                                                         *)
(* Abstracted: an address is <<server, its index>>; user, key and port are *)
(* copied as they are.                                                     *)
(***************************************************************************)
EXTENDS Naturals, Sequences

CONSTANTS Server,    \* 1 .. N, in the order of the stack's resources
          Hostname,
          Addresses  \* what a server may have: sequences of "fixed4", "floating4", ...

VARIABLES
    cloud, \* stack: found?; name, addresses: of each server; lost: servers that
           \* were deleted, or lost their floating addresses, since the start
    local  \* options version, format, strict; pc; next: the next resource; servers:
           \* address by host name; warned: servers warned of; hosts, checkKeys: output

vars == <<cloud, local>>

Empty == [h \in {} |-> <<>>]
With(f, h, x) == [k \in DOMAIN f \cup {h} |-> IF k = h THEN x ELSE f[k]]
Floating(version) == IF version = 4 THEN "floating4" ELSE "floating6"
Fips(s, version) == {i \in DOMAIN cloud.addresses[s] : cloud.addresses[s][i] = Floating(version)}

TypeOK ==
    /\ cloud.stack \in BOOLEAN /\ cloud.name \in [Server -> Hostname] /\ cloud.lost \subseteq Server
    /\ local.pc \in {"find", "look", "format", "printed", "exit 1"}
    /\ local.version \in {4, 6} /\ local.format \in {"ansible", "sitests"}
    /\ local.strict \in BOOLEAN /\ local.checkKeys \in BOOLEAN
    /\ local.next \in Nat /\ local.warned \subseteq Server
    /\ DOMAIN local.servers \subseteq Hostname /\ DOMAIN local.hosts \subseteq Hostname

Init ==
    /\ cloud \in [stack : BOOLEAN, name : [Server -> Hostname], addresses : [Server -> Addresses], lost : {{}}]
    /\ local \in [pc : {"find"}, version : {4, 6}, format : {"ansible", "sitests"}, strict : BOOLEAN,
                  next : {1}, servers : {Empty}, warned : {{}}, hosts : {Empty}, checkKeys : {TRUE}]

\* Address s has in the inventory: the first of the version, over all networks.
Fip(s) == <<s, CHOOSE i \in Fips(s, local.version) : \A j \in Fips(s, local.version) : i <= j>>

-----------------------------------------------------------------------------
(* A slip the script could have made: servers.setdefault(server.hostname, ...). *)

LookKeepsFirst ==
    /\ local.pc = "look" /\ local.next \in Server
    /\ LET s == local.next
       IN local' = IF Fips(s, local.version) = {} THEN [local EXCEPT !.next = @ + 1, !.warned = @ \cup {s}]
                   ELSE [local EXCEPT !.next = @ + 1, !.servers = IF cloud.name[s] \in DOMAIN @ THEN @
                                                               ELSE With(@, cloud.name[s], Fip(s))]
    /\ UNCHANGED cloud

-----------------------------------------------------------------------------
(* The script. *)

Find ==
    /\ local.pc = "find"
    /\ local' = [local EXCEPT !.pc = IF cloud.stack THEN "look" ELSE "exit 1"]
    /\ UNCHANGED cloud

\* find_server and the loops over its addresses; a host name that is there
\* already gets the new address.
Look ==
    /\ local.pc = "look" /\ local.next \in Server
    /\ LET s == local.next
       IN local' = IF Fips(s, local.version) = {} THEN [local EXCEPT !.next = @ + 1, !.warned = @ \cup {s}]
                   ELSE [local EXCEPT !.next = @ + 1, !.servers = With(@, cloud.name[s], Fip(s))]
    /\ UNCHANGED cloud

LookDone ==
    /\ local.pc = "look" /\ local.next \notin Server
    /\ local' = [local EXCEPT !.pc = "format"]
    /\ UNCHANGED cloud

\* Only the Ansible format has options for ssh.
FormatAnsible ==
    /\ local.pc = "format" /\ local.format = "ansible"
    /\ local' = [local EXCEPT !.pc = "printed", !.hosts = local.servers, !.checkKeys = local.strict]
    /\ UNCHANGED cloud

FormatSitests ==
    /\ local.pc = "format" /\ local.format = "sitests"
    /\ local' = [local EXCEPT !.pc = "printed", !.hosts = local.servers]
    /\ UNCHANGED cloud

-----------------------------------------------------------------------------
(* The cloud: a server is deleted or its floating addresses are taken away. *)

Lose(s) ==
    /\ s \notin cloud.lost
    /\ cloud' = [cloud EXCEPT !.lost = @ \cup {s}, !.addresses[s] = <<>>]
    /\ UNCHANGED local

Next ==
    \/ Find \/ Look \/ LookDone \/ FormatAnsible \/ FormatSitests
    \/ \E s \in Server : Lose(s)

Spec == Init /\ [][Next]_vars

-----------------------------------------------------------------------------
(* Property. *)

\* Each server of the stack is warned of, or has an address of the version under its
\* name, or a later server has that name; and only servers without an address of
\* that version, or that lost it meanwhile, are warned of.
EveryServerAccounted ==
    local.pc = "printed" => \A s \in Server :
        /\ s \in local.warned \/ (/\ cloud.name[s] \in DOMAIN local.hosts
                                  /\ local.hosts[cloud.name[s]][1] >= s)
        /\ s \in local.warned => s \in cloud.lost \/ Fips(s, local.version) = {}
        /\ \A h \in DOMAIN local.hosts :
            local.hosts[h][1] = s => /\ cloud.name[s] = h
                                     /\ s \in cloud.lost \/ local.hosts[h][2] \in Fips(s, local.version)
=============================================================================
