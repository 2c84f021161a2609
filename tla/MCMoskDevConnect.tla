-------------------------- MODULE MCMoskDevConnect --------------------------
(***************************************************************************)
(* Three sessions on one machine.  s1 and s3 go to cluster A, s2 to        *)
(* cluster B; both clusters are reached through the same public network,   *)
(* and s3 stands for a rerun of s1 or for a second terminal.               *)
(***************************************************************************)
EXTENDS MoskDevConnect

MCSession == {"s1", "s2", "s3"}

MCHostOf == [l \in {"lo", "vpn", "a1", "a2", "b1"} |->
               CASE l = "lo"  -> "localhost"
                 [] l = "vpn" -> "vpn.corp"
                 [] l = "a1"  -> "keystone.a"
                 [] l = "a2"  -> "nova.a"
                 [] l = "b1"  -> "keystone.b"]

MCLine == DOMAIN MCHostOf

MCEntries == [s1 |-> {"a1", "a2"}, s2 |-> {"b1"}, s3 |-> {"a1", "a2"}]

MCCidr == {"netA", "netB", "public"}
MCClusterCidr == [s1 |-> "netA", s2 |-> "netB", s3 |-> "netA"]
MCPublicCidr == [s \in MCSession |-> "public"]

\* Labs cut from one template: every cluster has the same two networks.
MCSameClusterCidr == [s \in MCSession |-> "netA"]
=============================================================================
