------------------------------ MODULE MCToolbox ------------------------------
(***************************************************************************)
(* AggregatesFix: two hosts in up to two aggregates and one host without a *)
(* resource provider, every state of Nova and Placement to start from, one *)
(* edit by others; the name of "cmp10" starts with "cmp1" too, and it is   *)
(* listed behind it.                                                       *)
(* CpuLoad: three calls, so that two loads can meet a release, on two      *)
(* cores, so that a call can come between two processes of one load.       *)
(* CorruptedVA: two volumes and two devices, every disagreement of the     *)
(* three services.  HeatInventory: three servers with two host names.      *)
(* Notispy: three notifications, one of a topic of its own, two runs.      *)
(* OrphanAllocations: two servers and their migrations on two providers.   *)
(* ServersVsConsumers: two hosts, versions on both sides of 2.60 in        *)
(* numbers and in letters, flavors with and without swap.                  *)
(* OverallocationServers: two rounds of three servers, one of which is     *)
(* more than the usage looked for.                                         *)
(***************************************************************************)
EXTENDS Toolbox

MCListing == <<"cmp1", "cmp10">>
MCBeginsWith == {<<"cmp1", "cmp1">>, <<"cmp10", "cmp10">>, <<"cmp10", "cmp1">>}
MCAddresses == {<<"fixed4">>, <<"fixed4", "floating4", "floating4">>, <<"floating6", "floating4">>}
MCTopicOf == <<"notifications", "notifications", "other">>
MCMigration == [s1 |-> "m1", s2 |-> "m2"]
MCMinor == {<<3>>, <<9>>, <<5, 3>>, <<6, 0>>, <<7, 9>>, <<1, 0, 0>>}
=============================================================================
