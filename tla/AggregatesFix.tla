---------------------------- MODULE AggregatesFix ----------------------------
(***************************************************************************)
(* scripts/placement/nova-vs-placement-aggs.py: compares the hosts of each *)
(* Nova aggregate with the aggregates of their resource providers, read    *)
(* one by one, and with --fix adds what Placement lacks, while others edit *)
(* the aggregates of providers.                                            *)
(*                                                                         *)
(* Abstracted: the order of the pairs <<aggregate, host>>.                 *)
(***************************************************************************)
EXTENDS Naturals, FiniteSets, Sequences, SequencesExt

CONSTANTS Agg, Host,
          Listing,    \* the resource providers as Placement lists them
          BeginsWith, \* <<rp, h>>: the name of rp starts with that of h
          MaxEdits    \* bound: so many edits by others, of different pairs

Provider == ToSet(Listing)
\* host_rp: the places of the providers that are taken for h's, and its first.
Matches(h) == {i \in DOMAIN Listing : <<Listing[i], h>> \in BeginsWith}
HostRP(h) == Listing[CHOOSE i \in Matches(h) : \A j \in Matches(h) : i <= j]

VARIABLES
    pc,        \* "list", "loop", "put", "end" or "raised"
    fix,       \* is --fix given?
    hosts,     \* <<agg, h>>: h is a host of agg in Nova
    listed,    \* the pairs the script listed
    todo,      \* those still to come
    pair,      \* the one at hand
    rpAggs,    \* rp_aggs
    placement, \* [Provider -> its aggregates]
    added,     \* <<agg, rp>> logged as added
    \* history
    given,     \* [Provider -> the aggregates it had, with the edits of others]
    edited,    \* <<agg, rp>> others edited
    raced,     \* those of them between the script's GET and PUT of rp
    refused    \* <<agg, rp>> of a PUT that Placement refused

history == <<given, edited, raced>>
vars == <<pc, fix, hosts, listed, todo, pair, rpAggs, placement, added, history, refused>>

TypeOK ==
    /\ pc \in {"list", "loop", "put", "end", "raised"}
    /\ fix \in BOOLEAN
    /\ hosts \subseteq Agg \X Host /\ listed \subseteq Agg \X Host /\ todo \subseteq listed
    /\ pair \in {<<>>} \cup listed
    /\ rpAggs \subseteq Agg
    /\ placement \in [Provider -> SUBSET Agg] /\ given \in [Provider -> SUBSET Agg]
    /\ added \subseteq Agg \X Provider /\ refused \subseteq added
    /\ edited \subseteq Agg \X Provider /\ raced \subseteq edited

Init ==
    /\ pc = "list"
    /\ fix \in BOOLEAN
    /\ hosts \in SUBSET (Agg \X Host)
    /\ placement \in [Provider -> SUBSET Agg]
    /\ listed = {} /\ todo = {} /\ pair = <<>> /\ rpAggs = {} /\ added = {}
    /\ given = placement /\ edited = {} /\ raced = {} /\ refused = {}

\* The body of the PUT is all that the provider gets.
Write(body) == placement' = [placement EXCEPT ![HostRP(pair[2])] = body]

-----------------------------------------------------------------------------
(* Slips the script could have made; the actions below are what it does. *)

\* The body of the PUT is the new aggregate alone.
PutAlone ==
    /\ pc = "put"
    /\ added' = added \cup {<<pair[1], HostRP(pair[2])>>}
    /\ Write({pair[1]})
    /\ pc' = "loop"
    /\ UNCHANGED <<fix, hosts, listed, todo, pair, rpAggs, history, refused>>

\* Each host is compared with each aggregate.
ListAll ==
    /\ pc = "list"
    /\ listed' = hosts /\ todo' = Agg \X Host
    /\ pc' = "loop"
    /\ UNCHANGED <<fix, hosts, pair, rpAggs, placement, added, history, refused>>

-----------------------------------------------------------------------------
(* The script. *)

\* nova.aggregates() and placement.resource_providers(), each once.
List ==
    /\ pc = "list"
    /\ listed' = hosts /\ todo' = hosts
    /\ pc' = "loop"
    /\ UNCHANGED <<fix, hosts, pair, rpAggs, placement, added, history, refused>>

\* A host without a resource provider is warned of; otherwise the first
\* provider whose name starts with the host's is asked for its aggregates.
Compare ==
    /\ pc = "loop"
    /\ \E p \in todo :
        /\ todo' = todo \ {p}
        /\ pair' = p
        /\ IF Matches(p[2]) = {} THEN UNCHANGED <<pc, rpAggs>>
           ELSE /\ rpAggs' = placement[HostRP(p[2])]
                /\ pc' = IF p[1] \notin rpAggs' /\ fix THEN "put" ELSE "loop"
    /\ UNCHANGED <<fix, hosts, listed, placement, added, history, refused>>

\* A listing fails, or a GET does: its answer then has no aggregates to look in.
ReadRaises ==
    /\ pc = "list" \/ (pc = "loop" /\ \E p \in todo : Matches(p[2]) # {})
    /\ pc' = "raised"
    /\ UNCHANGED <<fix, hosts, listed, todo, pair, rpAggs, placement, added, history, refused>>

\* pick_microversion compares 1.19 with the default microversion 1.1 as well, so
\* that it always raises: the body is the list, whatever Placement knows.
\* Placement may refuse it, and nobody looks at the response.
Put ==
    /\ pc = "put"
    /\ added' = added \cup {<<pair[1], HostRP(pair[2])>>}
    /\ \/ Write(rpAggs \cup {pair[1]}) /\ UNCHANGED refused
       \/ UNCHANGED placement /\ refused' = refused \cup {<<pair[1], HostRP(pair[2])>>}
    /\ pc' = "loop"
    /\ UNCHANGED <<fix, hosts, listed, todo, pair, rpAggs, history>>

\* The connection breaks, before or after the PUT was carried out.
PutRaises ==
    /\ pc = "put"
    /\ Write(rpAggs \cup {pair[1]}) \/ UNCHANGED placement
    /\ pc' = "raised"
    /\ UNCHANGED <<fix, hosts, listed, todo, pair, rpAggs, added, history, refused>>

End ==
    /\ pc = "loop" /\ todo = {}
    /\ pc' = "end"
    /\ UNCHANGED <<fix, hosts, listed, todo, pair, rpAggs, placement, added, history, refused>>

\* Somebody else gives a provider an aggregate, or takes it from it.
Edit(rp, a) ==
    /\ pc \in {"loop", "put"}
    /\ <<a, rp>> \notin edited /\ Cardinality(edited) < MaxEdits
    /\ IF a \in placement[rp]
       THEN placement' = [placement EXCEPT ![rp] = @ \ {a}] /\ given' = [given EXCEPT ![rp] = @ \ {a}]
       ELSE placement' = [placement EXCEPT ![rp] = @ \cup {a}] /\ given' = [given EXCEPT ![rp] = @ \cup {a}]
    /\ edited' = edited \cup {<<a, rp>>}
    /\ raced' = IF pc = "put" /\ rp = HostRP(pair[2]) THEN raced \cup {<<a, rp>>} ELSE raced
    /\ UNCHANGED <<pc, fix, hosts, listed, todo, pair, rpAggs, added, refused>>

Next == List \/ Compare \/ ReadRaises \/ Put \/ PutRaises \/ End \/ \E rp \in Provider, a \in Agg : Edit(rp, a)

Spec == Init /\ [][Next]_vars

-----------------------------------------------------------------------------
(* Properties. *)

\* A host of a, as the script listed it, has rp for its provider.
Wanted(a, rp) == \E h \in Host : <<a, h>> \in listed /\ Matches(h) # {} /\ HostRP(h) = rp

\* At any time, and wherever the script was ended, a provider has the aggregates
\* that others gave it and with --fix some that it should have: of the edits of
\* others only those between the GET and the PUT of their provider may be lost.
\* At the end of --fix it has all it should, but for refused PUTs and for what
\* others edited.
FixConverges ==
    \A rp \in Provider, a \in Agg :
        /\ <<a, rp>> \notin raced =>
            /\ a \in given[rp] => a \in placement[rp]
            /\ a \in placement[rp] => a \in given[rp] \/ (fix /\ Wanted(a, rp))
        /\ pc = "end" /\ fix /\ Wanted(a, rp) =>
            a \in placement[rp] \/ <<a, rp>> \in refused \cup edited
=============================================================================
