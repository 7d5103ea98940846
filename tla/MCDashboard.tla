---------------------------- MODULE MCDashboard ----------------------------
(***************************************************************************)
(* Values for the constants of Dashboard: two hosts, and links to a live   *)
(* view of the first and to a pinned one without hosts.                    *)
(***************************************************************************)
EXTENDS Dashboard

CONSTANTS h1, h2, hour, pin

MCRoster == <<h1, h2>>
Entry(hs, r) == [hosts |-> hs, range |-> r]
MCLinked == {Entry(<<h1>>, hour), Entry(<<>>, pin)}
=============================================================================
