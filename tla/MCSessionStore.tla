----------------------------- MODULE MCSessionStore -----------------------------
(***************************************************************************)
(* Instances of SessionStore: the gateway updates an entry and saves a     *)
(* whole copy, the command line notes a route in the same entry.           *)
(***************************************************************************)
EXTENDS SessionStore

CONSTANTS update, whole, route, gateway, cli, main

MCIn == [c \in Calls |-> IF c = route THEN cli ELSE gateway]
MCKind == [c \in Calls |-> IF c = whole THEN "whole" ELSE IF c = route THEN "route" ELSE "entry"]
MCKey == [c \in Calls |-> main]
================================================================================
