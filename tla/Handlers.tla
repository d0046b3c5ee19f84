------------------------------- MODULE Handlers -------------------------------
(* What the HTTP handlers outside a board's posts have in common: net/http     *)
(* serves every request in a goroutine of its own, and every query or file     *)
(* operation of a handler may fail.                                            *)
EXTENDS Integers, FiniteSets

CONSTANTS
    Requests,   \* the HTTP requests served at the same time
    MayFail     \* may a query or a file operation fail?

ASSUME RequestsAssumption == IsFiniteSet(Requests)
ASSUME MayFailAssumption == MayFail \in BOOLEAN
===============================================================================
