------------------------------ MODULE MCTicket ------------------------------
(***************************************************************************)
(* Ticket for TLC, with the threads of PrioChain: three of them and        *)
(* counters of three values, the least that TicketAssumption allows, so    *)
(* that the counters wrap around, a line of M threads occurs, a compare-   *)
(* and-swap races with M-1 draws, and a turn can come too early or be      *)
(* forgotten behind the one of another thread.                             *)
(***************************************************************************)
EXTENDS PrioChain

MCThreads == 0 .. 2
MCM == 3
=============================================================================
