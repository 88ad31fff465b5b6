--------------------------- MODULE MCNoticeOutbox ---------------------------
(* Instances of the notice outbox for TLC: a hub that relays for a waiter. *)
EXTENDS NoticeOutbox

CONSTANTS hub, waiter

=============================================================================
