---------------------------- MODULE MCRealTimer ----------------------------
(* Instances of RealTimer for TLC.                                        *)
EXTENDS RealTimer

Client(requests, delays, active, cancels, renews, latency, misses) ==
  [requests |-> requests, delays |-> delays, active |-> active, cancels |-> cancels,
   renews |-> renews, latency |-> latency, misses |-> misses]

\* The scheduler's use: one event, cancelled or requested again by its handler.
Preemption == Client({"one_shot"}, {5}, 1, TRUE, TRUE, 1, TRUE)
\* The waits of boot, and the clock where there is no HPET: one event at a time.  The first
\* here has up to four.
Waits == Client({"one_shot"}, {3, 5, 9}, 4, FALSE, FALSE, 0, FALSE)
Clock == Client({"periodic"}, {4, 5}, 1, FALSE, FALSE, 0, TRUE)
TimerClients == {Preemption, Waits, Clock}

\* Waits with cancellations; on a comparator that misses; with handlers that request.
CancellingClients == {[Waits EXCEPT !.cancels = TRUE, !.active = 3]}
MissingClients == {[Waits EXCEPT !.misses = TRUE]}
RenewingClients == {[Waits EXCEPT !.renews = TRUE]}
WaitingClients == {Waits}
============================================================================
