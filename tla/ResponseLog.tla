---------------------------- MODULE ResponseLog ----------------------------
(***************************************************************************)
(* What a /v1 response promises to everybody who reads it, whatever the     *)
(* orchestrator processes behind it do: a numbered list of events that only *)
(* grows at its end, an outcome decided once and together with the last     *)
(* events, and nothing published after it.                                  *)
(***************************************************************************)
EXTENDS EventLog

VARIABLES published,    \* the events so far
          outcome       \* "none" before the request, "open", then how it ended

Outcomes == {"completed", "failed", "cancelled"}

LogInit == published = {} /\ outcome = "none"

\* The numbers stay 1, 2, 3, ... and no event is taken back: events are
\* only ever added after the last one.
Extended == published \subseteq published' /\ Numbered(published')

\* The response is accepted; nothing is published yet.
Accept == outcome = "none" /\ outcome' = "open" /\ UNCHANGED published

Publish == outcome = "open" /\ Extended /\ UNCHANGED outcome

Settle == outcome = "open" /\ outcome' \in Outcomes /\ Extended

LogNext == Accept \/ Publish \/ Settle

LogSpec == LogInit /\ [][LogNext]_<<published, outcome>>
=============================================================================
