-------------------------- MODULE TakeoverProtocol --------------------------
(***************************************************************************)
(* The takeover state machine of src/protocol/takeover.ts, shared by the   *)
(* daemon's durable rows and by the gate each computer-server process      *)
(* keeps.  Every event leads to one state whatever state it fires from, so *)
(* the table of transitions is a set of sources and a target per event.    *)
(***************************************************************************)

TakeoverState == {"agent", "takeover_requested", "human",
                  "resume_validating", "paused", "terminated"}

\* The states from which each event is legal.
SourceOf == [request         |-> {"agent", "paused"},
             grant           |-> {"takeover_requested"},
             decline         |-> {"takeover_requested", "paused"},
             release         |-> {"human"},
             validated       |-> {"resume_validating"},
             still_sensitive |-> {"resume_validating"},
             ttl             |-> {"takeover_requested", "human", "resume_validating"},
             stop            |-> TakeoverState \ {"terminated"}]

\* The state each event leads to.
TargetOf == [request         |-> "takeover_requested",
             grant           |-> "human",
             decline         |-> "agent",
             release         |-> "resume_validating",
             validated       |-> "agent",
             still_sensitive |-> "human",
             ttl             |-> "paused",
             stop            |-> "terminated"]

TakeoverEvent == DOMAIN TargetOf

\* applyTakeoverTransition(state, event) returns a state, not null.
Legal(state, event) == state \in SourceOf[event]

\* The states in which every tool but the exempt ones is refused.
BusyStates == {"takeover_requested", "human", "resume_validating", "paused"}
IsTakeoverBusy(state) == state \in BusyStates

\* canDeclineState: a side already in agent has nothing to decline.
CanDecline(state) == state = "agent" \/ Legal(state, "decline")
=============================================================================
