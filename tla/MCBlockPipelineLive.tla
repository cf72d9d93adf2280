------------------------- MODULE MCBlockPipelineLive -------------------------
(* Two kinds of behaviours of BlockPipeline for TLC, side by side, for what *)
(* must eventually happen.                                                  *)
EXTENDS MCBlockPipeline

VARIABLE kind   \* "busy" or "reload", for good

\* Both callers of IPData.Update send to BlockChan.  The clock stands still and
\* nobody is whitelisted: who waits for room in the channel waits for neither.
Busy ==
    /\ kind = "busy"
    /\ Requests \/ Updates \/ Networks \/ Blocking \/ Resolving

\* The rules are reloaded at any time, without the plugin.
Reload ==
    /\ kind = "reload"
    /\ CalmNext \/ Reloads
    /\ plugin' = "idle"

\* Bounds: every request leaves the counters above the limits, and no address is
\* matched by rules of both sorts.
Bounds ==
    /\ \A i \in Ingesters : ing[i].level # "low"
    /\ rules.addr \cap rules.host = {}

LiveInit ==
    /\ Init /\ Bounds
    /\ kind \in {"busy", "reload"}
    /\ kind = "busy" => rules = [addr |-> {}, host |-> {}]

\* The goroutines that judge, send, write and recheck keep running; the recheck
\* signal that the start has left is no part of the first kind.
LiveSpec ==
    /\ LiveInit /\ [][(Busy \/ Reload) /\ Bounds' /\ UNCHANGED kind]_<<vars, kind>>
    /\ JudgeFairness /\ WorkFairness
    /\ SF_vars(SignalRecheck) /\ WF_vars(Rechecking /\ kind = "reload")
=============================================================================
