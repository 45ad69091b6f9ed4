-------------------------- MODULE BackgroundPublisher --------------------------
(***************************************************************************)
(* The publishing loop of internal/metrics/background.go.  Start runs a     *)
(* loop that publishes at every tick and once more when its context ends;   *)
(* Stop cancels the context of the latest Start and waits for every loop;   *)
(* PublishNow publishes at any time.  A loop evaluates b.ctx anew on every  *)
(* turn, without a lock: a second Start changes the context an earlier loop *)
(* waits for.                                                              *)
(*                                                                         *)
(* What getHealth reports is a number of recorded events, which grows.      *)
(* Tracker has the inside of a snapshot; here it is as old as the call of   *)
(* getHealth, the least it can be.  Start and Stop are called by one        *)
(* goroutine, the owner.  Loops are numbered like the Starts and contexts   *)
(* they belong to; 0 is a caller of PublishNow.                             *)
(***************************************************************************)
EXTENDS Naturals

CONSTANTS MaxStarts,   \* bound: calls of Start
          MaxRecorded  \* bound: events recorded

Caller     == 0
Loops      == 1..MaxStarts
Publishers == Loops \cup {Caller}

Nothing  == 0              \* report: none yet
Panicked == MaxRecorded + 1 \* report: the last publish panicked

ASSUME PublisherAssumption == MaxStarts \in Nat /\ MaxRecorded \in Nat

VARIABLES recorded,  \* the events getHealth would report
          started,   \* calls of Start: b.ctx and b.cancel belong to the last
          ended,     \* the contexts that are done
          at,        \* where a loop, or the caller, is
          on,        \* on[n]: the context the select of loop n waits for
          report,    \* report[n]: what n is publishing, or has published at last
          owner,     \* "idle", or "waiting" in Stop
          due        \* auxiliary: due[c], recorded when context c ended
vars == <<recorded, started, ended, at, on, report, owner, due>>

Init ==
  /\ recorded = 0 /\ started = 0 /\ ended = {} /\ owner = "idle"
  /\ at = [n \in Publishers |-> "none"]
  /\ on = [n \in Loops |-> n]
  /\ report = [n \in Publishers |-> Nothing]
  /\ due = [c \in Loops |-> 0]

Running(n) == at[n] \notin {"none", "done"}
Move(n, from, to) == at[n] = from /\ at' = [at EXCEPT ![n] = to]

RecordEvent ==
  /\ recorded < MaxRecorded
  /\ recorded' = recorded + 1
  /\ UNCHANGED <<started, ended, at, on, report, owner, due>>

-----------------------------------------------------------------------------
(* Start and Stop                                                          *)

Start ==
  /\ owner = "idle" /\ started < MaxStarts
  /\ started' = started + 1
  /\ at' = [at EXCEPT ![started'] = "top"]
  /\ UNCHANGED <<recorded, ended, on, report, owner, due>>

\* Context c is cancelled, or its parent is.
End(c) ==
  /\ ended' = ended \cup {c}
  /\ due' = IF c \in ended THEN due ELSE [due EXCEPT ![c] = recorded]

ParentEnds(c) ==
  /\ c \in (1..started) \ ended
  /\ End(c)
  /\ UNCHANGED <<recorded, started, at, on, report, owner>>

\* Before the first Start there is nothing to cancel.
Stop ==
  /\ owner = "idle"
  /\ owner' = "waiting"
  /\ IF started > 0 THEN End(started) ELSE UNCHANGED <<ended, due>>
  /\ UNCHANGED <<recorded, started, at, on, report>>

\* b.wg.Wait() returns.
StopReturns ==
  /\ owner = "waiting" /\ \A n \in Loops : ~Running(n)
  /\ owner' = "idle"
  /\ UNCHANGED <<recorded, started, ended, at, on, report, due>>

-----------------------------------------------------------------------------
(* The loop                                                                *)

KeepsItsContext(n) ==
  /\ Move(n, "top", "select")
  /\ on' = [on EXCEPT ![n] = n]
  /\ UNCHANGED <<recorded, started, ended, report, owner, due>>

\* The select evaluates b.ctx.Done().
Select(n) ==
  /\ Move(n, "top", "select")
  /\ on' = [on EXCEPT ![n] = started]
  /\ UNCHANGED <<recorded, started, ended, report, owner, due>>

Tick(n) ==
  /\ Move(n, "select", "publish")
  /\ UNCHANGED <<recorded, started, ended, on, report, owner, due>>

LeavesAtOnce(n) ==
  /\ on[n] \in ended
  /\ Move(n, "select", "done")
  /\ UNCHANGED <<recorded, started, ended, on, report, owner, due>>

SeeDone(n) ==
  /\ on[n] \in ended
  /\ Move(n, "select", "finalPublish")
  /\ UNCHANGED <<recorded, started, ended, on, report, owner, due>>

PublishNow ==
  /\ Move(Caller, "none", "publish")
  /\ UNCHANGED <<recorded, started, ended, on, report, owner, due>>

GetHealth(n) ==
  /\ \/ Move(n, "publish", "send")
     \/ Move(n, "finalPublish", "finalSend")
  /\ report' = [report EXCEPT ![n] = recorded]
  /\ UNCHANGED <<recorded, started, ended, on, owner, due>>

\* PublishHealthMetrics is told, or panics and publish recovers.  A report
\* that is not the last one of a loop is forgotten.
PublishHealthMetrics(n) ==
  /\ \/ /\ at[n] = "send"
        /\ at' = [at EXCEPT ![n] = IF n = Caller THEN "none" ELSE "top"]
        /\ report' = [report EXCEPT ![n] = Nothing]
     \/ /\ Move(n, "finalSend", "done")
        /\ report' \in {report, [report EXCEPT ![n] = Panicked]}
  /\ UNCHANGED <<recorded, started, ended, on, owner, due>>

-----------------------------------------------------------------------------
Next ==
  \/ RecordEvent \/ Start \/ Stop \/ StopReturns \/ PublishNow
  \/ \E n \in Loops : ParentEnds(n) \/ Select(n) \/ Tick(n) \/ SeeDone(n)
  \/ \E n \in Publishers : GetHealth(n) \/ PublishHealthMetrics(n)

Spec == Init /\ [][Next]_vars

(***************************************************************************)
(* Goroutines are scheduled, tickers tick and publishers return.  A select  *)
(* with two ready cases picks one at random, so that it does not pass an    *)
(* ended context over for ever.                                            *)
(***************************************************************************)
LoopStep(n) == Select(n) \/ Tick(n) \/ GetHealth(n) \/ PublishHealthMetrics(n)

FairSpec ==
  /\ Spec
  /\ \A n \in Loops : WF_vars(LoopStep(n)) /\ SF_vars(SeeDone(n))
  /\ WF_vars(StopReturns)

-----------------------------------------------------------------------------
(***************************************************************************)
(* What was recorded when a context ended has been published once a loop    *)
(* that waited for this context is done, unless this last publish panicked: *)
(* getHealth is called after the end of the context, never before (run,     *)
(* publish).                                                               *)
(***************************************************************************)
FinalPublishTellsAll ==
  \A n \in Loops : at[n] = "done" => report[n] >= due[on[n]]

(***************************************************************************)
(* Stop returns, although it cancels only the context of the latest Start   *)
(* and waits for the loops of all of them, and although ticks compete with  *)
(* the end of the context (Stop, Start, run).                              *)
(***************************************************************************)
StopAlwaysReturns == owner = "waiting" ~> owner = "idle"
=============================================================================
