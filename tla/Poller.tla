------------------------------- MODULE Poller -------------------------------
(***************************************************************************)
(* PollerImpl (poll/poll.go) and the goroutine that owns it: a main loop   *)
(* that takes epochs and results from the poller's unbuffered channels and *)
(* hands it the answers of the peers with Update (server/server.go, Loop;  *)
(* server/handlers.go, OnPollPeersResponse).                               *)
(*                                                                         *)
(* A poll is a goroutine of its own, started by the poller's loop.  The    *)
(* flag `polling` is set by that goroutine, not by the loop that starts    *)
(* it, and pollResult is written by both sides without the lock.           *)
(***************************************************************************)
EXTENDS Naturals, FiniteSets

CONSTANTS
    Polls,       \* goroutines of pollPeersSync that may exist at a time
    MaxPoll,     \* maxPoll
    MaxAnswers,  \* environment: how many answers a poll gets
    Prompt       \* environment: a runnable goroutine runs before the next tick

ASSUME PollerAssumption ==
    /\ IsFiniteSet(Polls)
    /\ MaxPoll \in Nat \ {0} /\ MaxAnswers \in Nat /\ Prompt \in BOOLEAN

VARIABLES
    ticking,  \* the ticker runs
    tick,     \* a tick is in the ticker's channel
    polling,  \* polling
    count,    \* len(pollResult)
    pc,       \* pc[g]: where pollPeersSync is
    main,     \* where the main loop is
    old       \* the length that the append of Update has read

pollVars == <<ticking, tick, polling, count, pc, main, old>>

Steps == {"none", "start", "epoch", "wait", "end", "result"}

PollTypeOK ==
    /\ ticking \in BOOLEAN /\ tick \in BOOLEAN /\ polling \in BOOLEAN
    /\ count \in 0..MaxAnswers
    /\ pc \in [Polls -> Steps]
    /\ main \in {"select", "append", "done"}
    /\ old \in 0..MaxAnswers

PollInit ==
    /\ ticking = FALSE /\ tick = FALSE /\ polling = FALSE
    /\ count = 0
    /\ pc = [g \in Polls |-> "none"]
    /\ main = "select"
    /\ old = 0

Goto(g, step) == pc' = [pc EXCEPT ![g] = step]

-----------------------------------------------------------------------------
(* The ticker and the poller's loop *)

Resume == /\ main = "select"
          /\ ticking' = TRUE
          /\ UNCHANGED <<tick, polling, count, pc, main, old>>

\* A tick that is in the channel already stays there.
Pause == /\ main = "select"
         /\ ticking' = FALSE
         /\ UNCHANGED <<tick, polling, count, pc, main, old>>

\* A period is over.
Fire ==
    /\ ticking /\ ~tick
    /\ Prompt => main # "append" /\ \A g \in Polls : pc[g] # "start"
    /\ tick' = TRUE
    /\ UNCHANGED <<ticking, polling, count, pc, main, old>>

\* Mutant: the loop does not look whether a poll is going on.
LoopUnchecked ==
    /\ tick /\ tick' = FALSE
    /\ \E g \in Polls : pc[g] = "none" /\ Goto(g, "start")
    /\ ticking' = TRUE
    /\ UNCHANGED <<polling, count, main, old>>

\* loop: starts a poll and resets the ticker, even one that was stopped.
Loop ==
    /\ tick /\ tick' = FALSE
    /\ IF polling
       THEN UNCHANGED <<ticking, pc>>
       ELSE /\ \E g \in Polls : pc[g] = "none" /\ Goto(g, "start")
            /\ ticking' = TRUE
    /\ UNCHANGED <<polling, count, main, old>>

-----------------------------------------------------------------------------
(* pollPeersSync *)

Begin(g) ==
    /\ pc[g] = "start" /\ Goto(g, "epoch")
    /\ polling' = TRUE /\ count' = 0
    /\ UNCHANGED <<ticking, tick, main, old>>

\* The main loop takes the epoch and asks the peers.
Epoch(g) ==
    /\ pc[g] = "epoch" /\ main = "select"
    /\ Goto(g, "wait")
    /\ UNCHANGED <<ticking, tick, polling, count, main, old>>

\* Update's send on `done` is received.
Done(g) ==
    /\ pc[g] = "wait" /\ main = "done"
    /\ Goto(g, "end")
    /\ main' = "select"
    /\ UNCHANGED <<ticking, tick, polling, count, old>>

\* The context of the poll is done.
Timeout(g) ==
    /\ pc[g] = "wait" /\ Goto(g, "end")
    /\ UNCHANGED <<ticking, tick, polling, count, main, old>>

\* Mutant: the end of a poll does not reset the flag.
EndPolling(g) ==
    /\ pc[g] = "end" /\ Goto(g, "result")
    /\ UNCHANGED <<ticking, tick, polling, count, main, old>>

End(g) ==
    /\ pc[g] = "end" /\ Goto(g, "result")
    /\ polling' = FALSE
    /\ UNCHANGED <<ticking, tick, count, main, old>>

\* The summary is sent if the main loop is receiving, else dropped.
Result(g) ==
    /\ pc[g] = "result" /\ Goto(g, "none")
    /\ UNCHANGED <<ticking, tick, polling, count, main, old>>

-----------------------------------------------------------------------------
(* Update, called by the main loop *)

\* An answer arrives; nothing happens unless a poll is going on.
Update ==
    /\ main = "select" /\ polling /\ count < MaxAnswers
    /\ main' = "append" /\ old' = count
    /\ UNCHANGED <<ticking, tick, polling, count, pc>>

\* Mutant: the answer is counted twice.
AppendAnswerTwice ==
    /\ main = "append"
    /\ count' = old + 2 /\ old' = 0
    /\ main' = IF count' >= MaxPoll THEN "done" ELSE "select"
    /\ UNCHANGED <<ticking, tick, polling, pc>>

\* The append, which may overwrite that a poll has emptied pollResult.
AppendAnswer ==
    /\ main = "append"
    /\ count' = old + 1 /\ old' = 0
    /\ main' = IF count' >= MaxPoll THEN "done" ELSE "select"
    /\ UNCHANGED <<ticking, tick, polling, pc>>

-----------------------------------------------------------------------------
Poll(g) == Begin(g) \/ Epoch(g) \/ Done(g) \/ Timeout(g) \/ End(g) \/ Result(g)

PollNext == Resume \/ Pause \/ Fire \/ Loop \/ Update \/ AppendAnswer \/ \E g \in Polls : Poll(g)

\* The ticker ticks, and goroutines that can run do.  Answers may stay away.
\* The select of the main loop picks among its ready cases at random.
PollFairness ==
    /\ WF_pollVars(Fire) /\ WF_pollVars(Loop) /\ WF_pollVars(AppendAnswer)
    /\ \A g \in Polls : WF_pollVars(Poll(g)) /\ SF_pollVars(Epoch(g))

PollSpec == PollInit /\ [][PollNext]_pollVars /\ PollFairness

-----------------------------------------------------------------------------
(* Properties *)

\* Between being started and resetting the flag, polls do not overlap, though
\* the flag is set by another goroutine than the one that tests it.
PollsDontOverlap ==
    \A g, h \in Polls :
        pc[g] \in {"start", "epoch", "wait", "end"} /\ pc[h] \in {"start", "epoch", "wait", "end"}
            => g = h

\* As long as the ticker runs and the main loop keeps coming back to its select
\* there are polls again and again: neither a poll that nobody answers, nor one
\* that a late answer raced with, nor a dropped result stops them.
PollsGoOn ==
    <>[]ticking /\ []<>(main = "select") => []<>(\E g \in Polls : pc[g] = "wait")
=============================================================================
