---------------------------- MODULE DeployQueue ----------------------------
(****************************************************************************)
(* What the queue of one deployment promises to those who use it: a bounded *)
(* first-in first-out queue with one worker.  R11nQueue implements it with  *)
(* a channel, a mutex and a ring; SingleDeployment relies on it.            *)
(****************************************************************************)
EXTENDS Integers, Sequences

CONSTANTS
    Jobs,          \* what can be queued
    NoJob,         \* what the worker holds when it holds nothing
    Bound          \* how many jobs can wait

VARIABLES
    waiting,       \* the jobs that wait, first to be worked on first
    working        \* the job being worked on, or NoJob

queueVars == <<waiting, working>>

QueueInit ==
    /\ waiting = <<>>
    /\ working = NoJob

HasRoom == Len(waiting) < Bound
Empty == waiting = <<>> /\ working = NoJob

Enqueue(j) ==
    /\ HasRoom
    /\ waiting' = Append(waiting, j)
    /\ UNCHANGED working

EnqueueIfEmpty(j) ==
    /\ Empty
    /\ Enqueue(j)

Take ==
    /\ working = NoJob
    /\ waiting # <<>>
    /\ working' = Head(waiting)
    /\ waiting' = Tail(waiting)

Complete ==
    /\ working # NoJob
    /\ working' = NoJob
    /\ UNCHANGED waiting

QueueNext ==
    \/ \E j \in Jobs : Enqueue(j)
    \/ Take
    \/ Complete

QueueSafe == QueueInit /\ [][QueueNext]_queueVars
=============================================================================
